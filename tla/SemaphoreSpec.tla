--------------------------- MODULE SemaphoreSpec ---------------------------
(***************************************************************************)
(* What a BRTOS semaphore promises: a task leaves a pend either because a  *)
(* post gave it the token or because its time ran out without one; a post  *)
(* goes to the waiting task of highest priority, and is counted only when  *)
(* nobody waits.                                                           *)
(***************************************************************************)
EXTENDS Naturals

CONSTANTS Tasks, Prio, Sems, MaxValue

VARIABLES
  value,     \* tokens available
  waiting,   \* tasks waiting for a token
  granted    \* tasks that were given one and have not yet returned

vars == <<value, waiting, granted>>

Init ==
  /\ value = [s \in Sems |-> 0]
  /\ waiting = [s \in Sems |-> {}]
  /\ granted = [s \in Sems |-> {}]

\* Creating or deleting a semaphore nobody waits for sets its value.
Reset(s) ==
  /\ waiting[s] = {}
  /\ \E n \in 0..MaxValue : value' = [value EXCEPT ![s] = n]
  /\ UNCHANGED <<waiting, granted>>

Take(s) ==
  /\ value[s] > 0
  /\ value' = [value EXCEPT ![s] = @ - 1]
  /\ UNCHANGED <<waiting, granted>>

Wait(s, t) ==
  /\ value[s] = 0
  /\ \A r \in Sems : t \notin waiting[r] /\ t \notin granted[r]
  /\ waiting' = [waiting EXCEPT ![s] = @ \cup {t}]
  /\ UNCHANGED <<value, granted>>

Count(s) ==
  /\ waiting[s] = {}
  /\ value[s] < MaxValue
  /\ value' = [value EXCEPT ![s] = @ + 1]
  /\ UNCHANGED <<waiting, granted>>

Grant(s, t) ==
  /\ t \in waiting[s]
  /\ \A u \in waiting[s] : Prio[u] <= Prio[t]
  /\ waiting' = [waiting EXCEPT ![s] = @ \ {t}]
  /\ granted' = [granted EXCEPT ![s] = @ \cup {t}]
  /\ UNCHANGED value

ReturnOK(s, t) ==
  /\ t \in granted[s]
  /\ granted' = [granted EXCEPT ![s] = @ \ {t}]
  /\ UNCHANGED <<value, waiting>>

ReturnTimeout(s, t) ==
  /\ t \in waiting[s]
  /\ waiting' = [waiting EXCEPT ![s] = @ \ {t}]
  /\ UNCHANGED <<value, granted>>

Next ==
  \E s \in Sems :
    \/ Reset(s) \/ Take(s) \/ Count(s)
    \/ \E t \in Tasks :
         Wait(s, t) \/ Grant(s, t) \/ ReturnOK(s, t) \/ ReturnTimeout(s, t)

Spec == Init /\ [][Next]_vars

=============================================================================
