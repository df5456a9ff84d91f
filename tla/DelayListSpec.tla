--------------------------- MODULE DelayListSpec ---------------------------
(***************************************************************************)
(* What the kernel relies on when it treats the delay list as a set: tasks *)
(* join at the end, leave from any place, and a walk offers every task     *)
(* that was in the list exactly once, whichever of them it removes.        *)
(***************************************************************************)
EXTENDS Sequences, Naturals

CONSTANT Tasks

VARIABLES
  list,      \* the tasks in the list, oldest first
  toVisit    \* the tasks a walk has still to visit; <<>> when none is on

vars == <<list, toVisit>>

Without(s, t) == SelectSeq(s, LAMBDA u : u # t)

Init == list = <<>> /\ toVisit = <<>>

Join(t) ==
  /\ toVisit = <<>>
  /\ \A i \in 1..Len(list) : list[i] # t
  /\ list' = Append(list, t)
  /\ UNCHANGED toVisit

Leave(t) ==
  /\ toVisit = <<>>
  /\ \E i \in 1..Len(list) : list[i] = t
  /\ list' = Without(list, t)
  /\ UNCHANGED toVisit

StartWalk ==
  /\ toVisit = <<>>
  /\ toVisit' = list
  /\ UNCHANGED list

Visit ==
  /\ toVisit # <<>>
  /\ toVisit' = Tail(toVisit)
  /\ list' \in {list, Without(list, Head(toVisit))}

Next == (\E t \in Tasks : Join(t) \/ Leave(t)) \/ StartWalk \/ Visit

Spec == Init /\ [][Next]_vars

=============================================================================
