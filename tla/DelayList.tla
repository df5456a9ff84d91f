----------------------------- MODULE DelayList -----------------------------
(***************************************************************************)
(* The delay list as BRTOS.h implements it: a doubly linked list threaded  *)
(* through ContextTask, with the macros IncludeTaskIntoDelayList and       *)
(* RemoveFromDelayList.  The pointers of an unlinked task keep their last  *)
(* values.  DelayListSpec says what the list stands for; TaskManagement    *)
(* uses it.                                                                *)
(***************************************************************************)
EXTENDS Naturals, FiniteSets

CONSTANTS Tasks, NULL

VARIABLES
  head, tail, Next, Previous,
  linked     \* history: tasks included and not removed since

pointers == <<head, tail, Next, Previous>>

ListInit ==
  /\ head = NULL /\ tail = NULL
  /\ Next = [t \in Tasks |-> NULL]
  /\ Previous = [t \in Tasks |-> NULL]

IncludeTaskIntoDelayList(t) ==
  /\ tail' = t
  /\ IF tail # NULL
       THEN /\ Next' = [Next EXCEPT ![tail] = t, ![t] = NULL]
            /\ Previous' = [Previous EXCEPT ![t] = tail]
            /\ UNCHANGED head
       ELSE /\ head' = t
            /\ Next' = [Next EXCEPT ![t] = NULL]
            /\ Previous' = [Previous EXCEPT ![t] = NULL]
  /\ linked' = linked \cup {t}

\* The pointers after RemoveFromDelayList.
HeadWithout(t) == IF t # head THEN head ELSE IF t = tail THEN NULL ELSE Next[t]

TailWithout(t) == IF t # tail THEN tail ELSE IF t = head THEN NULL ELSE Previous[t]

NextWithout(t) ==
  IF t = head THEN Next
  ELSE [Next EXCEPT ![Previous[t]] = IF t = tail THEN NULL ELSE Next[t]]

\* The new head keeps its Previous pointer.
PreviousOfHeadKept(t) ==
  IF t = tail \/ t = head THEN Previous
  ELSE [Previous EXCEPT ![Next[t]] = Previous[t]]

PreviousWithout(t) ==
  IF t = tail THEN Previous
  ELSE [Previous EXCEPT ![Next[t]] = IF t = head THEN NULL ELSE Previous[t]]

RemoveFromDelayList(t) ==
  /\ head' = HeadWithout(t) /\ tail' = TailWithout(t)
  /\ Next' = NextWithout(t) /\ Previous' = PreviousWithout(t)
  /\ linked' = linked \ {t}

-----------------------------------------------------------------------------
\* The tasks met by following a pointer from a start, as a sequence.
Chain(start, link) ==
  LET N == Cardinality(Tasks) + 1
      node[i \in 1..N] ==
        IF i = 1 THEN start
        ELSE IF node[i - 1] = NULL THEN NULL ELSE link[node[i - 1]]
  IN  [i \in 1..Cardinality({j \in 1..N : node[j] # NULL}) |-> node[i]]

Members(chain) == {chain[i] : i \in DOMAIN chain}

(***************************************************************************)
(* Both directions of the list agree, and hold exactly the linked tasks.   *)
(***************************************************************************)
BothWays ==
  LET forward == Chain(head, Next)
      n == Cardinality(DOMAIN forward)
      backward == Chain(tail, Previous)
  IN  /\ Members(forward) = linked
      /\ n = Cardinality(linked)
      /\ backward = [i \in 1..n |-> forward[n + 1 - i]]

=============================================================================
