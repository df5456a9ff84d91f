----------------------------- MODULE QueueSpec ------------------------------
(***************************************************************************)
(* What the queues of BRTOS promise: each is a bounded FIFO.  What a       *)
(* read returns is the oldest entry, once; nothing else takes entries out  *)
(* than a read or a clean, and a write never displaces one.                *)
(***************************************************************************)
EXTENDS Integers, Sequences

CONSTANTS Queues, Data, Nothing

VARIABLES
  capacity,  \* 0 before the queue exists
  items,     \* the entries still to be read
  got        \* what the last read returned

vars == <<capacity, items, got>>

Init ==
  /\ capacity = [q \in Queues |-> 0]
  /\ items = [q \in Queues |-> <<>>]
  /\ got = Nothing

Create(q) ==
  /\ items[q] = <<>>
  /\ capacity' = [capacity EXCEPT ![q] = capacity'[q]]
  /\ capacity'[q] \in Nat
  /\ UNCHANGED <<items, got>>

Put(q, d) ==
  /\ Len(items[q]) < capacity[q]
  /\ items' = [items EXCEPT ![q] = Append(@, d)]
  /\ UNCHANGED <<capacity, got>>

Get(q) ==
  /\ items[q] # <<>>
  /\ got' = Head(items[q])
  /\ items' = [items EXCEPT ![q] = Tail(@)]
  /\ UNCHANGED capacity

Clear(q) ==
  /\ items' = [items EXCEPT ![q] = <<>>]
  /\ UNCHANGED <<capacity, got>>

Delete(q) ==
  /\ capacity' = [capacity EXCEPT ![q] = 0]
  /\ items' = [items EXCEPT ![q] = <<>>]
  /\ UNCHANGED got

Next ==
  \E q \in Queues :
    \/ Create(q) \/ Get(q) \/ Clear(q) \/ Delete(q)
    \/ \E d \in Data : Put(q, d)

Spec == Init /\ [][Next]_vars

=============================================================================
