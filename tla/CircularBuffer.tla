--------------------------- MODULE CircularBuffer ---------------------------
(***************************************************************************)
(* The circular buffer of queue.c (OS_QUEUE, OS_QUEUE_16, OS_QUEUE_32 and  *)
(* OS_DQUEUE; the four copies of the code differ in the width of an entry  *)
(* only).  Pointers are offsets from OSQStart, counted in entries, so      *)
(* OSQEnd is OSQSize.  A pointer rests on OSQEnd after the last slot was   *)
(* used and is moved to OSQStart by the next access.                       *)
(***************************************************************************)
EXTENDS Integers, Sequences

CONSTANT Data         \* what the application stores

\* Content of a slot that was never written.
NoData == "none"

UINT16 == 65536

EmptyBuffer(size) ==
  [OSQSize |-> size, OSQEntries |-> 0, OSQIn |-> 0, OSQOut |-> 0,
   slots |-> [i \in 0..(size - 1) |-> NoData]]

Full(b) == ~(b.OSQEntries < b.OSQSize)

\* Where the next access takes place.
Wrapped(b, pointer) == IF pointer = b.OSQSize THEN 0 ELSE pointer

Write(b, data) ==
  [b EXCEPT !.OSQEntries = @ + 1,
            !.OSQIn = Wrapped(b, @) + 1,
            !.slots[Wrapped(b, b.OSQIn)] = data]

\* The wrong pointer.
FrontAtIn(b) == b.slots[Wrapped(b, b.OSQIn)]

\* *pdata of a read.
Front(b) == b.slots[Wrapped(b, b.OSQOut)]

Read(b) ==
  [b EXCEPT !.OSQEntries = (@ - 1) % UINT16,
            !.OSQOut = Wrapped(b, @) + 1]

CleanKeepsOut(b) == [b EXCEPT !.OSQEntries = 0, !.OSQIn = 0]

Clean(b) == [b EXCEPT !.OSQEntries = 0, !.OSQIn = 0, !.OSQOut = 0]

-----------------------------------------------------------------------------
(***************************************************************************)
(* What the buffer stands for: the sequence of the entries still to be     *)
(* read, the oldest first.                                                 *)
(***************************************************************************)
Slot(b, i) ==
  LET k == b.OSQOut + i - 1
  IN  IF k >= b.OSQSize THEN k - b.OSQSize ELSE k

Contents(b) == [i \in 1..b.OSQEntries |-> b.slots[Slot(b, i)]]

(***************************************************************************)
(* The entry counter and the two pointers agree: going OSQEntries slots    *)
(* round from OSQOut leads to OSQIn, and those slots hold data.            *)
(***************************************************************************)
WellFormed(b) ==
  /\ b.OSQEntries \in 0..b.OSQSize
  /\ b.OSQIn \in 0..b.OSQSize /\ b.OSQOut \in 0..b.OSQSize
  /\ \/ b.OSQIn = b.OSQOut + b.OSQEntries
     \/ b.OSQIn = b.OSQOut + b.OSQEntries - b.OSQSize
  /\ \A i \in 1..b.OSQEntries : b.slots[Slot(b, i)] \in Data

=============================================================================
