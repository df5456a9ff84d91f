------------------------------ MODULE HeapSpec ------------------------------
(***************************************************************************)
(* What the allocator promises its callers: the extents it hands out never *)
(* overlap, and it refuses only when the memory it has touched so far has  *)
(* no gap of the size asked and the rest of the heap is too small.         *)
(***************************************************************************)
EXTENDS Integers

CONSTANT UMM_NUMBLOCKS

VARIABLES
  used,  \* the extents handed out: first block and length
  top,   \* the blocks from here on were never handed out
  call   \* the last request: blocks asked, and the extent's first or 0

vars == <<used, top, call>>

Extent(e) == e.first..(e.first + e.length - 1)
Taken == UNION {Extent(e) : e \in used}

\* Where below top an extent of n blocks fits.  Block 0 is the list's head.
Places(n) == {b \in 1..top : b + n <= top /\ b..(b + n - 1) \cap Taken = {}}

\* Before the first request nothing is set aside: block 0 still has to be.
FitsAbove(n) == top + n + 1 < UMM_NUMBLOCKS

HandOut(n, b) ==
  /\ used' = used \cup {[first |-> b, length |-> n]}
  /\ call' = [blocks |-> n, at |-> b]

Init == used = {} /\ top = 0 /\ call = [blocks |-> 0, at |-> 0]

Reuse(n) == \E b \in Places(n) : HandOut(n, b) /\ UNCHANGED top

Extend(n) ==
  /\ Places(n) = {} /\ FitsAbove(n)
  /\ LET b == IF top = 0 THEN 1 ELSE top IN HandOut(n, b) /\ top' = b + n

Refuse(n) ==
  /\ Places(n) = {} /\ ~FitsAbove(n)
  /\ call' = [blocks |-> n, at |-> 0]
  /\ UNCHANGED <<used, top>>

Release(e) == used' = used \ {e} /\ UNCHANGED <<top, call>>

Next ==
  \/ \E n \in 1..UMM_NUMBLOCKS : Reuse(n) \/ Extend(n) \/ Refuse(n)
  \/ \E e \in used : Release(e)

Spec == Init /\ [][Next]_vars

=============================================================================
