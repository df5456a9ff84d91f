------------------------------- MODULE MCHeap -------------------------------
(***************************************************************************)
(* The allocator on a heap of a few blocks.                                *)
(***************************************************************************)
EXTENDS Heap

\* 4 and 12 bytes fill the blocks they take, 5 and 13 need one more.
MCSizes == {4, 5, 12, 13}

=============================================================================
