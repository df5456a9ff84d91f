-------------------------------- MODULE Heap --------------------------------
(***************************************************************************)
(* The memory allocator (umm_malloc.c), first fit as umm_malloc_cfg.h      *)
(* selects it: the heap is an array of blocks of 8 bytes, 4 of header and  *)
(* 4 of body.  The headers link all memory blocks in address order, with   *)
(* a bit on the free ones; the bodies of free blocks link the free list,   *)
(* and belong to the caller once the block is in use.                      *)
(*                                                                         *)
(* Every operation is one critical section.  A caller fills the bytes it   *)
(* asked for as soon as it has them: whatever of the allocator's own data  *)
(* lies there becomes DATA, which is no block number.                      *)
(***************************************************************************)
EXTENDS Integers, FiniteSets, FiniteSetsExt

CONSTANTS
  UMM_NUMBLOCKS,  \* blocks of the heap
  Sizes,          \* bytes the application asks for
  Counts          \* the first argument of umm_calloc

ASSUME HeapAssumption ==
  /\ UMM_NUMBLOCKS \in 3..32767
  /\ Sizes \subseteq Nat /\ Counts \subseteq Nat

VARIABLES
  umm_heap,  \* the blocks: header next (number, free bit) and prev, free list
  owned,     \* history: the bytes callers hold, by block
  call       \* history: the last request, blocks asked and block returned

vars == <<umm_heap, owned, call>>

DATA == -1
BODY == 4      \* sizeof(body)
BLOCK == 8     \* sizeof(umm_block)
USHORT == 65536
Blocks == 0..(UMM_NUMBLOCKS - 1)
Cleared == [next |-> 0, free |-> FALSE, prev |-> 0, nfree |-> 0, pfree |-> 0]
Filled == [next |-> DATA, free |-> TRUE, prev |-> DATA,
           nfree |-> DATA, pfree |-> DATA]

\* Mutant: forgets the header that shares the first block with the data.
BlocksNoHeader(size) == (1 + (size - 1) \div BLOCK) % USHORT

\* The blocks that hold size bytes behind a header, in 16 bits.
umm_blocks(size) ==
  IF size <= BODY THEN 1
  ELSE (2 + (size - (1 + BODY)) \div BLOCK) % USHORT

\* Each helper returns the heap its assignments leave.
umm_make_new_block(h, c, blocks) ==
  LET n == c + blocks
      h1 == [h EXCEPT ![n].next = h[c].next, ![n].free = FALSE, ![n].prev = c]
      h2 == [h1 EXCEPT ![h1[c].next].prev = n]
  IN [h2 EXCEPT ![c].next = n, ![c].free = TRUE]

\* Mutant: the links back are left as they are.
DisconnectForwardOnly(h, c) ==
  [h EXCEPT ![h[c].pfree].nfree = h[c].nfree, ![c].free = FALSE]

umm_disconnect_from_free_list(h, c) ==
  LET h1 == [h EXCEPT ![h[c].pfree].nfree = h[c].nfree]
      h2 == [h1 EXCEPT ![h1[c].nfree].pfree = h1[c].pfree]
  IN [h2 EXCEPT ![c].free = FALSE]

umm_assimilate_up(h, c) ==
  LET n == h[c].next
      h1 == umm_disconnect_from_free_list(h, n)
      h2 == [h1 EXCEPT ![h1[n].next].prev = c]
  IN IF h[n].free THEN [h2 EXCEPT ![c].next = h2[n].next] ELSE h

umm_assimilate_down(h, c) ==
  LET p == h[c].prev
      h1 == [h EXCEPT ![p].next = h[c].next, ![p].free = TRUE]
  IN [h1 EXCEPT ![h1[c].next].prev = p]

AddToFreeList(h, c) ==
  LET h1 == [h EXCEPT ![h[0].nfree].pfree = c]
      h2 == [h1 EXCEPT ![c].nfree = h1[0].nfree, ![c].pfree = 0]
  IN [h2 EXCEPT ![0].nfree = c, ![c].free = TRUE]

GivenBack(h, c) ==
  LET h1 == umm_assimilate_up(h, c)
  IN IF h1[h1[c].prev].free
     THEN umm_assimilate_down(h1, c)
     ELSE AddToFreeList(h1, c)

\* Mutant: passes over a block of the very size.
FirstFitStrict(h, blocks) ==
  LET scan[cf \in Blocks] ==
        IF h[cf].nfree = 0 \/ h[cf].next - cf > blocks THEN cf
        ELSE scan[h[cf].nfree]
  IN scan[h[0].nfree]

\* The first free block that is large enough, or the end of the free list.
FirstFit(h, blocks) ==
  LET scan[cf \in Blocks] ==
        IF h[cf].nfree = 0 \/ h[cf].next - cf >= blocks THEN cf
        ELSE scan[h[cf].nfree]
  IN scan[h[0].nfree]

\* The memory block cf at the end of the heap becomes one of that many blocks.
NewBlock(h, cf, blocks) ==
  LET n == cf + blocks
      h1 == [h EXCEPT ![h[cf].pfree].nfree = n]
      h2 == [h1 EXCEPT ![n] = h1[cf]]
  IN [h2 EXCEPT ![cf].next = n, ![n].prev = cf]

\* The free list of a heap that was never used.
Initialised(h) == [h EXCEPT ![0].next = 1, ![0].nfree = 1]

\* What umm_malloc leaves: the heap, and the block it returns (0: NULL).
Allocated(h, blocks) ==
  LET cf == FirstFit(h, blocks)
      rest == h[cf].next - cf - blocks
      first == IF cf = 0 THEN 1 ELSE cf
  IN CASE h[cf].next # 0 /\ rest = 0 ->
            [heap |-> umm_disconnect_from_free_list(h, cf), at |-> cf]
       [] h[cf].next # 0 /\ rest # 0 ->
            [heap |-> umm_make_new_block(h, cf, rest), at |-> cf + rest]
       [] h[cf].next = 0 /\ UMM_NUMBLOCKS <= cf + blocks + 1 ->
            [heap |-> h, at |-> 0]
       [] OTHER ->
            [heap |-> NewBlock(IF cf = 0 THEN Initialised(h) ELSE h,
                               first, blocks),
             at |-> first]

\* The caller writes size bytes from the body of block b on.
Fill(h, b, size) ==
  [i \in Blocks |->
    IF i = b THEN [h[i] EXCEPT !.nfree = DATA, !.pfree = DATA]
    ELSE IF i > b /\ BODY + BLOCK * (i - b - 1) < size THEN Filled
    ELSE h[i]]

umm_malloc(size) ==
  LET blocks == umm_blocks(size)
      result == Allocated(umm_heap, blocks)
  IN /\ size # 0
     /\ call' = [blocks |-> blocks, at |-> result.at]
     /\ IF result.at = 0 THEN UNCHANGED <<umm_heap, owned>>
        ELSE /\ umm_heap' = Fill(result.heap, result.at, size)
             /\ owned' = owned \cup {[at |-> result.at, size |-> size]}

\* The memory is the caller's when it is set to 0: writing it is Fill.
umm_calloc(num, item_size) == umm_malloc(item_size * num)

umm_free(o) ==
  /\ umm_heap' = GivenBack(umm_heap, o.at)
  /\ owned' = owned \ {o}
  /\ UNCHANGED call

Init ==
  /\ umm_heap = [b \in Blocks |-> Cleared]
  /\ owned = {}
  /\ call = [blocks |-> 0, at |-> 0]

Next ==
  \/ \E size \in Sizes :
       umm_malloc(size) \/ \E num \in Counts : umm_calloc(num, size)
  \/ \E o \in owned : umm_free(o)

Spec == Init /\ [][Next]_vars

----------------------------------------------------------------------------
\* The memory blocks by the headers, in address order, the last one included.
Chain ==
  LET from[b \in Blocks] ==
        {b} \cup IF umm_heap[b].next > b THEN from[umm_heap[b].next] ELSE {}
  IN from[0]

Last == CHOOSE b \in Chain : umm_heap[b].next = 0
Size(b) == umm_heap[b].next - b
InUse == {b \in Chain \ {0, Last} : ~umm_heap[b].free}

\* Mutant: the block that ends the walk is not counted.
InfoSkipsLast(h) ==
  LET walk[b \in Blocks] ==
        IF h[b].next = 0 THEN [used |-> 0, free |-> 0]
        ELSE LET rest == walk[h[b].next]
                 n == h[b].next - b
             IN IF h[b].free THEN [rest EXCEPT !.free = @ + n]
                ELSE [rest EXCEPT !.used = @ + n]
  IN walk[h[0].next]

\* umm_info(): the blocks in use and free, without block 0 once it is set up.
umm_info(h) ==
  LET walk[b \in Blocks] ==
        IF h[b].next = 0 THEN [used |-> 0, free |-> UMM_NUMBLOCKS - b]
        ELSE LET rest == walk[h[b].next]
                 n == h[b].next - b
             IN IF h[b].free THEN [rest EXCEPT !.free = @ + n]
                ELSE [rest EXCEPT !.used = @ + n]
  IN walk[h[0].next]

OSGetUsedHeapSize == umm_info(umm_heap).used * BLOCK
OSGetFreeHeapSize == umm_info(umm_heap).free * BLOCK
----------------------------------------------------------------------------
\* The two lists agree.  Every memory block's successor links back to it;
\* the free list, whose links the bodies hold, has exactly the blocks whose
\* bit is set and ends with the last one; two free blocks are never next to
\* each other ("there can never be two consecutive free memory blocks").
ListsAgree ==
  LET Free == {b \in Chain : umm_heap[b].free}
      Listed == {0, Last} \cup Free
      list[b \in Blocks] ==
        IF umm_heap[b].nfree = 0 THEN {b} ELSE {b} \cup list[umm_heap[b].nfree]
  IN umm_heap[0].next # 0 =>
       /\ \A b \in Chain \ {Last} : umm_heap[umm_heap[b].next].prev = b
       /\ \A b \in Listed :
            /\ umm_heap[b].nfree \in Listed /\ umm_heap[b].pfree \in Listed
            /\ b # Last => umm_heap[umm_heap[b].nfree].pfree = b
       /\ list[0] = Listed
       /\ \A b \in Free : umm_heap[b].next \notin Free

\* Nobody touches a caller's memory: every block handed out is a block in
\* use with room for the bytes asked, and holds what the caller wrote there.
MemoryIsTheCallers ==
  /\ \A o \in owned :
       /\ BLOCK * Size(o.at) - BODY >= o.size
       /\ Fill(umm_heap, o.at, o.size) = umm_heap
  /\ \A o, q \in owned : o.at = q.at => o = q
  /\ InUse = {o.at : o \in owned}

\* OSGetUsedHeapSize() and OSGetFreeHeapSize() add up to the heap, less the
\* block at its start, and what is used is what the callers' requests took.
ReportsAddUp ==
  umm_heap[0].next # 0 =>
    /\ OSGetUsedHeapSize + OSGetFreeHeapSize = BLOCK * (UMM_NUMBLOCKS - 1)
    /\ OSGetUsedHeapSize =
         BLOCK *
           MapThenSumSet(LAMBDA o : umm_blocks(o.size), owned)

\* The lists implement an allocator of extents: what umm_malloc() returns is
\* free, and it returns NULL only when no gap below the end of the list is
\* large enough (freed neighbours have become one) and neither is the rest.
Abstract == INSTANCE HeapSpec WITH
  used <- {[first |-> b, length |-> Size(b)] : b \in InUse},
  top <- Last

ImplementsHeapSpec == Abstract!Spec

=============================================================================
