---------------------------- MODULE QueueProofs -----------------------------
(***************************************************************************)
(* Queues, for every number of tasks and queues, all sizes, widths and     *)
(* priority assignments.  The theorems are about an application in which   *)
(* one task at most pends on a queue, for at most one revolution of the    *)
(* tick counter: a resumed Pend reads without looking, so with two         *)
(* receivers they fail.                                                    *)
(***************************************************************************)
EXTENDS Queue, KernelProofs, CircularBufferProofs

Disciplined ==
  /\ PendTimes \subseteq 0..TICK_COUNT_OVERFLOW \cup {NO_TIMEOUT}
  /\ \A q \in Queues : \A s, t \in Receivers[q] : s = t

QueueEvents ==
  EventInv("queue", EventQueues, OSEventWait, OSEventWaitList, pont_event, timed)

QueueTypes ==
  /\ created \in [Queues -> BOOLEAN]
  /\ pont_event \in [Tasks -> EventQueues \cup {NULL}]
  /\ pdata \in Data \cup {NoData}

BuffersInv ==
  /\ DOMAIN buffer = Queues
  /\ \A q \in Queues :
       IsBuffer(buffer[q]) /\ (~created[q] => buffer[q].OSQEntries = 0)

\* A suspended receiver is in the wait list as long as its queue is empty.
ReceiverInv ==
  \A t \in Tasks :
    /\ pont_event[t] # NULL <=> pc[t] = "queue"
    /\ pc[t] = "queue" =>
         /\ created[pont_event[t]] /\ t \in Receivers[pont_event[t]]
         /\ PriorityOf(t) \in OSEventWaitList[pont_event[t]]
              <=> buffer[pont_event[t]].OSQEntries = 0

\* The words of a queue follow those of the queues created before it, and
\* are exactly as many as its entries need.
Extent(q) == Words(q, buffer[q].OSQSize)

StoreInv ==
  /\ iQueueAddress \in Nat /\ iQueueAddress <= QUEUE_HEAP_SIZE \div CPU_TYPE_SIZE
  /\ OSQStart \in [HeapQueues -> Nat]
  /\ \A q \in HeapQueues : created[q] =>
       /\ Extent(q) \in Nat
       /\ Extent(q) * CPU_TYPE_SIZE = buffer[q].OSQSize * EntryWidth(q)
       /\ OSQStart[q] + Extent(q) <= iQueueAddress
       /\ \A r \in HeapQueues \ {q} : created[r] =>
            \/ OSQStart[q] + Extent(q) <= OSQStart[r]
            \/ OSQStart[r] + Extent(r) <= OSQStart[q]

QueueInv ==
  /\ KernelInv /\ QueueEvents /\ QueueTypes /\ BuffersInv /\ ReceiverInv
  /\ StoreInv /\ NoHeapLeak

(***************************************************************************)
(* The kinds of queues are disjoint.                                       *)
(***************************************************************************)
LEMMA QueueKinds ==
  /\ \A q \in TableQueues : q \notin DynamicQueues \cup Buffers16 \cup Buffers32
  /\ \A q \in DynamicQueues : q \notin HeapQueues
  /\ \A q \in Buffers16 : q \notin EventQueues /\ q \notin Buffers32
  /\ \A q \in Buffers32 : q \notin EventQueues /\ q \notin Buffers16
  /\ NULL \notin Queues
  /\ EventQueues \subseteq Queues /\ HeapQueues \subseteq Queues
<1>1. /\ \A q \in TableQueues : q[1] = "queue"
      /\ \A q \in DynamicQueues : q[1] = "dynamic"
      /\ \A q \in Buffers16 : q[1] = "16"
      /\ \A q \in Buffers32 : q[1] = "32"
      /\ NULL[1] = "null"
  BY Zenon DEF TableQueues, DynamicQueues, Buffers16, Buffers32, NULL
<1>2. /\ "queue" # "dynamic" /\ "queue" # "16" /\ "queue" # "32" /\ "queue" # "null"
      /\ "dynamic" # "16" /\ "dynamic" # "32" /\ "dynamic" # "null"
      /\ "16" # "32" /\ "16" # "null" /\ "32" # "null"
  BY Zenon
<1>. QED  BY <1>1, <1>2, Zenon DEF Queues, EventQueues, HeapQueues

\* An interrupt handler is no task.
LEMMA CallerFacts == "queue" \in EventServices /\ Irq \notin Tasks
<1>1. Irq \notin Tasks
  BY KernelAssumption DEF Irq, Tasks
<1>. QED  BY <1>1, Zenon DEF EventServices, Services

\* The ranges of the sizes of QUEUE_STACK.
LEMMA SizeFacts ==
  /\ UINT16 \in Nat /\ UINT16 > 0
  /\ CPU_TYPE_SIZE \in {1, 2, 4} /\ QUEUE_HEAP_SIZE \in Nat
  /\ QUEUE_HEAP_SIZE \div CPU_TYPE_SIZE \in Nat
  /\ QUEUE_HEAP_SIZE \div CPU_TYPE_SIZE < UINT16
  /\ CPU_TYPE_SIZE * (QUEUE_HEAP_SIZE \div CPU_TYPE_SIZE) <= QUEUE_HEAP_SIZE
<1>1. UINT16 \in Nat /\ UINT16 > 0
  BY SMT DEF UINT16
<1>2. CPU_TYPE_SIZE \in {1, 2, 4} /\ QUEUE_HEAP_SIZE \in 0..(UINT16 - 1)
  BY QueueAssumption, SMT
<1>3. /\ QUEUE_HEAP_SIZE \in Nat /\ QUEUE_HEAP_SIZE < UINT16
  BY <1>1, <1>2, SMT
<1>4. CASE CPU_TYPE_SIZE = 1
  BY <1>1, <1>3, <1>4, SMT
<1>5. CASE CPU_TYPE_SIZE = 2
  BY <1>1, <1>3, <1>5, SMT
<1>6. CASE CPU_TYPE_SIZE = 4
  BY <1>1, <1>3, <1>6, SMT
<1>. QED  BY <1>1, <1>2, <1>3, <1>4, <1>5, <1>6, SMT

(***************************************************************************)
(* The sizes queues are created with fill whole words of QUEUE_STACK, the  *)
(* wrap of the 16 bit sum included.                                        *)
(***************************************************************************)
LEMMA RoundedFits ==
  ASSUME NEW size \in Nat, size < UINT16
  PROVE  /\ RoundedUp(size) \in Nat /\ RoundedUp(size) < UINT16
         /\ RoundedUp(size) % CPU_TYPE_SIZE = 0
         /\ Rounded16(size) \in Nat /\ Rounded16(size) < UINT16
         /\ (Rounded16(size) * 2) % CPU_TYPE_SIZE = 0
<1>1. size \in Nat /\ size < 65536
  BY SMT DEF UINT16
<1>2. \A n \in Nat : n <= 65536 => n % UINT16 = IF n = 65536 THEN 0 ELSE n
  BY SMT DEF UINT16
<1>3. \A n \in Nat : n % 1 = 0 /\ (n * 2) % 1 = 0 /\ (n * 2) % 2 = 0
  BY SMT
<1>4. CASE CPU_TYPE_SIZE = 1
  BY <1>1, <1>3, <1>4, SMT DEF RoundedUp, Rounded16, UINT16
<1>5. CASE CPU_TYPE_SIZE = 2
  <2>1. Rounded16(size) = size /\ (size * 2) % 2 = 0
    BY <1>1, <1>3, <1>5, SMT DEF Rounded16
  <2>2. CASE size % 2 = 0
    BY <1>1, <1>5, <2>1, <2>2, SMT DEF RoundedUp, UINT16
  <2>3. CASE size % 2 # 0
    <3>. DEFINE n == size + (2 - (size % 2))
    <3>1. n \in Nat /\ n <= 65536 /\ n % 2 = 0 /\ RoundedUp(size) = n % UINT16
      BY <1>1, <1>5, <2>3, SMT DEF RoundedUp
    <3>2. RoundedUp(size) = 0 \/ (n < 65536 /\ RoundedUp(size) = n)
      BY <1>2, <3>1, SMT
    <3>3. 0 % 2 = 0
      BY SMT
    <3>. HIDE DEF n
    <3>. QED  BY <1>1, <1>5, <2>1, <3>1, <3>2, <3>3, SMT DEF UINT16
  <2>. QED  BY <2>2, <2>3, SMT
<1>6. CASE CPU_TYPE_SIZE = 4
  <2>1. /\ RoundedUp(size) \in Nat /\ RoundedUp(size) < UINT16
        /\ RoundedUp(size) % 4 = 0
    <3>1. CASE size % 4 = 0
      BY <1>1, <1>6, <3>1, SMT DEF RoundedUp, UINT16
    <3>2. CASE size % 4 # 0
      <4>. DEFINE n == size + (4 - (size % 4))
      <4>1. n \in Nat /\ n <= 65536 /\ n % 4 = 0 /\ RoundedUp(size) = n % UINT16
        BY <1>1, <1>6, <3>2, SMT DEF RoundedUp
      <4>2. RoundedUp(size) = 0 \/ (n < 65536 /\ RoundedUp(size) = n)
        BY <1>2, <4>1, SMT
      <4>3. 0 % 4 = 0
        BY SMT
      <4>. HIDE DEF n
      <4>. QED  BY <4>1, <4>2, <4>3, SMT DEF UINT16
    <3>. QED  BY <3>1, <3>2, SMT
  <2>2. /\ Rounded16(size) \in Nat /\ Rounded16(size) < UINT16
        /\ (Rounded16(size) * 2) % 4 = 0
    <3>1. CASE (size * 2) % 4 = 0
      BY <1>1, <1>6, <3>1, SMT DEF Rounded16, UINT16
    <3>2. CASE (size * 2) % 4 # 0
      <4>1. size + 1 \in Nat /\ size + 1 <= 65536 /\ ((size + 1) * 2) % 4 = 0
        BY <1>1, <3>2, SMT
      <4>2. Rounded16(size) = (size + 1) % UINT16
        BY <1>6, <3>2, SMT DEF Rounded16
      <4>3. Rounded16(size) = 0 \/ (size + 1 < 65536 /\ Rounded16(size) = size + 1)
        BY <1>2, <4>1, <4>2, SMT
      <4>4. (0 * 2) % 4 = 0
        BY SMT
      <4>. QED  BY <4>1, <4>3, <4>4, SMT DEF UINT16
    <3>. QED  BY <3>1, <3>2, SMT
  <2>. QED  BY <1>6, <2>1, <2>2, SMT
<1>. QED  BY <1>4, <1>5, <1>6, SizeFacts, SMT

(***************************************************************************)
(* Initially.                                                              *)
(***************************************************************************)
LEMMA QueueInitInv ==
  ASSUME Init
  PROVE  QueueInv
<1>1. KernelInv /\ \A t \in Tasks : pc[t] = "app"
  BY KernelInitInv, Zenon DEF Init, KernelInit
<1>2. QueueEvents
  BY <1>1, CountNone, Zenon DEF Init, QueueEvents, EventInv
<1>3. QueueTypes
  BY Zenon DEF Init, QueueTypes
<1>4. BuffersInv
  <2>1. 0 < UINT16 /\ 0 \in Nat
    BY SizeFacts, Zenon
  <2>2. IsBuffer(EmptyBuffer(0)) /\ EmptyBuffer(0).OSQEntries = 0
    BY <2>1, EmptyBufferIsEmpty, Zenon
  <2>. QED  BY <2>2, Zenon DEF Init, BuffersInv
<1>5. ReceiverInv
  BY <1>1, Zenon DEF Init, ReceiverInv
<1>6. StoreInv
  BY SizeFacts, QueueKinds DEF Init, StoreInv
<1>7. NoHeapLeak
  BY Zenon DEF Init, NoHeapLeak, Queues, EventQueues
<1>. QED  BY <1>1, <1>2, <1>3, <1>4, <1>5, <1>6, <1>7, Zenon DEF QueueInv

(***************************************************************************)
(* Nobody pends on a queue whose only user is executing.                   *)
(***************************************************************************)
LEMMA NobodyPends ==
  ASSUME QueueInv, NEW q \in Queues, NEW c \in Callers, Executes(c),
         q \notin EventQueues \/ OwnUse(c, q)
  PROVE  \A t \in Tasks : pc[t] = "queue" => pont_event[t] # q
<1>. SUFFICES ASSUME NEW t \in Tasks, pc[t] = "queue", pont_event[t] = q
              PROVE  FALSE
  BY Zenon
<1>1. q \in EventQueues /\ t \in Receivers[q]
  BY Zenon DEF QueueInv, QueueTypes, QueueEvents, EventInv, Waiter, ReceiverInv
<1>2. t = c
  BY <1>1, Zenon DEF OwnUse
<1>. QED  BY <1>2, CallerFacts, Zenon DEF Executes, Running

\* While a queue's receiver executes nobody waits for the queue.
LEMMA SoleReceiver ==
  ASSUME Disciplined, QueueInv, NEW q \in Queues, NEW t \in Tasks, Running(t),
         t \in Receivers[q]
  PROVE  \A u \in Tasks : pc[u] = "queue" => pont_event[u] # q
  BY Zenon DEF Disciplined, QueueInv, ReceiverInv, Running

(***************************************************************************)
(* An access replaces one buffer by one of the same size.                  *)
(***************************************************************************)
LEMMA AccessKeepsStore ==
  ASSUME BuffersInv, StoreInv, NEW q \in Queues, created[q],
         NEW b, IsBuffer(b), b.OSQSize = buffer[q].OSQSize,
         buffer' = [buffer EXCEPT ![q] = b],
         UNCHANGED <<created, storeVars>>
  PROVE  BuffersInv' /\ StoreInv'
<1>1. /\ created' = created /\ OSQStart' = OSQStart
      /\ iQueueAddress' = iQueueAddress
  BY Zenon DEF storeVars
<1>2. BuffersInv'
  BY <1>1, Zenon DEF BuffersInv
<1>3. \A r \in Queues : buffer'[r].OSQSize = buffer[r].OSQSize
  BY Zenon DEF BuffersInv
<1>4. \A r \in HeapQueues : Extent(r)' = Extent(r)
  BY <1>3, QueueKinds, Zenon DEF Extent, Words
<1>5. StoreInv'
  BY <1>1, <1>3, <1>4, QueueKinds, Zenon DEF StoreInv
<1>. QED  BY <1>2, <1>5, Zenon

\* A call that changes one buffer, and leaves it well formed.
LEMMA AccessInv ==
  ASSUME QueueInv, NEW q \in Queues, created[q],
         NEW b, IsBuffer(b), b.OSQSize = buffer[q].OSQSize,
         buffer' = [buffer EXCEPT ![q] = b],
         \A t \in Tasks : pc[t] = "queue" /\ pont_event[t] = q =>
           (PriorityOf(t) \in OSEventWaitList[q] <=> b.OSQEntries = 0),
         pdata' \in Data \cup {NoData}, bufferOnly
  PROVE  QueueInv'
<1>1. UNCHANGED <<kernelVars, created, storeVars, eventVars, pendLocals>>
  BY Zenon DEF bufferOnly
<1>2. KernelInv'
  BY <1>1, KernelStepInv, Zenon DEF QueueInv
<1>3. QueueEvents'
  <2>1. UNCHANGED <<pc, DelayList, TimeToWait, OSReadyList>>
    BY <1>1, Zenon DEF kernelVars, waitVars
  <2>2. UNCHANGED <<OSEventWait, OSEventWaitList, pont_event, timed>>
    BY <1>1, Zenon DEF eventVars, pendLocals
  <2>. QED  BY <2>1, <2>2, EventSame, Zenon DEF QueueInv, QueueEvents
<1>4. BuffersInv' /\ StoreInv'
  BY <1>1, AccessKeepsStore, Zenon DEF QueueInv
<1>5. UNCHANGED <<pc, created, OSEventWaitList, pont_event, heapBlocks>>
  BY <1>1, Zenon DEF kernelVars, eventVars, pendLocals, storeVars
<1>6. QueueTypes' /\ NoHeapLeak'
  BY <1>5, Zenon DEF QueueInv, QueueTypes, NoHeapLeak
<1>7. ReceiverInv'
  <2>. SUFFICES ASSUME NEW t \in Tasks, pc[t] = "queue"
                PROVE  PriorityOf(t) \in OSEventWaitList[pont_event[t]]
                         <=> buffer'[pont_event[t]].OSQEntries = 0
    BY <1>5, Zenon DEF QueueInv, ReceiverInv
  <2>1. pont_event[t] \in Queues
    BY QueueKinds, Zenon DEF QueueInv, QueueEvents, EventInv, Waiter
  <2>2. CASE pont_event[t] = q
    BY <2>2, Zenon DEF QueueInv, BuffersInv
  <2>3. CASE pont_event[t] # q
    BY <2>1, <2>3, Zenon DEF QueueInv, ReceiverInv, BuffersInv
  <2>. QED  BY <2>2, <2>3, Zenon
<1>. QED  BY <1>2, <1>3, <1>4, <1>6, <1>7, Zenon DEF QueueInv

(***************************************************************************)
(* What the application reads and writes, as QueueSpec sees it.            *)
(***************************************************************************)
Capacity == [q \in Queues |-> buffer[q].OSQSize]
Items == [q \in Queues |-> Contents(buffer[q])]

\* What such a call is for QueueSpec.
LEMMA AccessIsSeen ==
  ASSUME BuffersInv, NEW q \in Queues, NEW b, buffer' = [buffer EXCEPT ![q] = b]
  PROVE  /\ Capacity' = [Capacity EXCEPT ![q] = b.OSQSize]
         /\ Items' = [Items EXCEPT ![q] = Contents(b)]
<1>1. \A r \in Queues : buffer'[r] = IF r = q THEN b ELSE buffer[r]
  BY Zenon DEF BuffersInv
<1>2. Capacity' = [Capacity EXCEPT ![q] = b.OSQSize]
  <2>1. \A r \in Queues :
          buffer'[r].OSQSize = IF r = q THEN b.OSQSize ELSE buffer[r].OSQSize
    BY <1>1
  <2>2. Capacity' = [r \in Queues |-> buffer'[r].OSQSize]
    BY Zenon DEF Capacity
  <2>. QED  BY <2>1, <2>2, Zenon DEF Capacity
<1>3. \A r \in Queues :
        Contents(buffer'[r]) = IF r = q THEN Contents(b) ELSE Contents(buffer[r])
  BY <1>1
<1>4. Items' = [r \in Queues |-> Contents(buffer'[r])]
  BY Zenon DEF Items
<1>5. Items' = [Items EXCEPT ![q] = Contents(b)]
  BY <1>3, <1>4, Zenon DEF Items
<1>. QED  BY <1>2, <1>5, Zenon

(***************************************************************************)
(* The accesses: a write that finds room, a read that finds an entry, a    *)
(* clean.  A write may meet a suspended receiver that was woken before.    *)
(***************************************************************************)
LEMMA WriteInv ==
  ASSUME QueueInv, NEW c, NEW q \in Queues, NEW d \in Data, BufferWrite(c, q, d),
         \A t \in Tasks : pc[t] = "queue" /\ pont_event[t] = q =>
           PriorityOf(t) \notin OSEventWaitList[q]
  PROVE  QueueInv'
<1>1. /\ created[q] /\ ~Full(buffer[q]) /\ IsBuffer(buffer[q])
      /\ buffer' = [buffer EXCEPT ![q] = Write(buffer[q], d)]
      /\ pdata' \in Data \cup {NoData} /\ bufferOnly
  BY Zenon DEF BufferWrite, QueueInv, BuffersInv, QueueTypes
<1>2. /\ IsBuffer(Write(buffer[q], d))
      /\ Write(buffer[q], d).OSQSize = buffer[q].OSQSize
      /\ Write(buffer[q], d).OSQEntries = buffer[q].OSQEntries + 1
  BY <1>1, WriteAppends, Zenon
<1>3. Write(buffer[q], d).OSQEntries # 0
  BY <1>1, <1>2, BufferFacts
<1>. QED  BY <1>1, <1>2, <1>3, AccessInv, Zenon

\* A write is a put.
LEMMA WriteIsPut ==
  ASSUME QueueInv, NEW q \in Queues, NEW d \in Data,
         ~Full(buffer[q]), buffer' = [buffer EXCEPT ![q] = Write(buffer[q], d)],
         pdata' = pdata
  PROVE  Fifo!Next
<1>1. IsBuffer(buffer[q])
  BY Zenon DEF QueueInv, BuffersInv
<1>2. /\ Contents(Write(buffer[q], d)) = Append(Contents(buffer[q]), d)
      /\ Write(buffer[q], d).OSQSize = buffer[q].OSQSize
  BY <1>1, WriteAppends, Zenon
<1>3. /\ Capacity' = [Capacity EXCEPT ![q] = Write(buffer[q], d).OSQSize]
      /\ Items' = [Items EXCEPT ![q] = Contents(Write(buffer[q], d))]
  BY AccessIsSeen, Zenon DEF QueueInv
<1>4. Capacity' = Capacity /\ Items' = [Items EXCEPT ![q] = Append(@, d)]
  BY <1>2, <1>3, Zenon DEF Capacity, Items
<1>5. Len(Items[q]) < Capacity[q]
  <2>1. buffer[q].OSQEntries \in Nat /\ buffer[q].OSQEntries < buffer[q].OSQSize
    BY <1>1, BufferFacts, Zenon DEF Full
  <2>2. Len(Contents(buffer[q])) = buffer[q].OSQEntries
    BY <2>1 DEF Contents
  <2>. QED  BY <2>1, <2>2, Zenon DEF Items, Capacity
<1>6. Fifo!Put(q, d)
  BY <1>4, <1>5, Zenon DEF Fifo!Put, Items, Capacity
<1>. QED  BY <1>6, Zenon DEF Fifo!Next

\* A read leaves the buffer well formed.
LEMMA ReadInv ==
  ASSUME QueueInv, NEW c, NEW q \in Queues, BufferRead(c, q),
         \A t \in Tasks : pc[t] = "queue" => pont_event[t] # q
  PROVE  QueueInv'
<1>1. /\ created[q] /\ buffer[q].OSQEntries > 0 /\ IsBuffer(buffer[q])
      /\ buffer' = [buffer EXCEPT ![q] = Read(buffer[q])]
      /\ pdata' = Front(buffer[q]) /\ bufferOnly
  BY Zenon DEF BufferRead, QueueInv, BuffersInv
<1>2. /\ IsBuffer(Read(buffer[q])) /\ Front(buffer[q]) \in Data
      /\ Read(buffer[q]).OSQSize = buffer[q].OSQSize
  BY <1>1, ReadTakesOldest, Zenon
<1>. QED  BY <1>1, <1>2, AccessInv, ZenonT(60)

\* A read is a get of the oldest entry.
LEMMA ReadIsGet ==
  ASSUME QueueInv, NEW q \in Queues, buffer[q].OSQEntries > 0,
         buffer' = [buffer EXCEPT ![q] = Read(buffer[q])],
         pdata' = Front(buffer[q])
  PROVE  Fifo!Next
<1>1. IsBuffer(buffer[q])
  BY Zenon DEF QueueInv, BuffersInv
<1>2. /\ Contents(buffer[q]) # <<>>
      /\ Front(buffer[q]) = Head(Contents(buffer[q]))
      /\ Contents(Read(buffer[q])) = Tail(Contents(buffer[q]))
      /\ Read(buffer[q]).OSQSize = buffer[q].OSQSize
  BY <1>1, ReadTakesOldest, Zenon
<1>3. /\ Capacity' = [Capacity EXCEPT ![q] = Read(buffer[q]).OSQSize]
      /\ Items' = [Items EXCEPT ![q] = Contents(Read(buffer[q]))]
  BY AccessIsSeen, Zenon DEF QueueInv
<1>4. Capacity' = Capacity /\ Items' = [Items EXCEPT ![q] = Tail(@)]
  BY <1>2, <1>3, Zenon DEF Capacity, Items
<1>5. Items[q] # <<>> /\ pdata' = Head(Items[q])
  BY <1>2, Zenon DEF Items
<1>6. Fifo!Get(q)
  BY <1>4, <1>5, Zenon DEF Fifo!Get, Items, Capacity
<1>. QED  BY <1>6, Zenon DEF Fifo!Next

\* Cleaning leaves the buffer well formed.
LEMMA CleanInv ==
  ASSUME QueueInv, NEW c, NEW q \in Queues, BufferClean(c, q),
         \A t \in Tasks : pc[t] = "queue" => pont_event[t] # q
  PROVE  QueueInv' /\ Fifo!Next
<1>1. /\ created[q] /\ IsBuffer(buffer[q])
      /\ buffer' = [buffer EXCEPT ![q] = Clean(buffer[q])]
      /\ pdata' = pdata /\ pdata' \in Data \cup {NoData} /\ bufferOnly
  BY Zenon DEF BufferClean, QueueInv, BuffersInv, QueueTypes
<1>2. /\ IsBuffer(Clean(buffer[q])) /\ Contents(Clean(buffer[q])) = <<>>
      /\ Clean(buffer[q]).OSQSize = buffer[q].OSQSize
  BY <1>1, CleanEmpties, Zenon
<1>3. QueueInv'
  BY <1>1, <1>2, AccessInv, ZenonT(60)
<1>4. /\ Capacity' = [Capacity EXCEPT ![q] = Clean(buffer[q]).OSQSize]
      /\ Items' = [Items EXCEPT ![q] = Contents(Clean(buffer[q]))]
  BY <1>1, AccessIsSeen, Zenon DEF QueueInv
<1>5. Capacity' = Capacity /\ Items' = [Items EXCEPT ![q] = <<>>]
  BY <1>2, <1>4, Zenon DEF Capacity, Items
<1>6. Fifo!Clear(q)
  BY <1>1, <1>5, Zenon DEF Fifo!Clear, Items, Capacity
<1>. QED  BY <1>3, <1>6, Zenon DEF Fifo!Next

\* The calls on buffers preserve the invariant.
LEMMA BufferStepInv ==
  ASSUME QueueInv, NEW c \in Callers, BufferStep(c)
  PROVE  QueueInv' /\ Fifo!Next
<1>1. ASSUME NEW q \in Queues, q \notin EventQueues \/ OwnUse(c, q), Executes(c)
      PROVE  \A t \in Tasks : pc[t] = "queue" => pont_event[t] # q
  BY <1>1, NobodyPends, Zenon
<1>2. ASSUME NEW q \in Queues, q \notin EventQueues \/ OwnUse(c, q),
             NEW d \in Data, BufferWrite(c, q, d)
      PROVE  QueueInv' /\ Fifo!Next
  <2>1. \A t \in Tasks : pc[t] = "queue" => pont_event[t] # q
    BY <1>1, <1>2, Zenon DEF BufferWrite
  <2>2. /\ ~Full(buffer[q]) /\ pdata' = pdata
        /\ buffer' = [buffer EXCEPT ![q] = Write(buffer[q], d)]
    BY <1>2, Zenon DEF BufferWrite
  <2>. QED  BY <1>2, <2>1, <2>2, WriteInv, WriteIsPut, Zenon
<1>3. ASSUME NEW q \in Queues, q \notin EventQueues \/ OwnUse(c, q), BufferRead(c, q)
      PROVE  QueueInv' /\ Fifo!Next
  <2>1. \A t \in Tasks : pc[t] = "queue" => pont_event[t] # q
    BY <1>1, <1>3, Zenon DEF BufferRead
  <2>2. /\ buffer[q].OSQEntries > 0 /\ pdata' = Front(buffer[q])
        /\ buffer' = [buffer EXCEPT ![q] = Read(buffer[q])]
    BY <1>3, Zenon DEF BufferRead
  <2>. QED  BY <1>3, <2>1, <2>2, ReadInv, ReadIsGet, Zenon
<1>4. ASSUME NEW q \in Queues, q \notin EventQueues \/ OwnUse(c, q), BufferClean(c, q)
      PROVE  QueueInv' /\ Fifo!Next
  <2>1. \A t \in Tasks : pc[t] = "queue" => pont_event[t] # q
    BY <1>1, <1>4, Zenon DEF BufferClean
  <2>. QED  BY <1>4, <2>1, CleanInv, Zenon
<1>5. PICK q \in Queues :
        /\ q \notin EventQueues \/ OwnUse(c, q)
        /\ \/ \E d \in Data : BufferWrite(c, q, d)
           \/ BufferRead(c, q) \/ BufferClean(c, q)
  BY QueueKinds, Zenon
  DEF BufferStep, OSWQueue, OSWQueue16, OSWQueue32, OSRQueue, OSRQueue16, OSRQueue32,
      OSQueueClean, OSDQueueClean, OSCleanQueue16, OSCleanQueue32
<1>. QED  BY <1>2, <1>3, <1>4, <1>5, Zenon

(***************************************************************************)
(* Creation and deletion of a queue nobody pends on.                       *)
(***************************************************************************)
LEMMA FreeHasNoWaiters ==
  ASSUME QueueInv, NEW q \in EventQueues, \A u \in Tasks : pont_event[u] # q
  PROVE  OSEventWaitList[q] = {} /\ OSEventWait[q] = 0
<1>1. OSEventWaitList[q] = {}
  BY Zenon DEF QueueInv, QueueEvents, EventInv
<1>2. Counts(OSEventWait[q], OSEventWaitList[q])
  BY Zenon DEF QueueInv, QueueEvents, EventInv
<1>. QED  BY <1>1, <1>2, CountZero, Zenon

\* A call that creates or deletes a queue without waiters.
LEMMA LifeInv ==
  ASSUME QueueInv, NEW q \in Queues, \A u \in Tasks : pont_event[u] # q,
         NEW size \in Nat, size < UINT16, NEW exists \in BOOLEAN,
         created' = [created EXCEPT ![q] = exists],
         buffer' = [buffer EXCEPT ![q] = EmptyBuffer(size)],
         \/ UNCHANGED eventVars
         \/ /\ q \in EventQueues
            /\ OSEventWait' = [OSEventWait EXCEPT ![q] = 0]
            /\ OSEventWaitList' = [OSEventWaitList EXCEPT ![q] = {}],
         UNCHANGED <<kernelVars, pendLocals, pdata>>
  PROVE  KernelInv' /\ QueueEvents' /\ QueueTypes' /\ BuffersInv' /\ ReceiverInv'
<1>1. KernelInv'
  BY KernelStepInv, Zenon DEF QueueInv
<1>2. OSEventWaitList' = OSEventWaitList /\ OSEventWait' = OSEventWait
  <2>1. CASE UNCHANGED eventVars
    BY <2>1, Zenon DEF eventVars
  <2>2. CASE /\ q \in EventQueues
             /\ OSEventWait' = [OSEventWait EXCEPT ![q] = 0]
             /\ OSEventWaitList' = [OSEventWaitList EXCEPT ![q] = {}]
    <3>1. OSEventWaitList[q] = {} /\ OSEventWait[q] = 0
      BY <2>2, FreeHasNoWaiters, Zenon
    <3>. QED  BY <2>2, <3>1, Zenon DEF QueueInv, QueueEvents, EventInv
  <2>. QED  BY <2>1, <2>2, Zenon
<1>3. UNCHANGED <<pc, DelayList, TimeToWait, OSReadyList, pont_event, timed, pdata>>
  BY Zenon DEF kernelVars, waitVars, pendLocals
<1>4. QueueEvents'
  <2>1. UNCHANGED <<pc, DelayList, TimeToWait, OSReadyList>>
    BY <1>3, Zenon
  <2>2. UNCHANGED <<OSEventWait, OSEventWaitList, pont_event, timed>>
    BY <1>2, <1>3, Zenon
  <2>. QED  BY <2>1, <2>2, EventSame, Zenon DEF QueueInv, QueueEvents
<1>5. QueueTypes'
  BY <1>3, Zenon DEF QueueInv, QueueTypes
<1>6. IsBuffer(EmptyBuffer(size)) /\ EmptyBuffer(size).OSQEntries = 0
  BY EmptyBufferIsEmpty, Zenon
<1>7. /\ DOMAIN buffer = Queues /\ created \in [Queues -> BOOLEAN]
      /\ \A r \in Queues : buffer'[r] = IF r = q THEN EmptyBuffer(size) ELSE buffer[r]
      /\ \A r \in Queues \ {q} : created'[r] = created[r]
  BY Zenon DEF QueueInv, BuffersInv, QueueTypes
<1>8. BuffersInv'
  BY <1>6, <1>7, Zenon DEF QueueInv, BuffersInv
<1>9. \A t \in Tasks : pc[t] = "queue" => pont_event[t] \in Queues \ {q}
  BY QueueKinds, Zenon DEF QueueInv, QueueEvents, EventInv, Waiter
<1>10. ReceiverInv'
  BY <1>2, <1>3, <1>7, <1>9, Zenon DEF QueueInv, ReceiverInv
<1>. QED  BY <1>1, <1>4, <1>5, <1>8, <1>10, Zenon

\* Nobody pends on a queue that does not exist.
LEMMA AbsentIsFree ==
  ASSUME QueueInv, NEW q \in Queues, ~created[q]
  PROVE  \A u \in Tasks : pont_event[u] # q
  BY QueueKinds, Zenon DEF QueueInv, ReceiverInv

\* What a creation is for QueueSpec.
LEMMA CreateIsSeen ==
  ASSUME QueueInv, NEW q \in Queues, ~created[q], NEW size \in Nat, size < UINT16,
         buffer' = [buffer EXCEPT ![q] = EmptyBuffer(size)], pdata' = pdata
  PROVE  Fifo!Next
<1>1. /\ Contents(EmptyBuffer(size)) = <<>>
      /\ EmptyBuffer(size).OSQSize = size
  BY EmptyBufferIsEmpty, Zenon
<1>2. /\ Capacity' = [Capacity EXCEPT ![q] = size]
      /\ Items' = [Items EXCEPT ![q] = <<>>]
  <2>1. /\ Capacity' = [Capacity EXCEPT ![q] = EmptyBuffer(size).OSQSize]
        /\ Items' = [Items EXCEPT ![q] = Contents(EmptyBuffer(size))]
    BY AccessIsSeen, Zenon DEF QueueInv
  <2>. QED  BY <1>1, <2>1, Zenon
<1>3. Items[q] = <<>>
  <2>1. buffer[q].OSQEntries = 0 /\ 1..0 = {}
    BY DEF QueueInv, BuffersInv
  <2>2. Contents(buffer[q]) = <<>>
    BY <2>1 DEF Contents
  <2>. QED  BY <2>2, Zenon DEF Items
<1>4. /\ Items' = Items /\ Capacity'[q] = size
      /\ Capacity' = [Capacity EXCEPT ![q] = Capacity'[q]]
  <2>1. Items' = Items
    BY <1>2, <1>3, Zenon DEF Items
  <2>2. Capacity'[q] = size
    BY <1>2, Zenon DEF Capacity
  <2>. QED  BY <1>2, <2>1, <2>2, Zenon
<1>5. Fifo!Create(q)
  BY <1>3, <1>4, Zenon DEF Fifo!Create, Items, Capacity
<1>. QED  BY <1>5, Zenon DEF Fifo!Next

\* OSDQueueDelete, of a queue no task is suspended on.
LEMMA DeleteInv ==
  ASSUME QueueInv, NEW t, NEW q \in Queues, OSDQueueDelete(t, q)
  PROVE  QueueInv' /\ Fifo!Next
<1>1. /\ q \in DynamicQueues /\ q \notin HeapQueues /\ q \in EventQueues
      /\ \A u \in Tasks : pont_event[u] # q
      /\ heapBlocks' = heapBlocks \ Blocks(q)
      /\ created' = [created EXCEPT ![q] = FALSE]
      /\ buffer' = [buffer EXCEPT ![q] = EmptyBuffer(0)]
      /\ OSEventWait' = [OSEventWait EXCEPT ![q] = 0]
      /\ OSEventWaitList' = [OSEventWaitList EXCEPT ![q] = {}]
      /\ UNCHANGED <<kernelVars, pendLocals, pdata>>
      /\ OSQStart' = OSQStart /\ iQueueAddress' = iQueueAddress
  BY QueueKinds, Zenon DEF OSDQueueDelete, EventQueues
<1>2. 0 \in Nat /\ 0 < UINT16
  BY SizeFacts, Zenon
<1>3. KernelInv' /\ QueueEvents' /\ QueueTypes' /\ BuffersInv' /\ ReceiverInv'
  BY <1>1, <1>2, LifeInv, Zenon
<1>4. StoreInv'
  <2>1. \A r \in HeapQueues : buffer'[r] = buffer[r] /\ created'[r] = created[r]
    BY <1>1, QueueKinds, Zenon DEF QueueInv, BuffersInv, QueueTypes
  <2>2. \A r \in HeapQueues : Extent(r)' = Extent(r)
    BY <2>1, Zenon DEF Extent, Words
  <2>. QED  BY <1>1, <2>1, <2>2, Zenon DEF QueueInv, StoreInv
<1>5. NoHeapLeak'
  BY <1>1 DEF QueueInv, NoHeapLeak, Blocks, QueueTypes, Queues, EventQueues
<1>6. Fifo!Delete(q)
  <2>1. Contents(EmptyBuffer(0)) = <<>> /\ EmptyBuffer(0).OSQSize = 0
    BY <1>2, EmptyBufferIsEmpty, Zenon
  <2>2. /\ Capacity' = [Capacity EXCEPT ![q] = 0]
        /\ Items' = [Items EXCEPT ![q] = <<>>]
    <3>1. /\ Capacity' = [Capacity EXCEPT ![q] = EmptyBuffer(0).OSQSize]
          /\ Items' = [Items EXCEPT ![q] = Contents(EmptyBuffer(0))]
      BY <1>1, AccessIsSeen, Zenon DEF QueueInv
    <3>. QED  BY <2>1, <3>1, Zenon
  <2>. QED  BY <1>1, <2>2, Zenon DEF Fifo!Delete, Items, Capacity
<1>. QED  BY <1>3, <1>4, <1>5, <1>6, Zenon DEF QueueInv, Fifo!Next

(***************************************************************************)
(* Taking words of QUEUE_STACK: the new queue lies behind the others.      *)
(***************************************************************************)
LEMMA WholeWords ==
  ASSUME NEW q, NEW size \in Nat, (size * EntryWidth(q)) % CPU_TYPE_SIZE = 0
  PROVE  /\ Words(q, size) \in Nat
         /\ Words(q, size) * CPU_TYPE_SIZE = size * EntryWidth(q)
<1>. DEFINE n == size * EntryWidth(q)
<1>1. n \in Nat /\ n % CPU_TYPE_SIZE = 0
  BY DEF EntryWidth
<1>2. Words(q, size) = n \div CPU_TYPE_SIZE
  BY Zenon DEF Words
<1>. HIDE DEF n
<1>3. n \div CPU_TYPE_SIZE \in Nat /\ (n \div CPU_TYPE_SIZE) * CPU_TYPE_SIZE = n
  <2>1. CASE CPU_TYPE_SIZE = 1
    BY <1>1, <2>1
  <2>2. CASE CPU_TYPE_SIZE = 2
    BY <1>1, <2>2
  <2>3. CASE CPU_TYPE_SIZE = 4
    BY <1>1, <2>3
  <2>. QED  BY <2>1, <2>2, <2>3, SizeFacts, Zenon
<1>. QED  BY <1>2, <1>3, Zenon DEF n

\* The words a creation takes lie behind those taken before.
LEMMA TakeWordsStore ==
  ASSUME QueueInv, NEW q \in HeapQueues, ~created[q], NEW size \in Nat,
         (size * EntryWidth(q)) % CPU_TYPE_SIZE = 0, TakeWordsOfHeap(q, size),
         size < UINT16
  PROVE  StoreInv'
<1>. DEFINE w == Words(q, size)
<1>1. w \in Nat /\ w * CPU_TYPE_SIZE = size * EntryWidth(q)
  BY WholeWords, Zenon
<1>2. /\ buffer' = [buffer EXCEPT ![q] = EmptyBuffer(size)]
      /\ created' = [created EXCEPT ![q] = TRUE]
      /\ OSQStart' = [OSQStart EXCEPT ![q] = iQueueAddress]
      /\ iQueueAddress' = (iQueueAddress + w) % UINT16
      /\ iQueueAddress + w <= QUEUE_HEAP_SIZE \div CPU_TYPE_SIZE
  BY Zenon DEF TakeWordsOfHeap
<1>3. iQueueAddress \in Nat /\ OSQStart \in [HeapQueues -> Nat]
  BY Zenon DEF QueueInv, StoreInv
<1>4. iQueueAddress' = iQueueAddress + w
  <2>. DEFINE a == iQueueAddress + w
  <2>1. a \in Nat /\ a < UINT16 /\ UINT16 \in Nat /\ UINT16 > 0
    BY <1>1, <1>2, <1>3, SizeFacts
  <2>. HIDE DEF a
  <2>2. a % UINT16 = a
    BY <2>1, SMT DEF UINT16
  <2>3. iQueueAddress' = a % UINT16
    BY <1>2, Zenon DEF a
  <2>. QED  BY <2>2, <2>3, Zenon DEF a
<1>5. /\ q \in Queues /\ EmptyBuffer(size).OSQSize = size
      /\ buffer'[q] = EmptyBuffer(size)
      /\ \A r \in HeapQueues \ {q} :
           r \in Queues /\ buffer'[r] = buffer[r] /\ created'[r] = created[r]
                        /\ OSQStart'[r] = OSQStart[r]
  BY <1>2, <1>3, QueueKinds, EmptyBufferIsEmpty, Zenon DEF QueueInv, BuffersInv, QueueTypes
<1>6. /\ Extent(q)' = w /\ buffer'[q].OSQSize = size
      /\ \A r \in HeapQueues \ {q} : Extent(r)' = Extent(r)
  BY <1>5, Zenon DEF Extent, Words
<1>. HIDE DEF w
<1>7. OSQStart'[q] = iQueueAddress /\ OSQStart' \in [HeapQueues -> Nat]
  BY <1>2, <1>3, Zenon
<1>8. iQueueAddress' \in Nat /\ iQueueAddress' <= QUEUE_HEAP_SIZE \div CPU_TYPE_SIZE
  BY <1>1, <1>2, <1>3, <1>4
<1>9. ASSUME NEW r \in HeapQueues \ {q}, created'[r]
      PROVE  /\ Extent(r) * CPU_TYPE_SIZE = buffer[r].OSQSize * EntryWidth(r)
             /\ OSQStart[r] + Extent(r) <= iQueueAddress
             /\ OSQStart[r] \in Nat /\ Extent(r) \in Nat
             /\ \A x \in HeapQueues \ {q, r} : created'[x] =>
                  \/ OSQStart[r] + Extent(r) <= OSQStart[x]
                  \/ OSQStart[x] + Extent(x) <= OSQStart[r]
  BY <1>3, <1>5, <1>9, Zenon DEF QueueInv, StoreInv
<1>10. ASSUME NEW r \in HeapQueues, created'[r]
       PROVE  /\ Extent(r)' \in Nat
              /\ Extent(r)' * CPU_TYPE_SIZE = buffer'[r].OSQSize * EntryWidth(r)
              /\ OSQStart'[r] + Extent(r)' <= iQueueAddress'
  <2>1. CASE r = q
    BY <1>1, <1>3, <1>4, <1>6, <1>7, <2>1
  <2>2. CASE r # q
    <3>1. OSQStart[r] + Extent(r) <= iQueueAddress + w
      BY <1>1, <1>3, <1>9, <1>10, <2>2
    <3>2. /\ Extent(r)' = Extent(r) /\ OSQStart'[r] = OSQStart[r]
          /\ buffer'[r].OSQSize = buffer[r].OSQSize
      BY <1>5, <1>6, <2>2, Zenon
    <3>. QED  BY <1>4, <1>9, <1>10, <2>2, <3>1, <3>2, Zenon
  <2>. QED  BY <2>1, <2>2, Zenon
<1>11. ASSUME NEW r \in HeapQueues, created'[r],
              NEW x \in HeapQueues \ {r}, created'[x]
       PROVE  \/ OSQStart'[r] + Extent(r)' <= OSQStart'[x]
              \/ OSQStart'[x] + Extent(x)' <= OSQStart'[r]
  <2>1. CASE r = q
    BY <1>5, <1>6, <1>7, <1>9, <1>11, <2>1, Zenon
  <2>2. CASE x = q
    BY <1>5, <1>6, <1>7, <1>9, <1>11, <2>2, Zenon
  <2>3. CASE r # q /\ x # q
    BY <1>5, <1>6, <1>9, <1>11, <2>3, Zenon
  <2>. QED  BY <2>1, <2>2, <2>3, Zenon
<1>. QED  BY <1>7, <1>8, <1>10, <1>11, Zenon DEF StoreInv

\* A creation in QUEUE_STACK preserves the invariant.
LEMMA TakeWordsInv ==
  ASSUME QueueInv, NEW q \in HeapQueues, ~created[q],
         NEW size \in Nat, size < UINT16,
         (size * EntryWidth(q)) % CPU_TYPE_SIZE = 0, TakeWordsOfHeap(q, size),
         \/ UNCHANGED eventVars
         \/ /\ q \in EventQueues
            /\ OSEventWait' = [OSEventWait EXCEPT ![q] = 0]
            /\ OSEventWaitList' = [OSEventWaitList EXCEPT ![q] = {}]
  PROVE  QueueInv' /\ Fifo!Next
<1>1. /\ created' = [created EXCEPT ![q] = TRUE]
      /\ buffer' = [buffer EXCEPT ![q] = EmptyBuffer(size)]
      /\ UNCHANGED <<kernelVars, pendLocals, pdata>>
      /\ heapBlocks' = heapBlocks
  BY Zenon DEF TakeWordsOfHeap
<1>2. q \in Queues /\ q \notin DynamicQueues
  BY QueueKinds, Zenon DEF HeapQueues
<1>3. \A u \in Tasks : pont_event[u] # q
  BY <1>2, AbsentIsFree, Zenon
<1>4. KernelInv' /\ QueueEvents' /\ QueueTypes' /\ BuffersInv' /\ ReceiverInv'
  BY <1>1, <1>2, <1>3, LifeInv, Zenon
<1>5. StoreInv'
  BY TakeWordsStore, Zenon
<1>6. NoHeapLeak'
  <2>1. \A d \in DynamicQueues : created'[d] = created[d]
    BY <1>1, <1>2, Zenon DEF QueueInv, QueueTypes, Queues, EventQueues
  <2>. QED  BY <1>1, <2>1, Zenon DEF QueueInv, NoHeapLeak
<1>7. Fifo!Next
  BY <1>1, <1>2, CreateIsSeen, Zenon
<1>. QED  BY <1>4, <1>5, <1>6, <1>7, Zenon DEF QueueInv

\* OSDQueueCreate, and its failures half way.
LEMMA DynamicCreateInv ==
  ASSUME QueueInv, NEW t, NEW q \in Queues, NEW size \in Nat, size < UINT16,
         OSDQueueCreate(t, q, size)
  PROVE  QueueInv' /\ Fifo!Next
<1>1. /\ q \in DynamicQueues /\ q \notin HeapQueues /\ q \in EventQueues /\ ~created[q]
      /\ heapBlocks' = heapBlocks \cup Blocks(q)
      /\ created' = [created EXCEPT ![q] = TRUE]
      /\ buffer' = [buffer EXCEPT ![q] = EmptyBuffer(size)]
      /\ OSEventWait' = [OSEventWait EXCEPT ![q] = 0]
      /\ OSEventWaitList' = [OSEventWaitList EXCEPT ![q] = {}]
      /\ UNCHANGED <<kernelVars, pendLocals, pdata>>
      /\ OSQStart' = OSQStart /\ iQueueAddress' = iQueueAddress
  BY QueueKinds, Zenon DEF OSDQueueCreate, EventQueues
<1>2. \A u \in Tasks : pont_event[u] # q
  BY <1>1, AbsentIsFree, Zenon
<1>3. KernelInv' /\ QueueEvents' /\ QueueTypes' /\ BuffersInv' /\ ReceiverInv'
  BY <1>1, <1>2, LifeInv, Zenon
<1>4. StoreInv'
  <2>1. \A r \in HeapQueues : buffer'[r] = buffer[r] /\ created'[r] = created[r]
    BY <1>1, QueueKinds, Zenon DEF QueueInv, BuffersInv, QueueTypes
  <2>2. \A r \in HeapQueues : Extent(r)' = Extent(r)
    BY <2>1, Zenon DEF Extent, Words
  <2>. QED  BY <1>1, <2>1, <2>2, Zenon DEF QueueInv, StoreInv
<1>5. NoHeapLeak'
  BY <1>1, Zenon DEF QueueInv, NoHeapLeak, QueueTypes, Queues, EventQueues
<1>6. Fifo!Next
  BY <1>1, CreateIsSeen, Zenon
<1>. QED  BY <1>3, <1>4, <1>5, <1>6, Zenon DEF QueueInv

\* A failing creation keeps nothing.
LEMMA CreateFailsInv ==
  ASSUME QueueInv, NEW t, NEW q \in Queues, OSDQueueCreateFails(t, q)
  PROVE  UNCHANGED vars
<1>1. PICK taken \in {{}, {<<q, "cqueue">>}, {<<q, "cqueue">>, <<q, "OSQStart">>}} :
        heapBlocks' = (heapBlocks \cup taken) \ taken
  BY Zenon DEF OSDQueueCreateFails, Dealloc
<1>2. taken \subseteq Blocks(q)
  BY <1>1 DEF Blocks
<1>3. heapBlocks \cap Blocks(q) = {}
  <2>1. ~created[q] /\ heapBlocks = UNION {Blocks(d) : d \in {e \in DynamicQueues : created[e]}}
    BY Zenon DEF QueueInv, NoHeapLeak, OSDQueueCreateFails
  <2>2. ASSUME NEW x \in heapBlocks, x \in Blocks(q)
        PROVE  FALSE
    <3>1. PICK d \in DynamicQueues : created[d] /\ x \in Blocks(d)
      BY <2>1, Zenon
    <3>2. x[1] = d /\ x[1] = q
      BY <2>2, <3>1, Zenon DEF Blocks
    <3>. QED  BY <2>1, <3>1, <3>2, Zenon
  <2>. QED  BY <2>2, Zenon
<1>4. heapBlocks' = heapBlocks
  BY <1>1, <1>2, <1>3, Zenon
<1>. QED  BY <1>4, Zenon DEF OSDQueueCreateFails, vars, queueVars, storeVars

\* Every creation preserves the invariant.
LEMMA CreateStepInv ==
  ASSUME QueueInv, NEW t, CreateStep(t)
  PROVE  (QueueInv' /\ Fifo!Next) \/ UNCHANGED vars
<1>1. ASSUME NEW size \in CreateSizes
      PROVE  size \in Nat /\ size < UINT16
  <2>1. size \in 0..(UINT16 - 1) /\ UINT16 \in Nat
    BY QueueAssumption, SizeFacts, Zenon
  <2>. QED  BY <2>1
<1>2. ASSUME NEW q \in Queues, NEW size \in CreateSizes, OSQueueCreate(t, q, size)
      PROVE  QueueInv' /\ Fifo!Next
  <2>1. /\ q \in TableQueues /\ ~created[q] /\ TakeWordsOfHeap(q, RoundedUp(size))
        /\ OSEventWait' = [OSEventWait EXCEPT ![q] = 0]
        /\ OSEventWaitList' = [OSEventWaitList EXCEPT ![q] = {}]
    BY <1>2, Zenon DEF OSQueueCreate
  <2>2. q \in HeapQueues /\ q \in EventQueues /\ EntryWidth(q) = 1
    BY <2>1, QueueKinds, Zenon DEF HeapQueues, EventQueues, EntryWidth
  <2>3. /\ RoundedUp(size) \in Nat /\ RoundedUp(size) < UINT16
        /\ RoundedUp(size) % CPU_TYPE_SIZE = 0
    BY <1>1, RoundedFits, Zenon
  <2>4. (RoundedUp(size) * EntryWidth(q)) % CPU_TYPE_SIZE = 0
    BY <2>2, <2>3
  <2>. QED  BY <2>1, <2>2, <2>3, <2>4, TakeWordsInv, Zenon
<1>3. ASSUME NEW q \in Queues, NEW size \in CreateSizes, OSQueue16Create(t, q, size)
      PROVE  QueueInv' /\ Fifo!Next
  <2>1. /\ q \in Buffers16 /\ ~created[q] /\ TakeWordsOfHeap(q, Rounded16(size))
        /\ UNCHANGED eventVars
    BY <1>3, Zenon DEF OSQueue16Create
  <2>2. q \in HeapQueues /\ EntryWidth(q) = 2
    BY <2>1, Zenon DEF HeapQueues, EntryWidth
  <2>3. /\ Rounded16(size) \in Nat /\ Rounded16(size) < UINT16
        /\ (Rounded16(size) * 2) % CPU_TYPE_SIZE = 0
    BY <1>1, RoundedFits, Zenon
  <2>4. (Rounded16(size) * EntryWidth(q)) % CPU_TYPE_SIZE = 0
    BY <2>2, <2>3, Zenon
  <2>. QED  BY <2>1, <2>2, <2>3, <2>4, TakeWordsInv, Zenon
<1>4. ASSUME NEW q \in Queues, NEW size \in CreateSizes, OSQueue32Create(t, q, size)
      PROVE  QueueInv' /\ Fifo!Next
  <2>1. /\ q \in Buffers32 /\ ~created[q] /\ TakeWordsOfHeap(q, size)
        /\ UNCHANGED eventVars
    BY <1>4, Zenon DEF OSQueue32Create
  <2>2. q \in HeapQueues /\ EntryWidth(q) = 4
    BY <2>1, QueueKinds, Zenon DEF HeapQueues, EntryWidth
  <2>3. \A n \in Nat : (n * 4) % 1 = 0 /\ (n * 4) % 2 = 0 /\ (n * 4) % 4 = 0
    OBVIOUS
  <2>4. (size * EntryWidth(q)) % CPU_TYPE_SIZE = 0
    <3>1. size \in Nat /\ CPU_TYPE_SIZE \in {1, 2, 4}
      BY <1>1, SizeFacts, Zenon
    <3>. QED  BY <2>2, <2>3, <3>1, Zenon
  <2>. QED  BY <1>1, <2>1, <2>2, <2>4, TakeWordsInv, Zenon
<1>. QED  BY <1>1, <1>2, <1>3, <1>4, DynamicCreateInv, CreateFailsInv, DeleteInv, Zenon
          DEF CreateStep

(***************************************************************************)
(* Pend.                                                                   *)
(***************************************************************************)
LEMMA FetchInv ==
  ASSUME Disciplined, QueueInv, NEW t \in Tasks, NEW q \in Queues, PendFetch(t, q)
  PROVE  QueueInv' /\ Fifo!Next
<1>1. t \in Receivers[q] /\ BufferRead(t, q) /\ Running(t)
  BY CallerFacts, Zenon DEF PendFetch, BufferRead, Executes
<1>2. \A u \in Tasks : pc[u] = "queue" => pont_event[u] # q
  BY <1>1, SoleReceiver, Zenon
<1>3. /\ buffer[q].OSQEntries > 0 /\ pdata' = Front(buffer[q])
      /\ buffer' = [buffer EXCEPT ![q] = Read(buffer[q])]
  BY <1>1, Zenon DEF BufferRead
<1>. QED  BY <1>1, <1>2, <1>3, ReadInv, ReadIsGet, Zenon

\* A pend on an empty queue suspends the caller.
LEMMA WaitInv ==
  ASSUME Disciplined, QueueInv, NEW t \in Tasks, NEW q \in EventQueues,
         NEW w \in PendTimes, PendWait(t, q, w)
  PROVE  QueueInv' /\ UNCHANGED Fifo!vars
<1>1. w \in 0..TICK_COUNT_OVERFLOW /\ w \in 0..MAX_TIMER
  BY QueueAssumption, Zenon DEF Disciplined, PendWait
<1>2. Running(t) /\ Suspend(t, w, "queue") /\ KernelInv /\ QueueEvents
  BY Zenon DEF PendWait, QueueInv
<1>3. KernelInv'
  <2>1. "queue" \in Services \ {"app"} /\ "queue" # "delay"
    BY Zenon DEF Services
  <2>. QED  BY <1>1, <1>2, <2>1, SuspendInv, Zenon
<1>4. /\ OSEventWait' = [OSEventWait EXCEPT ![q] = @ + 1]
      /\ OSEventWaitList' = [OSEventWaitList EXCEPT ![q] = @ \cup {Priority[t]}]
      /\ pont_event' = [pont_event EXCEPT ![t] = q]
      /\ timed' = [timed EXCEPT ![t] = w > 0]
      /\ UNCHANGED <<created, buffer, storeVars, pdata>>
      /\ created[q] /\ t \in Receivers[q] /\ ~(buffer[q].OSQEntries > 0)
  BY Zenon DEF PendWait
<1>5. QueueEvents'
  <2>1. "queue" \in EventServices
    BY CallerFacts, Zenon
  <2>2. /\ Running(t) /\ Suspend(t, w, "queue")
        /\ OSEventWait' = [OSEventWait EXCEPT ![q] = @ + 1]
        /\ OSEventWaitList' = [OSEventWaitList EXCEPT ![q] = @ \cup {Priority[t]}]
        /\ pont_event' = [pont_event EXCEPT ![t] = q]
        /\ timed' = [timed EXCEPT ![t] = w > 0]
    BY <1>2, <1>4, Zenon
  <2>3. KernelInv /\ QueueEvents
    BY <1>2, Zenon
  <2>. QED  BY <1>1, <2>1, <2>2, <2>3, EventWait, ZenonT(60) DEF QueueEvents
<1>6. /\ Priority[t] = PriorityOf(t)
      /\ \A u \in Tasks : PriorityOf(u) = PriorityOf(t) => u = t
      /\ pc' = [pc EXCEPT ![t] = "queue"] /\ pc \in [Tasks -> Services]
  BY <1>2, PriorityOfFacts, Zenon DEF KernelInv, TablesAgree, Suspend, KernelTypeOK
<1>7. QueueTypes'
  BY <1>4, Zenon DEF QueueInv, QueueTypes
<1>8. BuffersInv' /\ StoreInv' /\ NoHeapLeak'
  <2>1. UNCHANGED <<created, buffer, OSQStart, iQueueAddress, heapBlocks>>
    BY <1>4, Zenon DEF storeVars
  <2>2. \A r \in HeapQueues : Extent(r)' = Extent(r)
    BY <2>1, Zenon DEF Extent
  <2>3. BuffersInv' /\ NoHeapLeak'
    BY <2>1, Zenon DEF QueueInv, BuffersInv, NoHeapLeak
  <2>4. StoreInv'
    BY <2>1, <2>2, Zenon DEF QueueInv, StoreInv
  <2>. QED  BY <2>3, <2>4, Zenon
<1>9. buffer[q].OSQEntries = 0 /\ q \in Queues
  <2>1. q \in Queues /\ IsBuffer(buffer[q])
    BY QueueKinds, Zenon DEF QueueInv, BuffersInv
  <2>2. buffer[q].OSQEntries \in Nat
    BY <2>1, BufferFacts, Zenon
  <2>3. ~(buffer[q].OSQEntries > 0)
    BY <1>4, Zenon
  <2>4. buffer[q].OSQEntries = 0
    BY <2>2, <2>3
  <2>. QED  BY <2>1, <2>4, Zenon
<1>10. /\ pont_event'[t] = q /\ PriorityOf(t) \in OSEventWaitList'[q]
       /\ pc'[t] = "queue" /\ q # NULL
  BY <1>4, <1>6, <1>9, QueueKinds DEF QueueInv, QueueTypes, QueueEvents, EventInv
<1>11. ASSUME NEW u \in Tasks, u # t
       PROVE  /\ pont_event'[u] = pont_event[u] /\ pc'[u] = pc[u]
              /\ pont_event[u] \in EventQueues =>
                   (PriorityOf(u) \in OSEventWaitList'[pont_event[u]]
                      <=> PriorityOf(u) \in OSEventWaitList[pont_event[u]])
              /\ pc[u] = "queue" => pont_event[u] \in EventQueues
  BY <1>4, <1>6, <1>11 DEF QueueInv, QueueTypes, QueueEvents, EventInv, Waiter
<1>12. ReceiverInv'
  <2>1. UNCHANGED <<created, buffer>> /\ created[q] /\ t \in Receivers[q]
    BY <1>4, Zenon
  <2>2. /\ pont_event'[t] # NULL <=> pc'[t] = "queue"
        /\ created'[pont_event'[t]] /\ t \in Receivers[pont_event'[t]]
        /\ PriorityOf(t) \in OSEventWaitList'[pont_event'[t]]
             <=> buffer'[pont_event'[t]].OSQEntries = 0
    BY <1>9, <1>10, <2>1, Zenon
  <2>3. ASSUME NEW u \in Tasks, u # t
        PROVE  /\ pont_event'[u] # NULL <=> pc'[u] = "queue"
               /\ pc'[u] = "queue" =>
                    /\ created'[pont_event'[u]] /\ u \in Receivers[pont_event'[u]]
                    /\ PriorityOf(u) \in OSEventWaitList'[pont_event'[u]]
                         <=> buffer'[pont_event'[u]].OSQEntries = 0
    <3>1. /\ pont_event[u] # NULL <=> pc[u] = "queue"
          /\ pc[u] = "queue" =>
               /\ created[pont_event[u]] /\ u \in Receivers[pont_event[u]]
               /\ PriorityOf(u) \in OSEventWaitList[pont_event[u]]
                    <=> buffer[pont_event[u]].OSQEntries = 0
      BY Zenon DEF QueueInv, ReceiverInv
    <3>. QED  BY <1>11, <2>1, <2>3, <3>1, Zenon
  <2>. QED  BY <2>2, <2>3, Zenon DEF ReceiverInv
<1>13. UNCHANGED Fifo!vars
  BY <1>4, Zenon DEF Fifo!vars
<1>. QED  BY <1>3, <1>5, <1>7, <1>8, <1>12, <1>13, Zenon DEF QueueInv

\* What a return of Pend keeps: the other receivers have other queues.
LEMMA ReturnLocals ==
  ASSUME Disciplined, QueueInv, NEW t \in Tasks, pc[t] = "queue", PendReturn(t),
         \A u \in Tasks \ {t} : \A q \in EventQueues :
           PriorityOf(u) \in OSEventWaitList'[q] <=> PriorityOf(u) \in OSEventWaitList[q],
         \A q \in EventQueues \ {pont_event[t]} : buffer'[q] = buffer[q],
         pdata' \in Data \cup {NoData}
  PROVE  ReceiverInv' /\ QueueTypes'
<1>1. /\ pc' = [pc EXCEPT ![t] = "app"] /\ pc \in [Tasks -> Services]
      /\ pont_event' = [pont_event EXCEPT ![t] = NULL]
      /\ created' = created
  BY Zenon DEF PendReturn, QueueInv, KernelInv, KernelTypeOK
<1>2. QueueTypes'
  BY <1>1, Zenon DEF QueueInv, QueueTypes
<1>3. pont_event'[t] = NULL /\ pc'[t] = "app"
  BY <1>1, Zenon DEF QueueInv, QueueTypes
<1>4. ASSUME NEW u \in Tasks, u # t
      PROVE  /\ pont_event'[u] = pont_event[u] /\ pc'[u] = pc[u]
             /\ pc[u] = "queue" =>
                  pont_event[u] \in EventQueues \ {pont_event[t]}
  <2>1. pont_event'[u] = pont_event[u] /\ pc'[u] = pc[u]
    BY <1>1, <1>4, Zenon DEF QueueInv, QueueTypes
  <2>2. pc[u] = "queue" => pont_event[u] \in EventQueues /\ u \in Receivers[pont_event[u]]
    BY Zenon DEF QueueInv, QueueEvents, EventInv, Waiter, ReceiverInv
  <2>3. t \in Receivers[pont_event[t]]
    BY Zenon DEF QueueInv, ReceiverInv
  <2>4. ASSUME NEW q, q = pont_event[u], pc[u] = "queue"
        PROVE  q # pont_event[t]
    <3>1. q \in Queues /\ u \in Receivers[q]
      BY <2>2, <2>4, QueueKinds, Zenon
    <3>2. \A s \in Receivers[q] : s = u
      BY <3>1, Zenon DEF Disciplined
    <3>. QED  BY <1>4, <2>3, <3>2, Zenon
  <2>. QED  BY <2>1, <2>2, <2>4, Zenon
<1>5. ReceiverInv'
  BY <1>1, <1>3, <1>4 DEF QueueInv, ReceiverInv
<1>. QED  BY <1>2, <1>5, Zenon

\* A pend returns TIMEOUT.
LEMMA TimeoutInv ==
  ASSUME Disciplined, QueueInv, NEW t \in Tasks, PendTimeout(t)
  PROVE  QueueInv' /\ UNCHANGED Fifo!vars
<1>1. /\ Resumed(t, "queue") /\ pc[t] = "queue" /\ KernelInv /\ QueueEvents
      /\ "queue" \in EventServices
  BY CallerFacts, Zenon DEF PendTimeout, Resumed, QueueInv
<1>2. Priority[t] = PriorityOf(t) /\ pont_event[t] \in EventQueues
  BY <1>1, EventResumed, Zenon DEF QueueEvents
<1>3. /\ PriorityOf(t) \in OSEventWaitList[pont_event[t]] /\ timed[t]
      /\ TimeToWait[t] = EXIT_BY_TIMEOUT
      /\ OSEventWait' = [OSEventWait EXCEPT ![pont_event[t]] = @ - 1]
      /\ OSEventWaitList' = [OSEventWaitList EXCEPT ![pont_event[t]] = @ \ {PriorityOf(t)}]
      /\ pc' = [pc EXCEPT ![t] = "app"]
      /\ UNCHANGED <<OSReadyList, DelayList, TimeToWait>>
      /\ UNCHANGED <<tickVars, prioVars, currentTask, OSReadyList,
                     OSBlockedList, pendSV, ticksLeft>>
      /\ pont_event' = [pont_event EXCEPT ![t] = NULL]
      /\ timed' = [timed EXCEPT ![t] = FALSE]
  BY <1>2, Zenon DEF PendTimeout, TimedOut, PendReturn
<1>4. QueueEvents'
  BY <1>1, <1>3, EventTimeout, Zenon DEF QueueEvents
<1>5. KernelInv'
  <2>1. DelayList' = DelayList \ {t} /\ TimeToWait' \in [Tasks -> 0..MAX_TIMER]
    BY <1>1, <1>3 DEF QueueEvents, EventInv, Waiter, KernelInv, KernelTypeOK
  <2>. QED  BY <1>1, <1>3, <2>1, ServiceReturnInv, Zenon
<1>6. UNCHANGED <<created, buffer, OSQStart, iQueueAddress, heapBlocks, pdata>>
  BY Zenon DEF PendTimeout, PendReturn, storeVars
<1>7. \A u \in Tasks \ {t} : \A q \in EventQueues :
        PriorityOf(u) \in OSEventWaitList'[q] <=> PriorityOf(u) \in OSEventWaitList[q]
  BY <1>2, <1>3, PriorityOfFacts, Zenon DEF QueueInv, QueueEvents, EventInv
<1>8. ReceiverInv' /\ QueueTypes'
  <2>1. PendReturn(t) /\ pdata' \in Data \cup {NoData}
    BY <1>6, Zenon DEF PendTimeout, QueueInv, QueueTypes
  <2>. QED  BY <1>1, <1>6, <1>7, <2>1, ReturnLocals, Zenon
<1>9. BuffersInv' /\ StoreInv' /\ NoHeapLeak'
  <2>1. \A r \in HeapQueues : Extent(r)' = Extent(r)
    BY <1>6, Zenon DEF Extent
  <2>2. BuffersInv' /\ NoHeapLeak'
    BY <1>6, Zenon DEF QueueInv, BuffersInv, NoHeapLeak
  <2>3. StoreInv'
    BY <1>6, <2>1, Zenon DEF QueueInv, StoreInv
  <2>. QED  BY <2>2, <2>3, Zenon
<1>10. UNCHANGED Fifo!vars
  BY <1>6, Zenon DEF Fifo!vars
<1>. QED  BY <1>4, <1>5, <1>8, <1>9, <1>10, Zenon DEF QueueInv

\* A resumed Pend that did not time out finds an entry.
LEMMA ResumedReadInv ==
  ASSUME Disciplined, QueueInv, NEW t \in Tasks, PendRead(t)
  PROVE  QueueInv' /\ Fifo!Next
<1>1. /\ Resumed(t, "queue") /\ pc[t] = "queue" /\ KernelInv /\ QueueEvents
      /\ "queue" \in EventServices
  BY CallerFacts, Zenon DEF PendRead, Resumed, QueueInv
<1>2. Priority[t] = PriorityOf(t) /\ pont_event[t] \in EventQueues
      /\ PriorityOf(t) \notin OSEventWaitList[pont_event[t]]
  <2>1. /\ Priority[t] = PriorityOf(t) /\ pont_event[t] \in EventQueues
        /\ \/ Priority[t] \notin OSEventWaitList[pont_event[t]]
           \/ timed[t] /\ TimeToWait[t] = EXIT_BY_TIMEOUT
    BY <1>1, EventResumed, Zenon DEF QueueEvents
  <2>2. ~TimedOut(t)
    BY Zenon DEF PendRead
  <2>. QED  BY <2>1, <2>2, Zenon DEF TimedOut
<1>. PICK q \in Queues : q = pont_event[t]
  BY <1>2, QueueKinds, Zenon
<1>3. /\ pc' = [pc EXCEPT ![t] = "app"]
      /\ UNCHANGED <<tickVars, prioVars, currentTask, OSReadyList,
                     OSBlockedList, pendSV, ticksLeft>>
      /\ OSReadyList' = OSReadyList
      /\ pont_event' = [pont_event EXCEPT ![t] = NULL]
      /\ timed' = [timed EXCEPT ![t] = FALSE]
      /\ OSEventWait' = OSEventWait /\ OSEventWaitList' = OSEventWaitList
  BY Zenon DEF PendRead, PendReturn, eventVars
<1>4. /\ DelayList' = DelayList \ {t} /\ TimeToWait' \in [Tasks -> 0..MAX_TIMER]
      /\ \A u \in Tasks \ {t} : TimeToWait'[u] = TimeToWait[u]
  <2>1. NO_TIMEOUT \in 0..MAX_TIMER /\ TimeToWait \in [Tasks -> 0..MAX_TIMER]
    BY <1>1, KernelAssumption DEF NO_TIMEOUT, KernelInv, KernelTypeOK
  <2>2. /\ timed[t] \in BOOLEAN
        /\ ~timed[t] \/ TimeToWait[t] = EXIT_BY_TIMEOUT => t \notin DelayList
    BY <1>1, Zenon DEF QueueEvents, EventInv, Waiter
  <2>. QED  BY <2>1, <2>2, Zenon DEF PendRead, RemoveFromDelayList
<1>5. QueueEvents'
  BY <1>1, <1>2, <1>3, <1>4, EventReturn, Zenon DEF QueueEvents
<1>6. KernelInv'
  BY <1>1, <1>3, <1>4, ServiceReturnInv, Zenon
<1>7. /\ created[q] /\ IsBuffer(buffer[q]) /\ buffer[q].OSQEntries > 0
      /\ buffer' = [buffer EXCEPT ![q] = Read(buffer[q])]
      /\ pdata' = Front(buffer[q])
      /\ UNCHANGED <<created, storeVars>> /\ heapBlocks' = heapBlocks
  <2>1. /\ created[q] /\ IsBuffer(buffer[q]) /\ buffer[q].OSQEntries # 0
    BY <1>1, <1>2, Zenon DEF QueueInv, ReceiverInv, BuffersInv
  <2>2. buffer[q].OSQEntries \in Nat
    BY <2>1, BufferFacts, Zenon
  <2>. QED  BY <2>1, <2>2 DEF PendRead, PendReturn, storeVars
<1>8. /\ IsBuffer(Read(buffer[q])) /\ Front(buffer[q]) \in Data
      /\ Read(buffer[q]).OSQSize = buffer[q].OSQSize
  BY <1>7, ReadTakesOldest, Zenon
<1>9. BuffersInv' /\ StoreInv'
  BY <1>7, <1>8, AccessKeepsStore, Zenon DEF QueueInv
<1>10. NoHeapLeak'
  BY <1>7, Zenon DEF QueueInv, NoHeapLeak
<1>11. ReceiverInv' /\ QueueTypes'
  <2>1. \A r \in EventQueues \ {pont_event[t]} : buffer'[r] = buffer[r]
    BY <1>7, QueueKinds, Zenon DEF QueueInv, BuffersInv
  <2>2. PendReturn(t) /\ pdata' \in Data \cup {NoData}
    BY <1>7, <1>8, Zenon DEF PendRead
  <2>. QED  BY <1>1, <1>3, <2>1, <2>2, ReturnLocals, Zenon
<1>12. Fifo!Next
  BY <1>7, ReadIsGet, Zenon
<1>. QED  BY <1>5, <1>6, <1>9, <1>10, <1>11, <1>12, Zenon DEF QueueInv

(***************************************************************************)
(* Post.                                                                   *)
(***************************************************************************)
LEMMA StoreStepInv ==
  ASSUME QueueInv, NEW c, NEW q \in EventQueues, NEW d \in Data, PostStore(c, q, d)
  PROVE  QueueInv' /\ Fifo!Next
<1>1. OSEventWaitList[q] = {}
  <2>1. Counts(0, OSEventWaitList[q])
    BY Zenon DEF PostStore, QueueInv, QueueEvents, EventInv
  <2>. QED  BY <2>1, CountZero, Zenon
<1>2. /\ q \in Queues /\ BufferWrite(c, q, d) /\ ~Full(buffer[q]) /\ pdata' = pdata
      /\ buffer' = [buffer EXCEPT ![q] = Write(buffer[q], d)]
  BY QueueKinds, Zenon DEF PostStore, BufferWrite
<1>. QED  BY <1>1, <1>2, WriteInv, WriteIsPut, Zenon

\* A post stores the entry and wakes the receiver.
LEMMA WakeStepInv ==
  ASSUME Disciplined, QueueInv, NEW c, NEW q \in EventQueues, NEW d \in Data,
         PostWake(c, q, d)
  PROVE  QueueInv' /\ Fifo!Next
<1>1. KernelInv /\ QueueEvents /\ "queue" \in EventServices /\ OSEventWait[q] # 0
  BY CallerFacts, Zenon DEF QueueInv, PostWake
<1>2. PICK t \in Tasks :
        /\ IsHighest(PriorityOf(t), OSEventWaitList[q])
        /\ SAScheduler(OSEventWaitList[q]) = PriorityOf(t)
        /\ pc[t] = "queue" /\ pont_event[t] = q
  <2>1. /\ IsHighest(SAScheduler(OSEventWaitList[q]), OSEventWaitList[q])
        /\ \E t \in Tasks :
             /\ SAScheduler(OSEventWaitList[q]) = PriorityOf(t)
             /\ PriorityVector[PriorityOf(t)] = t
             /\ pc[t] = "queue" /\ pont_event[t] = q
    BY <1>1, EventHighest DEF QueueEvents
  <2>. QED  BY <2>1, Zenon
<1>3. /\ OSEventWaitList' = [OSEventWaitList EXCEPT ![q] = @ \ {PriorityOf(t)}]
      /\ OSReadyList' = OSReadyList \cup {PriorityOf(t)}
      /\ OSEventWait' = [OSEventWait EXCEPT ![q] = @ - 1]
      /\ ChangeContext
      /\ UNCHANGED <<tickVars, waitVars, prioVars, currentTask, OSBlockedList, pc>>
  BY <1>2, Zenon DEF PostWake
<1>4. KernelInv'
  BY <1>1, <1>2, <1>3, WakeInv, Zenon
<1>5. /\ q \in Queues /\ created[q] /\ ~Full(buffer[q]) /\ IsBuffer(buffer[q])
      /\ buffer' = [buffer EXCEPT ![q] = Write(buffer[q], d)]
      /\ UNCHANGED <<created, storeVars>> /\ heapBlocks' = heapBlocks
      /\ pont_event' = pont_event /\ timed' = timed /\ pdata' = pdata
  BY QueueKinds, Zenon DEF PostWake, QueueInv, BuffersInv, storeVars, pendLocals
<1>6. QueueEvents'
  <2>1. UNCHANGED <<pc, DelayList, TimeToWait>> /\ pont_event' = pont_event
        /\ timed' = timed
    BY <1>3, <1>5, Zenon DEF waitVars
  <2>2. /\ OSReadyList' = OSReadyList \cup {SAScheduler(OSEventWaitList[q])}
        /\ OSEventWaitList' =
             [OSEventWaitList EXCEPT ![q] = @ \ {SAScheduler(OSEventWaitList[q])}]
        /\ OSEventWait' = [OSEventWait EXCEPT ![q] = @ - 1]
    BY <1>2, <1>3, Zenon
  <2>. QED  BY <1>1, <2>1, <2>2, EventPost, Zenon DEF QueueEvents
<1>7. /\ IsBuffer(Write(buffer[q], d))
      /\ Write(buffer[q], d).OSQSize = buffer[q].OSQSize
      /\ Write(buffer[q], d).OSQEntries # 0
  <2>1. /\ IsBuffer(Write(buffer[q], d))
        /\ Write(buffer[q], d).OSQSize = buffer[q].OSQSize
        /\ Write(buffer[q], d).OSQEntries = buffer[q].OSQEntries + 1
    BY <1>5, WriteAppends, Zenon
  <2>2. buffer[q].OSQEntries \in Nat
    BY <1>5, BufferFacts, Zenon
  <2>. QED  BY <2>1, <2>2
<1>8. BuffersInv' /\ StoreInv'
  BY <1>5, <1>7, AccessKeepsStore, Zenon DEF QueueInv
<1>9. QueueTypes' /\ NoHeapLeak'
  BY <1>5, Zenon DEF QueueInv, QueueTypes, NoHeapLeak
<1>10. ASSUME NEW u \in Tasks, pc[u] = "queue"
       PROVE  PriorityOf(u) \in OSEventWaitList'[pont_event[u]]
                <=> buffer'[pont_event[u]].OSQEntries = 0
  <2>1. pont_event[u] \in EventQueues /\ pont_event[u] \in Queues
        /\ u \in Receivers[pont_event[u]]
    BY <1>10, QueueKinds, Zenon DEF QueueInv, QueueEvents, EventInv, Waiter, ReceiverInv
  <2>2. CASE u = t
    <3>1. /\ OSEventWaitList'[q] = OSEventWaitList[q] \ {PriorityOf(t)}
          /\ buffer'[q] = Write(buffer[q], d)
      BY <1>3, <1>5, Zenon DEF QueueInv, QueueEvents, EventInv, BuffersInv
    <3>. QED  BY <1>2, <1>7, <2>2, <3>1, Zenon
  <2>3. CASE u # t
    <3>1. pont_event[u] # q
      <4>1. t \in Receivers[q]
        BY <1>2, Zenon DEF QueueInv, ReceiverInv
      <4>2. \A s \in Receivers[q] : s = t
        BY <1>5, <4>1, Zenon DEF Disciplined
      <4>. QED  BY <2>1, <2>3, <4>2, Zenon
    <3>2. /\ OSEventWaitList'[pont_event[u]] = OSEventWaitList[pont_event[u]]
          /\ buffer'[pont_event[u]] = buffer[pont_event[u]]
      BY <1>3, <1>5, <2>1, <3>1, Zenon DEF QueueInv, QueueEvents, EventInv, BuffersInv
    <3>. QED  BY <1>10, <3>2, Zenon DEF QueueInv, ReceiverInv
  <2>. QED  BY <2>2, <2>3, Zenon
<1>11. ReceiverInv'
  BY <1>3, <1>5, <1>10, Zenon DEF QueueInv, ReceiverInv
<1>12. Fifo!Next
  BY <1>5, WriteIsPut, Zenon
<1>. QED  BY <1>4, <1>6, <1>8, <1>9, <1>11, <1>12, Zenon DEF QueueInv

(***************************************************************************)
(* Every step preserves the invariant, and is a step of QueueSpec or none. *)
(***************************************************************************)
LEMMA CoreStepInv ==
  ASSUME QueueInv, [KernelNext]_kernelVars, UNCHANGED queueVars
  PROVE  QueueInv' /\ UNCHANGED Fifo!vars
<1>1. KernelInv'
  BY KernelStepInv, Zenon DEF QueueInv
<1>2. /\ UNCHANGED <<created, buffer, OSQStart, iQueueAddress, heapBlocks,
                     OSEventWait, OSEventWaitList, pont_event, timed, pdata>>
  BY Zenon DEF queueVars, storeVars, eventVars, pendLocals
<1>3. QueueEvents'
  <2>1. "queue" \in EventServices /\ KernelInv /\ QueueEvents
    BY CallerFacts, Zenon DEF QueueInv
  <2>2. UNCHANGED <<OSEventWait, OSEventWaitList, pont_event, timed>>
    BY <1>2, Zenon
  <2>. QED  BY <2>1, <2>2, EventCoreStep, Zenon DEF QueueEvents
<1>4. \A t \in Tasks : pc'[t] = "queue" <=> pc[t] = "queue"
  BY CallerFacts, CoreKeepsWaiters, Zenon DEF QueueInv
<1>5. QueueTypes' /\ BuffersInv' /\ NoHeapLeak'
  BY <1>2, Zenon DEF QueueInv, QueueTypes, BuffersInv, NoHeapLeak
<1>6. ReceiverInv'
  BY <1>2, <1>4, Zenon DEF QueueInv, ReceiverInv
<1>7. StoreInv'
  <2>1. \A r \in HeapQueues : Extent(r)' = Extent(r)
    BY <1>2, Zenon DEF Extent
  <2>. QED  BY <1>2, <2>1, Zenon DEF QueueInv, StoreInv
<1>8. UNCHANGED Fifo!vars
  BY <1>2, Zenon DEF Fifo!vars
<1>. QED  BY <1>1, <1>3, <1>5, <1>6, <1>7, <1>8, Zenon DEF QueueInv

\* Every step preserves the invariant, and is one of QueueSpec or none.
LEMMA QueueStepInv ==
  ASSUME Disciplined, QueueInv, [Next]_vars
  PROVE  QueueInv' /\ [Fifo!Next]_(Fifo!vars)
<1>1. CASE UNCHANGED vars
  BY <1>1, CoreStepInv, Zenon DEF vars
<1>2. CASE CoreStep
  BY <1>2, CoreStepInv, Zenon DEF CoreStep
<1>3. ASSUME NEW t \in Tasks, CreateStep(t)
      PROVE  QueueInv' /\ [Fifo!Next]_(Fifo!vars)
  BY <1>1, <1>3, CreateStepInv, Zenon
<1>4. ASSUME NEW t \in Tasks, PendStep(t)
      PROVE  QueueInv' /\ [Fifo!Next]_(Fifo!vars)
  <2>1. \/ \E q \in EventQueues : \E w \in PendTimes : Pend(t, q, w)
        \/ PendResume(t)
    BY <1>4, Zenon DEF PendStep, OSQueuePend, OSDQueuePend, OSQueuePendResume,
                OSDQueuePendResume, EventQueues
  <2>. QED  BY <2>1, QueueKinds, FetchInv, WaitInv, TimeoutInv, ResumedReadInv, Zenon
            DEF Pend, PendResume
<1>5. ASSUME NEW c \in Callers, BufferStep(c)
      PROVE  QueueInv' /\ [Fifo!Next]_(Fifo!vars)
  BY <1>5, BufferStepInv, Zenon
<1>6. ASSUME NEW c \in Callers, PostStep(c)
      PROVE  QueueInv' /\ [Fifo!Next]_(Fifo!vars)
  <2>1. \E q \in EventQueues : \E d \in Data : Post(c, q, d)
    BY <1>6, Zenon DEF PostStep, OSQueuePost, OSDQueuePost, EventQueues
  <2>. QED  BY <2>1, WakeStepInv, StoreStepInv, Zenon DEF Post
<1>. QED  BY <1>1, <1>2, <1>3, <1>4, <1>5, <1>6, Zenon DEF Next

(***************************************************************************)
(* QueueInv is an invariant of the queues (queue.c).                       *)
(***************************************************************************)
THEOREM QueueInvariant ==
  ASSUME Disciplined
  PROVE  Spec => []QueueInv
<1>1. Init => QueueInv
  BY QueueInitInv, Zenon
<1>2. QueueInv /\ [Next]_vars => QueueInv'
  BY QueueStepInv, Zenon
<1>. QED  BY <1>1, <1>2, PTL DEF Spec

(***************************************************************************)
(* The counter and the pointers of every buffer agree, for every size and  *)
(* after every sequence of calls.                                          *)
(***************************************************************************)
THEOREM QueueBuffersWellFormed ==
  ASSUME Disciplined
  PROVE  Spec => []BuffersWellFormed
<1>1. QueueInv => BuffersWellFormed
  BY Zenon DEF QueueInv, BuffersInv, IsBuffer, BuffersWellFormed
<1>. QED  BY <1>1, QueueInvariant, PTL

(***************************************************************************)
(* A receiver resumes without a timeout exactly when there is data for it: *)
(* the read without a test of OSQEntries in OSQueuePend and OSDQueuePend   *)
(* never reads an empty queue.                                             *)
(***************************************************************************)
THEOREM QueueDataReachesReceiver ==
  ASSUME Disciplined
  PROVE  Spec => []DataReachesReceiver
<1>1. QueueInv => DataReachesReceiver
  BY PriorityOfFacts
  DEF QueueInv, ReceiverInv, DataReachesReceiver, KernelInv, TablesAgree
<1>. QED  BY <1>1, QueueInvariant, PTL

(***************************************************************************)
(* A failed creation of a dynamic queue leaks no block, and a deletion     *)
(* gives back all three.                                                   *)
(***************************************************************************)
THEOREM QueueNoHeapLeak ==
  ASSUME Disciplined
  PROVE  Spec => []NoHeapLeak
<1>1. QueueInv => NoHeapLeak
  BY Zenon DEF QueueInv
<1>. QED  BY <1>1, QueueInvariant, PTL

(***************************************************************************)
(* The storage of the queues in QUEUE_STACK never overlaps nor exceeds it, *)
(* for every word size of the CPU and every sequence of sizes, those whose *)
(* rounding wraps in 16 bits included.                                     *)
(***************************************************************************)
THEOREM QueueStorageIsDisjoint ==
  ASSUME Disciplined
  PROVE  Spec => []StorageIsDisjoint
<1>1. QueueInv => StorageIsDisjoint
  <2>. SUFFICES ASSUME QueueInv, NEW q \in HeapQueues, created[q]
                PROVE  /\ Bytes(q) \subseteq 0..(QUEUE_HEAP_SIZE - 1)
                       /\ \A r \in HeapQueues \ {q} :
                            created[r] => Bytes(q) \cap Bytes(r) = {}
    BY Zenon DEF StorageIsDisjoint
  <2>. DEFINE First(h) == OSQStart[h] * CPU_TYPE_SIZE
              Last(h) == (OSQStart[h] + Extent(h)) * CPU_TYPE_SIZE - 1
  <2>1. ASSUME NEW h \in HeapQueues, created[h]
        PROVE  /\ OSQStart[h] \in Nat /\ Extent(h) \in Nat
               /\ Bytes(h) = First(h)..Last(h)
    <3>1. /\ OSQStart[h] \in Nat /\ Extent(h) \in Nat
          /\ Extent(h) * CPU_TYPE_SIZE = buffer[h].OSQSize * EntryWidth(h)
      BY <2>1, Zenon DEF QueueInv, StoreInv
    <3>2. Bytes(h) = First(h)..(First(h) + Extent(h) * CPU_TYPE_SIZE - 1)
      BY <3>1, Zenon DEF Bytes
    <3>3. First(h) + Extent(h) * CPU_TYPE_SIZE - 1 = Last(h)
      BY <3>1, SizeFacts
    <3>. QED  BY <3>1, <3>2, <3>3, Zenon
  <2>2. Bytes(q) \subseteq 0..(QUEUE_HEAP_SIZE - 1)
    <3>1. /\ OSQStart[q] + Extent(q) <= QUEUE_HEAP_SIZE \div CPU_TYPE_SIZE
      <4>1. /\ OSQStart[q] + Extent(q) <= iQueueAddress /\ iQueueAddress \in Nat
            /\ iQueueAddress <= QUEUE_HEAP_SIZE \div CPU_TYPE_SIZE
        BY Zenon DEF QueueInv, StoreInv
      <4>2. OSQStart[q] + Extent(q) \in Nat
        BY <2>1
      <4>3. QUEUE_HEAP_SIZE \div CPU_TYPE_SIZE \in Nat
        BY SizeFacts, Zenon
      <4>4. \A k, m, n \in Nat : k <= m /\ m <= n => k <= n
        OBVIOUS
      <4>. QED  BY <4>1, <4>2, <4>3, <4>4, Zenon
    <3>2. First(q) >= 0 /\ Last(q) <= QUEUE_HEAP_SIZE - 1
          /\ First(q) \in Int /\ Last(q) \in Int
      BY <2>1, <3>1, SizeFacts
    <3>. HIDE DEF First, Last
    <3>. QED  BY <2>1, <3>2, SizeFacts
  <2>3. ASSUME NEW r \in HeapQueues \ {q}, created[r]
        PROVE  Bytes(q) \cap Bytes(r) = {}
    <3>1. \/ OSQStart[q] + Extent(q) <= OSQStart[r]
          \/ OSQStart[r] + Extent(r) <= OSQStart[q]
      BY <2>3, Zenon DEF QueueInv, StoreInv
    <3>2. /\ Last(q) < First(r) \/ Last(r) < First(q)
          /\ First(q) \in Int /\ Last(q) \in Int /\ First(r) \in Int /\ Last(r) \in Int
      <4>1. \A m, n \in Nat : /\ m * CPU_TYPE_SIZE \in Int
                              /\ m <= n => m * CPU_TYPE_SIZE - 1 < n * CPU_TYPE_SIZE
        BY SizeFacts
      <4>2. /\ OSQStart[q] \in Nat /\ OSQStart[q] + Extent(q) \in Nat
            /\ OSQStart[r] \in Nat /\ OSQStart[r] + Extent(r) \in Nat
        BY <2>1, <2>3
      <4>. QED  BY <3>1, <4>1, <4>2
    <3>3. Bytes(q) = First(q)..Last(q) /\ Bytes(r) = First(r)..Last(r)
      BY <2>1, <2>3, Zenon
    <3>. HIDE DEF First, Last
    <3>. QED  BY <3>2, <3>3
  <2>. QED  BY <2>2, <2>3, Zenon
<1>. QED  BY <1>1, QueueInvariant, PTL

(***************************************************************************)
(* Every queue and buffer is a bounded FIFO: each step of the code is a    *)
(* step of QueueSpec on one queue, or none.                                *)
(***************************************************************************)
THEOREM QueueRefines ==
  ASSUME Disciplined
  PROVE  Spec => ImplementsQueueSpec
<1>1. Init => Fifo!Init
  <2>. SUFFICES ASSUME Init
                PROVE  Fifo!Init
    BY Zenon
  <2>1. 0 \in Nat /\ 0 < UINT16
    BY SizeFacts, Zenon
  <2>2. Contents(EmptyBuffer(0)) = <<>> /\ EmptyBuffer(0).OSQSize = 0
    BY <2>1, EmptyBufferIsEmpty, Zenon
  <2>. QED  BY <2>2, Zenon DEF Init, Fifo!Init
<1>2. QueueInv /\ [Next]_vars => [Fifo!Next]_(Fifo!vars)
  BY QueueStepInv, Zenon
<1>. QED  BY <1>1, <1>2, QueueInvariant, PTL DEF Spec, ImplementsQueueSpec, Fifo!Spec

=============================================================================
