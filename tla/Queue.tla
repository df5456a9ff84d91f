------------------------------- MODULE Queue --------------------------------
(***************************************************************************)
(* Queues (queue.c) on top of the core: the queues of the event table,     *)
(* the dynamic queues, and the buffers of 16 and 32 bit entries, which     *)
(* have no waiting tasks.  A post leaves its data in the buffer and makes  *)
(* the highest waiting task ready; that task reads the buffer when it next *)
(* runs, without looking at OSQEntries again.                              *)
(*                                                                         *)
(* Receivers are the tasks that pend on a queue.  OSWQueue, OSRQueue and   *)
(* the clean calls, which know nothing of waiting tasks, are used on       *)
(* queues without receivers and by a receiver on a queue of its own.       *)
(***************************************************************************)
EXTENDS Kernel, CircularBuffer

CONSTANTS
  BRTOS_MAX_QUEUE,  \* size of BRTOS_Queue_Table
  NumDynamic,       \* dynamic queues the application has handles for
  Num16, Num32,     \* OS_QUEUE_16 and OS_QUEUE_32 structures it declares
  CPU_TYPE_SIZE,    \* sizeof(OS_CPU_TYPE)
  QUEUE_HEAP_SIZE,  \* bytes of QUEUE_STACK
  CreateSizes,      \* the sizes it creates queues with
  PendTimes,        \* values of time_wait passed to Pend
  Receivers,        \* the tasks that pend on a queue
  MaxCreated        \* bound: queues and buffers in existence

TableQueues == {"queue"} \X (1..BRTOS_MAX_QUEUE)
DynamicQueues == {"dynamic"} \X (1..NumDynamic)
Buffers16 == {"16"} \X (1..Num16)
Buffers32 == {"32"} \X (1..Num32)
EventQueues == TableQueues \cup DynamicQueues
HeapQueues == TableQueues \cup Buffers16 \cup Buffers32
Queues == EventQueues \cup HeapQueues

\* Tasks and, for all interrupt handlers, 0.
Irq == 0
Callers == Tasks \cup {Irq}

NULL == <<"null", 0>>

ASSUME QueueAssumption ==
  /\ BRTOS_MAX_QUEUE \in Nat /\ NumDynamic \in Nat
  /\ Num16 \in Nat /\ Num32 \in Nat
  /\ CPU_TYPE_SIZE \in {1, 2, 4} /\ QUEUE_HEAP_SIZE \in 0..(UINT16 - 1)
  /\ CreateSizes \subseteq 0..(UINT16 - 1)
  /\ PendTimes \subseteq 0..MAX_TIMER
  /\ Receivers \in [Queues -> SUBSET Tasks]
  /\ NoData \notin Data

VARIABLES
  created,         \* OSEventAllocated, or the handle names a live queue
  buffer,          \* OS_QUEUE, OS_DQUEUE, OS_QUEUE_16, OS_QUEUE_32
  OSQStart,        \* first word of the buffer in QUEUE_STACK
  iQueueAddress,   \* words of QUEUE_STACK in use
  heapBlocks,      \* blocks taken with BRTOS_ALLOC and not given back
  OSEventWait, OSEventWaitList,
  pont_event,      \* local of Pend: the queue t is pending on
  timed,           \* local of Pend: time_wait # 0
  pdata            \* what the last read returned

storeVars == <<OSQStart, iQueueAddress, heapBlocks>>
eventVars == <<OSEventWait, OSEventWaitList>>
pendLocals == <<pont_event, timed>>
queueVars == <<created, buffer, storeVars, eventVars, pendLocals, pdata>>
vars == <<kernelVars, queueVars>>

Init ==
  /\ KernelInit
  /\ created = [q \in Queues |-> FALSE]
  /\ buffer = [q \in Queues |-> EmptyBuffer(0)]
  /\ OSQStart = [q \in HeapQueues |-> 0]
  /\ iQueueAddress = 0
  /\ heapBlocks = {}
  /\ OSEventWait = [q \in EventQueues |-> 0]
  /\ OSEventWaitList = [q \in EventQueues |-> {}]
  /\ pont_event = [t \in Tasks |-> NULL]
  /\ timed = [t \in Tasks |-> FALSE]
  /\ pdata = NoData

NumCreated == Cardinality({q \in Queues : created[q]})

-----------------------------------------------------------------------------
(***************************************************************************)
(* Creation.  Table queues and the plain buffers take words of QUEUE_STACK *)
(* and are never deleted.                                                  *)
(***************************************************************************)
EntryWidth(q) == IF q \in Buffers16 THEN 2 ELSE IF q \in Buffers32 THEN 4 ELSE 1

Words(q, size) == (size * EntryWidth(q)) \div CPU_TYPE_SIZE

TakeWordsOfHeap(q, size) ==
  /\ NumCreated < MaxCreated
  /\ iQueueAddress + Words(q, size) <= QUEUE_HEAP_SIZE \div CPU_TYPE_SIZE
  /\ OSQStart' = [OSQStart EXCEPT ![q] = iQueueAddress]
  /\ iQueueAddress' = (iQueueAddress + Words(q, size)) % UINT16
  /\ created' = [created EXCEPT ![q] = TRUE]
  /\ buffer' = [buffer EXCEPT ![q] = EmptyBuffer(size)]
  /\ UNCHANGED <<kernelVars, heapBlocks, pendLocals, pdata>>

NotRoundedUp(size) == size

\* The size is rounded up to whole words.
RoundedUp(size) ==
  IF size % CPU_TYPE_SIZE = 0 THEN size
  ELSE (size + (CPU_TYPE_SIZE - (size % CPU_TYPE_SIZE))) % UINT16

OSQueueCreate(t, q, size) ==
  /\ Running(t)
  /\ q \in TableQueues /\ ~created[q]
  /\ \A i \in 1..(q[2] - 1) : created[<<"queue", i>>]
  /\ TakeWordsOfHeap(q, RoundedUp(size))
  /\ OSEventWait' = [OSEventWait EXCEPT ![q] = 0]
  /\ OSEventWaitList' = [OSEventWaitList EXCEPT ![q] = {}]

Rounded16(size) ==
  IF (size * 2) % CPU_TYPE_SIZE = 0 THEN size ELSE (size + 1) % UINT16

OSQueue16Create(t, q, size) ==
  /\ Running(t)
  /\ q \in Buffers16 /\ ~created[q]
  /\ TakeWordsOfHeap(q, Rounded16(size))
  /\ UNCHANGED eventVars

OSQueue32Create(t, q, size) ==
  /\ Running(t)
  /\ q \in Buffers32 /\ ~created[q]
  /\ TakeWordsOfHeap(q, size)
  /\ UNCHANGED eventVars

(***************************************************************************)
(* A dynamic queue is three blocks of the heap (external): the structure,  *)
(* the storage and the event.  BRTOS_ALLOC may fail at any of them; what   *)
(* was taken is given back.                                                *)
(***************************************************************************)
Blocks(q) == {q} \X {"cqueue", "OSQStart", "pont_event"}

OSDQueueCreate(t, q, queue_length) ==
  /\ Running(t)
  /\ q \in DynamicQueues /\ ~created[q]
  /\ NumCreated < MaxCreated
  /\ queue_length > 0
  /\ heapBlocks' = heapBlocks \cup Blocks(q)
  /\ created' = [created EXCEPT ![q] = TRUE]
  /\ buffer' = [buffer EXCEPT ![q] = EmptyBuffer(queue_length)]
  /\ OSEventWait' = [OSEventWait EXCEPT ![q] = 0]
  /\ OSEventWaitList' = [OSEventWaitList EXCEPT ![q] = {}]
  /\ UNCHANGED <<kernelVars, OSQStart, iQueueAddress, pendLocals, pdata>>

\* The blocks the failing call gives back.
DeallocStructureOnly(q, taken) == taken \cap {<<q, "cqueue">>}

Dealloc(q, taken) == taken

OSDQueueCreateFails(t, q) ==
  /\ Running(t)
  /\ q \in DynamicQueues /\ ~created[q]
  /\ \E taken \in {{}, {<<q, "cqueue">>}, {<<q, "cqueue">>, <<q, "OSQStart">>}} :
       heapBlocks' = (heapBlocks \cup taken) \ Dealloc(q, taken)
  /\ UNCHANGED <<kernelVars, created, buffer, OSQStart, iQueueAddress,
                 eventVars, pendLocals, pdata>>

\* The application deletes queues no task is suspended on.
OSDQueueDelete(t, q) ==
  /\ Running(t)
  /\ q \in DynamicQueues /\ created[q]
  /\ \A u \in Tasks : pont_event[u] # q
  /\ heapBlocks' = heapBlocks \ Blocks(q)
  /\ created' = [created EXCEPT ![q] = FALSE]
  /\ buffer' = [buffer EXCEPT ![q] = EmptyBuffer(0)]
  /\ OSEventWait' = [OSEventWait EXCEPT ![q] = 0]
  /\ OSEventWaitList' = [OSEventWaitList EXCEPT ![q] = {}]
  /\ UNCHANGED <<kernelVars, OSQStart, iQueueAddress, pendLocals, pdata>>

-----------------------------------------------------------------------------
(***************************************************************************)
(* The plain buffers, from tasks and interrupt handlers.  A write to a     *)
(* full one and a read of an empty one fail and change nothing.            *)
(***************************************************************************)
Executes(c) == c = Irq \/ Running(c)

bufferOnly == UNCHANGED <<kernelVars, created, storeVars, eventVars, pendLocals>>

BufferWrite(c, q, data) ==
  /\ Executes(c)
  /\ created[q] /\ ~Full(buffer[q])
  /\ buffer' = [buffer EXCEPT ![q] = Write(@, data)]
  /\ bufferOnly /\ UNCHANGED pdata

BufferRead(c, q) ==
  /\ Executes(c)
  /\ created[q] /\ buffer[q].OSQEntries > 0
  /\ pdata' = Front(buffer[q])
  /\ buffer' = [buffer EXCEPT ![q] = Read(@)]
  /\ bufferOnly

BufferClean(c, q) ==
  /\ Executes(c)
  /\ created[q]
  /\ buffer' = [buffer EXCEPT ![q] = Clean(@)]
  /\ bufferOnly /\ UNCHANGED pdata

\* No other task than the caller may be waiting for the queue.
OwnUse(c, q) == Receivers[q] \subseteq {c}

OSWQueue(c, q, data) == q \in TableQueues /\ OwnUse(c, q) /\ BufferWrite(c, q, data)
OSRQueue(c, q) == q \in TableQueues /\ OwnUse(c, q) /\ BufferRead(c, q)
OSQueueClean(c, q) == q \in TableQueues /\ OwnUse(c, q) /\ BufferClean(c, q)
OSDQueueClean(c, q) == q \in DynamicQueues /\ OwnUse(c, q) /\ BufferClean(c, q)
OSWQueue16(c, q, data) == q \in Buffers16 /\ BufferWrite(c, q, data)
OSRQueue16(c, q) == q \in Buffers16 /\ BufferRead(c, q)
OSCleanQueue16(c, q) == q \in Buffers16 /\ BufferClean(c, q)
OSWQueue32(c, q, data) == q \in Buffers32 /\ BufferWrite(c, q, data)
OSRQueue32(c, q) == q \in Buffers32 /\ BufferRead(c, q)
OSCleanQueue32(c, q) == q \in Buffers32 /\ BufferClean(c, q)

-----------------------------------------------------------------------------
(***************************************************************************)
(* Pend: read what is there, or fail when time_wait = NO_TIMEOUT (no state *)
(* change), or wait.                                                       *)
(***************************************************************************)
PendFetch(t, q) ==
  /\ t \in Receivers[q]
  /\ BufferRead(t, q)

PendWait(t, q, time_wait) ==
  /\ Running(t)
  /\ t \in Receivers[q] /\ created[q]
  /\ ~(buffer[q].OSQEntries > 0)
  /\ time_wait # NO_TIMEOUT
  /\ OSEventWait' = [OSEventWait EXCEPT ![q] = @ + 1]
  /\ OSEventWaitList' = [OSEventWaitList EXCEPT ![q] = @ \cup {Priority[t]}]
  /\ Suspend(t, time_wait, "queue")
  /\ pont_event' = [pont_event EXCEPT ![t] = q]
  /\ timed' = [timed EXCEPT ![t] = time_wait > 0]
  /\ UNCHANGED <<created, buffer, storeVars, pdata>>

\* The call returns; its locals are gone.
PendReturn(t) ==
  /\ pc' = [pc EXCEPT ![t] = "app"]
  /\ pont_event' = [pont_event EXCEPT ![t] = NULL]
  /\ timed' = [timed EXCEPT ![t] = FALSE]
  /\ UNCHANGED <<tickVars, prioVars, currentTask, OSReadyList, OSBlockedList,
                 pendSV, ticksLeft, created, storeVars>>

\* Time ran out and no post came as well.
TimedOut(t) ==
  /\ timed[t] /\ TimeToWait[t] = EXIT_BY_TIMEOUT
  /\ Priority[t] \in OSEventWaitList[pont_event[t]]

PendTimeout(t) ==
  /\ Resumed(t, "queue")
  /\ TimedOut(t)
  /\ LET q == pont_event[t]
     IN  /\ OSEventWaitList' = [OSEventWaitList EXCEPT ![q] = @ \ {Priority[t]}]
         /\ OSEventWait' = [OSEventWait EXCEPT ![q] = @ - 1]
  /\ PendReturn(t)
  /\ UNCHANGED <<TimeToWait, DelayList, buffer, pdata>>

\* Woken by a post and, if the wait was timed, perhaps by the timeout too.
PendRead(t) ==
  /\ Resumed(t, "queue")
  /\ ~TimedOut(t)
  /\ \/ /\ timed[t] /\ TimeToWait[t] # EXIT_BY_TIMEOUT
        /\ TimeToWait' = [TimeToWait EXCEPT ![t] = NO_TIMEOUT]
        /\ RemoveFromDelayList(t)
     \/ /\ ~timed[t] \/ TimeToWait[t] = EXIT_BY_TIMEOUT
        /\ UNCHANGED <<TimeToWait, DelayList>>
  /\ LET q == pont_event[t]
     IN  /\ pdata' = Front(buffer[q])
         /\ buffer' = [buffer EXCEPT ![q] = Read(@)]
  /\ PendReturn(t)
  /\ UNCHANGED eventVars

(***************************************************************************)
(* Post, from a task or an interrupt handler.  A full queue refuses the    *)
(* data (no state change).                                                 *)
(***************************************************************************)
\* The data is stored although a task waits for it.
PostStoreAlways(c, q, data) == BufferWrite(c, q, data)

PostStore(c, q, data) ==
  /\ OSEventWait[q] = 0
  /\ BufferWrite(c, q, data)

PostWake(c, q, data) ==
  /\ Executes(c)
  /\ created[q] /\ ~Full(buffer[q])
  /\ OSEventWait[q] # 0
  /\ buffer' = [buffer EXCEPT ![q] = Write(@, data)]
  /\ LET iPriority == SAScheduler(OSEventWaitList[q])
     IN  /\ OSEventWaitList' = [OSEventWaitList EXCEPT ![q] = @ \ {iPriority}]
         /\ OSReadyList' = OSReadyList \cup {iPriority}
  /\ OSEventWait' = [OSEventWait EXCEPT ![q] = @ - 1]
  /\ ChangeContext
  /\ UNCHANGED <<tickVars, waitVars, prioVars, currentTask, OSBlockedList, pc,
                 created, storeVars, pendLocals, pdata>>

Pend(t, q, time_wait) == PendFetch(t, q) \/ PendWait(t, q, time_wait)
PendResume(t) == PendTimeout(t) \/ PendRead(t)
Post(c, q, data) == PostWake(c, q, data) \/ PostStore(c, q, data)

OSQueuePend(t, q, time_wait) == q \in TableQueues /\ Pend(t, q, time_wait)
OSQueuePendResume(t) == pont_event[t] \in TableQueues /\ PendResume(t)
OSQueuePost(c, q, data) == q \in TableQueues /\ Receivers[q] # {} /\ Post(c, q, data)
OSDQueuePend(t, q, time_wait) == q \in DynamicQueues /\ Pend(t, q, time_wait)
OSDQueuePendResume(t) == pont_event[t] \in DynamicQueues /\ PendResume(t)
OSDQueuePost(c, q, data) == q \in DynamicQueues /\ Post(c, q, data)

-----------------------------------------------------------------------------
CreateStep(t) ==
  \E q \in Queues :
    \/ \E size \in CreateSizes :
         \/ OSQueueCreate(t, q, size)
         \/ OSQueue16Create(t, q, size) \/ OSQueue32Create(t, q, size)
         \/ OSDQueueCreate(t, q, size)
    \/ OSDQueueCreateFails(t, q) \/ OSDQueueDelete(t, q)

BufferStep(c) ==
  \E q \in Queues :
    \/ \E d \in Data :
         OSWQueue(c, q, d) \/ OSWQueue16(c, q, d) \/ OSWQueue32(c, q, d)
    \/ OSRQueue(c, q) \/ OSRQueue16(c, q) \/ OSRQueue32(c, q)
    \/ OSQueueClean(c, q) \/ OSDQueueClean(c, q)
    \/ OSCleanQueue16(c, q) \/ OSCleanQueue32(c, q)

PostStep(c) ==
  \E q \in Queues, d \in Data : OSQueuePost(c, q, d) \/ OSDQueuePost(c, q, d)

PendStep(t) ==
  \/ \E q \in Queues, w \in PendTimes : OSQueuePend(t, q, w) \/ OSDQueuePend(t, q, w)
  \/ OSQueuePendResume(t) \/ OSDQueuePendResume(t)

CoreStep == KernelNext /\ UNCHANGED queueVars

Next ==
  \/ CoreStep
  \/ \E t \in Tasks : CreateStep(t) \/ PendStep(t)
  \/ \E c \in Callers : BufferStep(c) \/ PostStep(c)

Spec == Init /\ [][Next]_vars

-----------------------------------------------------------------------------
TypeOK ==
  /\ KernelTypeOK
  /\ created \in [Queues -> BOOLEAN]
  /\ \A q \in Queues :
       /\ buffer[q].OSQSize \in 0..(UINT16 - 1)
       /\ buffer[q].OSQEntries \in 0..(UINT16 - 1)
  /\ OSQStart \in [HeapQueues -> Nat] /\ iQueueAddress \in Nat
  /\ heapBlocks \subseteq UNION {Blocks(q) : q \in DynamicQueues}
  /\ OSEventWait \in [EventQueues -> Nat]
  /\ OSEventWaitList \in [EventQueues -> SUBSET Priorities]
  /\ pont_event \in [Tasks -> EventQueues \cup {NULL}]
  /\ timed \in [Tasks -> BOOLEAN]
  /\ pdata \in Data \cup {NoData}

(***************************************************************************)
(* The counter and the pointers of every buffer agree, at its limits too:  *)
(* OSQEntries is the number of entries between OSQOut and OSQIn, and never *)
(* runs below zero or beyond the size, although a resumed Pend takes an    *)
(* entry without testing that there is one.                                *)
(***************************************************************************)
BuffersWellFormed == \A q \in Queues : WellFormed(buffer[q])

(***************************************************************************)
(* The receiver of a queue is woken exactly when there is data for it: as  *)
(* long as it is in the wait list the queue is empty, and once a post took *)
(* it out its data stays in the queue until it reads.                      *)
(***************************************************************************)
DataReachesReceiver ==
  \A t \in Tasks :
    pc[t] = "queue" =>
      LET q == pont_event[t]
      IN  Priority[t] \in OSEventWaitList[q] <=> buffer[q].OSQEntries = 0

(***************************************************************************)
(* No byte of QUEUE_STACK belongs to two queues or lies beyond its end,    *)
(* whatever widths and sizes are created in whatever order.                *)
(***************************************************************************)
Bytes(q) ==
  LET first == OSQStart[q] * CPU_TYPE_SIZE
  IN  first..(first + (buffer[q].OSQSize * EntryWidth(q)) - 1)

StorageIsDisjoint ==
  \A q \in {h \in HeapQueues : created[h]} :
    /\ Bytes(q) \subseteq 0..(QUEUE_HEAP_SIZE - 1)
    /\ \A r \in {h \in HeapQueues : created[h]} \ {q} :
         Bytes(q) \cap Bytes(r) = {}

(***************************************************************************)
(* Heap blocks are held for the dynamic queues in existence and for        *)
(* nothing else: a creation that fails half way gives back what it took.   *)
(***************************************************************************)
NoHeapLeak ==
  heapBlocks = UNION {Blocks(q) : q \in {d \in DynamicQueues : created[d]}}

(***************************************************************************)
(* Every queue and buffer is a bounded FIFO: what a read returns, at once  *)
(* or after waiting, is the oldest entry, exactly once.                    *)
(***************************************************************************)
Fifo == INSTANCE QueueSpec WITH
  Nothing <- NoData,
  capacity <- [q \in Queues |-> buffer[q].OSQSize],
  items <- [q \in Queues |-> Contents(buffer[q])],
  got <- pdata

ImplementsQueueSpec == Fifo!Spec

=============================================================================
