----------------------------- MODULE Semaphore -----------------------------
(***************************************************************************)
(* Semaphores (semaphore.c) on top of the core.  Waiting tasks are kept as *)
(* priorities in OSEventWaitList, counted in OSEventWait.  A post makes    *)
(* the highest waiting priority ready; the woken task unlinks itself from  *)
(* the delay list when it next runs, which may be after its time ran out.  *)
(***************************************************************************)
EXTENDS Kernel

CONSTANTS
  BRTOS_MAX_SEM,   \* size of BRTOS_Sem_Table
  SEM_MAX,         \* largest count (255)
  InitialCounts,   \* arguments the application creates semaphores with
  PendTimes,       \* values of time_wait passed to OSSemPend
  DeleteWaited     \* may the application delete a semaphore tasks wait for?

Sems == 0..(BRTOS_MAX_SEM - 1)
NULL == -1

ASSUME SemaphoreAssumption ==
  /\ BRTOS_MAX_SEM \in Nat /\ SEM_MAX \in Nat \ {0}
  /\ InitialCounts \subseteq 0..SEM_MAX
  /\ PendTimes \subseteq 0..MAX_TIMER
  /\ DeleteWaited \in BOOLEAN

VARIABLES
  OSEventAllocated, OSEventCount, OSEventWait, OSEventWaitList, Binary,
  pont_event,      \* local of OSSemPend: the semaphore t is pending on
  timed,           \* local of OSSemPend: time_wait # 0
  posted           \* history: tasks a post woke that have not returned yet

semTable == <<OSEventAllocated, OSEventCount, OSEventWait, OSEventWaitList,
              Binary>>
semLocals == <<pont_event, timed, posted>>
vars == <<kernelVars, semTable, semLocals>>

Init ==
  /\ KernelInit
  /\ OSEventAllocated = [s \in Sems |-> FALSE]
  /\ OSEventCount = [s \in Sems |-> 0]
  /\ OSEventWait = [s \in Sems |-> 0]
  /\ OSEventWaitList = [s \in Sems |-> {}]
  /\ Binary = [s \in Sems |-> FALSE]
  /\ pont_event = [t \in Tasks |-> NULL]
  /\ timed = [t \in Tasks |-> FALSE]
  /\ posted = {}

-----------------------------------------------------------------------------
(***************************************************************************)
(* Creation takes the first free block of the table; without one the call  *)
(* returns NO_AVAILABLE_EVENT and changes nothing.                         *)
(***************************************************************************)
FirstFree(s) ==
  /\ ~OSEventAllocated[s]
  /\ \A r \in Sems : r < s => OSEventAllocated[r]

Allocate(t, s, count, binary) ==
  /\ Running(t)
  /\ FirstFree(s)
  /\ OSEventAllocated' = [OSEventAllocated EXCEPT ![s] = TRUE]
  /\ OSEventCount' = [OSEventCount EXCEPT ![s] = count]
  /\ OSEventWait' = [OSEventWait EXCEPT ![s] = 0]
  /\ OSEventWaitList' = [OSEventWaitList EXCEPT ![s] = {}]
  /\ Binary' = [Binary EXCEPT ![s] = binary]
  /\ UNCHANGED <<kernelVars, semLocals>>

OSSemCreate(t, s, cnt) == Allocate(t, s, cnt, FALSE)

OSSemBinaryCreate(t, s, bit) ==
  Allocate(t, s, IF bit > 1 THEN 1 ELSE 0, TRUE)

OSSemDelete(t, s) ==
  /\ Running(t)
  /\ OSEventAllocated[s]
  /\ DeleteWaited \/ OSEventWaitList[s] = {}
  /\ OSEventAllocated' = [OSEventAllocated EXCEPT ![s] = FALSE]
  /\ OSEventCount' = [OSEventCount EXCEPT ![s] = 0]
  /\ OSEventWait' = [OSEventWait EXCEPT ![s] = 0]
  /\ OSEventWaitList' = [OSEventWaitList EXCEPT ![s] = {}]
  /\ UNCHANGED <<kernelVars, semLocals, Binary>>

-----------------------------------------------------------------------------
(***************************************************************************)
(* OSSemPend: take a token, or fail when time_wait = NO_TIMEOUT (no state  *)
(* change), or wait.                                                       *)
(***************************************************************************)
SemPendTake(t, s) ==
  /\ Running(t)
  /\ OSEventAllocated[s]
  /\ OSEventCount[s] > 0
  /\ OSEventCount' = [OSEventCount EXCEPT ![s] = @ - 1]
  /\ UNCHANGED <<kernelVars, semLocals, OSEventAllocated, OSEventWait,
                 OSEventWaitList, Binary>>

SemPendWait(t, s, time_wait) ==
  /\ Running(t)
  /\ OSEventAllocated[s]
  /\ OSEventCount[s] = 0
  /\ time_wait # NO_TIMEOUT
  /\ OSEventWait' = [OSEventWait EXCEPT ![s] = @ + 1]
  /\ OSEventWaitList' = [OSEventWaitList EXCEPT ![s] = @ \cup {Priority[t]}]
  /\ Suspend(t, time_wait, "sem")
  /\ pont_event' = [pont_event EXCEPT ![t] = s]
  /\ timed' = [timed EXCEPT ![t] = time_wait > 0]
  /\ UNCHANGED <<OSEventAllocated, OSEventCount, Binary, posted>>

\* The call returns; its locals are gone.
PendReturn(t) ==
  /\ pc' = [pc EXCEPT ![t] = "app"]
  /\ pont_event' = [pont_event EXCEPT ![t] = NULL]
  /\ timed' = [timed EXCEPT ![t] = FALSE]
  /\ posted' = posted \ {t}
  /\ UNCHANGED <<tickVars, prioVars, currentTask, OSReadyList, OSBlockedList,
                 pendSV, ticksLeft>>

\* Without the test of the wait list: a timeout is reported even when a
\* post came as well, and the post is lost.
SemTimedOutAlways(t) ==
  timed[t] /\ TimeToWait[t] = EXIT_BY_TIMEOUT

\* Time ran out and the task still is in the wait list.
SemTimedOut(t) ==
  /\ timed[t] /\ TimeToWait[t] = EXIT_BY_TIMEOUT
  /\ Priority[t] \in OSEventWaitList[pont_event[t]]

\* The wait counter is left alone.
SemPendTimeoutKeepsCount(t) ==
  /\ Resumed(t, "sem")
  /\ SemTimedOut(t)
  /\ OSEventWaitList' = [OSEventWaitList EXCEPT ![pont_event[t]] = @ \ {Priority[t]}]
  /\ PendReturn(t)
  /\ UNCHANGED <<TimeToWait, DelayList, OSEventAllocated, OSEventCount,
                 OSEventWait, Binary>>

SemPendTimeout(t) ==
  /\ Resumed(t, "sem")
  /\ SemTimedOut(t)
  /\ LET s == pont_event[t]
     IN  /\ OSEventWaitList' = [OSEventWaitList EXCEPT ![s] = @ \ {Priority[t]}]
         /\ OSEventWait' = [OSEventWait EXCEPT ![s] = @ - 1]
  /\ PendReturn(t)
  /\ UNCHANGED <<TimeToWait, DelayList, OSEventAllocated, OSEventCount, Binary>>

\* A post and, if the wait was timed, perhaps the timeout too.
SemPendOK(t) ==
  /\ Resumed(t, "sem")
  /\ ~SemTimedOut(t)
  /\ \/ /\ timed[t] /\ TimeToWait[t] # EXIT_BY_TIMEOUT
        /\ TimeToWait' = [TimeToWait EXCEPT ![t] = NO_TIMEOUT]
        /\ RemoveFromDelayList(t)
     \/ /\ ~timed[t] \/ TimeToWait[t] = EXIT_BY_TIMEOUT
        /\ UNCHANGED <<TimeToWait, DelayList>>
  /\ PendReturn(t)
  /\ UNCHANGED semTable

-----------------------------------------------------------------------------
(***************************************************************************)
(* OSSemPost, from a task or from an interrupt handler.  At SEM_MAX it     *)
(* returns ERR_SEM_OVF and changes nothing.                                *)
(***************************************************************************)
SemPostWake(s) ==
  /\ OSEventAllocated[s]
  /\ OSEventWait[s] # 0
  /\ LET iPriority == SAScheduler(OSEventWaitList[s])
     IN  /\ OSEventWaitList' = [OSEventWaitList EXCEPT ![s] = @ \ {iPriority}]
         /\ OSReadyList' = OSReadyList \cup {iPriority}
         /\ posted' = posted \cup {PriorityVector[iPriority]}
  /\ OSEventWait' = [OSEventWait EXCEPT ![s] = @ - 1]
  /\ ChangeContext
  /\ UNCHANGED <<tickVars, waitVars, prioVars, currentTask, OSBlockedList, pc,
                 pont_event, timed, OSEventAllocated, OSEventCount, Binary>>

SemPostCount(s) ==
  /\ OSEventAllocated[s]
  /\ OSEventWait[s] = 0
  /\ OSEventCount[s] < SEM_MAX
  /\ OSEventCount' = [OSEventCount EXCEPT ![s] = IF Binary[s] THEN 1 ELSE @ + 1]
  /\ UNCHANGED <<kernelVars, semLocals, OSEventAllocated, OSEventWait,
                 OSEventWaitList, Binary>>

OSSemPost(s) == SemPostWake(s) \/ SemPostCount(s)

-----------------------------------------------------------------------------
SemStep(t) ==
  \/ \E s \in Sems :
       \/ \E n \in InitialCounts :
            OSSemCreate(t, s, n) \/ OSSemBinaryCreate(t, s, n)
       \/ OSSemDelete(t, s)
       \/ SemPendTake(t, s)
       \/ \E w \in PendTimes : SemPendWait(t, s, w)
       \/ Running(t) /\ OSSemPost(s)
  \/ SemPendTimeout(t)
  \/ SemPendOK(t)

InterruptPost == \E s \in Sems : OSSemPost(s)

CoreStep ==
  /\ KernelNext
  /\ UNCHANGED <<semTable, semLocals>>

Next ==
  \/ CoreStep
  \/ \E t \in Tasks : SemStep(t)
  \/ InterruptPost

Spec == Init /\ [][Next]_vars

-----------------------------------------------------------------------------
TypeOK ==
  /\ KernelTypeOK
  /\ OSEventAllocated \in [Sems -> BOOLEAN]
  /\ OSEventCount \in [Sems -> 0..SEM_MAX]
  /\ OSEventWait \in [Sems -> Nat]
  /\ OSEventWaitList \in [Sems -> SUBSET Priorities]
  /\ Binary \in [Sems -> BOOLEAN]
  /\ pont_event \in [Tasks -> Sems \cup {NULL}]
  /\ timed \in [Tasks -> BOOLEAN]
  /\ posted \subseteq Tasks

(***************************************************************************)
(* OSEventWait counts the bits of OSEventWaitList: the counter decides     *)
(* whether a post wakes, the list decides whom.                            *)
(***************************************************************************)
WaitCountsWaiters ==
  \A s \in Sems : OSEventWait[s] = Cardinality(OSEventWaitList[s])

(***************************************************************************)
(* No waiter is forgotten: a task suspended in a pend and not ready is     *)
(* still in the wait list a post consults and, if it gave a time, still in *)
(* the delay list the tick consults.                                       *)
(***************************************************************************)
WaitersCanBeWoken ==
  \A t \in Tasks :
    pc[t] = "sem" /\ Priority[t] \notin OSReadyList =>
      /\ Priority[t] \in OSEventWaitList[pont_event[t]]
      /\ timed[t] => t \in DelayList

(***************************************************************************)
(* The delay list is never corrupted: when a resumed pend unlinks its task *)
(* (the wait was timed and did not time out), the task is linked, and a    *)
(* task that is not suspended in a timed wait is not linked.               *)
(***************************************************************************)
UnlinksOnlyLinked ==
  \A t \in Tasks :
    /\ pc[t] = "sem" /\ timed[t] =>
         (t \in DelayList <=> TimeToWait[t] # EXIT_BY_TIMEOUT)
    /\ pc[t] = "app" \/ (pc[t] = "sem" /\ ~timed[t]) => t \notin DelayList

(***************************************************************************)
(* A semaphore is what SemaphoreSpec promises: OSSemPend returns OK to the *)
(* tasks a post woke and TIMEOUT to the others, in whatever order posts,   *)
(* ticks, blocking and the woken tasks themselves are interleaved.         *)
(***************************************************************************)
Abstract == INSTANCE SemaphoreSpec WITH
  Prio <- TaskPriority,
  MaxValue <- SEM_MAX,
  value <- OSEventCount,
  waiting <- [s \in Sems |-> {t \in Tasks : pont_event[t] = s /\ t \notin posted}],
  granted <- [s \in Sems |-> {t \in Tasks : pont_event[t] = s /\ t \in posted}]

ImplementsSemaphoreSpec == Abstract!Spec

=============================================================================
