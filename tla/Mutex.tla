------------------------------- MODULE Mutex -------------------------------
(***************************************************************************)
(* Mutexes with priority ceiling (mutex.c) on top of the core.  A mutex    *)
(* created with a ceiling owns that priority: its holder runs at it, moved *)
(* there in Priority, PriorityVector and OSReadyList.  A release hands the *)
(* mutex to the highest waiting priority; the new owner raises itself when *)
(* it next runs.                                                           *)
(***************************************************************************)
EXTENDS Kernel, Sequences

CONSTANTS
  BRTOS_MAX_MUTEX,   \* size of BRTOS_Mutex_Table
  Ceilings,          \* values of HigherPriority (0: no ceiling)
  AcquireTimes,      \* values of time_wait passed to OSMutexAcquire
  Nested             \* does every task release in the reverse order?

Mutexes == 0..(BRTOS_MAX_MUTEX - 1)
NULL == -1
NOBODY == 0

ASSUME MutexAssumption ==
  /\ BRTOS_MAX_MUTEX \in Nat
  /\ Ceilings \subseteq Priorities
  /\ AcquireTimes \subseteq 0..MAX_TIMER
  /\ Nested \in BOOLEAN

VARIABLES
  OSEventAllocated,
  OSEventState,        \* TRUE: AVAILABLE_RESOURCE, FALSE: BUSY_RESOURCE
  OSEventOwner, OSMaxPriority, OSOriginalPriority, OSEventWait,
  OSEventWaitList,
  pont_event,          \* local of OSMutexAcquire: the mutex t waits for
  timed,               \* local of OSMutexAcquire: time_wait # 0
  held,                \* history: mutexes t has acquired, latest last
  lateRelease          \* history: a release without waiters, no switch since

mutexTable == <<OSEventAllocated, OSEventState, OSEventOwner, OSMaxPriority,
                OSOriginalPriority, OSEventWait, OSEventWaitList>>
mutexLocals == <<pont_event, timed, held, lateRelease>>
vars == <<kernelVars, mutexTable, mutexLocals>>

Init ==
  /\ KernelInit
  /\ OSEventAllocated = [m \in Mutexes |-> FALSE]
  /\ OSEventState = [m \in Mutexes |-> FALSE]
  /\ OSEventOwner = [m \in Mutexes |-> NOBODY]
  /\ OSMaxPriority = [m \in Mutexes |-> 0]
  /\ OSOriginalPriority = [m \in Mutexes |-> 0]
  /\ OSEventWait = [m \in Mutexes |-> 0]
  /\ OSEventWaitList = [m \in Mutexes |-> {}]
  /\ pont_event = [t \in Tasks |-> NULL]
  /\ timed = [t \in Tasks |-> FALSE]
  /\ held = [t \in Tasks |-> <<>>]
  /\ lateRelease = FALSE

Holds(t, m) == \E i \in 1..Len(held[t]) : held[t][i] = m

\* The mutexes of s in their order, without m, which is one of them.
Without(s, m) ==
  LET i == CHOOSE j \in 1..Len(s) : s[j] = m
  IN  [j \in 1..(Len(s) - 1) |-> IF j < i THEN s[j] ELSE s[j + 1]]

-----------------------------------------------------------------------------
(***************************************************************************)
(* Creation reserves the ceiling, then looks for a free block: without one *)
(* it returns NO_AVAILABLE_EVENT and the ceiling stays reserved.  A        *)
(* ceiling in use returns BUSY_PRIORITY and changes nothing.               *)
(***************************************************************************)
ReserveCeiling(HigherPriority) ==
  \/ HigherPriority = 0 /\ UNCHANGED PriorityVector
  \/ /\ HigherPriority > 0
     /\ PriorityVector[HigherPriority] = EMPTY_PRIO
     /\ PriorityVector' = [PriorityVector EXCEPT ![HigherPriority] = MUTEX_PRIO]

createUnchanged == UNCHANGED <<tickVars, waitVars, Priority, currentTask,
                               OSReadyList, OSBlockedList, pendSV, pc,
                               mutexLocals>>

OSMutexCreate(t, m, HigherPriority) ==
  /\ Running(t)
  /\ ReserveCeiling(HigherPriority)
  /\ ~OSEventAllocated[m] /\ \A n \in Mutexes : n < m => OSEventAllocated[n]
  /\ OSEventAllocated' = [OSEventAllocated EXCEPT ![m] = TRUE]
  /\ OSEventState' = [OSEventState EXCEPT ![m] = TRUE]
  /\ OSMaxPriority' = [OSMaxPriority EXCEPT ![m] = HigherPriority]
  /\ OSEventWait' = [OSEventWait EXCEPT ![m] = 0]
  /\ OSEventWaitList' = [OSEventWaitList EXCEPT ![m] = {}]
  /\ UNCHANGED <<OSEventOwner, OSOriginalPriority>>
  /\ createUnchanged

MutexCreateFull(t, HigherPriority) ==
  /\ Running(t)
  /\ ReserveCeiling(HigherPriority)
  /\ \A m \in Mutexes : OSEventAllocated[m]
  /\ UNCHANGED mutexTable
  /\ createUnchanged

\* The application deletes mutexes nobody holds or waits for.  The ceiling
\* stays reserved in PriorityVector.
OSMutexDelete(t, m) ==
  /\ Running(t)
  /\ OSEventAllocated[m]
  /\ OSEventOwner[m] = NOBODY /\ OSEventWaitList[m] = {}
  /\ OSEventAllocated' = [OSEventAllocated EXCEPT ![m] = FALSE]
  /\ OSEventState' = [OSEventState EXCEPT ![m] = FALSE]
  /\ OSEventOwner' = [OSEventOwner EXCEPT ![m] = NOBODY]
  /\ OSMaxPriority' = [OSMaxPriority EXCEPT ![m] = 0]
  /\ OSOriginalPriority' = [OSOriginalPriority EXCEPT ![m] = 0]
  /\ OSEventWait' = [OSEventWait EXCEPT ![m] = 0]
  /\ OSEventWaitList' = [OSEventWaitList EXCEPT ![m] = {}]
  /\ UNCHANGED <<kernelVars, mutexLocals>>

-----------------------------------------------------------------------------
(***************************************************************************)
(* The current task t, which got m, runs at its ceiling from now on.       *)
(***************************************************************************)
RaiseWithoutVector(t, m) ==
  /\ OSOriginalPriority' = [OSOriginalPriority EXCEPT ![m] = Priority[t]]
  /\ IF OSMaxPriority[m] > Priority[t]
       THEN /\ Priority' = [Priority EXCEPT ![t] = OSMaxPriority[m]]
            /\ OSReadyList' = (OSReadyList \ {Priority[t]}) \cup {OSMaxPriority[m]}
            /\ UNCHANGED PriorityVector
       ELSE UNCHANGED <<Priority, PriorityVector, OSReadyList>>

RaiseToCeiling(t, m) ==
  /\ OSOriginalPriority' = [OSOriginalPriority EXCEPT ![m] = Priority[t]]
  /\ IF OSMaxPriority[m] > Priority[t]
       THEN /\ Priority' = [Priority EXCEPT ![t] = OSMaxPriority[m]]
            /\ PriorityVector' = [PriorityVector EXCEPT ![OSMaxPriority[m]] = t]
            /\ OSReadyList' = (OSReadyList \ {Priority[t]}) \cup {OSMaxPriority[m]}
       ELSE UNCHANGED <<Priority, PriorityVector, OSReadyList>>

\* OSMutexAcquire of an available mutex.  (By its owner: OK, no change; of a
\* busy one with NO_TIMEOUT: EXIT_BY_NO_RESOURCE_AVAILABLE, no change.)
AcquireAvailable(t, m) ==
  /\ Running(t)
  /\ OSEventAllocated[m]
  /\ OSEventOwner[m] # t
  /\ OSEventState[m]
  /\ OSEventState' = [OSEventState EXCEPT ![m] = FALSE]
  /\ OSEventOwner' = [OSEventOwner EXCEPT ![m] = t]
  /\ RaiseToCeiling(t, m)
  /\ held' = [held EXCEPT ![t] = Append(@, m)]
  /\ UNCHANGED <<tickVars, waitVars, currentTask, OSBlockedList, pendSV, pc,
                 OSEventAllocated, OSMaxPriority, OSEventWait, OSEventWaitList,
                 pont_event, timed, lateRelease>>

AcquireWait(t, m, time_wait) ==
  /\ Running(t)
  /\ OSEventAllocated[m]
  /\ OSEventOwner[m] # t
  /\ ~OSEventState[m]
  /\ time_wait # NO_TIMEOUT
  /\ OSEventWait' = [OSEventWait EXCEPT ![m] = @ + 1]
  /\ OSEventWaitList' = [OSEventWaitList EXCEPT ![m] = @ \cup {Priority[t]}]
  /\ Suspend(t, time_wait, "mutex")
  /\ pont_event' = [pont_event EXCEPT ![t] = m]
  /\ timed' = [timed EXCEPT ![t] = time_wait > 0]
  /\ UNCHANGED <<OSEventAllocated, OSEventState, OSEventOwner, OSMaxPriority,
                 OSOriginalPriority, held, lateRelease>>

AcquireReturn(t) ==
  /\ pc' = [pc EXCEPT ![t] = "app"]
  /\ pont_event' = [pont_event EXCEPT ![t] = NULL]
  /\ timed' = [timed EXCEPT ![t] = FALSE]
  /\ UNCHANGED <<tickVars, currentTask, OSBlockedList, pendSV, ticksLeft,
                 OSEventAllocated, OSEventState, OSEventOwner, OSMaxPriority,
                 lateRelease>>

\* Without the test of the wait list.
AcquireTimedOutAlways(t) == timed[t] /\ TimeToWait[t] = EXIT_BY_TIMEOUT

\* Time ran out and the mutex was not handed over as well.
AcquireTimedOut(t) ==
  /\ timed[t] /\ TimeToWait[t] = EXIT_BY_TIMEOUT
  /\ Priority[t] \in OSEventWaitList[pont_event[t]]

AcquireTimeout(t) ==
  /\ Resumed(t, "mutex")
  /\ AcquireTimedOut(t)
  /\ LET m == pont_event[t]
     IN  /\ OSEventWaitList' = [OSEventWaitList EXCEPT ![m] = @ \ {Priority[t]}]
         /\ OSEventWait' = [OSEventWait EXCEPT ![m] = @ - 1]
  /\ AcquireReturn(t)
  /\ UNCHANGED <<TimeToWait, DelayList, prioVars, OSReadyList,
                 OSOriginalPriority, held>>

AcquireOK(t) ==
  /\ Resumed(t, "mutex")
  /\ ~AcquireTimedOut(t)
  /\ \/ /\ timed[t] /\ TimeToWait[t] # EXIT_BY_TIMEOUT
        /\ TimeToWait' = [TimeToWait EXCEPT ![t] = NO_TIMEOUT]
        /\ RemoveFromDelayList(t)
     \/ /\ ~timed[t] \/ TimeToWait[t] = EXIT_BY_TIMEOUT
        /\ UNCHANGED <<TimeToWait, DelayList>>
  /\ RaiseToCeiling(t, pont_event[t])
  /\ held' = [held EXCEPT ![t] = Append(@, pont_event[t])]
  /\ AcquireReturn(t)
  /\ UNCHANGED <<OSEventWait, OSEventWaitList>>

-----------------------------------------------------------------------------
(***************************************************************************)
(* OSMutexRelease by the owner (ERR_EVENT_OWNER otherwise): back to the    *)
(* priority saved in the mutex, then hand over, or mark it available.      *)
(***************************************************************************)
Restored(t, m) == (OSReadyList \ {Priority[t]}) \cup {OSOriginalPriority[m]}

\* The priority is left at the ceiling.
ReleaseBeginKeepsPriority(t, m) ==
  /\ Running(t)
  /\ OSEventAllocated[m]
  /\ OSEventOwner[m] = t
  /\ UNCHANGED Priority
  /\ held' = [held EXCEPT ![t] = SelectSeq(@, LAMBDA n : n # m)]

\* Anyone releases.
ReleaseBeginAnyone(t, m) ==
  /\ Running(t)
  /\ OSEventAllocated[m]
  /\ Priority' = [Priority EXCEPT ![t] = OSOriginalPriority[m]]
  /\ held' = [held EXCEPT ![t] = SelectSeq(@, LAMBDA n : n # m)]

ReleaseBegin(t, m) ==
  /\ Running(t)
  /\ OSEventAllocated[m]
  /\ OSEventOwner[m] = t
  /\ Nested => held[t][Len(held[t])] = m
  /\ Priority' = [Priority EXCEPT ![t] = OSOriginalPriority[m]]
  /\ held' = [held EXCEPT ![t] = Without(@, m)]

ReleaseHandOver(t, m) ==
  /\ ReleaseBegin(t, m)
  /\ OSEventWait[m] # 0
  /\ LET iPriority == SAScheduler(OSEventWaitList[m])
     IN  /\ OSEventWaitList' = [OSEventWaitList EXCEPT ![m] = @ \ {iPriority}]
         /\ OSEventOwner' = [OSEventOwner EXCEPT ![m] = PriorityVector[iPriority]]
         /\ OSReadyList' = Restored(t, m) \cup {iPriority}
  /\ OSEventWait' = [OSEventWait EXCEPT ![m] = @ - 1]
  /\ ChangeContext
  /\ UNCHANGED <<tickVars, waitVars, PriorityVector, currentTask,
                 OSBlockedList, pc, OSEventAllocated, OSEventState,
                 OSMaxPriority, OSOriginalPriority, pont_event, timed,
                 lateRelease>>

ReleaseAvailable(t, m) ==
  /\ ReleaseBegin(t, m)
  /\ OSEventWait[m] = 0
  /\ OSEventOwner' = [OSEventOwner EXCEPT ![m] = NOBODY]
  /\ OSEventState' = [OSEventState EXCEPT ![m] = TRUE]
  /\ OSReadyList' = Restored(t, m)
  /\ PriorityVector' = IF OSMaxPriority[m] > 0
                         THEN [PriorityVector EXCEPT ![OSMaxPriority[m]] = MUTEX_PRIO]
                         ELSE PriorityVector
  /\ lateRelease' = TRUE
  /\ UNCHANGED <<tickVars, waitVars, currentTask, OSBlockedList, pendSV, pc,
                 OSEventAllocated, OSMaxPriority, OSOriginalPriority,
                 OSEventWait, OSEventWaitList, pont_event, timed>>

OSMutexRelease(t, m) == ReleaseHandOver(t, m) \/ ReleaseAvailable(t, m)

-----------------------------------------------------------------------------
MutexStep(t) ==
  \/ \E c \in Ceilings :
       \/ MutexCreateFull(t, c)
       \/ \E m \in Mutexes : OSMutexCreate(t, m, c)
  \/ \E m \in Mutexes :
       \/ OSMutexDelete(t, m)
       \/ AcquireAvailable(t, m)
       \/ \E w \in AcquireTimes : AcquireWait(t, m, w)
       \/ OSMutexRelease(t, m)
  \/ AcquireTimeout(t)
  \/ AcquireOK(t)

CoreStep ==
  /\ KernelNext
  /\ lateRelease' = (lateRelease /\ (pendSV => pendSV'))
  /\ UNCHANGED <<mutexTable, pont_event, timed, held>>

Next ==
  \/ CoreStep
  \/ \E t \in Tasks : MutexStep(t)

Spec == Init /\ [][Next]_vars

-----------------------------------------------------------------------------
TypeOK ==
  /\ KernelTypeOK
  /\ OSEventAllocated \in [Mutexes -> BOOLEAN]
  /\ OSEventState \in [Mutexes -> BOOLEAN]
  /\ OSEventOwner \in [Mutexes -> Tasks \cup {NOBODY}]
  /\ OSMaxPriority \in [Mutexes -> Priorities]
  /\ OSOriginalPriority \in [Mutexes -> Priorities]
  /\ OSEventWait \in [Mutexes -> Nat]
  /\ OSEventWaitList \in [Mutexes -> SUBSET Priorities]
  /\ pont_event \in [Tasks -> Mutexes \cup {NULL}]
  /\ timed \in [Tasks -> BOOLEAN]
  /\ held \in [Tasks -> Seq(Mutexes)]
  /\ lateRelease \in BOOLEAN

(***************************************************************************)
(* Mutual exclusion: two tasks never hold the same mutex, and the control  *)
(* block names the holder.                                                 *)
(***************************************************************************)
MutualExclusion ==
  \A t \in Tasks, m \in Mutexes : Holds(t, m) => OSEventOwner[m] = t

(***************************************************************************)
(* Ownership is never orphaned: an owner either holds the mutex or is      *)
(* about to be told so by the OSMutexAcquire it is suspended in, even when *)
(* its time ran out between the hand-over and its return.                  *)
(***************************************************************************)
OwnerIsTold ==
  \A m \in Mutexes :
    LET t == OSEventOwner[m]
    IN  t # NOBODY =>
          \/ Holds(t, m)
          \/ /\ pc[t] = "mutex" /\ pont_event[t] = m
             /\ Priority[t] \in OSReadyList \ OSEventWaitList[m]

(***************************************************************************)
(* The scheduler can only select a task: every ready priority belongs to a *)
(* task that has that priority, whatever ceilings were taken and released. *)
(***************************************************************************)
ReadyPrioritiesHaveTasks ==
  \A p \in OSReadyList :
    PriorityVector[p] \in Handles /\ Priority[PriorityVector[p]] = p

(***************************************************************************)
(* Ceiling protocol: in its own code a task runs at the highest of its own *)
(* priority and the ceilings of the mutexes it holds, and back at its own  *)
(* priority once it holds none.                                            *)
(***************************************************************************)
CeilingInForce ==
  \A t \in Tasks :
    LET ceilings == {OSMaxPriority[m] : m \in {n \in Mutexes : Holds(t, n)}}
    IN  /\ Priority[t] \in ceilings \cup {TaskPriority[t]}
        /\ \A p \in ceilings \cup {TaskPriority[t]} : p <= Priority[t]

(***************************************************************************)
(* Preemption is exact except after a release without waiters, which asks  *)
(* for no context switch: then the choice is overdue until the next one.   *)
(***************************************************************************)
RunsHighestUnlessReleased == lateRelease \/ RunsHighest

(***************************************************************************)
(* No unbounded priority inversion: while a task waits for a mutex whose   *)
(* owner is ready, the CPU runs the owner or a task of higher priority     *)
(* than the waiting one.                                                   *)
(***************************************************************************)
NoUnboundedInversion ==
  ~pendSV /\ ~inTick =>
    \A t \in Tasks :
      LET m == pont_event[t]
      IN  /\ m # NULL
          /\ Priority[t] \notin OSReadyList
          /\ Priority[OSEventOwner[m]] \in OSReadyList
          => \/ currentTask = OSEventOwner[m]
             \/ Priority[currentTask] > Priority[t]

=============================================================================
