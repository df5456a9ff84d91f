------------------------------- MODULE Kernel -------------------------------
(***************************************************************************)
(* The BRTOS core (BRTOS.c and the Cortex-M port): priority lists, context *)
(* switching, the tick interrupt, delays and task blocking.                *)
(*                                                                         *)
(* A critical section (OSEnterCritical .. OSExitCritical) runs with        *)
(* interrupts off on a single CPU, so each one is one action.              *)
(* ChangeContext() pends the PendSV exception; until SwitchContext serves  *)
(* it no task instruction runs, but other interrupts may.  A call that     *)
(* suspends its task is two actions: up to ChangeContext(), and from there *)
(* to the return, once the task is the current task again.                 *)
(*                                                                         *)
(* The system is observed from BRTOSStart() on.                            *)
(***************************************************************************)
EXTENDS SAScheduler, FiniteSets

CONSTANTS
  NumTasks,       \* number of tasks installed before BRTOSStart()
  TaskPriority,   \* their priorities, as passed to OSInstallTask()
  MAX_TIMER,      \* largest value of ostick_t (0xffff by default)
  DelayTimes,     \* the values of time_wait the application delays for
  Blockable       \* the tasks the application blocks and unblocks

Tasks == 1..NumTasks
\* BRTOSStart() installs the idle task last.
Idle == NumTasks + 1
Handles == 1..(NumTasks + 1)

ASSUME KernelAssumption ==
  /\ NumTasks \in Nat \ {0} /\ NumTasks <= MAX_PRIORITY
  /\ TaskPriority \in [Tasks -> 1..MAX_PRIORITY]
  /\ \A s, t \in Tasks : TaskPriority[s] = TaskPriority[t] => s = t
  /\ MAX_TIMER \in Nat /\ MAX_TIMER > 4
  /\ DelayTimes \subseteq 1..MAX_TIMER
  /\ Blockable \subseteq Handles

NO_TIMEOUT == MAX_TIMER - 1
EXIT_BY_TIMEOUT == MAX_TIMER - 2
TICK_COUNT_OVERFLOW == MAX_TIMER - 3

EMPTY_PRIO == 255
MUTEX_PRIO == 254

VARIABLES
  OSTickCounter,   \* current tick, 0 .. TICK_COUNT_OVERFLOW - 1
  currentTask,     \* handle of the task that owns the CPU
  OSReadyList,     \* priorities that are ready
  OSBlockedList,   \* priorities that are NOT blocked (a 1 bit lets it run)
  Priority,        \* ContextTask[h].Priority
  PriorityVector,  \* priority -> task handle
  TimeToWait,      \* ContextTask[t].TimeToWait
  DelayList,       \* the tasks linked from Head
  pendSV,          \* a context switch is pending
  inTick,          \* the tick handler is active
  tickList,        \* tasks the handler's walk has still to visit
  pc,              \* "app", or the service a task is suspended in
  ticksLeft        \* history: ticks left of the time a task asked to wait

tickVars == <<OSTickCounter, inTick, tickList>>
waitVars == <<TimeToWait, DelayList, ticksLeft>>
prioVars == <<Priority, PriorityVector>>

kernelVars == <<tickVars, waitVars, prioVars, currentTask, OSReadyList,
                OSBlockedList, pendSV, pc>>

\* Where a task can be: in its own code, or inside a suspending call.
Services == {"app", "delay", "sem", "mutex", "mbox", "queue", "timer"}

PriorityOf(h) == IF h = Idle THEN 0 ELSE TaskPriority[h]

KernelInit ==
  /\ OSTickCounter = 0
  /\ OSReadyList = {PriorityOf(h) : h \in Handles}
  /\ OSBlockedList = Priorities
  /\ Priority = [h \in Handles |-> PriorityOf(h)]
  /\ PriorityVector = [p \in Priorities |->
       IF p \in OSReadyList THEN CHOOSE h \in Handles : PriorityOf(h) = p
                            ELSE EMPTY_PRIO]
  /\ currentTask = PriorityVector[SAScheduler(OSReadyList)]
  /\ TimeToWait = [t \in Tasks |-> NO_TIMEOUT]
  /\ DelayList = {}
  /\ pendSV = FALSE /\ inTick = FALSE /\ tickList = {}
  /\ pc = [t \in Tasks |-> "app"]
  /\ ticksLeft = [t \in Tasks |-> 0]

-----------------------------------------------------------------------------
(***************************************************************************)
(* Scheduling.                                                             *)
(***************************************************************************)
OSSchedule == PriorityVector[SAScheduler(OSReadyList \cap OSBlockedList)]

NoChangeContext == UNCHANGED pendSV

ChangeContext == pendSV' = TRUE

\* PendSV: select the highest ready unblocked task and switch to it.
SwitchContext ==
  /\ pendSV /\ ~inTick
  /\ currentTask' = OSSchedule
  /\ pendSV' = FALSE
  /\ UNCHANGED <<tickVars, waitVars, prioVars, OSReadyList, OSBlockedList, pc>>

\* Task t executes: no exception is active or pending in front of it.
OnCPU(t) == currentTask = t /\ ~pendSV /\ ~inTick

\* Task t executes application code, and may call a service.
Running(t) == OnCPU(t) /\ pc[t] = "app"

\* Task t is back from the ChangeContext() of the given service.
Resumed(t, service) == OnCPU(t) /\ pc[t] = service

-----------------------------------------------------------------------------
(***************************************************************************)
(* Delays and timeouts.                                                    *)
(***************************************************************************)
DeadlineOneEarly(time_wait) ==
  (OSTickCounter + time_wait - 1) % TICK_COUNT_OVERFLOW

DeadlineNoWrap(time_wait) == OSTickCounter + time_wait

Deadline(time_wait) ==
  LET timeout == OSTickCounter + time_wait
  IN  IF timeout >= TICK_COUNT_OVERFLOW
        THEN timeout - TICK_COUNT_OVERFLOW ELSE timeout

LeaveOutOfDelayList(t) == UNCHANGED DelayList

IncludeTaskIntoDelayList(t) == DelayList' = DelayList \cup {t}

KeepInDelayList(t) == UNCHANGED DelayList

RemoveFromDelayList(t) == DelayList' = DelayList \ {t}

(***************************************************************************)
(* The current task t leaves the ready list to wait in a service, for      *)
(* time_wait ticks at most when time_wait > 0, and the CPU is given up.    *)
(***************************************************************************)
Suspend(t, time_wait, service) ==
  /\ OSReadyList' = OSReadyList \ {Priority[t]}
  /\ \/ /\ time_wait > 0
        /\ TimeToWait' = [TimeToWait EXCEPT ![t] = Deadline(time_wait)]
        /\ IncludeTaskIntoDelayList(t)
     \/ /\ time_wait = 0
        /\ TimeToWait' = [TimeToWait EXCEPT ![t] = NO_TIMEOUT]
        /\ UNCHANGED DelayList
  /\ ticksLeft' = [ticksLeft EXCEPT ![t] = time_wait]
  /\ pc' = [pc EXCEPT ![t] = service]
  /\ ChangeContext
  /\ UNCHANGED <<tickVars, prioVars, currentTask, OSBlockedList>>

OSDelayTask(t, time_wait) ==
  /\ Running(t)
  /\ time_wait > 0
  /\ Suspend(t, time_wait, "delay")

OSDelayTaskReturn(t) ==
  /\ Resumed(t, "delay")
  /\ pc' = [pc EXCEPT ![t] = "app"]
  /\ UNCHANGED <<tickVars, waitVars, prioVars, currentTask, OSReadyList,
                 OSBlockedList, pendSV>>

-----------------------------------------------------------------------------
(***************************************************************************)
(* The tick interrupt.  TickTimer enters the handler and counts the tick;  *)
(* each task of the delay list is visited in its own critical section,     *)
(* between which other interrupts may be served; TickExit leaves.  Tasks   *)
(* are visited in any order: list order changes no state a task can see.   *)
(***************************************************************************)
OSIncCounterWrapsLate ==
  OSTickCounter' = IF OSTickCounter = TICK_COUNT_OVERFLOW
                     THEN 0 ELSE OSTickCounter + 1

OSIncCounter ==
  OSTickCounter' = IF OSTickCounter + 1 = TICK_COUNT_OVERFLOW
                     THEN 0 ELSE OSTickCounter + 1

TickTimer ==
  /\ ~inTick
  /\ inTick' = TRUE
  /\ OSIncCounter
  /\ tickList' = DelayList
  /\ ticksLeft' = [t \in Tasks |->
                     IF t \in DelayList /\ ticksLeft[t] > 0
                       THEN ticksLeft[t] - 1 ELSE ticksLeft[t]]
  /\ UNCHANGED <<prioVars, TimeToWait, DelayList, currentTask, OSReadyList,
                 OSBlockedList, pendSV, pc>>

\* The cursor is not moved on.
TickPassStays(t) ==
  /\ inTick /\ t \in tickList
  /\ TimeToWait[t] # OSTickCounter
  /\ UNCHANGED kernelVars

\* The walk reaches a task whose time has not come.
TickPass(t) ==
  /\ inTick /\ t \in tickList
  /\ TimeToWait[t] # OSTickCounter
  /\ tickList' = tickList \ {t}
  /\ UNCHANGED <<OSTickCounter, inTick, waitVars, prioVars, currentTask,
                 OSReadyList, OSBlockedList, pendSV, pc>>

\* The walk reaches a task whose time has come: ready, marked, unlinked.
TickWake(t) ==
  /\ inTick /\ t \in tickList
  /\ TimeToWait[t] = OSTickCounter
  /\ OSReadyList' = OSReadyList \cup {Priority[t]}
  /\ TimeToWait' = [TimeToWait EXCEPT ![t] = EXIT_BY_TIMEOUT]
  /\ RemoveFromDelayList(t)
  /\ tickList' = tickList \ {t}
  /\ pendSV' = TRUE
  /\ UNCHANGED <<OSTickCounter, inTick, ticksLeft, prioVars, currentTask,
                 OSBlockedList, pc>>

TickExit ==
  /\ inTick /\ tickList = {}
  /\ inTick' = FALSE
  /\ pendSV' = TRUE
  /\ UNCHANGED <<OSTickCounter, tickList, waitVars, prioVars, currentTask,
                 OSReadyList, OSBlockedList, pc>>

-----------------------------------------------------------------------------
(***************************************************************************)
(* Blocking: a blocked task keeps its place in every list but is passed    *)
(* over by the scheduler.  The arguments name installed tasks.             *)
(***************************************************************************)
blockUnchanged == UNCHANGED <<tickVars, waitVars, prioVars, currentTask,
                              OSReadyList, pc>>

OSBlockPriority(t, p) ==
  /\ Running(t)
  /\ OSBlockedList' = OSBlockedList \ {p}
  /\ pendSV' = (currentTask = PriorityVector[p])
  /\ blockUnchanged

OSBlockTask(t, h) ==
  /\ Running(t)
  /\ OSBlockedList' = OSBlockedList \ {Priority[h]}
  /\ pendSV' = (currentTask = h)
  /\ blockUnchanged

\* The caller is skipped, so no context change is needed.
OSBlockMultipleTask(t, TaskStart, TaskNumber) ==
  LET blocked == (TaskStart..(TaskStart + TaskNumber - 1)) \ {currentTask}
  IN  /\ Running(t)
      /\ OSBlockedList' = OSBlockedList \ {Priority[h] : h \in blocked}
      /\ UNCHANGED pendSV
      /\ blockUnchanged

\* Called by a task or by an interrupt handler.
OSUnBlockPriority(p) ==
  /\ OSBlockedList' = OSBlockedList \cup {p}
  /\ ChangeContext
  /\ blockUnchanged

OSUnBlockTask(h) ==
  /\ OSBlockedList' = OSBlockedList \cup {Priority[h]}
  /\ ChangeContext
  /\ blockUnchanged

OSUnBlockMultipleTask(t, TaskStart, TaskNumber) ==
  LET unblocked == (TaskStart..(TaskStart + TaskNumber - 1)) \ {currentTask}
  IN  /\ Running(t)
      /\ OSBlockedList' = OSBlockedList \cup {Priority[h] : h \in unblocked}
      /\ ChangeContext
      /\ blockUnchanged

-----------------------------------------------------------------------------
(***************************************************************************)
(* The steps of the core, for the modules that add services to it.         *)
(***************************************************************************)
DelayStep(t) ==
  \/ \E w \in DelayTimes : OSDelayTask(t, w)
  \/ OSDelayTaskReturn(t)

BlockStep(t) ==
  \/ \E h \in Blockable :
       \/ OSBlockPriority(t, PriorityOf(h)) \/ OSBlockTask(t, h)
       \/ Running(t) /\ OSUnBlockPriority(PriorityOf(h))
       \/ Running(t) /\ OSUnBlockTask(h)
  \/ \E s \in Handles, n \in 1..(NumTasks + 1) :
       /\ s..(s + n - 1) \subseteq Blockable
       /\ OSBlockMultipleTask(t, s, n) \/ OSUnBlockMultipleTask(t, s, n)

TickStep ==
  \/ TickTimer
  \/ \E t \in Tasks : TickPass(t) \/ TickWake(t)
  \/ TickExit

InterruptUnBlock ==
  \E h \in Blockable : OSUnBlockPriority(PriorityOf(h)) \/ OSUnBlockTask(h)

KernelNext ==
  \/ \E t \in Tasks : DelayStep(t) \/ BlockStep(t)
  \/ TickStep
  \/ SwitchContext
  \/ InterruptUnBlock

KernelSpec == KernelInit /\ [][KernelNext]_kernelVars

(***************************************************************************)
(* The tick interrupt keeps coming and its handler ends.  A handler takes  *)
(* less than a tick period, so however often the tick comes back, a        *)
(* pending switch is served and the task on the CPU executes in between.   *)
(* Nothing is assumed of what application code calls.                      *)
(***************************************************************************)
KernelFairness ==
  /\ WF_kernelVars(TickTimer)
  /\ WF_kernelVars(\E t \in Tasks : TickPass(t) \/ TickWake(t))
  /\ WF_kernelVars(TickExit)
  /\ SF_kernelVars(SwitchContext)
  /\ \A t \in Tasks : SF_kernelVars(OSDelayTaskReturn(t))

KernelFairSpec == KernelSpec /\ KernelFairness

-----------------------------------------------------------------------------
KernelTypeOK ==
  /\ OSTickCounter \in 0..(TICK_COUNT_OVERFLOW - 1)
  /\ currentTask \in Handles
  /\ OSReadyList \subseteq Priorities
  /\ OSBlockedList \subseteq Priorities
  /\ Priority \in [Handles -> Priorities]
  /\ PriorityVector \in [Priorities -> Handles \cup {EMPTY_PRIO, MUTEX_PRIO}]
  /\ TimeToWait \in [Tasks -> 0..MAX_TIMER]
  /\ DelayList \subseteq Tasks
  /\ pendSV \in BOOLEAN /\ inTick \in BOOLEAN
  /\ tickList \subseteq Tasks
  /\ pc \in [Tasks -> Services]
  /\ ticksLeft \in [Tasks -> 0..MAX_TIMER]

(***************************************************************************)
(* SAScheduler returns the most significant bit: of the list of tasks that *)
(* may run, and of that list with any one priority more, so that every     *)
(* threshold of the decision tree is the one that decides.                 *)
(***************************************************************************)
SelectsHighest ==
  \A prio \in Priorities :
    LET ReadyList == (OSReadyList \cap OSBlockedList) \cup {prio}
        highest == SAScheduler(ReadyList)
    IN highest \in ReadyList /\ \A b \in ReadyList : b <= highest

(***************************************************************************)
(* Preemption: while tasks execute, the one on the CPU is the one          *)
(* OSSchedule would choose.  Every service that changes the ready or the   *)
(* blocked list, and every tick, must ask for a context switch when it     *)
(* changes that choice.                                                    *)
(***************************************************************************)
RunsHighest == ~pendSV /\ ~inTick => currentTask = OSSchedule

(***************************************************************************)
(* A delay or a timeout lasts exactly the time asked for: no task is still *)
(* linked in the delay list when its time is over and the tick's walk has  *)
(* passed it, and no delay ends before, whatever the wrap of the tick      *)
(* counter and the comparison by equality in OS_TICK_HANDLER.              *)
(***************************************************************************)
WaitsAreExact ==
  \A t \in Tasks :
    /\ t \in DelayList /\ t \notin tickList => ticksLeft[t] > 0
    /\ pc[t] = "delay" /\ t \notin DelayList => ticksLeft[t] = 0

(***************************************************************************)
(* A delayed task is out of the ready list exactly as long as it is linked *)
(* in the delay list, and only a suspended task is linked there: blocking  *)
(* and unblocking never lose or duplicate a wake-up.                       *)
(***************************************************************************)
DelayedAreLinked ==
  \A t \in Tasks :
    /\ pc[t] = "delay" => (t \in DelayList <=> Priority[t] \notin OSReadyList)
    /\ pc[t] = "app" => t \notin DelayList /\ Priority[t] \in OSReadyList

(***************************************************************************)
(* Every delay ends: a delayed task becomes ready again, blocked or not.   *)
(***************************************************************************)
DelayEnds ==
  \A t \in Tasks : pc[t] = "delay" ~> Priority[t] \in OSReadyList

(***************************************************************************)
(* The task of highest priority always comes back from OSDelayTask, unless *)
(* it is blocked again and again: interrupts, ticks and the calls of other *)
(* tasks cannot keep it off the CPU.                                       *)
(***************************************************************************)
HighestReturns ==
  \A t \in Tasks :
    /\ \A s \in Tasks : TaskPriority[s] <= TaskPriority[t]
    /\ <>[](TaskPriority[t] \in OSBlockedList)
    => (pc[t] = "delay" ~> pc[t] = "app")

=============================================================================
