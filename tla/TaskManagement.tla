--------------------------- MODULE TaskManagement ---------------------------
(***************************************************************************)
(* Installing and uninstalling tasks at run time (BRTOS.c, with            *)
(* BRTOS_DYNAMIC_TASKS_ENABLED), on top of the core, of semaphores (as     *)
(* services that tasks wait in) and of the pointers of the delay list.     *)
(* The steps of the core and of semaphores are repeated here with what     *)
(* they do to the pointers.  A free control block keeps pc = "app", where  *)
(* the next task installed in it starts.                                   *)
(***************************************************************************)
EXTENDS Semaphore

CONSTANTS
  InstallPriorities,  \* priorities the application installs tasks at
  Careful             \* does it uninstall tasks in the safe cases only?

VARIABLES
  head, tail, NextTask, PreviousTask,  \* Head, Tail, Next, Previous
  Task,                    \* the cursor of OS_TICK_HANDLER
  TaskAlloc,               \* control blocks in use
  NumberOfInstalledTasks,
  TaskHandle,              \* argument of a caller of OSUninstallTask
  Task_timer,              \* its local: where the search of the list begins
  lateInstall              \* history: an installation, no switch since

List == INSTANCE DelayList WITH
  Next <- NextTask, Previous <- PreviousTask, linked <- DelayList

links == <<head, tail, NextTask, PreviousTask>>
blocks == <<TaskAlloc, NumberOfInstalledTasks>>
uninstallLocals == <<TaskHandle, Task_timer>>
taskVars == <<links, Task, blocks, uninstallLocals, lateInstall>>
allVars == <<vars, taskVars>>

ASSUME TaskAssumption ==
  /\ InstallPriorities \subseteq 1..MAX_PRIORITY
  /\ 0 \notin PendTimes    \* an untimed wait does not touch the delay list
  /\ Careful \in BOOLEAN

TaskInit ==
  /\ Init
  /\ List!ListInit
  /\ Task = NULL
  /\ TaskAlloc = Handles
  /\ NumberOfInstalledTasks = Cardinality(Handles)
  /\ TaskHandle = [t \in Tasks |-> NULL]
  /\ Task_timer = [t \in Tasks |-> NULL]
  /\ lateInstall = FALSE

-----------------------------------------------------------------------------
(***************************************************************************)
(* The steps of the core and of semaphores, and the pointers.              *)
(***************************************************************************)
StartsWait(t) ==
  /\ \/ \E w \in DelayTimes :
          OSDelayTask(t, w) /\ UNCHANGED <<semTable, semLocals>>
     \/ \E s \in Sems, w \in PendTimes : SemPendWait(t, s, w)
  /\ List!IncludeTaskIntoDelayList(t)

EndsWait(t) ==
  /\ timed[t] /\ TimeToWait[t] # EXIT_BY_TIMEOUT
  /\ SemPendOK(t)
  /\ List!RemoveFromDelayList(t)

LeavesListAlone(t) ==
  /\ \/ OSDelayTaskReturn(t) /\ UNCHANGED <<semTable, semLocals>>
     \/ \E s \in Sems :
          \/ \E n \in InitialCounts : OSSemCreate(t, s, n)
          \/ SemPendTake(t, s) \/ (Running(t) /\ OSSemPost(s))
     \/ SemPendTimeout(t)
     \/ ~(timed[t] /\ TimeToWait[t] # EXIT_BY_TIMEOUT) /\ SemPendOK(t)
  /\ UNCHANGED links

ServiceStep(t) ==
  /\ StartsWait(t) \/ EndsWait(t) \/ LeavesListAlone(t)
  /\ UNCHANGED <<Task, blocks, uninstallLocals, lateInstall>>

\* The walk of the tick handler: it reads Next of the task it has just
\* visited, and perhaps removed.
TickVisitStopsAtRemoved ==
  /\ Task # NULL
  /\ \/ TickPass(Task) /\ Task' = NextTask[Task] /\ UNCHANGED links
     \/ TickWake(Task) /\ Task' = NULL /\ List!RemoveFromDelayList(Task)

TickVisit ==
  /\ Task # NULL
  /\ Task' = NextTask[Task]
  /\ \/ TickPass(Task) /\ UNCHANGED links
     \/ TickWake(Task) /\ List!RemoveFromDelayList(Task)

TickWalk ==
  /\ \/ TickTimer /\ Task' = head /\ UNCHANGED links
     \/ TickVisit
     \/ Task = NULL /\ TickExit /\ UNCHANGED <<Task, links>>
  /\ UNCHANGED <<semTable, semLocals, blocks, uninstallLocals, lateInstall>>

Switch ==
  /\ SwitchContext
  /\ lateInstall' = FALSE
  /\ UNCHANGED <<semTable, semLocals, links, Task, blocks, uninstallLocals>>

Interrupt ==
  /\ InterruptPost
  /\ UNCHANGED taskVars

-----------------------------------------------------------------------------
(***************************************************************************)
(* OSInstallTask: the first free control block, a priority not in use.     *)
(* The stack comes from the heap (external); when that fails, or there is  *)
(* no control block, nothing changes.  No context switch is asked for.     *)
(***************************************************************************)
FreePriority(p) == PriorityVector[p] = EMPTY_PRIO

OSInstallTask(t, h, iPriority) ==
  /\ Running(t)
  /\ FreePriority(iPriority)
  /\ h \in Tasks \ TaskAlloc /\ \A g \in Tasks : g < h => g \in TaskAlloc
  /\ TaskAlloc' = TaskAlloc \cup {h}
  /\ NumberOfInstalledTasks' = NumberOfInstalledTasks + 1
  /\ Priority' = [Priority EXCEPT ![h] = iPriority]
  /\ PriorityVector' = [PriorityVector EXCEPT ![iPriority] = h]
  /\ TimeToWait' = [TimeToWait EXCEPT ![h] = NO_TIMEOUT]
  /\ NextTask' = [NextTask EXCEPT ![h] = NULL]
  /\ PreviousTask' = [PreviousTask EXCEPT ![h] = NULL]
  /\ OSReadyList' = OSReadyList \cup {iPriority}
  /\ lateInstall' = TRUE
  /\ UNCHANGED <<tickVars, DelayList, ticksLeft, currentTask, OSBlockedList,
                 pendSV, pc, semTable, semLocals, head, tail, Task,
                 uninstallLocals>>

(***************************************************************************)
(* OSUninstallTask(h, safety_off = TRUE) reads Head, then enters its       *)
(* critical section.  The application uninstalls no task that is in a wait *)
(* list; when Careful, it uninstalls the calling task, or the caller is    *)
(* the highest of all and the other is in its own code or in OSDelayTask.  *)
(***************************************************************************)
InWaitList(h) == \E s \in Sems : Priority[h] \in OSEventWaitList[s]

MayUninstall(t, h) ==
  /\ ~InWaitList(h)
  /\ Careful => \/ h = t
                \/ /\ pc[h] \in {"app", "delay"}
                   /\ \A g \in TaskAlloc : Priority[g] <= Priority[t]

UninstallCall(t, h) ==
  /\ Running(t)
  /\ TaskHandle[t] = NULL
  /\ h \in TaskAlloc \ {Idle}
  /\ MayUninstall(t, h)
  /\ TaskHandle' = [TaskHandle EXCEPT ![t] = h]
  /\ Task_timer' = [Task_timer EXCEPT ![t] = head]
  /\ UNCHANGED <<vars, links, Task, blocks, lateInstall>>

\* The search that begins at Task_timer meets the task.
Found(t, h) == h \in List!Members(List!Chain(Task_timer[t], NextTask))

Waits(h) == Priority[h] \notin OSReadyList

\* Nothing is removed.
LeaveInList(t, h) ==
  /\ NextTask' = [NextTask EXCEPT ![h] = NULL]
  /\ PreviousTask' = [PreviousTask EXCEPT ![h] = NULL]
  /\ UNCHANGED <<head, tail, DelayList>>

\* RemoveFromDelayList if h waits and is found; then Next and Previous of h
\* are cleared.
Unlink(t, h) ==
  \/ /\ Waits(h) /\ Found(t, h)
     /\ head' = List!HeadWithout(h) /\ tail' = List!TailWithout(h)
     /\ NextTask' = [List!NextWithout(h) EXCEPT ![h] = NULL]
     /\ PreviousTask' = [List!PreviousWithout(h) EXCEPT ![h] = NULL]
     /\ DelayList' = DelayList \ {h}
  \/ ~(Waits(h) /\ Found(t, h)) /\ LeaveInList(t, h)

\* The priority is still taken.
FreeBlockOnly(h) == UNCHANGED PriorityVector

FreePriorityOf(h) ==
  PriorityVector' = [PriorityVector EXCEPT ![Priority[h]] = EMPTY_PRIO]

CountDown == NumberOfInstalledTasks' = NumberOfInstalledTasks - 1

KeepRunning(h) == UNCHANGED pendSV

\* A task that uninstalls itself gives up the CPU.
SwitchFrom(h) == pendSV' = (h = currentTask)

UninstallTask(t) ==
  LET h == TaskHandle[t]
  IN  /\ OnCPU(t) /\ h # NULL
      /\ h \in TaskAlloc /\ ~InWaitList(h)
      /\ Unlink(t, h)
      /\ OSReadyList' = OSReadyList \ {Priority[h]}
      /\ TaskAlloc' = TaskAlloc \ {h}
      /\ CountDown
      /\ FreePriorityOf(h)
      /\ Priority' = [Priority EXCEPT ![h] = EMPTY_PRIO]
      /\ TimeToWait' = [TimeToWait EXCEPT ![h] = NO_TIMEOUT]
      /\ SwitchFrom(h)
      /\ pc' = [pc EXCEPT ![h] = "app"]
      /\ pont_event' = [pont_event EXCEPT ![h] = NULL]
      /\ timed' = [timed EXCEPT ![h] = FALSE]
      /\ posted' = posted \ {h}
      /\ ticksLeft' = [ticksLeft EXCEPT ![h] = 0]
      /\ TaskHandle' = [TaskHandle EXCEPT ![t] = NULL, ![h] = NULL]
      /\ Task_timer' = [Task_timer EXCEPT ![t] = NULL, ![h] = NULL]
      /\ UNCHANGED <<tickVars, currentTask, OSBlockedList, semTable, Task,
                     lateInstall>>

-----------------------------------------------------------------------------
\* A task inside OSUninstallTask makes no other call.
TaskStep(t) ==
  \/ /\ TaskHandle[t] = NULL
     /\ \/ ServiceStep(t)
        \/ \E h \in Tasks, p \in InstallPriorities : OSInstallTask(t, h, p)
        \/ \E h \in Tasks : UninstallCall(t, h)
  \/ UninstallTask(t)

TaskNext ==
  \/ \E t \in Tasks : TaskStep(t)
  \/ TickWalk \/ Switch \/ Interrupt

TaskSpec == TaskInit /\ [][TaskNext]_allVars

-----------------------------------------------------------------------------
(***************************************************************************)
(* Both directions of the delay list agree and hold exactly the tasks that *)
(* began a timed wait and did not end it: no task is dropped or met twice, *)
(* whatever order tasks wait, time out, are woken, uninstalled and         *)
(* installed again in the same control block.                              *)
(***************************************************************************)
WellLinked == List!BothWays

(***************************************************************************)
(* The list is what DelayListSpec says; in particular the walk of the tick *)
(* visits every task in it exactly once, although it reads Next of tasks   *)
(* it has just removed and interrupt handlers post between two visits.     *)
(***************************************************************************)
AbstractList == INSTANCE DelayListSpec WITH
  list <- List!Chain(head, NextTask),
  toVisit <- List!Chain(Task, NextTask)

ImplementsDelayListSpec == AbstractList!Spec

(***************************************************************************)
(* The scheduler finds an installed task behind every ready priority, and  *)
(* no control block or priority is shared or lost when tasks come and go.  *)
(***************************************************************************)
ReadyAreInstalled ==
  /\ \A p \in OSReadyList : PriorityVector[p] \in TaskAlloc
  /\ \A h \in Handles, p \in Priorities :
       (h \in TaskAlloc /\ Priority[h] = p) <=> PriorityVector[p] = h

(***************************************************************************)
(* Preemption is exact except after OSInstallTask, which asks for no       *)
(* context switch: the new task waits for the next one.                    *)
(***************************************************************************)
RunsHighestUnlessInstalled == lateInstall \/ RunsHighest

(***************************************************************************)
(* An uninstalled task is in no list of the kernel: OSUninstallTask takes  *)
(* it out of the delay list it may be waiting in.                          *)
(***************************************************************************)
UninstalledAreUnlinked == DelayList \subseteq TaskAlloc

=============================================================================
