---------------------------- MODULE MutexProofs -----------------------------
(***************************************************************************)
(* Mutexes, for every number of tasks and mutexes, every assignment of     *)
(* priorities and ceilings and every set of blocked tasks, when each task  *)
(* releases in the reverse order of its acquisitions and no acquire waits  *)
(* longer than one revolution of the tick counter.                         *)
(*                                                                         *)
(* KernelInv does not hold here: a holder leaves its own priority, so the  *)
(* tables of the core change, and a release without waiters asks for no    *)
(* context switch.                                                         *)
(***************************************************************************)
EXTENDS Mutex, KernelFacts

Disciplined ==
  Nested /\ AcquireTimes \subseteq 0..TICK_COUNT_OVERFLOW \cup {NO_TIMEOUT}

(***************************************************************************)
(* The inductive invariant.  What is left of the core's: the two tables    *)
(* agree on the current priorities, the priorities passed to OSInstallTask *)
(* stay reserved for their tasks, and a task that executes is ready.       *)
(***************************************************************************)
CurrentTablesAgree ==
  /\ \A h \in Handles : PriorityVector[Priority[h]] = h
  /\ \A t \in Tasks : PriorityVector[TaskPriority[t]] = t
  /\ Priority[Idle] = 0 /\ 0 \in OSReadyList

CPUIsReady == ~pendSV /\ ~inTick => Priority[currentTask] \in OSReadyList

CoreInv ==
  /\ KernelTypeOK /\ CurrentTablesAgree /\ ReadyPrioritiesHaveTasks
  /\ CPUIsReady /\ WalkIsLinked /\ DelayedAreLinked

\* A ceiling belongs to one mutex, and to no task.
CeilingsInv ==
  \A m \in Mutexes :
    OSEventAllocated[m] /\ OSMaxPriority[m] > 0 =>
      /\ PriorityVector[OSMaxPriority[m]] # EMPTY_PRIO
      /\ \A t \in Tasks : TaskPriority[t] # OSMaxPriority[m]
      /\ \A n \in Mutexes :
           OSEventAllocated[n] /\ OSMaxPriority[n] = OSMaxPriority[m] => n = m

\* The priorities among which t runs, with its first k mutexes.
Levels(t, k) == {TaskPriority[t]} \cup {OSMaxPriority[held[t][j]] : j \in 1..k}

\* The priority saved in each mutex is the one in force before it was taken,
\* and is still t's to return to.
HeldOf(t) ==
  /\ \A i, j \in 1..Len(held[t]) : held[t][i] = held[t][j] => i = j
  /\ \A i \in 1..Len(held[t]) :
       /\ IsHighest(OSOriginalPriority[held[t][i]], Levels(t, i - 1))
       /\ PriorityVector[OSOriginalPriority[held[t][i]]] = t
  /\ IsHighest(Priority[t], Levels(t, Len(held[t])))

HeldInv == \A t \in Tasks : HeldOf(t)

\* The control block of a mutex: available or owned, and who waits for it.
TableInv ==
  \A m \in Mutexes :
    /\ OSEventState[m] <=> OSEventAllocated[m] /\ OSEventOwner[m] = NOBODY
    /\ OSEventOwner[m] # NOBODY => OSEventAllocated[m]
    /\ Counts(OSEventWait[m], OSEventWaitList[m])
    /\ \A p \in OSEventWaitList[m] :
         \E t \in Tasks : p = Priority[t] /\ pc[t] = "mutex" /\ pont_event[t] = m

\* A task suspended in OSMutexAcquire is named by the wait list, or it was
\* handed the mutex; it is ready in the second case, or when its time ran out.
MutexWaiter(t) ==
  LET m == pont_event[t]
  IN  /\ m \in Mutexes /\ OSEventAllocated[m] /\ ~Holds(t, m)
      /\ Priority[t] \notin OSEventWaitList[m] => OSEventOwner[m] = t
      /\ timed[t] => (t \in DelayList <=> TimeToWait[t] # EXIT_BY_TIMEOUT)
      /\ ~timed[t] => t \notin DelayList
      /\ Priority[t] \in OSReadyList <=>
           \/ Priority[t] \notin OSEventWaitList[m]
           \/ timed[t] /\ TimeToWait[t] = EXIT_BY_TIMEOUT

WaitersInv == \A t \in Tasks : pc[t] = "mutex" => MutexWaiter(t)

MutexInv ==
  /\ TypeOK /\ CoreInv /\ CeilingsInv /\ HeldInv /\ TableInv /\ WaitersInv
  /\ MutualExclusion /\ OwnerIsTold

-----------------------------------------------------------------------------
(***************************************************************************)
(* There are fewer tasks than priorities, so a handle is none of the marks *)
(* of PriorityVector.                                                      *)
(***************************************************************************)
LEMMA HandleFacts ==
  /\ \A h \in Handles : h # EMPTY_PRIO /\ h # MUTEX_PRIO
  /\ NOBODY \notin Tasks /\ NULL \notin Mutexes
  /\ \A t \in Tasks : TaskPriority[t] \in Priorities /\ TaskPriority[t] > 0
  /\ \A p \in Priorities : p \in Int /\ p >= 0
<1>1. /\ NumTasks \in Nat /\ NumTasks >= 1 /\ NumTasks <= 31
      /\ TaskPriority \in [Tasks -> 1..31]
      /\ \A s, t \in Tasks : TaskPriority[s] = TaskPriority[t] => s = t
  BY KernelAssumption DEF MAX_PRIORITY
<1>3. NumTasks \in 1..31
  BY <1>1
<1>4. \A h \in Handles : h # EMPTY_PRIO /\ h # MUTEX_PRIO
  BY <1>3 DEF Handles, EMPTY_PRIO, MUTEX_PRIO
<1>5. NOBODY \notin Tasks /\ NULL \notin Mutexes
  BY <1>1, MutexAssumption DEF Tasks, Mutexes, NOBODY, NULL
<1>6. \A t \in Tasks : TaskPriority[t] \in Priorities /\ TaskPriority[t] > 0
  BY <1>1 DEF Priorities, MAX_PRIORITY
<1>7. \A p \in Priorities : p \in Int /\ p >= 0
  BY DEF Priorities, MAX_PRIORITY
<1>. QED  BY <1>4, <1>5, <1>6, <1>7, Zenon

(***************************************************************************)
(* No two tasks have the same priority at any time, and none that of the   *)
(* idle task.                                                              *)
(***************************************************************************)
LEMMA PrioritiesDiffer ==
  ASSUME CoreInv
  PROVE  /\ \A g, h \in Handles : Priority[g] = Priority[h] => g = h
         /\ \A t \in Tasks : t \in Handles /\ Priority[t] # 0 /\ Priority[t] \in Priorities
         /\ PriorityVector[0] = Idle /\ Idle \in Handles
<1>1. \A g, h \in Handles : Priority[g] = Priority[h] => g = h
  BY Zenon DEF CoreInv, CurrentTablesAgree
<1>2. PriorityVector[0] = Idle
  BY PriorityOfFacts, Zenon DEF CoreInv, CurrentTablesAgree
<1>. QED  BY <1>1, <1>2, PriorityOfFacts, Zenon DEF CoreInv, CurrentTablesAgree, KernelTypeOK

(***************************************************************************)
(* The scheduler's choice is a task, or the idle task, and it is ready.    *)
(***************************************************************************)
LEMMA ChoiceIsReady ==
  ASSUME CoreInv
  PROVE  OSSchedule \in Handles /\ Priority[OSSchedule] \in OSReadyList
<1>. DEFINE L == OSReadyList \cap OSBlockedList
<1>1. L \in SUBSET Priorities
  BY Zenon DEF CoreInv, KernelTypeOK
<1>2. CASE L = {}
  BY <1>2, SASchedulerEmpty, PrioritiesDiffer DEF OSSchedule, CoreInv, CurrentTablesAgree
<1>3. CASE L # {}
  <2>1. SAScheduler(L) \in OSReadyList
    BY <1>1, <1>3, SASchedulerHighest, Zenon DEF IsHighest
  <2>. QED  BY <2>1, Zenon DEF OSSchedule, CoreInv, ReadyPrioritiesHaveTasks
<1>. QED  BY <1>2, <1>3, Zenon

(***************************************************************************)
(* A task that executes is ready.                                          *)
(***************************************************************************)
LEMMA OnCPUIsReady ==
  ASSUME CoreInv, NEW t \in Tasks, OnCPU(t)
  PROVE  Priority[t] \in OSReadyList
  BY Zenon DEF CoreInv, CPUIsReady, OnCPU

(***************************************************************************)
(* A task suspends itself.                                                 *)
(***************************************************************************)
LEMMA SuspendCoreInv ==
  ASSUME CoreInv, NEW t \in Tasks, Running(t),
         NEW w \in 0..MAX_TIMER, NEW service \in Services \ {"app"},
         service = "delay" => w > 0,
         Suspend(t, w, service)
  PROVE  CoreInv'
<1>. USE DEF CoreInv
<1>1. KernelTypeOK'
  BY DeadlineType, KernelAssumption
  DEF KernelTypeOK, Suspend, IncludeTaskIntoDelayList, ChangeContext, tickVars,
      prioVars, NO_TIMEOUT
<1>2. CurrentTablesAgree' /\ ReadyPrioritiesHaveTasks'
  BY PrioritiesDiffer, Zenon DEF CurrentTablesAgree, ReadyPrioritiesHaveTasks, Suspend, prioVars
<1>3. WalkIsLinked' /\ CPUIsReady'
  BY Zenon DEF WalkIsLinked, CPUIsReady, Suspend, ChangeContext,
         IncludeTaskIntoDelayList, tickVars
<1>4. DelayedAreLinked'
  <2>1. ASSUME NEW u \in Tasks, u # t
        PROVE  /\ u \in DelayList' <=> u \in DelayList
               /\ pc'[u] = pc[u]
               /\ Priority'[u] \in OSReadyList' <=> Priority[u] \in OSReadyList
    <3>1. Priority[u] # Priority[t] /\ Priority' = Priority
      BY <2>1, PrioritiesDiffer, Zenon DEF Suspend, prioVars
    <3>. QED  BY <2>1, <3>1, Zenon DEF Suspend, IncludeTaskIntoDelayList, KernelTypeOK
  <2>2. /\ pc'[t] = service
        /\ service = "delay" => t \in DelayList'
        /\ Priority'[t] \notin OSReadyList'
    BY DEF Suspend, IncludeTaskIntoDelayList, KernelTypeOK, prioVars
  <2>. QED  BY <2>1, <2>2, Zenon DEF DelayedAreLinked
<1>. QED  BY <1>1, <1>2, <1>3, <1>4, Zenon

(***************************************************************************)
(* What the steps of the core do to a task suspended in OSMutexAcquire:    *)
(* nothing, or they time it out.                                           *)
(***************************************************************************)
CoreKeeps(t) ==
  /\ pc'[t] = "mutex" <=> pc[t] = "mutex"
  /\ pc[t] = "mutex" =>
       \/ /\ t \in DelayList' <=> t \in DelayList
          /\ TimeToWait'[t] = TimeToWait[t]
          /\ Priority[t] \in OSReadyList' <=> Priority[t] \in OSReadyList
       \/ /\ t \in DelayList /\ t \notin DelayList'
          /\ TimeToWait'[t] = EXIT_BY_TIMEOUT
          /\ Priority[t] \in OSReadyList'

CoreStepKeeps == CoreInv' /\ UNCHANGED prioVars /\ \A t \in Tasks : CoreKeeps(t)

\* OSDelayTask and its return.
LEMMA DelayKeeps ==
  ASSUME CoreInv, NEW u \in Tasks, DelayStep(u)
  PROVE  CoreStepKeeps
<1>. USE DEF CoreInv
<1>1. ASSUME NEW w \in DelayTimes, OSDelayTask(u, w)
      PROVE  CoreStepKeeps
  <2>1. CoreInv'
    <3>1. w \in 0..MAX_TIMER /\ w > 0 /\ "delay" \in Services \ {"app"}
      BY <1>1, KernelAssumption DEF Services
    <3>. QED  BY <1>1, <3>1, SuspendCoreInv, Zenon DEF OSDelayTask
  <2>2. /\ pc[u] = "app" /\ pc' = [pc EXCEPT ![u] = "delay"]
        /\ OSReadyList' = OSReadyList \ {Priority[u]}
        /\ DelayList' = DelayList \cup {u} \/ DelayList' = DelayList
        /\ \E d : TimeToWait' = [TimeToWait EXCEPT ![u] = d]
        /\ UNCHANGED prioVars
    BY <1>1, Zenon DEF OSDelayTask, Running, Suspend, IncludeTaskIntoDelayList
  <2>3. ASSUME NEW t \in Tasks
        PROVE  CoreKeeps(t)
    BY <2>2, PrioritiesDiffer, Zenon DEF CoreKeeps, KernelTypeOK
  <2>. QED  BY <2>1, <2>2, <2>3, Zenon DEF CoreStepKeeps
<1>2. CASE OSDelayTaskReturn(u)
  <2>1. Priority[u] \in OSReadyList
    BY <1>2, OnCPUIsReady, Zenon DEF OSDelayTaskReturn, Resumed
  <2>2. KernelTypeOK'
    BY <1>2, Zenon DEF KernelTypeOK, OSDelayTaskReturn, tickVars, waitVars, prioVars, Services
  <2>3. CurrentTablesAgree' /\ ReadyPrioritiesHaveTasks' /\ WalkIsLinked' /\ CPUIsReady'
    BY <1>2, Zenon DEF CurrentTablesAgree, ReadyPrioritiesHaveTasks, WalkIsLinked,
                CPUIsReady, OSDelayTaskReturn, tickVars, waitVars, prioVars
  <2>4. DelayedAreLinked'
    BY <1>2, <2>1, Zenon DEF DelayedAreLinked, OSDelayTaskReturn, Resumed, KernelTypeOK,
                      waitVars, prioVars
  <2>5. \A t \in Tasks : CoreKeeps(t)
    BY <1>2, Zenon DEF CoreKeeps, OSDelayTaskReturn, Resumed, KernelTypeOK, waitVars
  <2>. QED  BY <1>2, <2>2, <2>3, <2>4, <2>5, Zenon DEF CoreStepKeeps, OSDelayTaskReturn
<1>. QED  BY <1>1, <1>2, Zenon DEF DelayStep

\* The tick and its walk.
LEMMA TickKeeps ==
  ASSUME CoreInv, TickStep
  PROVE  CoreStepKeeps
<1>. USE DEF CoreInv
<1>1. CASE TickTimer
  <2>1. KernelTypeOK'
    <3>1. OSTickCounter' \in 0..(TICK_COUNT_OVERFLOW - 1)
      BY <1>1, KernelAssumption
      DEF KernelTypeOK, TickTimer, OSIncCounter, TICK_COUNT_OVERFLOW
    <3>2. ticksLeft' \in [Tasks -> 0..MAX_TIMER]
      BY <1>1, KernelAssumption DEF KernelTypeOK, TickTimer
    <3>. QED  BY <1>1, <3>1, <3>2, Zenon DEF KernelTypeOK, TickTimer, prioVars
  <2>2. /\ CurrentTablesAgree' /\ ReadyPrioritiesHaveTasks' /\ CPUIsReady'
        /\ WalkIsLinked' /\ DelayedAreLinked'
    BY <1>1, Zenon DEF TickTimer, CurrentTablesAgree, ReadyPrioritiesHaveTasks,
                CPUIsReady, WalkIsLinked, DelayedAreLinked, prioVars
  <2>3. UNCHANGED prioVars /\ \A t \in Tasks : CoreKeeps(t)
    BY <1>1, Zenon DEF TickTimer, CoreKeeps
  <2>. QED  BY <2>1, <2>2, <2>3, Zenon DEF CoreStepKeeps
<1>2. ASSUME NEW u \in Tasks, TickPass(u)
      PROVE  CoreStepKeeps
  <2>1. KernelTypeOK'
    BY <1>2, Zenon DEF KernelTypeOK, TickPass, waitVars, prioVars
  <2>2. /\ CurrentTablesAgree' /\ ReadyPrioritiesHaveTasks' /\ CPUIsReady'
        /\ WalkIsLinked' /\ DelayedAreLinked'
    BY <1>2, Zenon DEF TickPass, CurrentTablesAgree, ReadyPrioritiesHaveTasks,
                CPUIsReady, WalkIsLinked, DelayedAreLinked, waitVars, prioVars
  <2>3. UNCHANGED prioVars /\ \A t \in Tasks : CoreKeeps(t)
    BY <1>2, Zenon DEF TickPass, CoreKeeps, waitVars
  <2>. QED  BY <2>1, <2>2, <2>3, Zenon DEF CoreStepKeeps
<1>3. ASSUME NEW u \in Tasks, TickWake(u)
      PROVE  CoreStepKeeps
  <2>1. /\ Priority[u] \in Priorities /\ u \in Handles
        /\ PriorityVector[Priority[u]] = u /\ u \in DelayList
        /\ \A t \in Tasks : Priority[t] = Priority[u] => t = u
    BY <1>3, PrioritiesDiffer, Zenon DEF TickWake, WalkIsLinked, CurrentTablesAgree
  <2>2. KernelTypeOK'
    BY <1>3, <2>1, KernelAssumption
    DEF KernelTypeOK, TickWake, RemoveFromDelayList, prioVars, EXIT_BY_TIMEOUT
  <2>3. /\ CurrentTablesAgree' /\ ReadyPrioritiesHaveTasks' /\ CPUIsReady'
        /\ WalkIsLinked'
    BY <1>3, <2>1, Zenon DEF TickWake, CurrentTablesAgree, ReadyPrioritiesHaveTasks,
                CPUIsReady, WalkIsLinked, RemoveFromDelayList, prioVars
  <2>4. DelayedAreLinked'
    <3>1. ASSUME NEW t \in Tasks, t # u
          PROVE  /\ t \in DelayList' <=> t \in DelayList
                 /\ Priority'[t] \in OSReadyList' <=> Priority[t] \in OSReadyList
      BY <1>3, <2>1, <3>1, Zenon DEF TickWake, RemoveFromDelayList, prioVars
    <3>2. u \notin DelayList' /\ Priority'[u] \in OSReadyList' /\ pc' = pc
      BY <1>3, Zenon DEF TickWake, RemoveFromDelayList, prioVars
    <3>. QED  BY <3>1, <3>2, Zenon DEF DelayedAreLinked
  <2>5. UNCHANGED prioVars /\ \A t \in Tasks : CoreKeeps(t)
    BY <1>3, <2>1, Zenon DEF TickWake, RemoveFromDelayList, CoreKeeps, KernelTypeOK
  <2>. QED  BY <2>2, <2>3, <2>4, <2>5, Zenon DEF CoreStepKeeps
<1>4. CASE TickExit
  <2>1. KernelTypeOK'
    BY <1>4, Zenon DEF KernelTypeOK, TickExit, waitVars, prioVars
  <2>2. /\ CurrentTablesAgree' /\ ReadyPrioritiesHaveTasks' /\ CPUIsReady'
        /\ WalkIsLinked' /\ DelayedAreLinked'
    BY <1>4, Zenon DEF TickExit, CurrentTablesAgree, ReadyPrioritiesHaveTasks,
                CPUIsReady, WalkIsLinked, DelayedAreLinked, waitVars, prioVars
  <2>3. UNCHANGED prioVars /\ \A t \in Tasks : CoreKeeps(t)
    BY <1>4, Zenon DEF TickExit, CoreKeeps, waitVars
  <2>. QED  BY <2>1, <2>2, <2>3, Zenon DEF CoreStepKeeps
<1>. QED  BY <1>1, <1>2, <1>3, <1>4, Zenon DEF TickStep

\* PendSV.
LEMMA SwitchKeeps ==
  ASSUME CoreInv, SwitchContext
  PROVE  CoreStepKeeps
<1>. USE DEF CoreInv
<1>1. KernelTypeOK'
  BY ChoiceIsReady, Zenon DEF KernelTypeOK, SwitchContext, tickVars, waitVars, prioVars
<1>2. CPUIsReady'
  BY ChoiceIsReady, Zenon DEF SwitchContext, CPUIsReady, prioVars
<1>3. /\ CurrentTablesAgree' /\ ReadyPrioritiesHaveTasks' /\ WalkIsLinked'
      /\ DelayedAreLinked'
  BY Zenon DEF SwitchContext, CurrentTablesAgree, ReadyPrioritiesHaveTasks,
         WalkIsLinked, DelayedAreLinked, tickVars, waitVars, prioVars
<1>4. UNCHANGED prioVars /\ \A t \in Tasks : CoreKeeps(t)
  BY Zenon DEF SwitchContext, CoreKeeps, waitVars
<1>. QED  BY <1>1, <1>2, <1>3, <1>4, Zenon DEF CoreStepKeeps

\* Blocking never makes a task execute that did not.
LEMMA BlockKeeps ==
  ASSUME CoreInv, InterruptUnBlock \/ \E u \in Tasks : BlockStep(u)
  PROVE  CoreStepKeeps
<1>. USE DEF CoreInv
<1>. DEFINE Done == /\ blockUnchanged /\ OSBlockedList' \in SUBSET Priorities
                    /\ pendSV' \in BOOLEAN /\ (pendSV' \/ (~pendSV /\ ~inTick))
<1>1. Done
  <2>1. \A h \in Handles : PriorityOf(h) \in Priorities /\ Priority[h] \in Priorities
    BY PriorityOfFacts, Zenon DEF KernelTypeOK
  <2>2. Blockable \subseteq Handles
    BY KernelAssumption, Zenon
  <2>3. CASE InterruptUnBlock
    BY <2>1, <2>2, <2>3, Zenon DEF InterruptUnBlock, OSUnBlockPriority, OSUnBlockTask,
                            ChangeContext, KernelTypeOK
  <2>4. ASSUME NEW u \in Tasks, NEW h \in Blockable,
               \/ OSBlockPriority(u, PriorityOf(h)) \/ OSBlockTask(u, h)
               \/ Running(u) /\ OSUnBlockPriority(PriorityOf(h))
               \/ Running(u) /\ OSUnBlockTask(h)
        PROVE  Done
    <3>1. CASE OSBlockPriority(u, PriorityOf(h)) \/ OSBlockTask(u, h)
      <4>1. blockUnchanged /\ OSBlockedList' \in SUBSET Priorities
        BY <3>1, Zenon DEF OSBlockPriority, OSBlockTask, KernelTypeOK
      <4>2. pendSV' \in BOOLEAN /\ ~pendSV /\ ~inTick
        BY <3>1, Zenon DEF OSBlockPriority, OSBlockTask, Running, OnCPU
      <4>. QED  BY <4>1, <4>2, Zenon
    <3>2. CASE OSUnBlockPriority(PriorityOf(h)) \/ OSUnBlockTask(h)
      BY <2>1, <2>2, <3>2, Zenon DEF OSUnBlockPriority, OSUnBlockTask, ChangeContext,
         KernelTypeOK
    <3>. QED  BY <2>4, <3>1, <3>2, Zenon
  <2>5. ASSUME NEW u \in Tasks, NEW s \in Handles, NEW n \in 1..(NumTasks + 1),
               s..(s + n - 1) \subseteq Blockable,
               OSBlockMultipleTask(u, s, n) \/ OSUnBlockMultipleTask(u, s, n)
        PROVE  Done
    <3>1. \A h \in s..(s + n - 1) : Priority[h] \in Priorities
      BY <2>1, <2>2, <2>5, Zenon
    <3>. QED  BY <2>5, <3>1, Zenon DEF OSBlockMultipleTask, OSUnBlockMultipleTask,
              ChangeContext, Running, OnCPU, KernelTypeOK
  <2>. QED  BY <2>3, <2>4, <2>5, Zenon DEF BlockStep
<1>2. KernelTypeOK'
  BY <1>1, Zenon DEF KernelTypeOK, blockUnchanged, tickVars, waitVars, prioVars
<1>3. /\ CurrentTablesAgree' /\ ReadyPrioritiesHaveTasks' /\ CPUIsReady'
      /\ WalkIsLinked' /\ DelayedAreLinked'
  BY <1>1, Zenon DEF blockUnchanged, CurrentTablesAgree, ReadyPrioritiesHaveTasks,
              CPUIsReady, WalkIsLinked, DelayedAreLinked, tickVars, waitVars, prioVars
<1>4. UNCHANGED prioVars /\ \A t \in Tasks : CoreKeeps(t)
  BY <1>1, Zenon DEF blockUnchanged, CoreKeeps, waitVars
<1>. QED  BY <1>2, <1>3, <1>4, Zenon DEF CoreStepKeeps

\* Every step of the core.
LEMMA KernelNextKeeps ==
  ASSUME CoreInv, [KernelNext]_kernelVars
  PROVE  CoreStepKeeps
<1>1. CASE UNCHANGED kernelVars
  <2>1. CoreInv'
    BY <1>1, Zenon DEF CoreInv, KernelTypeOK, CurrentTablesAgree, ReadyPrioritiesHaveTasks,
       CPUIsReady, WalkIsLinked, DelayedAreLinked, kernelVars, tickVars, waitVars, prioVars
  <2>. QED  BY <1>1, <2>1, Zenon DEF CoreStepKeeps, CoreKeeps, kernelVars, waitVars
<1>. QED  BY <1>1, DelayKeeps, TickKeeps, SwitchKeeps, BlockKeeps, Zenon DEF KernelNext

-----------------------------------------------------------------------------

\* Levels depends on the mutexes held and their ceilings only.
LEMMA LevelsSame ==
  ASSUME NEW t, NEW k,
         \A i \in 1..k : OSMaxPriority'[held'[t][i]] = OSMaxPriority[held[t][i]]
  PROVE  Levels(t, k)' = Levels(t, k)
  BY DEF Levels

(***************************************************************************)
(* What a task holds does not change while its sequence, its priority and  *)
(* the control blocks of its mutexes stay the same.                        *)
(***************************************************************************)
LEMMA HeldSame ==
  ASSUME NEW t \in Tasks, HeldOf(t), held'[t] = held[t], Priority'[t] = Priority[t],
         \A i \in 1..Len(held[t]) :
           /\ OSMaxPriority'[held[t][i]] = OSMaxPriority[held[t][i]]
           /\ OSOriginalPriority'[held[t][i]] = OSOriginalPriority[held[t][i]]
           /\ PriorityVector'[OSOriginalPriority[held[t][i]]] = t,
         Len(held[t]) \in Nat
  PROVE  HeldOf(t)'
<1>1. ASSUME NEW k \in 0..Len(held[t])
      PROVE  Levels(t, k)' = Levels(t, k)
  <2>1. 1..k \subseteq 1..Len(held[t])
    OBVIOUS
  <2>. QED  BY <2>1 DEF Levels
<1>2. ASSUME NEW i \in 1..Len(held[t])
      PROVE  /\ IsHighest(OSOriginalPriority[held[t][i]], Levels(t, i - 1))'
             /\ PriorityVector'[OSOriginalPriority'[held'[t][i]]] = t
  <2>1. i - 1 \in 0..Len(held[t])
    OBVIOUS
  <2>2. Levels(t, i - 1)' = Levels(t, i - 1)
    BY <1>1, <2>1, Zenon
  <2>3. IsHighest(OSOriginalPriority[held[t][i]], Levels(t, i - 1))
    BY Zenon DEF HeldOf
  <2>4. OSOriginalPriority'[held'[t][i]] = OSOriginalPriority[held[t][i]]
    BY Zenon
  <2>. QED  BY <2>2, <2>3, <2>4, Zenon DEF IsHighest
<1>3. IsHighest(Priority[t], Levels(t, Len(held[t])))'
  <2>1. Len(held[t]) \in 0..Len(held[t])
    OBVIOUS
  <2>2. Levels(t, Len(held[t]))' = Levels(t, Len(held[t]))
    BY <1>1, <2>1, Zenon DEF Levels
  <2>. QED  BY <2>2, Zenon DEF HeldOf, IsHighest
<1>. QED  BY <1>2, <1>3, Zenon DEF HeldOf

(***************************************************************************)
(* Taking a mutex: it saves the priority in force, which its ceiling       *)
(* raises if it is higher.                                                 *)
(***************************************************************************)
LEMMA HeldAppend ==
  ASSUME NEW t \in Tasks, HeldOf(t), NEW m \in Mutexes, ~Holds(t, m),
         held[t] \in Seq(Mutexes), held'[t] = Append(held[t], m),
         UNCHANGED OSMaxPriority, OSOriginalPriority \in [Mutexes -> Priorities],
         OSOriginalPriority' = [OSOriginalPriority EXCEPT ![m] = Priority[t]],
         OSMaxPriority[m] \in Priorities, Priority[t] \in Priorities,
         Levels(t, Len(held[t])) \subseteq Priorities,
         Priority'[t] = IF OSMaxPriority[m] > Priority[t]
                          THEN OSMaxPriority[m] ELSE Priority[t],
         PriorityVector[Priority[t]] = t,
         \A p \in Priorities : PriorityVector[p] = t => PriorityVector'[p] = t
  PROVE  HeldOf(t)'
<1>0. PICK n \in Nat : n = Len(held[t])
  OBVIOUS
<1>1. /\ n \in Nat /\ Len(held'[t]) = n + 1 /\ held'[t][n + 1] = m
      /\ \A i \in 1..n : held'[t][i] = held[t][i] /\ held[t][i] \in Mutexes
  BY <1>0
<1>2. \A i \in 1..n : held[t][i] # m
  BY <1>0, Zenon DEF Holds
<1>3. ASSUME NEW k \in 0..n
      PROVE  Levels(t, k)' = Levels(t, k)
  <2>1. \A i \in 1..k : OSMaxPriority'[held'[t][i]] = OSMaxPriority[held[t][i]]
    BY <1>1
  <2>. QED  BY <2>1, LevelsSame, Zenon
<1>4. Levels(t, n + 1)' = Levels(t, n) \cup {OSMaxPriority[m]}
  <2>1. 1..(n + 1) = (1..n) \cup {n + 1}
    BY <1>1
  <2>. QED  BY <1>1, <2>1 DEF Levels
<1>5. IsHighest(Priority[t], Levels(t, n))
  BY <1>0, Zenon DEF HeldOf
<1>6. IsHighest(Priority[t], Levels(t, Len(held[t])))'
  BY <1>0, <1>1, <1>4, <1>5, HandleFacts DEF IsHighest
<1>7. ASSUME NEW i \in 1..(n + 1)
      PROVE  /\ IsHighest(OSOriginalPriority'[held'[t][i]], Levels(t, i - 1)')
             /\ PriorityVector'[OSOriginalPriority'[held'[t][i]]] = t
  <2>1. CASE i = n + 1
    <3>1. /\ OSOriginalPriority'[held'[t][i]] = Priority[t] /\ i - 1 = n /\ n \in 0..n
      BY <1>1, <2>1
    <3>2. Levels(t, i - 1)' = Levels(t, n)
      BY <1>3, <3>1, Zenon
    <3>. QED  BY <1>5, <3>1, <3>2, Zenon
  <2>2. CASE i # n + 1
    <3>1. i \in 1..n /\ i - 1 \in 0..n
      BY <1>1, <2>2
    <3>2. OSOriginalPriority'[held'[t][i]] = OSOriginalPriority[held[t][i]]
      BY <1>1, <1>2, <3>1, Zenon
    <3>3. Levels(t, i - 1)' = Levels(t, i - 1)
      BY <1>3, <3>1, Zenon
    <3>. QED  BY <1>0, <3>1, <3>2, <3>3 DEF HeldOf
  <2>. QED  BY <2>1, <2>2, Zenon
<1>8. \A i, j \in 1..(n + 1) : held'[t][i] = held'[t][j] => i = j
  BY <1>0, <1>1, <1>2 DEF HeldOf
<1>. QED  BY <1>1, <1>6, <1>7, <1>8, Zenon DEF HeldOf

(***************************************************************************)
(* Giving back the last mutex taken.                                       *)
(***************************************************************************)
LEMMA WithoutLast ==
  ASSUME NEW s \in Seq(Mutexes), s # <<>>, NEW m, s[Len(s)] = m,
         \A i, j \in 1..Len(s) : s[i] = s[j] => i = j
  PROVE  /\ Without(s, m) \in Seq(Mutexes) /\ Len(Without(s, m)) = Len(s) - 1
         /\ \A i \in 1..(Len(s) - 1) : Without(s, m)[i] = s[i]
         /\ Len(s) \in Nat /\ Len(s) >= 1
<1>1. Len(s) \in Nat /\ Len(s) >= 1 /\ \A i \in 1..Len(s) : s[i] \in Mutexes
  OBVIOUS
<1>2. (CHOOSE j \in 1..Len(s) : s[j] = m) = Len(s)
  BY <1>1
<1>3. Without(s, m) = [j \in 1..(Len(s) - 1) |-> s[j]]
  BY <1>1, <1>2 DEF Without
<1>4. [j \in 1..(Len(s) - 1) |-> s[j]] \in Seq(Mutexes)
  BY <1>1
<1>5. Len([j \in 1..(Len(s) - 1) |-> s[j]]) = Len(s) - 1
  BY <1>1
<1>. QED  BY <1>1, <1>3, <1>4, <1>5, Zenon

\* What is left is held as it was before the last acquisition.
LEMMA HeldRelease ==
  ASSUME NEW t \in Tasks, HeldOf(t), NEW m, held[t] \in Seq(Mutexes),
         held[t] # <<>>, held[t][Len(held[t])] = m,
         held'[t] = Without(held[t], m),
         UNCHANGED <<OSMaxPriority, OSOriginalPriority>>,
         Priority'[t] = OSOriginalPriority[m],
         \A i \in 1..(Len(held[t]) - 1) :
           PriorityVector'[OSOriginalPriority[held[t][i]]] = t
  PROVE  HeldOf(t)'
<1>1. \A i, j \in 1..Len(held[t]) : held[t][i] = held[t][j] => i = j
  BY Zenon DEF HeldOf
<1>w. /\ Len(held'[t]) = Len(held[t]) - 1 /\ Len(held[t]) \in Nat /\ Len(held[t]) >= 1
      /\ \A i \in 1..(Len(held[t]) - 1) : held'[t][i] = held[t][i]
  <2>1. /\ Len(Without(held[t], m)) = Len(held[t]) - 1
        /\ \A i \in 1..(Len(held[t]) - 1) : Without(held[t], m)[i] = held[t][i]
        /\ Len(held[t]) \in Nat /\ Len(held[t]) >= 1
    BY <1>1, WithoutLast, Zenon
  <2>. QED  BY <2>1, Zenon
<1>0. PICK n \in Nat : n = Len(held[t]) - 1
  BY <1>w
<1>2. /\ Len(held'[t]) = n
      /\ \A i \in 1..n : held'[t][i] = held[t][i] /\ i \in 1..Len(held[t])
      /\ Len(held[t]) = n + 1 /\ n + 1 \in 1..Len(held[t])
  <2>1. Len(held[t]) = n + 1 /\ n + 1 \in 1..(n + 1) /\ \A i \in 1..n : i \in 1..(n + 1)
    BY <1>w, <1>0
  <2>. QED  BY <1>w, <1>0, <2>1, Zenon
<1>3. ASSUME NEW k \in 0..n
      PROVE  Levels(t, k)' = Levels(t, k)
  <2>1. \A i \in 1..k : held'[t][i] = held[t][i]
    BY <1>2
  <2>. QED  BY <2>1 DEF Levels
<1>4. ASSUME NEW i \in 1..n
      PROVE  /\ IsHighest(OSOriginalPriority'[held'[t][i]], Levels(t, i - 1)')
             /\ PriorityVector'[OSOriginalPriority'[held'[t][i]]] = t
  <2>1. i - 1 \in 0..n
    BY <1>2
  <2>2. Levels(t, i - 1)' = Levels(t, i - 1)
    BY <1>3, <2>1, Zenon
  <2>3. i \in 1..Len(held[t]) /\ held'[t][i] = held[t][i]
    BY <1>2, Zenon
  <2>4. /\ IsHighest(OSOriginalPriority[held[t][i]], Levels(t, i - 1))
        /\ PriorityVector'[OSOriginalPriority[held[t][i]]] = t
    BY <1>0, <2>3, Zenon DEF HeldOf
  <2>. QED  BY <2>2, <2>3, <2>4, Zenon
<1>5. IsHighest(Priority'[t], Levels(t, n)')
  <2>1. n \in 0..n /\ (n + 1) - 1 = n
    BY <1>2
  <2>2. IsHighest(OSOriginalPriority[held[t][n + 1]], Levels(t, (n + 1) - 1))
    BY <1>2, Zenon DEF HeldOf
  <2>3. held[t][n + 1] = m
    BY <1>2, Zenon
  <2>4. Levels(t, n)' = Levels(t, n)
    BY <1>3, <2>1, Zenon
  <2>. QED  BY <2>1, <2>2, <2>3, <2>4, Zenon
<1>6. \A i, j \in 1..n : held'[t][i] = held'[t][j] => i = j
  BY <1>1, <1>2
<1>. QED  BY <1>2, <1>4, <1>5, <1>6, Zenon DEF HeldOf

-----------------------------------------------------------------------------
(***************************************************************************)
(* BRTOSStart() establishes the invariant: nothing is held.                *)
(***************************************************************************)
LEMMA MutexInitInv ==
  ASSUME Init
  PROVE  MutexInv
<1>. USE DEF Init
<1>1. KernelInv
  BY KernelInitInv, Zenon
<1>2. TypeOK
  <2>1. 0 \in Priorities
    BY DEF Priorities, MAX_PRIORITY
  <2>2. <<>> \in Seq(Mutexes)
    OBVIOUS
  <2>. QED  BY <1>1, <2>1, <2>2, Zenon DEF TypeOK, KernelInv
<1>3. CoreInv
  <2>1. CurrentTablesAgree /\ ReadyPrioritiesHaveTasks
    <3>1. /\ \A h \in Handles : Priority[h] = PriorityOf(h)
          /\ \A h \in Handles : PriorityVector[PriorityOf(h)] = h
          /\ \A p \in OSReadyList : \E h \in Handles : p = PriorityOf(h)
          /\ \A t \in Tasks : PriorityOf(t) = TaskPriority[t] /\ t \in Handles
          /\ 0 \in OSReadyList
      BY <1>1, PriorityOfFacts DEF KernelInv, TablesAgree, PriorityOf, KernelInit
    <3>. QED  BY <3>1, PriorityOfFacts DEF CurrentTablesAgree, ReadyPrioritiesHaveTasks
  <2>2. CPUIsReady
    <3>1. SAScheduler(OSReadyList) \in OSReadyList
      BY <1>1, <2>1, SASchedulerHighest, Zenon
      DEF IsHighest, KernelInv, KernelTypeOK, CurrentTablesAgree
    <3>. QED  BY <2>1, <3>1, Zenon DEF CPUIsReady, ReadyPrioritiesHaveTasks, KernelInit
  <2>. QED  BY <1>1, <2>1, <2>2, Zenon DEF CoreInv, KernelInv
<1>4. CeilingsInv /\ WaitersInv /\ MutualExclusion /\ OwnerIsTold
  BY DEF CeilingsInv, WaitersInv, MutualExclusion, OwnerIsTold, Holds, KernelInit
<1>5. HeldInv
  <2>1. ASSUME NEW t \in Tasks
        PROVE  /\ Priority[t] = TaskPriority[t] /\ Priority[t] \in Int
               /\ Levels(t, 0) = {TaskPriority[t]} /\ Len(held[t]) = 0
    <3>1. Priority[t] = TaskPriority[t] /\ Priority[t] \in Int
      <4>1. Priority[t] = TaskPriority[t]
        BY PriorityOfFacts, Zenon DEF KernelInit, PriorityOf
      <4>2. TaskPriority[t] \in Int
        BY HandleFacts, Zenon
      <4>. QED  BY <4>1, <4>2, Zenon
    <3>2. \A j : j \notin 1..0
      OBVIOUS
    <3>3. Levels(t, 0) = {TaskPriority[t]}
      BY <3>2, Zenon DEF Levels
    <3>. QED  BY <3>1, <3>3, Zenon
  <2>. QED  BY <2>1 DEF HeldInv, HeldOf, IsHighest
<1>6. TableInv
  BY CountNone, Zenon DEF TableInv
<1>. QED  BY <1>2, <1>3, <1>4, <1>5, <1>6, Zenon DEF MutexInv

(***************************************************************************)
(* The steps of the core leave the mutexes and the priorities alone, and a *)
(* waiting task too, unless they time it out.                              *)
(***************************************************************************)
LEMMA MutexCoreStepInv ==
  ASSUME MutexInv, [CoreStep]_vars
  PROVE  MutexInv'
<1>. USE DEF MutexInv
<1>1. /\ CoreInv' /\ UNCHANGED <<Priority, PriorityVector>>
      /\ \A t \in Tasks : CoreKeeps(t)
  BY KernelNextKeeps, Zenon DEF CoreStepKeeps, CoreStep, vars, prioVars
<1>2. /\ UNCHANGED <<OSEventAllocated, OSEventState, OSEventOwner, OSMaxPriority,
                     OSOriginalPriority, OSEventWait, OSEventWaitList>>
      /\ UNCHANGED <<pont_event, timed, held>>
      /\ lateRelease' \in BOOLEAN
  BY Zenon DEF CoreStep, vars, mutexTable, mutexLocals, TypeOK
<1>3. TypeOK'
  BY <1>1, <1>2, Zenon DEF TypeOK, CoreInv
<1>4. CeilingsInv' /\ HeldInv' /\ MutualExclusion'
  <2>1. CeilingsInv' /\ MutualExclusion'
    BY <1>1, <1>2, Zenon DEF CeilingsInv, MutualExclusion, Holds
  <2>2. \A t \in Tasks : Len(held[t]) \in Nat
    BY DEF TypeOK
  <2>3. HeldInv'
    BY <1>1, <1>2, <2>2, HeldSame, Zenon DEF HeldInv, HeldOf
  <2>. QED  BY <2>1, <2>3, Zenon
<1>5. TableInv'
  BY <1>1, <1>2 DEF TableInv, CoreKeeps
<1>6. WaitersInv'
  BY <1>1, <1>2, Zenon DEF WaitersInv, MutexWaiter, Holds, CoreKeeps
<1>7. OwnerIsTold'
  BY <1>1, <1>2 DEF OwnerIsTold, Holds, CoreKeeps, TypeOK
<1>. QED  BY <1>1, <1>3, <1>4, <1>5, <1>6, <1>7, Zenon

-----------------------------------------------------------------------------
(***************************************************************************)
(* The mutexes a task holds exist and are its own; the priorities it moves *)
(* among are numbers.                                                      *)
(***************************************************************************)
LEMMA HolderFacts ==
  ASSUME MutexInv, NEW u \in Tasks
  PROVE  /\ held[u] \in Seq(Mutexes) /\ Len(held[u]) \in Nat
         /\ \A j \in 1..Len(held[u]) :
              /\ held[u][j] \in Mutexes /\ Holds(u, held[u][j])
              /\ OSEventOwner[held[u][j]] = u /\ OSEventAllocated[held[u][j]]
         /\ \A k \in 0..Len(held[u]) : Levels(u, k) \subseteq Priorities
<1>. USE DEF MutexInv
<1>1. held[u] \in Seq(Mutexes) /\ Len(held[u]) \in Nat
  BY DEF TypeOK
<1>2. ASSUME NEW j \in 1..Len(held[u])
      PROVE  /\ held[u][j] \in Mutexes /\ Holds(u, held[u][j])
             /\ OSEventOwner[held[u][j]] = u /\ OSEventAllocated[held[u][j]]
  <2>1. held[u][j] \in Mutexes /\ Holds(u, held[u][j])
    BY <1>1 DEF Holds
  <2>2. OSEventOwner[held[u][j]] = u
    BY <2>1, Zenon DEF MutualExclusion
  <2>. QED  BY <2>1, <2>2, HandleFacts DEF TableInv
<1>3. ASSUME NEW k \in 0..Len(held[u])
      PROVE  Levels(u, k) \subseteq Priorities
  <2>1. \A j \in 1..k : OSMaxPriority[held[u][j]] \in Priorities
    BY <1>1, <1>2 DEF TypeOK
  <2>. QED  BY <2>1, HandleFacts, Zenon DEF Levels
<1>. QED  BY <1>1, <1>2, <1>3, Zenon

(***************************************************************************)
(* Nobody moves to the ceiling of a mutex without having taken it.         *)
(***************************************************************************)
LEMMA CeilingIsReserved ==
  ASSUME MutexInv, NEW m \in Mutexes, OSEventAllocated[m], OSMaxPriority[m] > 0,
         NEW u \in Tasks, NEW k \in 0..Len(held[u]),
         \A j \in 1..k : held[u][j] # m
  PROVE  OSMaxPriority[m] \notin Levels(u, k)
<1>1. OSMaxPriority[m] # TaskPriority[u]
  BY Zenon DEF MutexInv, CeilingsInv
<1>2. ASSUME NEW j \in 1..k
      PROVE  OSMaxPriority[held[u][j]] # OSMaxPriority[m]
  <2>1. j \in 1..Len(held[u])
    BY HolderFacts
  <2>. QED  BY <2>1, HolderFacts DEF MutexInv, CeilingsInv
<1>. QED  BY <1>1, <1>2, Zenon DEF Levels

(***************************************************************************)
(* A task in its own code, or back from OSMutexAcquire, waits in no list.  *)
(***************************************************************************)
LEMMA NotInWaitList ==
  ASSUME MutexInv, NEW t \in Tasks, NEW m \in Mutexes,
         pc[t] # "mutex" \/ pont_event[t] # m
  PROVE  Priority[t] \notin OSEventWaitList[m]
  BY PrioritiesDiffer DEF MutexInv, TableInv

(***************************************************************************)
(* A step that changes no priority and no owner.                           *)
(***************************************************************************)
LEMMA HoldersSame ==
  ASSUME MutexInv,
         UNCHANGED <<held, Priority, PriorityVector, OSMaxPriority, OSOriginalPriority,
                     OSEventAllocated, OSEventOwner>>
  PROVE  HeldInv' /\ CeilingsInv' /\ MutualExclusion'
<1>1. CeilingsInv'
  BY Zenon DEF MutexInv, CeilingsInv
<1>2. MutualExclusion'
  BY Zenon DEF MutexInv, MutualExclusion, Holds
<1>3. ASSUME NEW u \in Tasks
      PROVE  HeldOf(u)'
  <2>1. HeldOf(u) /\ Len(held[u]) \in Nat
    BY HolderFacts, Zenon DEF MutexInv, HeldInv
  <2>2. \A i \in 1..Len(held[u]) : PriorityVector[OSOriginalPriority[held[u][i]]] = u
    BY <2>1, Zenon DEF HeldOf
  <2>. QED  BY <2>1, <2>2, HeldSame, Zenon
<1>. QED  BY <1>1, <1>2, <1>3, Zenon DEF HeldInv

(***************************************************************************)
(* A waiting task goes on waiting, or stays handed the mutex, while its    *)
(* own state and its place in the wait list are the same.                  *)
(***************************************************************************)
LEMMA WaiterSame ==
  ASSUME NEW u \in Tasks, MutexWaiter(u), NEW m, m = pont_event[u],
         pont_event'[u] = m, timed'[u] = timed[u], held'[u] = held[u],
         OSEventAllocated'[m], OSEventOwner[m] = u => OSEventOwner'[m] = u,
         Priority'[u] \in OSEventWaitList'[m] <=> Priority[u] \in OSEventWaitList[m],
         TimeToWait'[u] = TimeToWait[u], u \in DelayList' <=> u \in DelayList,
         Priority'[u] \in OSReadyList' <=> Priority[u] \in OSReadyList
  PROVE  MutexWaiter(u)'
<1>1. Holds(u, m)' <=> Holds(u, m)
  BY Zenon DEF Holds
<1>. QED  BY <1>1, Zenon DEF MutexWaiter

(***************************************************************************)
(* OSMutexCreate reserves a priority that no task and no mutex has.        *)
(***************************************************************************)
LEMMA ReserveInv ==
  ASSUME MutexInv, NEW c \in Priorities, ReserveCeiling(c), createUnchanged
  PROVE  /\ CoreInv'
         /\ c > 0 => /\ PriorityVector[c] = EMPTY_PRIO /\ PriorityVector'[c] # EMPTY_PRIO
                     /\ \A t \in Tasks : TaskPriority[t] # c
         /\ \A p \in Priorities :
              PriorityVector[p] # EMPTY_PRIO => PriorityVector'[p] = PriorityVector[p]
<1>. USE DEF MutexInv, CoreInv
<1>1. \A p \in Priorities :
        PriorityVector[p] # EMPTY_PRIO => PriorityVector'[p] = PriorityVector[p]
  BY Zenon DEF ReserveCeiling, KernelTypeOK
<1>2. /\ \A h \in Handles : /\ PriorityVector[Priority[h]] # EMPTY_PRIO
                            /\ Priority[h] \in Priorities
      /\ \A t \in Tasks : PriorityVector[TaskPriority[t]] # EMPTY_PRIO
  BY HandleFacts, PriorityOfFacts DEF CurrentTablesAgree, KernelTypeOK
<1>3. KernelTypeOK'
  <2>1. PriorityVector' \in [Priorities -> Handles \cup {EMPTY_PRIO, MUTEX_PRIO}]
    BY Zenon DEF ReserveCeiling, KernelTypeOK
  <2>. QED  BY <2>1, Zenon DEF KernelTypeOK, createUnchanged, tickVars, waitVars
<1>4. CurrentTablesAgree' /\ ReadyPrioritiesHaveTasks'
  <2>1. /\ Priority' = Priority /\ OSReadyList' = OSReadyList
        /\ \A h \in Handles : PriorityVector'[Priority[h]] = h
        /\ \A t \in Tasks : PriorityVector'[TaskPriority[t]] = t
    BY <1>1, <1>2, HandleFacts, Zenon DEF createUnchanged, CurrentTablesAgree
  <2>. QED  BY <2>1 DEF CurrentTablesAgree, ReadyPrioritiesHaveTasks
<1>5. CPUIsReady' /\ WalkIsLinked' /\ DelayedAreLinked'
  BY Zenon DEF createUnchanged, CPUIsReady, WalkIsLinked, DelayedAreLinked, tickVars, waitVars
<1>6. c > 0 => /\ PriorityVector[c] = EMPTY_PRIO /\ PriorityVector'[c] # EMPTY_PRIO
               /\ \A t \in Tasks : TaskPriority[t] # c
  <2>1. ASSUME c > 0
        PROVE  /\ PriorityVector[c] = EMPTY_PRIO
               /\ PriorityVector' = [PriorityVector EXCEPT ![c] = MUTEX_PRIO]
    BY <2>1, HandleFacts DEF ReserveCeiling
  <2>. QED  BY <1>2, <2>1 DEF KernelTypeOK, MUTEX_PRIO, EMPTY_PRIO
<1>. QED  BY <1>1, <1>3, <1>4, <1>5, <1>6, Zenon

\* OSMutexCreate, and its failure after the ceiling was reserved.
LEMMA CreateInv ==
  ASSUME MutexInv, NEW t \in Tasks, NEW c \in Priorities,
         MutexCreateFull(t, c) \/ \E m \in Mutexes : OSMutexCreate(t, m, c)
  PROVE  MutexInv'
<1>. USE DEF MutexInv
<1>1. ReserveCeiling(c) /\ createUnchanged
  BY Zenon DEF MutexCreateFull, OSMutexCreate
<1>2. /\ UNCHANGED <<Priority, OSReadyList, pc, TimeToWait, DelayList>>
      /\ UNCHANGED <<pont_event, timed, held, lateRelease>>
  BY <1>1, Zenon DEF createUnchanged, waitVars, mutexLocals
<1>3. \A u \in Tasks : Len(held[u]) \in Nat
  BY HolderFacts, Zenon
<1>4. \A u \in Tasks : \A i \in 1..Len(held[u]) :
        PriorityVector'[OSOriginalPriority[held[u][i]]] = u
  <2>1. ASSUME NEW u \in Tasks, NEW i \in 1..Len(held[u])
        PROVE  /\ PriorityVector[OSOriginalPriority[held[u][i]]] = u
               /\ OSOriginalPriority[held[u][i]] \in Priorities
               /\ u # EMPTY_PRIO
    BY HolderFacts, HandleFacts, PriorityOfFacts, Zenon DEF HeldInv, HeldOf, TypeOK
  <2>. QED  BY <1>1, <2>1, ReserveInv
<1>5. CASE MutexCreateFull(t, c)
  <2>1. UNCHANGED <<OSEventAllocated, OSEventState, OSEventOwner, OSMaxPriority,
                    OSOriginalPriority, OSEventWait, OSEventWaitList>>
    BY <1>5, Zenon DEF MutexCreateFull, mutexTable
  <2>2. CoreInv' /\ TypeOK'
    BY <1>1, <1>2, <2>1, ReserveInv, Zenon DEF TypeOK, CoreInv
  <2>3. HeldInv'
    BY <1>2, <1>3, <1>4, <2>1, HeldSame, Zenon DEF HeldInv
  <2>4. CeilingsInv'
    <3>1. ASSUME NEW n \in Mutexes, PriorityVector[OSMaxPriority[n]] # EMPTY_PRIO
          PROVE  PriorityVector'[OSMaxPriority[n]] # EMPTY_PRIO
      <4>1. OSMaxPriority[n] \in Priorities
        BY Zenon DEF TypeOK
      <4>. QED  BY <1>1, <3>1, <4>1, ReserveInv, Zenon
    <3>. QED  BY <2>1, <3>1, Zenon DEF CeilingsInv
  <2>5. TableInv' /\ MutualExclusion'
    BY <1>2, <2>1 DEF TableInv, MutualExclusion, Holds
  <2>6. WaitersInv' /\ OwnerIsTold'
    BY <1>2, <2>1, Zenon DEF WaitersInv, MutexWaiter, OwnerIsTold, Holds
  <2>. QED  BY <2>2, <2>3, <2>4, <2>5, <2>6, Zenon
<1>6. ASSUME NEW m \in Mutexes, OSMutexCreate(t, m, c)
      PROVE  MutexInv'
  <2>1. /\ ~OSEventAllocated[m] /\ OSEventOwner[m] = NOBODY
        /\ OSEventAllocated' = [OSEventAllocated EXCEPT ![m] = TRUE]
        /\ OSEventState' = [OSEventState EXCEPT ![m] = TRUE]
        /\ OSMaxPriority' = [OSMaxPriority EXCEPT ![m] = c]
        /\ OSEventWait' = [OSEventWait EXCEPT ![m] = 0]
        /\ OSEventWaitList' = [OSEventWaitList EXCEPT ![m] = {}]
        /\ UNCHANGED <<OSEventOwner, OSOriginalPriority>>
    BY <1>6, Zenon DEF OSMutexCreate, TableInv
  <2>2. CoreInv' /\ TypeOK'
    BY <1>1, <1>2, <2>1, ReserveInv, Zenon DEF TypeOK, CoreInv
  <2>3. HeldInv'
    <3>1. ASSUME NEW u \in Tasks, NEW i \in 1..Len(held[u])
          PROVE  OSMaxPriority'[held[u][i]] = OSMaxPriority[held[u][i]]
      BY <2>1, HolderFacts DEF TypeOK
    <3>. QED  BY <1>2, <1>3, <1>4, <2>1, <3>1, HeldSame, Zenon DEF HeldInv
  <2>4. CeilingsInv'
    <3>1. ASSUME NEW n \in Mutexes, n # m
          PROVE  /\ OSEventAllocated'[n] = OSEventAllocated[n]
                 /\ OSMaxPriority'[n] = OSMaxPriority[n]
                 /\ OSMaxPriority[n] \in Priorities
      BY <2>1, <3>1, Zenon DEF TypeOK
    <3>2. ASSUME NEW n \in Mutexes, n # m, OSEventAllocated[n], OSMaxPriority[n] > 0
          PROVE  /\ PriorityVector[OSMaxPriority[n]] # EMPTY_PRIO
                 /\ PriorityVector'[OSMaxPriority[n]] # EMPTY_PRIO
                 /\ OSMaxPriority[n] # c
      <4>1. PriorityVector[OSMaxPriority[n]] # EMPTY_PRIO
        BY <3>2, Zenon DEF CeilingsInv
      <4>. QED  BY <1>1, <3>1, <3>2, <4>1, ReserveInv, Zenon
    <3>3. OSMaxPriority'[m] = c
      BY <2>1, Zenon DEF TypeOK
    <3>4. ASSUME NEW n \in Mutexes, n # m, OSEventAllocated'[n], OSMaxPriority'[n] > 0
          PROVE  /\ PriorityVector'[OSMaxPriority'[n]] # EMPTY_PRIO
                 /\ \A u \in Tasks : TaskPriority[u] # OSMaxPriority'[n]
                 /\ \A k \in Mutexes :
                      OSEventAllocated'[k] /\ OSMaxPriority'[k] = OSMaxPriority'[n] => k = n
      BY <3>1, <3>2, <3>3, <3>4 DEF CeilingsInv
    <3>5. ASSUME c > 0
          PROVE  /\ PriorityVector'[c] # EMPTY_PRIO
                 /\ \A u \in Tasks : TaskPriority[u] # c
                 /\ \A k \in Mutexes :
                      OSEventAllocated'[k] /\ OSMaxPriority'[k] = c => k = m
      BY <1>1, <3>1, <3>2, <3>5, ReserveInv
    <3>. QED  BY <3>3, <3>4, <3>5, Zenon DEF CeilingsInv
  <2>5. TableInv' /\ MutualExclusion'
    <3>1. TableInv'
      BY <1>2, <2>1, CountNone DEF TableInv, TypeOK
    <3>. QED  BY <1>2, <2>1, <3>1, Zenon DEF MutualExclusion, Holds
  <2>6. WaitersInv'
    <3>1. ASSUME NEW u \in Tasks, pc[u] = "mutex"
          PROVE  pont_event[u] # m /\ pont_event[u] \in Mutexes
      BY <2>1, <3>1, Zenon DEF WaitersInv, MutexWaiter
    <3>. QED  BY <1>2, <2>1, <3>1, Zenon DEF WaitersInv, MutexWaiter, Holds, TypeOK
  <2>7. OwnerIsTold'
    BY <1>2, <2>1 DEF OwnerIsTold, Holds, TypeOK
  <2>. QED  BY <2>2, <2>3, <2>4, <2>5, <2>6, <2>7, Zenon
<1>. QED  BY <1>5, <1>6, Zenon

(***************************************************************************)
(* OSMutexDelete, of a mutex nobody holds or waits for.                    *)
(***************************************************************************)
LEMMA DeleteInv ==
  ASSUME MutexInv, NEW t \in Tasks, NEW m \in Mutexes, OSMutexDelete(t, m)
  PROVE  MutexInv'
<1>. USE DEF MutexInv
<1>1. /\ UNCHANGED <<Priority, PriorityVector, OSReadyList, pc, TimeToWait, DelayList>>
      /\ UNCHANGED <<pont_event, timed, held, lateRelease>>
      /\ OSEventOwner[m] = NOBODY /\ OSEventWaitList[m] = {}
      /\ OSEventAllocated' = [OSEventAllocated EXCEPT ![m] = FALSE]
      /\ OSEventState' = [OSEventState EXCEPT ![m] = FALSE]
      /\ OSEventOwner' = [OSEventOwner EXCEPT ![m] = NOBODY]
      /\ OSMaxPriority' = [OSMaxPriority EXCEPT ![m] = 0]
      /\ OSOriginalPriority' = [OSOriginalPriority EXCEPT ![m] = 0]
      /\ OSEventWait' = [OSEventWait EXCEPT ![m] = 0]
      /\ OSEventWaitList' = [OSEventWaitList EXCEPT ![m] = {}]
  BY Zenon DEF OSMutexDelete, kernelVars, prioVars, waitVars, mutexLocals
<1>2. CoreInv'
  <2>1. UNCHANGED kernelVars
    BY Zenon DEF OSMutexDelete
  <2>. QED  BY <2>1, KernelNextKeeps, Zenon DEF CoreStepKeeps
<1>3. TypeOK'
  <2>1. 0 \in Priorities
    BY DEF Priorities, MAX_PRIORITY
  <2>. QED  BY <1>1, <1>2, <2>1, Zenon DEF TypeOK, CoreInv
<1>4. HeldInv'
  <2>1. ASSUME NEW u \in Tasks
        PROVE  /\ \A i \in 1..Len(held[u]) : held[u][i] # m /\ held[u][i] \in Mutexes
               /\ Len(held[u]) \in Nat
    BY <1>1, HolderFacts, HandleFacts
  <2>2. ASSUME NEW u \in Tasks, NEW i \in 1..Len(held[u])
        PROVE  /\ OSMaxPriority'[held[u][i]] = OSMaxPriority[held[u][i]]
               /\ OSOriginalPriority'[held[u][i]] = OSOriginalPriority[held[u][i]]
               /\ PriorityVector'[OSOriginalPriority[held[u][i]]] = u
    BY <1>1, <2>1, Zenon DEF TypeOK, HeldInv, HeldOf
  <2>. QED  BY <1>1, <2>1, <2>2, HeldSame, Zenon DEF HeldInv
<1>5. CeilingsInv'
  BY <1>1, Zenon DEF CeilingsInv, TypeOK
<1>6. TableInv' /\ MutualExclusion'
  <2>1. TableInv'
    BY <1>1, CountNone DEF TableInv, TypeOK
  <2>2. MutualExclusion'
    BY <1>1, Zenon DEF MutualExclusion, Holds, TypeOK
  <2>. QED  BY <2>1, <2>2, Zenon
<1>7. WaitersInv'
  <2>1. ASSUME NEW u \in Tasks, pc[u] = "mutex"
        PROVE  pont_event[u] # m /\ pont_event[u] \in Mutexes
    BY <1>1, <2>1, HandleFacts, Zenon DEF WaitersInv, MutexWaiter
  <2>. QED  BY <1>1, <2>1, Zenon DEF WaitersInv, MutexWaiter, Holds, TypeOK
<1>8. OwnerIsTold'
  BY <1>1 DEF OwnerIsTold, Holds, TypeOK
<1>. QED  BY <1>2, <1>3, <1>4, <1>5, <1>6, <1>7, <1>8, Zenon

(***************************************************************************)
(* OSMutexAcquire of a mutex another task holds.                           *)
(***************************************************************************)
LEMMA AcquireWaitInv ==
  ASSUME MutexInv, NEW t \in Tasks, NEW m \in Mutexes,
         NEW w \in 0..TICK_COUNT_OVERFLOW, AcquireWait(t, m, w)
  PROVE  MutexInv'
<1>. USE DEF MutexInv
<1>1. /\ Running(t) /\ OSEventAllocated[m] /\ OSEventOwner[m] # t
      /\ OSEventWait' = [OSEventWait EXCEPT ![m] = @ + 1]
      /\ OSEventWaitList' = [OSEventWaitList EXCEPT ![m] = @ \cup {Priority[t]}]
      /\ pont_event' = [pont_event EXCEPT ![t] = m]
      /\ timed' = [timed EXCEPT ![t] = w > 0]
      /\ UNCHANGED <<OSEventAllocated, OSEventState, OSEventOwner, OSMaxPriority,
                     OSOriginalPriority, held, lateRelease>>
      /\ Suspend(t, w, "mutex")
  BY Zenon DEF AcquireWait
<1>2. /\ Priority[t] \in Priorities /\ t \in Handles /\ pc[t] = "app"
      /\ Priority[t] \in OSReadyList /\ t \notin DelayList
      /\ \A u \in Tasks : Priority[u] = Priority[t] => u = t
      /\ \A n \in Mutexes : Priority[t] \notin OSEventWaitList[n]
  BY <1>1, PrioritiesDiffer, NotInWaitList, OnCPUIsReady, Zenon
  DEF Running, CoreInv, DelayedAreLinked
<1>3. /\ pc' = [pc EXCEPT ![t] = "mutex"] /\ OSReadyList' = OSReadyList \ {Priority[t]}
      /\ UNCHANGED <<Priority, PriorityVector>>
      /\ \A u \in Tasks : u # t => /\ u \in DelayList' <=> u \in DelayList
                                   /\ TimeToWait'[u] = TimeToWait[u]
      /\ w > 0 => t \in DelayList' /\ TimeToWait'[t] = Deadline(w)
      /\ ~(w > 0) => t \notin DelayList' /\ TimeToWait'[t] = NO_TIMEOUT
  BY <1>1, <1>2 DEF Suspend, IncludeTaskIntoDelayList, CoreInv, KernelTypeOK, prioVars
<1>4. CoreInv'
  <2>1. w \in 0..MAX_TIMER /\ "mutex" \in Services \ {"app"} /\ "mutex" # "delay"
    BY KernelAssumption DEF TICK_COUNT_OVERFLOW, Services
  <2>. QED  BY <1>1, <2>1, SuspendCoreInv, Zenon
<1>5. TypeOK'
  BY <1>1, <1>2, <1>4 DEF TypeOK, CoreInv
<1>6. HeldInv' /\ CeilingsInv' /\ MutualExclusion'
  BY <1>1, <1>3, HoldersSame, Zenon
<1>7. TableInv'
  <2>1. \A n \in Mutexes : Counts(OSEventWait'[n], OSEventWaitList'[n])
    <3>1. Counts(OSEventWait[m] + 1, OSEventWaitList[m] \cup {Priority[t]})
      BY <1>2, CountInsert, Zenon DEF TableInv
    <3>2. ASSUME NEW n \in Mutexes, n # m
          PROVE  OSEventWait'[n] = OSEventWait[n] /\ OSEventWaitList'[n] = OSEventWaitList[n]
      BY <1>1, <3>2, Zenon DEF TypeOK
    <3>3. /\ OSEventWait'[m] = OSEventWait[m] + 1
          /\ OSEventWaitList'[m] = OSEventWaitList[m] \cup {Priority[t]}
      BY <1>1, Zenon DEF TypeOK
    <3>4. ASSUME NEW n \in Mutexes
          PROVE  Counts(OSEventWait'[n], OSEventWaitList'[n])
      <4>1. CASE n = m
        BY <3>1, <3>3, <4>1, Zenon
      <4>2. CASE n # m
        <5>1. Counts(OSEventWait[n], OSEventWaitList[n])
          BY Zenon DEF TableInv
        <5>. QED  BY <3>2, <4>2, <5>1, Zenon
      <4>. QED  BY <4>1, <4>2, Zenon
    <3>. QED  BY <3>4, Zenon
  <2>2. ASSUME NEW n \in Mutexes, NEW p \in OSEventWaitList'[n]
        PROVE  \E u \in Tasks : p = Priority'[u] /\ pc'[u] = "mutex" /\ pont_event'[u] = n
    <3>1. CASE p \in OSEventWaitList[n]
      <4>1. PICK u \in Tasks : p = Priority[u] /\ pc[u] = "mutex" /\ pont_event[u] = n
        BY <3>1, Zenon DEF TableInv
      <4>2. u # t
        BY <1>2, <4>1, Zenon
      <4>. QED  BY <1>1, <1>3, <4>1, <4>2, Zenon DEF TypeOK, KernelTypeOK
    <3>2. CASE p \notin OSEventWaitList[n]
      <4>1. n = m /\ p = Priority[t]
        BY <1>1, <3>2, Zenon DEF TypeOK
      <4>. QED  BY <1>1, <1>3, <4>1, Zenon DEF TypeOK, KernelTypeOK
    <3>. QED  BY <3>1, <3>2, Zenon
  <2>. QED  BY <1>1, <2>1, <2>2, Zenon DEF TableInv
<1>8. WaitersInv'
  <2>1. ASSUME NEW u \in Tasks, u # t, pc'[u] = "mutex"
        PROVE  MutexWaiter(u)'
    <3>1. /\ pc[u] = "mutex" /\ pont_event'[u] = pont_event[u] /\ timed'[u] = timed[u]
          /\ Priority[u] # Priority[t] /\ pont_event[u] \in Mutexes
      BY <1>1, <1>2, <1>3, <2>1, Zenon DEF TypeOK, KernelTypeOK, WaitersInv, MutexWaiter
    <3>2. /\ Priority'[u] \in OSEventWaitList'[pont_event[u]]
               <=> Priority[u] \in OSEventWaitList[pont_event[u]]
          /\ Priority'[u] \in OSReadyList' <=> Priority[u] \in OSReadyList
      BY <1>1, <1>3, <3>1, Zenon DEF TypeOK
    <3>3. MutexWaiter(u) /\ OSEventAllocated[pont_event[u]]
      BY <3>1, Zenon DEF WaitersInv, MutexWaiter
    <3>. QED  BY <1>1, <1>3, <2>1, <3>1, <3>2, <3>3, WaiterSame, Zenon
  <2>2. MutexWaiter(t)'
    <3>1. /\ pont_event'[t] = m /\ timed'[t] = (w > 0)
          /\ Priority'[t] \in OSEventWaitList'[m] /\ Priority'[t] \notin OSReadyList'
      BY <1>1, <1>3, Zenon DEF TypeOK
    <3>2. Deadline(w) # EXIT_BY_TIMEOUT /\ NO_TIMEOUT # EXIT_BY_TIMEOUT
      BY DeadlineFits, Zenon DEF CoreInv
    <3>3. TimeToWait'[t] # EXIT_BY_TIMEOUT /\ (t \in DelayList' <=> w > 0)
      BY <1>3, <3>2, Zenon
    <3>4. ~Holds(t, m)'
      BY <1>1, Zenon DEF MutualExclusion, Holds
    <3>. QED  BY <1>1, <3>1, <3>3, <3>4, Zenon DEF MutexWaiter
  <2>. QED  BY <2>1, <2>2, Zenon DEF WaitersInv
<1>9. OwnerIsTold'
  <2>1. ASSUME NEW n \in Mutexes, OSEventOwner[n] # NOBODY, ~Holds(OSEventOwner[n], n)
        PROVE  LET u == OSEventOwner[n]
               IN  /\ pc'[u] = "mutex" /\ pont_event'[u] = n
                   /\ Priority'[u] \in OSReadyList' \ OSEventWaitList'[n]
    <3>. DEFINE u == OSEventOwner[n]
    <3>1. /\ u \in Tasks /\ pc[u] = "mutex" /\ pont_event[u] = n
          /\ Priority[u] \in OSReadyList \ OSEventWaitList[n]
      BY <2>1, Zenon DEF OwnerIsTold, TypeOK
    <3>2. u # t /\ Priority[u] # Priority[t]
      BY <1>2, <3>1, Zenon
    <3>. HIDE DEF u
    <3>. QED  BY <1>1, <1>3, <3>1, <3>2, Zenon DEF u, TypeOK, KernelTypeOK
  <2>. QED  BY <1>1, <2>1, Zenon DEF OwnerIsTold, Holds
<1>. QED  BY <1>4, <1>5, <1>6, <1>7, <1>8, <1>9, Zenon

(***************************************************************************)
(* A task on the CPU returns from a service, ready and out of the delay    *)
(* list.                                                                   *)
(***************************************************************************)
LEMMA ReturnCoreInv ==
  ASSUME CoreInv, NEW t \in Tasks, OnCPU(t),
         pc' = [pc EXCEPT ![t] = "app"], DelayList' = DelayList \ {t},
         TimeToWait' \in [Tasks -> 0..MAX_TIMER],
         UNCHANGED <<tickVars, currentTask, OSBlockedList, pendSV, ticksLeft>>,
         Priority' \in [Handles -> Priorities], OSReadyList' \subseteq Priorities,
         PriorityVector' \in [Priorities -> Handles \cup {EMPTY_PRIO, MUTEX_PRIO}],
         CurrentTablesAgree', ReadyPrioritiesHaveTasks', Priority'[t] \in OSReadyList',
         \A u \in Tasks \ {t} :
           /\ Priority'[u] = Priority[u]
           /\ Priority[u] \in OSReadyList' <=> Priority[u] \in OSReadyList
  PROVE  CoreInv'
<1>. USE DEF CoreInv
<1>1. KernelTypeOK'
  BY Zenon DEF KernelTypeOK, tickVars, Services
<1>2. WalkIsLinked' /\ CPUIsReady'
  BY Zenon DEF WalkIsLinked, CPUIsReady, OnCPU, tickVars
<1>3. DelayedAreLinked'
  BY Zenon DEF DelayedAreLinked, KernelTypeOK
<1>. QED  BY <1>1, <1>2, <1>3, Zenon

\* OSMutexAcquire returns TIMEOUT.
LEMMA AcquireTimeoutInv ==
  ASSUME MutexInv, NEW t \in Tasks, AcquireTimeout(t)
  PROVE  MutexInv'
<1>. USE DEF MutexInv
<1>1. PICK m \in Mutexes : m = pont_event[t]
  BY Zenon DEF AcquireTimeout, Resumed, WaitersInv, MutexWaiter
<1>2. /\ OnCPU(t) /\ pc[t] = "mutex" /\ Priority[t] \in OSEventWaitList[m]
      /\ timed[t] /\ TimeToWait[t] = EXIT_BY_TIMEOUT
      /\ OSEventWaitList' = [OSEventWaitList EXCEPT ![m] = @ \ {Priority[t]}]
      /\ OSEventWait' = [OSEventWait EXCEPT ![m] = @ - 1]
      /\ pc' = [pc EXCEPT ![t] = "app"]
      /\ pont_event' = [pont_event EXCEPT ![t] = NULL]
      /\ timed' = [timed EXCEPT ![t] = FALSE]
      /\ UNCHANGED <<TimeToWait, DelayList, Priority, PriorityVector, OSReadyList,
                     OSOriginalPriority, held, OSEventAllocated, OSEventState,
                     OSEventOwner, OSMaxPriority, lateRelease>>
      /\ UNCHANGED <<tickVars, currentTask, OSBlockedList, pendSV, ticksLeft>>
  BY <1>1, Zenon DEF AcquireTimeout, AcquireTimedOut, AcquireReturn, Resumed, prioVars
<1>3. /\ Priority[t] \in OSReadyList /\ t \in Handles /\ Priority[t] \in Priorities
      /\ \A u \in Tasks : Priority[u] = Priority[t] => u = t
      /\ t \notin DelayList
  BY <1>2, OnCPUIsReady, PrioritiesDiffer, Zenon DEF WaitersInv, MutexWaiter
<1>4. CoreInv'
  <2>1. /\ DelayList' = DelayList \ {t} /\ TimeToWait' \in [Tasks -> 0..MAX_TIMER]
        /\ Priority' \in [Handles -> Priorities] /\ OSReadyList' \subseteq Priorities
        /\ PriorityVector' \in [Priorities -> Handles \cup {EMPTY_PRIO, MUTEX_PRIO}]
    BY <1>2, <1>3, Zenon DEF CoreInv, KernelTypeOK
  <2>2. CurrentTablesAgree' /\ ReadyPrioritiesHaveTasks'
    BY <1>2, Zenon DEF CoreInv, CurrentTablesAgree, ReadyPrioritiesHaveTasks
  <2>. QED  BY <1>2, <1>3, <2>1, <2>2, ReturnCoreInv, Zenon
<1>5. \A n \in Mutexes : OSEventWait'[n] \in Nat /\ Counts(OSEventWait'[n], OSEventWaitList'[n])
  <2>1. OSEventWait[m] > 0 /\ Counts(OSEventWait[m] - 1, OSEventWaitList[m] \ {Priority[t]})
    <3>1. Counts(OSEventWait[m], OSEventWaitList[m]) /\ Priority[t] \in OSEventWaitList[m]
      BY <1>2, <1>3, Zenon DEF TableInv
    <3>. QED  BY <3>1, CountRemove, Zenon
  <2>2. ASSUME NEW n \in Mutexes, n # m
        PROVE  OSEventWait'[n] = OSEventWait[n] /\ OSEventWaitList'[n] = OSEventWaitList[n]
    BY <1>2, <2>2, Zenon DEF TypeOK
  <2>3. /\ OSEventWait'[m] = OSEventWait[m] - 1
        /\ OSEventWaitList'[m] = OSEventWaitList[m] \ {Priority[t]}
    BY <1>2, Zenon DEF TypeOK
  <2>4. ASSUME NEW n \in Mutexes
        PROVE  Counts(OSEventWait'[n], OSEventWaitList'[n])
    <3>1. CASE n = m
      BY <2>1, <2>3, <3>1, Zenon
    <3>2. CASE n # m
      <4>1. Counts(OSEventWait[n], OSEventWaitList[n])
        BY Zenon DEF TableInv
      <4>. QED  BY <2>2, <3>2, <4>1, Zenon
    <3>. QED  BY <3>1, <3>2, Zenon
  <2>. QED  BY <2>4, CountZero, Zenon
<1>6. TypeOK'
  BY <1>2, <1>4, <1>5, Zenon DEF TypeOK, CoreInv
<1>7. HeldInv' /\ CeilingsInv' /\ MutualExclusion'
  BY <1>2, HoldersSame, Zenon
<1>8. TableInv'
  <2>1. ASSUME NEW n \in Mutexes, NEW p \in OSEventWaitList'[n]
        PROVE  \E u \in Tasks : p = Priority'[u] /\ pc'[u] = "mutex" /\ pont_event'[u] = n
    <3>1. p \in OSEventWaitList[n] /\ ~(n = m /\ p = Priority[t])
      BY <1>2, Zenon DEF TypeOK
    <3>2. PICK u \in Tasks : p = Priority[u] /\ pc[u] = "mutex" /\ pont_event[u] = n
      BY <3>1, Zenon DEF TableInv
    <3>3. u # t
      BY <1>1, <3>1, <3>2, Zenon
    <3>. QED  BY <1>2, <3>2, <3>3, Zenon DEF TypeOK, KernelTypeOK
  <2>. QED  BY <1>2, <1>5, <2>1, Zenon DEF TableInv
<1>9. WaitersInv'
  <2>1. ASSUME NEW u \in Tasks, pc'[u] = "mutex"
        PROVE  MutexWaiter(u)'
    <3>1. /\ u # t /\ pc[u] = "mutex" /\ pont_event'[u] = pont_event[u]
          /\ timed'[u] = timed[u] /\ Priority[u] # Priority[t]
          /\ pont_event[u] \in Mutexes
      BY <1>2, <1>3, <2>1, Zenon DEF TypeOK, KernelTypeOK, WaitersInv, MutexWaiter
    <3>2. Priority'[u] \in OSEventWaitList'[pont_event[u]]
               <=> Priority[u] \in OSEventWaitList[pont_event[u]]
      BY <1>2, <3>1, Zenon DEF TypeOK
    <3>3. MutexWaiter(u) /\ OSEventAllocated[pont_event[u]]
      BY <3>1, Zenon DEF WaitersInv, MutexWaiter
    <3>. QED  BY <1>2, <3>1, <3>2, <3>3, WaiterSame, Zenon
  <2>. QED  BY <2>1, Zenon DEF WaitersInv
<1>10. OwnerIsTold'
  <2>1. ASSUME NEW n \in Mutexes, OSEventOwner[n] # NOBODY, ~Holds(OSEventOwner[n], n)
        PROVE  LET u == OSEventOwner[n]
               IN  /\ pc'[u] = "mutex" /\ pont_event'[u] = n
                   /\ Priority'[u] \in OSReadyList' \ OSEventWaitList'[n]
    <3>. DEFINE u == OSEventOwner[n]
    <3>1. /\ u \in Tasks /\ pc[u] = "mutex" /\ pont_event[u] = n
          /\ Priority[u] \in OSReadyList \ OSEventWaitList[n]
      BY <2>1, Zenon DEF OwnerIsTold, TypeOK
    <3>2. u # t
      BY <1>1, <1>2, <3>1, Zenon
    <3>. HIDE DEF u
    <3>. QED  BY <1>2, <3>1, <3>2, Zenon DEF u, TypeOK, KernelTypeOK
  <2>2. UNCHANGED <<OSEventOwner, held>>
    BY <1>2, Zenon
  <2>. QED  BY <2>1, <2>2, Zenon DEF OwnerIsTold, Holds
<1>. QED  BY <1>4, <1>6, <1>7, <1>8, <1>9, <1>10, Zenon

(***************************************************************************)
(* RaiseToCeiling, by a task on the CPU that takes a mutex nobody holds:   *)
(* the tables still agree, and the priorities of the others stay.          *)
(***************************************************************************)
Raised(t, m) ==
  /\ Priority' \in [Handles -> Priorities] /\ OSReadyList' \subseteq Priorities
  /\ PriorityVector' \in [Priorities -> Handles \cup {EMPTY_PRIO, MUTEX_PRIO}]
  /\ CurrentTablesAgree' /\ ReadyPrioritiesHaveTasks'
  /\ Priority'[t] \in OSReadyList'
  /\ \A u \in Tasks \ {t} :
       /\ Priority'[u] = Priority[u]
       /\ Priority[u] \in OSReadyList' <=> Priority[u] \in OSReadyList
       /\ \A i \in 1..Len(held[u]) :
            PriorityVector'[OSOriginalPriority[held[u][i]]] = u
  /\ \A p \in Priorities :
       /\ PriorityVector[p] # EMPTY_PRIO => PriorityVector'[p] # EMPTY_PRIO
       /\ PriorityVector[p] = t => PriorityVector'[p] = t
  /\ Priority'[t] = IF OSMaxPriority[m] > Priority[t]
                      THEN OSMaxPriority[m] ELSE Priority[t]

\* RaiseToCeiling gives what Raised says.
LEMMA RaiseInv ==
  ASSUME MutexInv, NEW t \in Tasks, OnCPU(t), NEW m \in Mutexes,
         OSEventAllocated[m], \A u \in Tasks : ~Holds(u, m), RaiseToCeiling(t, m)
  PROVE  Raised(t, m)
<1>. USE DEF MutexInv, CoreInv
<1>. DEFINE c == OSMaxPriority[m]
<1>1. /\ t \in Handles /\ Priority[t] \in OSReadyList /\ Priority[t] \in Priorities
      /\ c \in Priorities /\ Idle \in Handles /\ Idle # t
      /\ \A h \in Handles : Priority[h] \in Priorities
      /\ \A g, h \in Handles : Priority[g] = Priority[h] => g = h
  BY OnCPUIsReady, PrioritiesDiffer, PriorityOfFacts, Zenon DEF TypeOK, KernelTypeOK
<1>2. \A u \in Tasks : \A i \in 1..Len(held[u]) :
        /\ PriorityVector[OSOriginalPriority[held[u][i]]] = u
        /\ OSOriginalPriority[held[u][i]] \in Priorities
  BY HolderFacts, Zenon DEF HeldInv, HeldOf, TypeOK
<1>3. CASE ~(c > Priority[t])
  <2>1. UNCHANGED <<Priority, PriorityVector, OSReadyList>>
    BY <1>3, Zenon DEF RaiseToCeiling
  <2>2. CurrentTablesAgree' /\ ReadyPrioritiesHaveTasks'
    BY <2>1, Zenon DEF CurrentTablesAgree, ReadyPrioritiesHaveTasks
  <2>. QED  BY <1>1, <1>2, <1>3, <2>1, <2>2, Zenon DEF KernelTypeOK, Raised
<1>4. CASE c > Priority[t]
  <2>1. /\ Priority' = [Priority EXCEPT ![t] = c]
        /\ PriorityVector' = [PriorityVector EXCEPT ![c] = t]
        /\ OSReadyList' = (OSReadyList \ {Priority[t]}) \cup {c}
    BY <1>4, Zenon DEF RaiseToCeiling
  <2>2. c > 0
    BY <1>1, <1>4, HandleFacts
  <2>3. ASSUME NEW u \in Tasks, NEW k \in 0..Len(held[u])
        PROVE  c \notin Levels(u, k)
    <3>1. \A j \in 1..k : held[u][j] # m
      BY HolderFacts DEF Holds
    <3>. QED  BY <2>2, <3>1, CeilingIsReserved, Zenon
  <2>4. \A u \in Tasks : \A i \in 1..Len(held[u]) : OSOriginalPriority[held[u][i]] # c
    <3>1. ASSUME NEW u \in Tasks, NEW i \in 1..Len(held[u])
          PROVE  OSOriginalPriority[held[u][i]] # c
      <4>1. i - 1 \in 0..Len(held[u])
        BY HolderFacts
      <4>2. OSOriginalPriority[held[u][i]] \in Levels(u, i - 1)
        BY Zenon DEF HeldInv, HeldOf, IsHighest
      <4>. QED  BY <2>3, <4>1, <4>2, Zenon
    <3>. QED  BY <3>1, Zenon
  <2>5. \A h \in Handles : Priority[h] # c
    <3>1. ASSUME NEW u \in Tasks
          PROVE  Priority[u] # c
      <4>1. Len(held[u]) \in 0..Len(held[u])
        BY HolderFacts
      <4>2. Priority[u] \in Levels(u, Len(held[u]))
        BY Zenon DEF HeldInv, HeldOf, IsHighest
      <4>. QED  BY <2>3, <4>1, <4>2, Zenon
    <3>2. Priority[Idle] # c
      BY <2>2 DEF CurrentTablesAgree
    <3>. QED  BY <3>1, <3>2, PriorityOfFacts, Zenon
  <2>6. c \notin OSReadyList /\ \A u \in Tasks : TaskPriority[u] # c
    BY <2>2, <2>5, Zenon DEF ReadyPrioritiesHaveTasks, CeilingsInv
  <2>7. /\ Priority' \in [Handles -> Priorities] /\ OSReadyList' \subseteq Priorities
        /\ PriorityVector' \in [Priorities -> Handles \cup {EMPTY_PRIO, MUTEX_PRIO}]
    BY <1>1, <2>1, Zenon DEF KernelTypeOK
  <2>8. /\ Priority'[t] = c /\ PriorityVector'[c] = t
        /\ \A h \in Handles \ {t} : Priority'[h] = Priority[h]
        /\ \A p \in Priorities \ {c} : PriorityVector'[p] = PriorityVector[p]
    BY <1>1, <2>1, Zenon DEF KernelTypeOK
  <2>9. CurrentTablesAgree'
    <3>1. \A h \in Handles : PriorityVector'[Priority'[h]] = h
      <4>1. ASSUME NEW h \in Handles, h # t
            PROVE  PriorityVector'[Priority'[h]] = h
        <5>1. Priority'[h] = Priority[h] /\ Priority[h] \in Priorities \ {c}
          BY <1>1, <2>5, <2>8, <4>1, Zenon
        <5>2. PriorityVector'[Priority[h]] = PriorityVector[Priority[h]]
          BY <2>8, <5>1, Zenon
        <5>3. PriorityVector[Priority[h]] = h
          BY Zenon DEF CurrentTablesAgree
        <5>. QED  BY <5>1, <5>2, <5>3, Zenon
      <4>. QED  BY <2>8, <4>1, Zenon
    <3>2. \A u \in Tasks : PriorityVector'[TaskPriority[u]] = u
      BY <2>6, <2>8, HandleFacts, Zenon DEF CurrentTablesAgree
    <3>3. Priority'[Idle] = 0 /\ 0 \in OSReadyList'
      BY <1>1, <2>1, <2>8, PrioritiesDiffer, Zenon DEF CurrentTablesAgree
    <3>. QED  BY <3>1, <3>2, <3>3, Zenon DEF CurrentTablesAgree
  <2>10. ReadyPrioritiesHaveTasks'
    <3>1. ASSUME NEW p \in OSReadyList, p # Priority[t]
          PROVE  PriorityVector'[p] \in Handles /\ Priority'[PriorityVector'[p]] = p
      <4>1. /\ PriorityVector[p] \in Handles /\ Priority[PriorityVector[p]] = p
            /\ p # c /\ p \in Priorities
        BY <2>6, Zenon DEF ReadyPrioritiesHaveTasks, KernelTypeOK
      <4>. QED  BY <2>8, <3>1, <4>1, Zenon
    <3>2. PriorityVector'[c] \in Handles /\ Priority'[PriorityVector'[c]] = c
      BY <1>1, <2>8, Zenon
    <3>3. \A p \in OSReadyList' : p = c \/ (p \in OSReadyList /\ p # Priority[t])
      BY <2>1, Zenon
    <3>. QED  BY <3>1, <3>2, <3>3, Zenon DEF ReadyPrioritiesHaveTasks
  <2>11. \A u \in Tasks \ {t} :
              /\ Priority'[u] = Priority[u]
              /\ Priority[u] \in OSReadyList' <=> Priority[u] \in OSReadyList
              /\ \A i \in 1..Len(held[u]) :
                   PriorityVector'[OSOriginalPriority[held[u][i]]] = u
    <3>1. ASSUME NEW u \in Tasks \ {t}
          PROVE  /\ Priority'[u] = Priority[u] /\ Priority[u] # c
                 /\ Priority[u] # Priority[t]
      BY <1>1, <2>5, <2>8, PriorityOfFacts, Zenon
    <3>2. ASSUME NEW u \in Tasks \ {t}, NEW i \in 1..Len(held[u])
          PROVE  PriorityVector'[OSOriginalPriority[held[u][i]]] = u
      <4>1. /\ OSOriginalPriority[held[u][i]] \in Priorities \ {c}
            /\ PriorityVector[OSOriginalPriority[held[u][i]]] = u
        BY <1>2, <2>4, Zenon
      <4>. QED  BY <2>8, <4>1, Zenon
    <3>3. ASSUME NEW u \in Tasks \ {t}
          PROVE  Priority[u] \in OSReadyList' <=> Priority[u] \in OSReadyList
      BY <2>1, <3>1, Zenon
    <3>. QED  BY <3>1, <3>2, <3>3, Zenon
  <2>12. \A p \in Priorities :
              /\ PriorityVector[p] # EMPTY_PRIO => PriorityVector'[p] # EMPTY_PRIO
              /\ PriorityVector[p] = t => PriorityVector'[p] = t
    BY <1>1, <2>8, HandleFacts, Zenon
  <2>13. Priority'[t] \in OSReadyList'
    <3>1. c \in OSReadyList'
      BY <2>1, Zenon
    <3>. QED  BY <2>8, <3>1, Zenon
  <2>. QED  BY <1>4, <2>7, <2>8, <2>9, <2>10, <2>11, <2>12, <2>13, Zenon DEF Raised
<1>. QED  BY <1>3, <1>4, Zenon

(***************************************************************************)
(* OSMutexAcquire gets the mutex: at once, or after it was handed over.    *)
(***************************************************************************)
MayAcquire(t, m) ==
  /\ OSEventAllocated[m] /\ OSEventOwner[m] \in {NOBODY, t}
  /\ \A u \in Tasks : ~Holds(u, m)
  /\ pc[t] = "mutex" => pont_event[t] = m /\ Priority[t] \notin OSEventWaitList[m]

Acquires(t, m) ==
  /\ RaiseToCeiling(t, m)
  /\ held' = [held EXCEPT ![t] = Append(@, m)]
  /\ OSEventOwner' = [OSEventOwner EXCEPT ![m] = t]
  /\ OSEventState' = [OSEventState EXCEPT ![m] = FALSE]
  /\ pc' = [pc EXCEPT ![t] = "app"] /\ DelayList' = DelayList \ {t}
  /\ TimeToWait' \in [Tasks -> 0..MAX_TIMER]
  /\ pont_event' \in [Tasks -> Mutexes \cup {NULL}] /\ timed' \in [Tasks -> BOOLEAN]
  /\ \A u \in Tasks \ {t} : /\ TimeToWait'[u] = TimeToWait[u]
                              /\ pont_event'[u] = pont_event[u]
                              /\ timed'[u] = timed[u]
  /\ UNCHANGED <<tickVars, currentTask, OSBlockedList, pendSV, ticksLeft>>
  /\ UNCHANGED <<OSEventAllocated, OSMaxPriority, OSEventWait,
                 OSEventWaitList, lateRelease>>

\* Both ways of getting the mutex preserve the invariant.
LEMMA AcquiredInv ==
  ASSUME MutexInv, NEW t \in Tasks, OnCPU(t), NEW m \in Mutexes,
         MayAcquire(t, m), Acquires(t, m)
  PROVE  MutexInv'
<1>. USE DEF MutexInv
<1>0. /\ held' = [held EXCEPT ![t] = Append(@, m)]
      /\ OSEventOwner' = [OSEventOwner EXCEPT ![m] = t]
      /\ OSEventState' = [OSEventState EXCEPT ![m] = FALSE]
      /\ pc' = [pc EXCEPT ![t] = "app"] /\ DelayList' = DelayList \ {t}
      /\ UNCHANGED <<OSEventAllocated, OSMaxPriority, OSEventWait, OSEventWaitList>>
      /\ OSEventAllocated[m] /\ \A u \in Tasks : ~Holds(u, m)
  BY Zenon DEF Acquires, MayAcquire
<1>1. /\ \A n \in Mutexes : Priority[t] \notin OSEventWaitList[n]
      /\ Priority[t] \in Priorities /\ PriorityVector[Priority[t]] = t
  BY NotInWaitList, PrioritiesDiffer, Zenon DEF CoreInv, CurrentTablesAgree, MayAcquire
<1>2. /\ OSOriginalPriority' = [OSOriginalPriority EXCEPT ![m] = Priority[t]]
      /\ OSOriginalPriority' \in [Mutexes -> Priorities]
  BY <1>1, Zenon DEF RaiseToCeiling, TypeOK, Acquires
<1>3. Raised(t, m)
  BY RaiseInv, Zenon DEF Acquires, MayAcquire
<1>13. CoreInv'
  <2>1. /\ Priority' \in [Handles -> Priorities] /\ OSReadyList' \subseteq Priorities
        /\ PriorityVector' \in [Priorities -> Handles \cup {EMPTY_PRIO, MUTEX_PRIO}]
        /\ CurrentTablesAgree' /\ ReadyPrioritiesHaveTasks' /\ Priority'[t] \in OSReadyList'
        /\ \A u \in Tasks \ {t} :
             /\ Priority'[u] = Priority[u]
             /\ Priority[u] \in OSReadyList' <=> Priority[u] \in OSReadyList
    BY <1>3, Zenon DEF Raised
  <2>2. /\ TimeToWait' \in [Tasks -> 0..MAX_TIMER]
        /\ UNCHANGED <<tickVars, currentTask, OSBlockedList, pendSV, ticksLeft>>
    BY Zenon DEF Acquires
  <2>. QED  BY <1>0, <2>1, <2>2, ReturnCoreInv, Zenon
<1>4. TypeOK'
  <2>1. held' \in [Tasks -> Seq(Mutexes)]
    <3>1. held \in [Tasks -> Seq(Mutexes)] /\ Append(held[t], m) \in Seq(Mutexes)
      BY DEF TypeOK
    <3>. QED  BY <1>0, <3>1, Zenon
  <2>2. /\ pont_event' \in [Tasks -> Mutexes \cup {NULL}] /\ timed' \in [Tasks -> BOOLEAN]
        /\ lateRelease' = lateRelease
    BY Zenon DEF Acquires
  <2>. QED  BY <1>0, <1>2, <1>13, <2>1, <2>2, Zenon DEF TypeOK, CoreInv
<1>5. /\ held'[t] = Append(held[t], m)
      /\ \A u \in Tasks \ {t} : held'[u] = held[u]
      /\ \A u \in Tasks \ {t} : Priority'[u] = Priority[u] /\ pc'[u] = pc[u]
      /\ pc'[t] = "app"
  <2>1. \A u \in Tasks \ {t} : Priority'[u] = Priority[u]
    BY <1>3, Zenon DEF Raised
  <2>2. held \in [Tasks -> Seq(Mutexes)] /\ pc \in [Tasks -> Services]
    BY Zenon DEF TypeOK, KernelTypeOK
  <2>. QED  BY <1>0, <2>1, <2>2, Zenon
<1>6. \A u \in Tasks, n \in Mutexes : Holds(u, n)' <=> Holds(u, n) \/ (u = t /\ n = m)
  <2>1. ASSUME NEW u \in Tasks \ {t}, NEW n \in Mutexes
        PROVE  Holds(u, n)' <=> Holds(u, n)
    BY <1>5, Zenon DEF Holds
  <2>2. ASSUME NEW n \in Mutexes
        PROVE  Holds(t, n)' <=> Holds(t, n) \/ n = m
    <3>1. held[t] \in Seq(Mutexes)
      BY HolderFacts, Zenon
    <3>2. /\ Len(Append(held[t], m)) = Len(held[t]) + 1 /\ Len(held[t]) \in Nat
          /\ Append(held[t], m)[Len(held[t]) + 1] = m
          /\ \A i \in 1..Len(held[t]) : Append(held[t], m)[i] = held[t][i]
      BY <3>1
    <3>. QED  BY <1>5, <3>2 DEF Holds
  <2>. QED  BY <2>1, <2>2, Zenon
<1>7. HeldInv'
  <2>1. HeldOf(t)'
    <3>1. /\ Len(held[t]) \in 0..Len(held[t]) /\ held[t] \in Seq(Mutexes)
          /\ Levels(t, Len(held[t])) \subseteq Priorities
      <4>1. held[t] \in Seq(Mutexes) /\ Len(held[t]) \in Nat
        BY HolderFacts, Zenon
      <4>2. Len(held[t]) \in 0..Len(held[t])
        BY <4>1
      <4>. QED  BY <4>1, <4>2, HolderFacts, Zenon
    <3>2. /\ HeldOf(t) /\ OSOriginalPriority \in [Mutexes -> Priorities]
          /\ OSMaxPriority[m] \in Priorities
      BY Zenon DEF HeldInv, TypeOK
    <3>3. /\ \A p \in Priorities : PriorityVector[p] = t => PriorityVector'[p] = t
          /\ Priority'[t] = IF OSMaxPriority[m] > Priority[t]
                             THEN OSMaxPriority[m] ELSE Priority[t]
      BY <1>3, Zenon DEF Raised
    <3>. QED  BY <1>0, <1>1, <1>2, <1>5, <3>1, <3>2, <3>3, HeldAppend, Zenon
  <2>2. ASSUME NEW u \in Tasks \ {t}
        PROVE  HeldOf(u)'
    <3>1. \A i \in 1..Len(held[u]) :
            /\ OSMaxPriority'[held[u][i]] = OSMaxPriority[held[u][i]]
            /\ OSOriginalPriority'[held[u][i]] = OSOriginalPriority[held[u][i]]
            /\ PriorityVector'[OSOriginalPriority[held[u][i]]] = u
      <4>1. \A i \in 1..Len(held[u]) : held[u][i] \in Mutexes /\ held[u][i] # m
        <5>1. \A i \in 1..Len(held[u]) : held[u][i] \in Mutexes
          BY HolderFacts, Zenon
        <5>2. ~Holds(u, m)
          BY <1>0, Zenon
        <5>. QED  BY <5>1, <5>2, Zenon DEF Holds
      <4>. QED  BY <1>0, <1>2, <1>3, <4>1, Zenon DEF TypeOK, Raised
    <3>2. HeldOf(u) /\ Len(held[u]) \in Nat
      BY HolderFacts, Zenon DEF HeldInv
    <3>. QED  BY <1>5, <3>1, <3>2, HeldSame, Zenon
  <2>. QED  BY <2>1, <2>2, Zenon DEF HeldInv
<1>8. CeilingsInv'
  <2>1. \A n \in Mutexes : PriorityVector[OSMaxPriority[n]] # EMPTY_PRIO
                             => PriorityVector'[OSMaxPriority[n]] # EMPTY_PRIO
    BY <1>3, Zenon DEF TypeOK, Raised
  <2>. QED  BY <1>0, <2>1, Zenon DEF CeilingsInv
<1>9. MutualExclusion'
  <2>1. ASSUME NEW u \in Tasks, NEW n \in Mutexes, Holds(u, n)'
        PROVE  OSEventOwner'[n] = u
    <3>1. CASE n = m
      BY <1>0, <1>6, <2>1, <3>1, Zenon DEF TypeOK
    <3>2. CASE n # m
      BY <1>0, <1>6, <2>1, <3>2, Zenon DEF TypeOK, MutualExclusion
    <3>. QED  BY <3>1, <3>2, Zenon
  <2>. QED  BY <2>1, Zenon DEF MutualExclusion
<1>10. TableInv'
  <2>1. ASSUME NEW n \in Mutexes, NEW p \in OSEventWaitList[n]
        PROVE  \E u \in Tasks : p = Priority'[u] /\ pc'[u] = "mutex" /\ pont_event'[u] = n
    <3>1. PICK u \in Tasks : p = Priority[u] /\ pc[u] = "mutex" /\ pont_event[u] = n
      BY Zenon DEF TableInv
    <3>2. u # t
      BY <1>1, <3>1, Zenon
    <3>3. pont_event'[u] = pont_event[u]
      BY <3>2, Zenon DEF Acquires
    <3>. QED  BY <1>5, <3>1, <3>2, <3>3, Zenon
  <2>2. \A n \in Mutexes :
          /\ OSEventState'[n] <=> OSEventAllocated[n] /\ OSEventOwner'[n] = NOBODY
          /\ OSEventOwner'[n] # NOBODY => OSEventAllocated[n]
    <3>1. OSEventOwner'[m] = t /\ t # NOBODY /\ OSEventState'[m] = FALSE
      BY <1>0, HandleFacts, Zenon DEF TypeOK
    <3>2. ASSUME NEW n \in Mutexes, n # m
          PROVE  OSEventOwner'[n] = OSEventOwner[n] /\ OSEventState'[n] = OSEventState[n]
      BY <1>0, <3>2, Zenon DEF TypeOK
    <3>3. ASSUME NEW n \in Mutexes, n # m
          PROVE  /\ OSEventState'[n] <=> OSEventAllocated[n] /\ OSEventOwner'[n] = NOBODY
                 /\ OSEventOwner'[n] # NOBODY => OSEventAllocated[n]
      <4>1. /\ OSEventState[n] <=> OSEventAllocated[n] /\ OSEventOwner[n] = NOBODY
            /\ OSEventOwner[n] # NOBODY => OSEventAllocated[n]
        BY Zenon DEF TableInv
      <4>. QED  BY <3>2, <3>3, <4>1, Zenon
    <3>. QED  BY <1>0, <3>1, <3>3, Zenon
  <2>. QED  BY <1>0, <2>1, <2>2, Zenon DEF TableInv
<1>11. WaitersInv'
  <2>1. ASSUME NEW u \in Tasks, pc'[u] = "mutex"
        PROVE  MutexWaiter(u)'
    <3>1. u # t /\ u \in Tasks \ {t} /\ pc[u] = "mutex" /\ pont_event[u] \in Mutexes
      BY <1>5, <2>1, Zenon DEF WaitersInv, MutexWaiter
    <3>2. /\ Priority[u] \in OSReadyList' <=> Priority[u] \in OSReadyList
          /\ u \in DelayList' <=> u \in DelayList
          /\ TimeToWait'[u] = TimeToWait[u] /\ pont_event'[u] = pont_event[u]
          /\ timed'[u] = timed[u] /\ held'[u] = held[u] /\ Priority'[u] = Priority[u]
      BY <1>0, <1>3, <1>5, <3>1, Zenon DEF Raised, Acquires
    <3>3. MutexWaiter(u) /\ OSEventAllocated[pont_event[u]]
      BY <3>1, Zenon DEF WaitersInv, MutexWaiter
    <3>4. OSEventOwner[pont_event[u]] = u => OSEventOwner'[pont_event[u]] = u
      <4>1. OSEventOwner[m] # u
        BY <3>1, HandleFacts, Zenon DEF MayAcquire
      <4>. QED  BY <1>0, <3>1, <4>1, Zenon DEF TypeOK
    <3>. QED  BY <1>0, <3>2, <3>3, <3>4, WaiterSame, Zenon
  <2>. QED  BY <2>1, Zenon DEF WaitersInv
<1>12. OwnerIsTold'
  <2>1. ASSUME NEW n \in Mutexes, n # m, OSEventOwner[n] # NOBODY, ~Holds(OSEventOwner[n], n)
        PROVE  LET u == OSEventOwner[n]
               IN  /\ pc'[u] = "mutex" /\ pont_event'[u] = n
                   /\ Priority'[u] \in OSReadyList' \ OSEventWaitList[n]
    <3>. DEFINE u == OSEventOwner[n]
    <3>1. /\ u \in Tasks /\ pc[u] = "mutex" /\ pont_event[u] = n
          /\ Priority[u] \in OSReadyList \ OSEventWaitList[n]
      BY <2>1, Zenon DEF OwnerIsTold, TypeOK
    <3>2. u \in Tasks \ {t}
      BY <2>1, <3>1, Zenon DEF MayAcquire
    <3>. HIDE DEF u
    <3>3. Priority[u] \in OSReadyList' /\ pont_event'[u] = pont_event[u]
      BY <1>3, <3>1, <3>2, Zenon DEF Raised, Acquires
    <3>. QED  BY <1>5, <3>1, <3>2, <3>3, Zenon DEF u
  <2>2. ASSUME NEW n \in Mutexes, NEW u \in Tasks, OSEventOwner'[n] = u
        PROVE  \/ Holds(u, n)'
               \/ /\ pc'[u] = "mutex" /\ pont_event'[u] = n
                  /\ Priority'[u] \in OSReadyList' \ OSEventWaitList'[n]
    <3>1. CASE n = m
      <4>1. u = t
        BY <1>0, <2>2, <3>1, Zenon DEF TypeOK
      <4>. QED  BY <1>6, <3>1, <4>1, Zenon
    <3>2. CASE n # m
      <4>1. OSEventOwner[n] = u /\ u # NOBODY
        BY <1>0, <2>2, <3>2, HandleFacts, Zenon DEF TypeOK
      <4>. QED  BY <1>0, <1>6, <2>1, <3>2, <4>1, Zenon
    <3>. QED  BY <3>1, <3>2, Zenon
  <2>3. \A n \in Mutexes : OSEventOwner'[n] # NOBODY => OSEventOwner'[n] \in Tasks
    BY <1>4, Zenon DEF TypeOK
  <2>. QED  BY <2>2, <2>3, Zenon DEF OwnerIsTold, Holds
<1>. QED  BY <1>13, <1>4, <1>7, <1>8, <1>9, <1>10, <1>11, <1>12, Zenon

\* OSMutexAcquire of a mutex nobody holds.
LEMMA AcquireAvailableInv ==
  ASSUME MutexInv, NEW t \in Tasks, NEW m \in Mutexes, AcquireAvailable(t, m)
  PROVE  MutexInv'
<1>. USE DEF MutexInv
<1>1. /\ OnCPU(t) /\ pc[t] = "app" /\ OSEventAllocated[m] /\ OSEventState[m]
      /\ RaiseToCeiling(t, m) /\ held' = [held EXCEPT ![t] = Append(@, m)]
      /\ OSEventOwner' = [OSEventOwner EXCEPT ![m] = t]
      /\ OSEventState' = [OSEventState EXCEPT ![m] = FALSE]
      /\ UNCHANGED <<tickVars, currentTask, OSBlockedList, pendSV, ticksLeft>>
      /\ UNCHANGED <<OSEventAllocated, OSMaxPriority, OSEventWait,
                     OSEventWaitList, lateRelease>>
      /\ UNCHANGED <<pc, TimeToWait, DelayList, pont_event, timed>>
  BY Zenon DEF AcquireAvailable, Running, waitVars
<1>2. OSEventOwner[m] = NOBODY
  BY <1>1, Zenon DEF TableInv
<1>3. \A u \in Tasks : ~Holds(u, m)
  BY <1>2, HandleFacts, Zenon DEF MutualExclusion
<1>4. pc' = [pc EXCEPT ![t] = "app"] /\ DelayList' = DelayList \ {t}
  BY <1>1, Zenon DEF CoreInv, KernelTypeOK, DelayedAreLinked
<1>5. /\ TimeToWait' \in [Tasks -> 0..MAX_TIMER]
      /\ pont_event' \in [Tasks -> Mutexes \cup {NULL}] /\ timed' \in [Tasks -> BOOLEAN]
      /\ \A u \in Tasks \ {t} : /\ TimeToWait'[u] = TimeToWait[u]
                                /\ pont_event'[u] = pont_event[u]
                                /\ timed'[u] = timed[u]
      /\ pc[t] = "mutex" => pont_event[t] = m /\ Priority[t] \notin OSEventWaitList[m]
  BY <1>1, Zenon DEF TypeOK, KernelTypeOK
<1>6. MayAcquire(t, m) /\ Acquires(t, m)
  BY <1>1, <1>2, <1>3, <1>4, <1>5, Zenon DEF MayAcquire, Acquires
<1>. HIDE DEF MutexInv
<1>. QED  BY <1>1, <1>6, AcquiredInv, Zenon

\* OSMutexAcquire of a mutex that was handed over.
LEMMA AcquireOKInv ==
  ASSUME MutexInv, NEW t \in Tasks, AcquireOK(t)
  PROVE  MutexInv'
<1>. USE DEF MutexInv
<1>1. OnCPU(t) /\ pc[t] = "mutex" /\ ~AcquireTimedOut(t)
  BY Zenon DEF AcquireOK, Resumed
<1>2. PICK m \in Mutexes : m = pont_event[t]
  BY <1>1, Zenon DEF WaitersInv, MutexWaiter
<1>3. /\ OSEventAllocated[m] /\ ~Holds(t, m) /\ Priority[t] \in OSReadyList
      /\ Priority[t] \notin OSEventWaitList[m] /\ OSEventOwner[m] = t
      /\ ~timed[t] \/ TimeToWait[t] = EXIT_BY_TIMEOUT => t \notin DelayList
  BY <1>1, <1>2, OnCPUIsReady, Zenon DEF WaitersInv, MutexWaiter, AcquireTimedOut
<1>4. \A u \in Tasks : ~Holds(u, m)
  BY <1>3, Zenon DEF MutualExclusion
<1>5. /\ RaiseToCeiling(t, m) /\ held' = [held EXCEPT ![t] = Append(@, m)]
      /\ pc' = [pc EXCEPT ![t] = "app"]
      /\ pont_event' = [pont_event EXCEPT ![t] = NULL]
      /\ timed' = [timed EXCEPT ![t] = FALSE]
      /\ OSEventOwner' = OSEventOwner /\ OSEventState' = OSEventState
      /\ UNCHANGED <<tickVars, currentTask, OSBlockedList, pendSV, ticksLeft>>
      /\ UNCHANGED <<OSEventAllocated, OSMaxPriority, OSEventWait,
                     OSEventWaitList, lateRelease>>
  BY <1>2, Zenon DEF AcquireOK, AcquireReturn
<1>6. /\ OSEventOwner' = [OSEventOwner EXCEPT ![m] = t]
      /\ OSEventState' = [OSEventState EXCEPT ![m] = FALSE]
  <2>1. OSEventState[m] = FALSE
    BY <1>3, HandleFacts DEF TableInv, TypeOK
  <2>. QED  BY <1>3, <1>5, <2>1, Zenon DEF TypeOK
<1>7. /\ DelayList' = DelayList \ {t} /\ TimeToWait' \in [Tasks -> 0..MAX_TIMER]
      /\ \A u \in Tasks \ {t} : TimeToWait'[u] = TimeToWait[u]
  <2>1. NO_TIMEOUT \in 0..MAX_TIMER /\ TimeToWait \in [Tasks -> 0..MAX_TIMER]
    BY KernelAssumption DEF NO_TIMEOUT, TypeOK, KernelTypeOK
  <2>. QED  BY <1>3, <2>1, Zenon DEF AcquireOK, RemoveFromDelayList
<1>8. /\ pont_event' \in [Tasks -> Mutexes \cup {NULL}] /\ timed' \in [Tasks -> BOOLEAN]
      /\ \A u \in Tasks \ {t} : pont_event'[u] = pont_event[u] /\ timed'[u] = timed[u]
  BY <1>5, Zenon DEF TypeOK
<1>9. MayAcquire(t, m)
  BY <1>1, <1>2, <1>3, <1>4, Zenon DEF MayAcquire
<1>10. Acquires(t, m)
  BY <1>5, <1>6, <1>7, <1>8, Zenon DEF Acquires
<1>. HIDE DEF MutexInv
<1>. QED  BY <1>1, <1>9, <1>10, AcquiredInv, Zenon

(***************************************************************************)
(* OSMutexRelease by the owner: it gives back the last mutex it took, and  *)
(* the priority saved there was its own.                                   *)
(***************************************************************************)
Releasing(t, m) ==
  /\ Running(t) /\ OSEventAllocated[m] /\ OSEventOwner[m] = t /\ Holds(t, m)
  /\ held[t] \in Seq(Mutexes) /\ held[t] # <<>> /\ held[t][Len(held[t])] = m
  /\ held' = [held EXCEPT ![t] = Without(held[t], m)]
  /\ held'[t] = Without(held[t], m)
  /\ Priority' = [Priority EXCEPT ![t] = OSOriginalPriority[m]]
  /\ OSOriginalPriority[m] \in Priorities
  /\ PriorityVector[OSOriginalPriority[m]] = t
  /\ \A h \in Handles \ {t} : Priority[h] # OSOriginalPriority[m]
  /\ OSMaxPriority[m] > 0 =>
       /\ OSMaxPriority[m] # OSOriginalPriority[m]
       /\ \A i \in 1..Len(held[t]) : OSOriginalPriority[held[t][i]] # OSMaxPriority[m]

\* The release of a mutex by its owner is what Releasing says.
LEMMA ReleaseFacts ==
  ASSUME MutexInv, Nested, NEW t \in Tasks, NEW m \in Mutexes, ReleaseBegin(t, m)
  PROVE  Releasing(t, m)
<1>. USE DEF MutexInv
<1>1. /\ Running(t) /\ OSEventAllocated[m] /\ OSEventOwner[m] = t
      /\ held[t][Len(held[t])] = m
      /\ Priority' = [Priority EXCEPT ![t] = OSOriginalPriority[m]]
      /\ held' = [held EXCEPT ![t] = Without(held[t], m)]
  BY Zenon DEF ReleaseBegin
<1>2. Holds(t, m)
  BY <1>1, HandleFacts, Zenon DEF OwnerIsTold, Running
<1>3. /\ held[t] \in Seq(Mutexes) /\ Len(held[t]) \in Nat /\ Len(held[t]) >= 1
      /\ held[t] # <<>> /\ held'[t] = Without(held[t], m)
  <2>1. held[t] \in Seq(Mutexes) /\ Len(held[t]) \in Nat
    BY HolderFacts, Zenon
  <2>2. PICK i \in 1..Len(held[t]) : held[t][i] = m
    BY <1>2, Zenon DEF Holds
  <2>3. Len(held[t]) >= 1 /\ held[t] # <<>>
    BY <2>1, <2>2
  <2>4. held'[t] = Without(held[t], m)
    BY <1>1, Zenon DEF TypeOK
  <2>. QED  BY <2>1, <2>3, <2>4, Zenon
<1>. PICK n \in Nat : n = Len(held[t])
  BY <1>3, Zenon
<1>4. /\ OSOriginalPriority[m] \in Priorities
      /\ PriorityVector[OSOriginalPriority[m]] = t
  <2>1. \A i \in 1..Len(held[t]) : PriorityVector[OSOriginalPriority[held[t][i]]] = t
    BY Zenon DEF HeldInv, HeldOf
  <2>2. Len(held[t]) \in 1..Len(held[t])
    BY <1>3
  <2>. QED  BY <1>1, <2>1, <2>2, Zenon DEF TypeOK
<1>5. \A h \in Handles \ {t} : Priority[h] # OSOriginalPriority[m]
  BY <1>4, Zenon DEF CoreInv, CurrentTablesAgree
<1>6. ASSUME OSMaxPriority[m] > 0, NEW i \in 1..Len(held[t])
      PROVE  OSOriginalPriority[held[t][i]] # OSMaxPriority[m]
  <2>1. i - 1 \in 0..Len(held[t]) /\ \A j \in 1..(i - 1) : j \in 1..n /\ j # n
    BY <1>3
  <2>2. \A j \in 1..(i - 1) : held[t][j] # m
    <3>1. \A j, k \in 1..n : held[t][j] = held[t][k] => j = k
      BY Zenon DEF HeldInv, HeldOf
    <3>2. n \in 1..n /\ held[t][n] = m
      BY <1>1, <1>3
    <3>. QED  BY <2>1, <3>1, <3>2, Zenon
  <2>3. OSMaxPriority[m] \notin Levels(t, i - 1)
    BY <1>1, <1>6, <2>1, <2>2, CeilingIsReserved, Zenon
  <2>4. OSOriginalPriority[held[t][i]] \in Levels(t, i - 1)
    BY Zenon DEF HeldInv, HeldOf, IsHighest
  <2>. QED  BY <2>3, <2>4, Zenon
<1>7. OSMaxPriority[m] > 0 => OSMaxPriority[m] # OSOriginalPriority[m]
  <2>1. n \in 1..n
    BY <1>3
  <2>. QED  BY <1>1, <1>6, <2>1, Zenon
<1>. QED  BY <1>1, <1>2, <1>3, <1>4, <1>5, <1>6, <1>7, Zenon DEF Releasing

(***************************************************************************)
(* The current task returns to a priority of its own.                      *)
(***************************************************************************)
LEMMA ReleaseCoreInv ==
  ASSUME CoreInv, NEW t \in Tasks, Running(t), NEW p \in Priorities,
         Priority' = [Priority EXCEPT ![t] = p],
         PriorityVector' \in [Priorities -> Handles \cup {EMPTY_PRIO, MUTEX_PRIO}],
         PriorityVector'[p] = t,
         \A h \in Handles \ {t} : PriorityVector'[Priority[h]] = h,
         \A u \in Tasks : PriorityVector'[TaskPriority[u]] = u,
         OSReadyList' \subseteq Priorities, p \in OSReadyList', 0 \in OSReadyList',
         \A r \in OSReadyList' \ {p} : \E h \in Handles \ {t} : r = Priority[h],
         \A u \in Tasks \ {t} :
           pc[u] # "mutex" => (Priority[u] \in OSReadyList' <=> Priority[u] \in OSReadyList),
         pendSV' \in BOOLEAN,
         UNCHANGED <<tickVars, waitVars, currentTask, OSBlockedList, pc>>
  PROVE  CoreInv'
<1>. USE DEF CoreInv
<1>1. /\ t \in Handles /\ Idle \in Handles /\ Idle # t
      /\ Priority'[t] = p
      /\ \A h \in Handles \ {t} : Priority'[h] = Priority[h]
      /\ Priority' \in [Handles -> Priorities]
  BY PriorityOfFacts, PrioritiesDiffer, Zenon DEF KernelTypeOK
<1>2. KernelTypeOK'
  BY <1>1, Zenon DEF KernelTypeOK, tickVars, waitVars
<1>3. CurrentTablesAgree'
  BY <1>1, Zenon DEF CurrentTablesAgree
<1>4. ReadyPrioritiesHaveTasks'
  <2>1. ASSUME NEW r \in OSReadyList'
        PROVE  PriorityVector'[r] \in Handles /\ Priority'[PriorityVector'[r]] = r
    <3>1. CASE r = p
      BY <1>1, <3>1, Zenon
    <3>2. CASE r # p
      <4>1. PICK h \in Handles \ {t} : r = Priority[h]
        BY <3>2, Zenon
      <4>. QED  BY <1>1, <4>1, Zenon
    <3>. QED  BY <3>1, <3>2, Zenon
  <2>. QED  BY <2>1, Zenon DEF ReadyPrioritiesHaveTasks
<1>5. CPUIsReady'
  BY <1>1, Zenon DEF CPUIsReady, Running, OnCPU
<1>6. WalkIsLinked'
  BY Zenon DEF WalkIsLinked, tickVars, waitVars
<1>7. DelayedAreLinked'
  <2>1. pc[t] = "app" /\ "app" # "delay" /\ "app" # "mutex" /\ "delay" # "mutex"
    BY Zenon DEF Running
  <2>2. UNCHANGED <<DelayList, pc>>
    BY Zenon DEF waitVars
  <2>3. ASSUME NEW u \in Tasks \ {t}
        PROVE  /\ pc'[u] = "delay" => (u \in DelayList' <=> Priority'[u] \notin OSReadyList')
               /\ pc'[u] = "app" => u \notin DelayList' /\ Priority'[u] \in OSReadyList'
    <3>1. u \in Handles \ {t}
      BY PrioritiesDiffer, Zenon
    <3>. QED  BY <1>1, <2>1, <2>2, <3>1, Zenon DEF DelayedAreLinked
  <2>4. /\ pc'[t] = "delay" => (t \in DelayList' <=> Priority'[t] \notin OSReadyList')
        /\ pc'[t] = "app" => t \notin DelayList' /\ Priority'[t] \in OSReadyList'
    BY <1>1, <2>1, <2>2, Zenon DEF DelayedAreLinked
  <2>. QED  BY <2>3, <2>4, Zenon DEF DelayedAreLinked
<1>. QED  BY <1>2, <1>3, <1>4, <1>5, <1>6, <1>7, Zenon

(***************************************************************************)
(* What the other tasks hold stays, and t holds all but m.                 *)
(***************************************************************************)
LEMMA ReleaseHeld ==
  ASSUME MutexInv, Nested, NEW t \in Tasks, NEW m \in Mutexes, ReleaseBegin(t, m),
         UNCHANGED <<OSMaxPriority, OSOriginalPriority>>,
         \A u \in Tasks : \A i \in 1..Len(held[u]) :
           PriorityVector'[OSOriginalPriority[held[u][i]]] = u
  PROVE  /\ held' \in [Tasks -> Seq(Mutexes)] /\ HeldInv'
         /\ \A u \in Tasks, n \in Mutexes :
              Holds(u, n)' <=> Holds(u, n) /\ ~(u = t /\ n = m)
<1>. USE DEF MutexInv
<1>1. /\ held[t] \in Seq(Mutexes) /\ held[t] # <<>> /\ held[t][Len(held[t])] = m
      /\ held' = [held EXCEPT ![t] = Without(held[t], m)]
      /\ held'[t] = Without(held[t], m)
      /\ Priority' = [Priority EXCEPT ![t] = OSOriginalPriority[m]]
  <2>1. Releasing(t, m)
    BY ReleaseFacts, Zenon
  <2>. QED  BY <2>1, Zenon DEF Releasing
<1>2. /\ t \in Handles /\ Priority'[t] = OSOriginalPriority[m]
      /\ \A u \in Tasks \ {t} : held'[u] = held[u] /\ Priority'[u] = Priority[u]
  BY <1>1, PrioritiesDiffer, Zenon DEF TypeOK, KernelTypeOK
<1>3. HeldOf(t) /\ \A i, j \in 1..Len(held[t]) : held[t][i] = held[t][j] => i = j
  BY Zenon DEF HeldInv, HeldOf
<1>4. /\ Without(held[t], m) \in Seq(Mutexes) /\ Len(Without(held[t], m)) = Len(held[t]) - 1
      /\ \A i \in 1..(Len(held[t]) - 1) : Without(held[t], m)[i] = held[t][i]
      /\ Len(held[t]) \in Nat /\ Len(held[t]) >= 1
  <2>1. held[t] \in Seq(Mutexes) /\ held[t] # <<>> /\ held[t][Len(held[t])] = m
    BY <1>1, Zenon
  <2>2. \A i, j \in 1..Len(held[t]) : held[t][i] = held[t][j] => i = j
    BY <1>3, Zenon
  <2>. QED  BY <2>1, <2>2, WithoutLast, Zenon
<1>5. held' \in [Tasks -> Seq(Mutexes)]
  BY <1>1, <1>4, Zenon DEF TypeOK
<1>6. HeldInv'
  <2>1. HeldOf(t)'
    <3>1. \A i \in 1..(Len(held[t]) - 1) :
            PriorityVector'[OSOriginalPriority[held[t][i]]] = t
      <4>1. \A i \in 1..(Len(held[t]) - 1) : i \in 1..Len(held[t])
        BY <1>4
      <4>. QED  BY <4>1, Zenon
    <3>2. HeldOf(t) /\ held[t] \in Seq(Mutexes) /\ held[t] # <<>>
      BY <1>1, <1>3, Zenon
    <3>3. held[t][Len(held[t])] = m /\ held'[t] = Without(held[t], m)
      BY <1>1, Zenon
    <3>4. Priority'[t] = OSOriginalPriority[m]
      BY <1>2, Zenon
    <3>. QED  BY <3>1, <3>2, <3>3, <3>4, HeldRelease, Zenon
  <2>2. ASSUME NEW u \in Tasks \ {t}
        PROVE  HeldOf(u)'
    <3>1. HeldOf(u) /\ Len(held[u]) \in Nat
      BY HolderFacts, Zenon DEF HeldInv
    <3>. QED  BY <1>2, <3>1, HeldSame, Zenon
  <2>. QED  BY <2>1, <2>2, Zenon DEF HeldInv
<1>7. ASSUME NEW n \in Mutexes
      PROVE  Holds(t, n)' <=> Holds(t, n) /\ n # m
  <2>. PICK k \in Nat : k = Len(held[t])
    BY <1>4, Zenon
  <2>1. /\ Len(held'[t]) = k - 1 /\ k >= 1 /\ held[t][k] = m
        /\ \A i \in 1..(k - 1) : held'[t][i] = held[t][i]
    BY <1>1, <1>4, Zenon
  <2>2. \A i \in 1..(k - 1) : held[t][i] # m
    <3>1. \A i \in 1..(k - 1) : i \in 1..k /\ i # k /\ k \in 1..k
      BY <2>1
    <3>. QED  BY <1>3, <2>1, <3>1, Zenon
  <2>3. \A i \in 1..k : i \in 1..(k - 1) \/ i = k
    BY <2>1
  <2>4. \A i \in 1..(k - 1) : i \in 1..k
    BY <2>1
  <2>5. Holds(t, n)' <=> \E i \in 1..(k - 1) : held[t][i] = n
    BY <2>1, Zenon DEF Holds
  <2>6. Holds(t, n) <=> \E i \in 1..k : held[t][i] = n
    BY Zenon DEF Holds
  <2>. QED  BY <2>1, <2>2, <2>3, <2>4, <2>5, <2>6, Zenon
<1>8. ASSUME NEW u \in Tasks \ {t}, NEW n \in Mutexes
      PROVE  Holds(u, n)' <=> Holds(u, n)
  BY <1>2, Zenon DEF Holds
<1>. QED  BY <1>5, <1>6, <1>7, <1>8, Zenon

(***************************************************************************)
(* The release marks the mutex available and its ceiling unused.           *)
(***************************************************************************)
LEMMA ReleaseAvailableInv ==
  ASSUME MutexInv, Nested, NEW t \in Tasks, NEW m \in Mutexes, ReleaseAvailable(t, m)
  PROVE  MutexInv'
<1>. USE DEF MutexInv
<1>. DEFINE p == OSOriginalPriority[m]
            c == OSMaxPriority[m]
<1>1. /\ ReleaseBegin(t, m) /\ OSEventWait[m] = 0
      /\ OSEventOwner' = [OSEventOwner EXCEPT ![m] = NOBODY]
      /\ OSEventState' = [OSEventState EXCEPT ![m] = TRUE]
      /\ OSReadyList' = (OSReadyList \ {Priority[t]}) \cup {p}
      /\ PriorityVector' = IF c > 0 THEN [PriorityVector EXCEPT ![c] = MUTEX_PRIO]
                           ELSE PriorityVector
      /\ lateRelease' = TRUE
      /\ UNCHANGED <<tickVars, waitVars, currentTask, OSBlockedList, pc>>
      /\ UNCHANGED <<pendSV, DelayList, TimeToWait>>
      /\ UNCHANGED <<OSEventAllocated, OSMaxPriority, OSOriginalPriority,
                     OSEventWait, OSEventWaitList, pont_event, timed>>
  BY Zenon DEF ReleaseAvailable, Restored, waitVars
<1>2. /\ Running(t) /\ OSEventAllocated[m] /\ OSEventOwner[m] = t /\ Holds(t, m)
      /\ Priority' = [Priority EXCEPT ![t] = p]
      /\ p \in Priorities /\ PriorityVector[p] = t
      /\ \A h \in Handles \ {t} : Priority[h] # p
      /\ c > 0 => /\ c # p
                  /\ \A i \in 1..Len(held[t]) : OSOriginalPriority[held[t][i]] # c
  <2>1. Releasing(t, m)
    BY <1>1, ReleaseFacts, Zenon
  <2>. QED  BY <2>1, Zenon DEF Releasing
<1>3. ASSUME c > 0, NEW u \in Tasks \ {t}
      PROVE  /\ Priority[u] # c
             /\ \A i \in 1..Len(held[u]) : OSOriginalPriority[held[u][i]] # c
  <2>1. ASSUME NEW k \in 0..Len(held[u])
        PROVE  c \notin Levels(u, k)
    <3>1. \A j \in 1..k : held[u][j] # m
      <4>1. \A j \in 1..k : j \in 1..Len(held[u])
        BY HolderFacts
      <4>2. \A j \in 1..Len(held[u]) : OSEventOwner[held[u][j]] = u
        BY HolderFacts, Zenon
      <4>3. OSEventOwner[m] # u
        BY <1>2, Zenon
      <4>. QED  BY <4>1, <4>2, <4>3, Zenon
    <3>. QED  BY <1>2, <1>3, <3>1, CeilingIsReserved, Zenon
  <2>2. Len(held[u]) \in 0..Len(held[u])
    BY HolderFacts
  <2>3. Priority[u] # c
    <3>1. Priority[u] \in Levels(u, Len(held[u]))
      BY Zenon DEF HeldInv, HeldOf, IsHighest
    <3>. QED  BY <2>1, <2>2, <3>1, Zenon
  <2>4. ASSUME NEW i \in 1..Len(held[u])
        PROVE  OSOriginalPriority[held[u][i]] # c
    <3>1. i - 1 \in 0..Len(held[u])
      BY HolderFacts
    <3>2. OSOriginalPriority[held[u][i]] \in Levels(u, i - 1)
      BY Zenon DEF HeldInv, HeldOf, IsHighest
    <3>. QED  BY <2>1, <3>1, <3>2, Zenon
  <2>. QED  BY <2>3, <2>4, Zenon
<1>4. /\ c \in Priorities /\ c \in Int
      /\ \A r \in Priorities : ~(c > 0) \/ r # c => PriorityVector'[r] = PriorityVector[r]
      /\ c > 0 => PriorityVector'[c] = MUTEX_PRIO /\ MUTEX_PRIO # EMPTY_PRIO
      /\ PriorityVector' \in [Priorities -> Handles \cup {EMPTY_PRIO, MUTEX_PRIO}]
  <2>1. c \in Priorities /\ c \in Int /\ MUTEX_PRIO # EMPTY_PRIO
    BY HandleFacts DEF TypeOK, MUTEX_PRIO, EMPTY_PRIO
  <2>2. PriorityVector \in [Priorities -> Handles \cup {EMPTY_PRIO, MUTEX_PRIO}]
    BY Zenon DEF TypeOK, KernelTypeOK
  <2>. HIDE DEF c
  <2>. QED  BY <1>1, <2>1, <2>2, Zenon
<1>5. /\ \A u \in Tasks : \A i \in 1..Len(held[u]) :
           PriorityVector'[OSOriginalPriority[held[u][i]]] = u
      /\ \A h \in Handles \ {t} : PriorityVector'[Priority[h]] = h
      /\ \A u \in Tasks : PriorityVector'[TaskPriority[u]] = u
      /\ PriorityVector'[p] = t
  <2>1. ASSUME NEW u \in Tasks, NEW i \in 1..Len(held[u])
        PROVE  PriorityVector'[OSOriginalPriority[held[u][i]]] = u
    <3>1. /\ OSOriginalPriority[held[u][i]] \in Priorities
          /\ PriorityVector[OSOriginalPriority[held[u][i]]] = u
      BY HolderFacts, Zenon DEF HeldInv, HeldOf, TypeOK
    <3>2. c > 0 => OSOriginalPriority[held[u][i]] # c
      BY <1>2, <1>3, Zenon
    <3>. QED  BY <1>4, <3>1, <3>2, Zenon
  <2>2. ASSUME NEW h \in Handles \ {t}
        PROVE  PriorityVector'[Priority[h]] = h
    <3>1. Priority[h] \in Priorities /\ PriorityVector[Priority[h]] = h
      BY Zenon DEF CoreInv, CurrentTablesAgree, KernelTypeOK
    <3>2. c > 0 => Priority[h] # c
      BY <1>3, PriorityOfFacts DEF CoreInv, CurrentTablesAgree
    <3>. QED  BY <1>4, <3>1, <3>2, Zenon
  <2>3. ASSUME NEW u \in Tasks
        PROVE  PriorityVector'[TaskPriority[u]] = u
    <3>1. TaskPriority[u] \in Priorities /\ PriorityVector[TaskPriority[u]] = u
      BY HandleFacts, Zenon DEF CoreInv, CurrentTablesAgree
    <3>2. c > 0 => TaskPriority[u] # c
      BY <1>2, Zenon DEF CeilingsInv
    <3>. QED  BY <1>4, <3>1, <3>2, Zenon
  <2>. QED  BY <1>2, <1>4, <2>1, <2>2, <2>3, Zenon
<1>6. /\ held' \in [Tasks -> Seq(Mutexes)] /\ HeldInv'
      /\ \A u \in Tasks, n \in Mutexes :
           Holds(u, n)' <=> Holds(u, n) /\ ~(u = t /\ n = m)
  <2>1. UNCHANGED <<OSMaxPriority, OSOriginalPriority>>
    BY <1>1, Zenon
  <2>. QED  BY <1>1, <1>5, <2>1, ReleaseHeld, Zenon
<1>7. /\ t \in Handles /\ Priority[t] \in Priorities /\ Priority[t] # 0
      /\ \A h \in Handles \ {t} : Priority[h] # Priority[t]
      /\ \A u \in Tasks \ {t} :
           /\ u \in Handles \ {t} /\ Priority'[u] = Priority[u]
           /\ Priority[u] \in OSReadyList' <=> Priority[u] \in OSReadyList
  BY <1>1, <1>2, PrioritiesDiffer, Zenon DEF TypeOK, KernelTypeOK
<1>8. CoreInv'
  <2>1. /\ OSReadyList' \subseteq Priorities /\ p \in OSReadyList' /\ 0 \in OSReadyList'
        /\ pendSV' \in BOOLEAN
    BY <1>1, <1>2, <1>7, Zenon DEF CoreInv, KernelTypeOK, CurrentTablesAgree
  <2>2. \A r \in OSReadyList' \ {p} : \E h \in Handles \ {t} : r = Priority[h]
    BY <1>1, Zenon DEF CoreInv, ReadyPrioritiesHaveTasks
  <2>3. /\ Running(t) /\ p \in Priorities /\ Priority' = [Priority EXCEPT ![t] = p]
        /\ UNCHANGED <<tickVars, waitVars, currentTask, OSBlockedList, pc>>
    BY <1>1, <1>2, Zenon
  <2>. HIDE DEF p
  <2>. QED  BY <1>4, <1>5, <1>7, <2>1, <2>2, <2>3, ReleaseCoreInv, Zenon
<1>9. TypeOK'
  BY <1>1, <1>6, <1>8, Zenon DEF TypeOK, CoreInv
<1>10. CeilingsInv' /\ MutualExclusion'
  <2>1. CeilingsInv'
    <3>1. \A n \in Mutexes : PriorityVector[OSMaxPriority[n]] # EMPTY_PRIO
                               => PriorityVector'[OSMaxPriority[n]] # EMPTY_PRIO
      BY <1>4, Zenon DEF TypeOK
    <3>. QED  BY <1>1, <3>1, Zenon DEF CeilingsInv
  <2>2. \A n \in Mutexes \ {m} : OSEventOwner'[n] = OSEventOwner[n]
    BY <1>1, Zenon DEF TypeOK
  <2>3. ASSUME NEW u \in Tasks, NEW n \in Mutexes, Holds(u, n)'
        PROVE  OSEventOwner'[n] = u
    <3>1. Holds(u, n) /\ ~(u = t /\ n = m)
      BY <1>6, <2>3, Zenon
    <3>2. OSEventOwner[n] = u
      BY <3>1, Zenon DEF MutualExclusion
    <3>3. n # m
      BY <1>2, <3>1, <3>2, Zenon
    <3>. QED  BY <2>2, <3>2, <3>3, Zenon
  <2>. QED  BY <2>1, <2>3, Zenon DEF MutualExclusion
<1>11. TableInv'
  <2>1. ASSUME NEW n \in Mutexes, NEW r \in OSEventWaitList[n]
        PROVE  \E u \in Tasks : r = Priority'[u] /\ pc'[u] = "mutex" /\ pont_event'[u] = n
    <3>1. PICK u \in Tasks : r = Priority[u] /\ pc[u] = "mutex" /\ pont_event[u] = n
      BY Zenon DEF TableInv
    <3>2. u # t
      BY <1>2, <3>1, Zenon DEF Running
    <3>. QED  BY <1>1, <1>7, <3>1, <3>2, Zenon
  <2>2. \A n \in Mutexes :
          /\ OSEventState'[n] <=> OSEventAllocated[n] /\ OSEventOwner'[n] = NOBODY
          /\ OSEventOwner'[n] # NOBODY => OSEventAllocated[n]
    <3>1. OSEventOwner'[m] = NOBODY /\ OSEventState'[m] = TRUE /\ OSEventAllocated[m]
      BY <1>1, <1>2, Zenon DEF TypeOK
    <3>2. ASSUME NEW n \in Mutexes, n # m
          PROVE  OSEventOwner'[n] = OSEventOwner[n] /\ OSEventState'[n] = OSEventState[n]
      BY <1>1, <3>2, Zenon DEF TypeOK
    <3>3. ASSUME NEW n \in Mutexes, n # m
          PROVE  /\ OSEventState'[n] <=> OSEventAllocated[n] /\ OSEventOwner'[n] = NOBODY
                 /\ OSEventOwner'[n] # NOBODY => OSEventAllocated[n]
      <4>1. /\ OSEventState[n] <=> OSEventAllocated[n] /\ OSEventOwner[n] = NOBODY
            /\ OSEventOwner[n] # NOBODY => OSEventAllocated[n]
        BY Zenon DEF TableInv
      <4>. QED  BY <3>2, <3>3, <4>1, Zenon
    <3>. QED  BY <3>1, <3>3, Zenon
  <2>. QED  BY <1>1, <2>1, <2>2, Zenon DEF TableInv
<1>12. WaitersInv'
  <2>1. ASSUME NEW u \in Tasks, pc'[u] = "mutex"
        PROVE  MutexWaiter(u)'
    <3>1. u # t /\ u \in Tasks \ {t} /\ pc[u] = "mutex" /\ pont_event[u] \in Mutexes
      BY <1>1, <1>2, <2>1, Zenon DEF WaitersInv, MutexWaiter, Running
    <3>2. pont_event[u] = m => Priority[u] \in OSEventWaitList[m]
      BY <1>2, <3>1, Zenon DEF WaitersInv, MutexWaiter
    <3>3. Priority[u] \notin OSEventWaitList[pont_event[u]] => OSEventOwner'[pont_event[u]] = u
      BY <1>1, <3>1, <3>2, Zenon DEF WaitersInv, MutexWaiter, TypeOK
    <3>4. ~Holds(u, pont_event[u])'
      <4>1. ~Holds(u, pont_event[u])
        BY <3>1, Zenon DEF WaitersInv, MutexWaiter
      <4>2. pont_event'[u] = pont_event[u]
        BY <1>1, Zenon
      <4>. QED  BY <1>6, <3>1, <4>1, <4>2, ZenonT(60) DEF Holds
    <3>. QED  BY <1>1, <1>7, <3>1, <3>3, <3>4, Zenon DEF WaitersInv, MutexWaiter
  <2>. QED  BY <2>1, Zenon DEF WaitersInv
<1>13. OwnerIsTold'
  <2>1. ASSUME NEW n \in Mutexes, NEW u \in Tasks, OSEventOwner'[n] = u
        PROVE  \/ Holds(u, n)'
               \/ /\ pc'[u] = "mutex" /\ pont_event'[u] = n
                  /\ Priority'[u] \in OSReadyList' \ OSEventWaitList'[n]
    <3>1. n # m /\ OSEventOwner[n] = u /\ u # NOBODY
      BY <1>1, <2>1, HandleFacts, Zenon DEF TypeOK
    <3>2. CASE Holds(u, n)
      BY <1>6, <3>1, <3>2, Zenon
    <3>3. CASE ~Holds(u, n)
      <4>1. /\ pc[u] = "mutex" /\ pont_event[u] = n
            /\ Priority[u] \in OSReadyList \ OSEventWaitList[n]
        BY <3>1, <3>3, Zenon DEF OwnerIsTold
      <4>2. u # t
        BY <1>2, <4>1, Zenon DEF Running
      <4>. QED  BY <1>1, <1>7, <4>1, <4>2, Zenon
    <3>. QED  BY <3>2, <3>3, Zenon
  <2>2. \A n \in Mutexes : OSEventOwner'[n] # NOBODY => OSEventOwner'[n] \in Tasks
    BY <1>9, Zenon DEF TypeOK
  <2>. QED  BY <2>1, <2>2, Zenon DEF OwnerIsTold, Holds
<1>. QED  BY <1>6, <1>8, <1>9, <1>10, <1>11, <1>12, <1>13, Zenon

(***************************************************************************)
(* The release hands the mutex to the highest priority that waits for it.  *)
(***************************************************************************)
LEMMA NextOwner ==
  ASSUME MutexInv, NEW m \in Mutexes, OSEventWait[m] # 0
  PROVE  \E s \in Tasks :
           /\ SAScheduler(OSEventWaitList[m]) = Priority[s]
           /\ Priority[s] \in OSEventWaitList[m] /\ Priority[s] \in Priorities
           /\ PriorityVector[Priority[s]] = s
           /\ pc[s] = "mutex" /\ pont_event[s] = m
<1>. USE DEF MutexInv
<1>1. OSEventWaitList[m] \in SUBSET Priorities /\ Counts(OSEventWait[m], OSEventWaitList[m])
  BY Zenon DEF TableInv, TypeOK
<1>2. OSEventWaitList[m] # {}
  BY <1>1, CountZero, Zenon
<1>3. SAScheduler(OSEventWaitList[m]) \in OSEventWaitList[m]
  BY <1>1, <1>2, SASchedulerHighest, Zenon DEF IsHighest
<1>4. PICK s \in Tasks :
        /\ SAScheduler(OSEventWaitList[m]) = Priority[s]
        /\ pc[s] = "mutex" /\ pont_event[s] = m
  BY <1>3, Zenon DEF TableInv
<1>5. s \in Handles /\ Priority[s] \in Priorities /\ PriorityVector[Priority[s]] = s
  BY PrioritiesDiffer, Zenon DEF CoreInv, CurrentTablesAgree
<1>. QED  BY <1>3, <1>4, <1>5, Zenon

\* OSMutexRelease hands the mutex to the highest waiter.
LEMMA ReleaseHandOverInv ==
  ASSUME MutexInv, Nested, NEW t \in Tasks, NEW m \in Mutexes, ReleaseHandOver(t, m)
  PROVE  MutexInv'
<1>. USE DEF MutexInv
<1>. DEFINE p == OSOriginalPriority[m]
<1>0. ReleaseBegin(t, m) /\ OSEventWait[m] # 0
  BY Zenon DEF ReleaseHandOver
<1>1. PICK s \in Tasks :
        /\ SAScheduler(OSEventWaitList[m]) = Priority[s]
        /\ Priority[s] \in OSEventWaitList[m] /\ Priority[s] \in Priorities
        /\ PriorityVector[Priority[s]] = s
        /\ pc[s] = "mutex" /\ pont_event[s] = m
  BY <1>0, NextOwner, Zenon
<1>2. /\ OSEventWaitList' = [OSEventWaitList EXCEPT ![m] = @ \ {Priority[s]}]
      /\ OSEventOwner' = [OSEventOwner EXCEPT ![m] = s]
      /\ OSReadyList' = ((OSReadyList \ {Priority[t]}) \cup {p}) \cup {Priority[s]}
      /\ OSEventWait' = [OSEventWait EXCEPT ![m] = @ - 1]
      /\ pendSV' = TRUE
      /\ UNCHANGED <<tickVars, waitVars, currentTask, OSBlockedList, pc>>
      /\ UNCHANGED <<PriorityVector, DelayList, TimeToWait>>
      /\ UNCHANGED <<OSEventAllocated, OSEventState, OSMaxPriority,
                     OSOriginalPriority, pont_event, timed, lateRelease>>
  BY <1>1, Zenon DEF ReleaseHandOver, Restored, ChangeContext, waitVars
<1>3. /\ Running(t) /\ OSEventAllocated[m] /\ OSEventOwner[m] = t /\ Holds(t, m)
      /\ Priority' = [Priority EXCEPT ![t] = p]
      /\ p \in Priorities /\ PriorityVector[p] = t
      /\ \A h \in Handles \ {t} : Priority[h] # p
  <2>1. Releasing(t, m)
    BY <1>0, ReleaseFacts, Zenon
  <2>. QED  BY <2>1, Zenon DEF Releasing
<1>4. pc[t] = "app" /\ s # t /\ s \in Tasks \ {t}
  BY <1>1, <1>3, Zenon DEF Running
<1>5. /\ held' \in [Tasks -> Seq(Mutexes)] /\ HeldInv'
      /\ \A u \in Tasks, n \in Mutexes :
           Holds(u, n)' <=> Holds(u, n) /\ ~(u = t /\ n = m)
  <2>1. \A u \in Tasks : \A i \in 1..Len(held[u]) :
          PriorityVector'[OSOriginalPriority[held[u][i]]] = u
    BY <1>2, Zenon DEF HeldInv, HeldOf
  <2>2. UNCHANGED <<OSMaxPriority, OSOriginalPriority>>
    BY <1>2, Zenon
  <2>. QED  BY <1>0, <2>1, <2>2, ReleaseHeld, Zenon
<1>6. /\ t \in Handles /\ Priority[t] \in Priorities /\ Priority[t] # 0
      /\ \A h \in Handles \ {t} : Priority[h] # Priority[t]
      /\ Priority'[s] = Priority[s] /\ s \in Handles \ {t}
      /\ \A u \in Tasks \ {t} : u \in Handles \ {t} /\ Priority'[u] = Priority[u]
      /\ \A u \in Tasks \ {t, s} :
           /\ Priority[u] # Priority[s]
           /\ Priority[u] \in OSReadyList' <=> Priority[u] \in OSReadyList
  BY <1>2, <1>3, <1>4, PrioritiesDiffer, Zenon DEF TypeOK, KernelTypeOK
<1>7. CoreInv'
  <2>1. /\ OSReadyList' \subseteq Priorities /\ p \in OSReadyList' /\ 0 \in OSReadyList'
        /\ pendSV' \in BOOLEAN
    <3>1. OSReadyList \subseteq Priorities /\ 0 \in OSReadyList
      BY Zenon DEF CoreInv, KernelTypeOK, CurrentTablesAgree
    <3>. QED  BY <1>1, <1>2, <1>3, <1>6, <3>1, Zenon
  <2>2. \A r \in OSReadyList' \ {p} : \E h \in Handles \ {t} : r = Priority[h]
    BY <1>2, <1>6, Zenon DEF CoreInv, ReadyPrioritiesHaveTasks
  <2>3. /\ Running(t) /\ p \in Priorities /\ Priority' = [Priority EXCEPT ![t] = p]
        /\ UNCHANGED <<tickVars, waitVars, currentTask, OSBlockedList, pc>>
    BY <1>2, <1>3, Zenon
  <2>4. /\ PriorityVector' \in [Priorities -> Handles \cup {EMPTY_PRIO, MUTEX_PRIO}]
        /\ PriorityVector'[p] = t
        /\ \A h \in Handles \ {t} : PriorityVector'[Priority[h]] = h
        /\ \A u \in Tasks : PriorityVector'[TaskPriority[u]] = u
    BY <1>2, <1>3, Zenon DEF CoreInv, KernelTypeOK, CurrentTablesAgree
  <2>5. \A u \in Tasks \ {t} :
          pc[u] # "mutex" => (Priority[u] \in OSReadyList' <=> Priority[u] \in OSReadyList)
    BY <1>1, <1>6, Zenon
  <2>. HIDE DEF p
  <2>. QED  BY <2>1, <2>2, <2>3, <2>4, <2>5, ReleaseCoreInv, Zenon
<1>8. \A n \in Mutexes : OSEventWait'[n] \in Nat /\ Counts(OSEventWait'[n], OSEventWaitList'[n])
  <2>1. Counts(OSEventWait[m], OSEventWaitList[m])
    BY Zenon DEF TableInv
  <2>2. OSEventWait[m] > 0 /\ Counts(OSEventWait[m] - 1, OSEventWaitList[m] \ {Priority[s]})
    BY <1>1, <2>1, CountRemove, Zenon
  <2>3. OSEventWait'[m] = OSEventWait[m] - 1 /\ OSEventWaitList'[m] = OSEventWaitList[m] \ {Priority[s]}
    BY <1>2, Zenon DEF TypeOK
  <2>4. ASSUME NEW n \in Mutexes, n # m
        PROVE  OSEventWait'[n] = OSEventWait[n] /\ OSEventWaitList'[n] = OSEventWaitList[n]
    BY <1>2, <2>4, Zenon DEF TypeOK
  <2>5. \A n \in Mutexes : OSEventWait[n] \in Nat
    BY Zenon DEF TypeOK
  <2>6. OSEventWait[m] - 1 \in Nat
    BY <2>2, <2>5
  <2>7. ASSUME NEW n \in Mutexes
        PROVE  OSEventWait'[n] \in Nat /\ Counts(OSEventWait'[n], OSEventWaitList'[n])
    <3>1. CASE n = m
      BY <2>2, <2>3, <2>6, <3>1, Zenon
    <3>2. CASE n # m
      <4>1. OSEventWait[n] \in Nat /\ Counts(OSEventWait[n], OSEventWaitList[n])
        BY <2>5, Zenon DEF TableInv
      <4>. QED  BY <2>4, <3>2, <4>1, Zenon
    <3>. QED  BY <3>1, <3>2, Zenon
  <2>. QED  BY <2>7, Zenon
<1>9. TypeOK'
  BY <1>2, <1>5, <1>7, <1>8, Zenon DEF TypeOK, CoreInv
<1>10. CeilingsInv' /\ MutualExclusion'
  <2>1. \A n \in Mutexes \ {m} : OSEventOwner'[n] = OSEventOwner[n]
    BY <1>2, Zenon DEF TypeOK
  <2>2. CeilingsInv'
    BY <1>2, Zenon DEF CeilingsInv
  <2>3. ASSUME NEW u \in Tasks, NEW n \in Mutexes, Holds(u, n)'
        PROVE  OSEventOwner'[n] = u
    <3>1. Holds(u, n) /\ ~(u = t /\ n = m)
      BY <1>5, <2>3, Zenon
    <3>2. OSEventOwner[n] = u
      BY <3>1, Zenon DEF MutualExclusion
    <3>3. n # m
      BY <1>3, <3>1, <3>2, Zenon
    <3>. QED  BY <2>1, <3>2, <3>3, Zenon
  <2>. QED  BY <2>2, <2>3, Zenon DEF MutualExclusion
<1>11. TableInv'
  <2>1. ASSUME NEW n \in Mutexes, NEW r \in OSEventWaitList'[n]
        PROVE  \E u \in Tasks : r = Priority'[u] /\ pc'[u] = "mutex" /\ pont_event'[u] = n
    <3>1. r \in OSEventWaitList[n]
      BY <1>2, Zenon DEF TypeOK
    <3>2. PICK u \in Tasks : r = Priority[u] /\ pc[u] = "mutex" /\ pont_event[u] = n
      BY <3>1, Zenon DEF TableInv
    <3>3. u # t
      BY <1>4, <3>2, Zenon
    <3>. QED  BY <1>2, <1>6, <3>2, <3>3, Zenon
  <2>2. \A n \in Mutexes :
          /\ OSEventState'[n] <=> OSEventAllocated[n] /\ OSEventOwner'[n] = NOBODY
          /\ OSEventOwner'[n] # NOBODY => OSEventAllocated[n]
    <3>1. /\ OSEventOwner'[m] = s /\ s # NOBODY /\ OSEventOwner[m] # NOBODY
          /\ OSEventAllocated[m] /\ OSEventState'[m] = OSEventState[m]
      BY <1>2, <1>3, HandleFacts, Zenon DEF TypeOK
    <3>2. ASSUME NEW n \in Mutexes, n # m
          PROVE  OSEventOwner'[n] = OSEventOwner[n] /\ OSEventState'[n] = OSEventState[n]
      BY <1>2, <3>2, Zenon DEF TypeOK
    <3>3. ASSUME NEW n \in Mutexes
          PROVE  /\ OSEventState[n] <=> OSEventAllocated[n] /\ OSEventOwner[n] = NOBODY
                 /\ OSEventOwner[n] # NOBODY => OSEventAllocated[n]
      BY Zenon DEF TableInv
    <3>4. ~OSEventState'[m]
      BY <3>1, <3>3, Zenon
    <3>5. ASSUME NEW n \in Mutexes, n # m
          PROVE  /\ OSEventState'[n] <=> OSEventAllocated[n] /\ OSEventOwner'[n] = NOBODY
                 /\ OSEventOwner'[n] # NOBODY => OSEventAllocated[n]
      BY <3>2, <3>3, <3>5, Zenon
    <3>. QED  BY <3>1, <3>4, <3>5, Zenon
  <2>. QED  BY <1>2, <1>8, <2>1, <2>2, Zenon DEF TableInv
<1>12. WaitersInv'
  <2>1. ASSUME NEW u \in Tasks, pc'[u] = "mutex"
        PROVE  MutexWaiter(u)'
    <3>1. /\ u # t /\ u \in Tasks \ {t} /\ pc[u] = "mutex" /\ MutexWaiter(u)
          /\ pont_event[u] \in Mutexes
      BY <1>2, <1>4, <2>1, Zenon DEF WaitersInv, MutexWaiter
    <3>2. ~Holds(u, pont_event[u])'
      <4>1. ~Holds(u, pont_event[u]) /\ pont_event'[u] = pont_event[u]
        BY <1>2, <3>1, Zenon DEF MutexWaiter
      <4>. QED  BY <1>5, <3>1, <4>1, ZenonT(60) DEF Holds
    <3>3. CASE u = s
      <4>1. /\ Priority[s] \notin OSEventWaitList'[m] /\ OSEventOwner'[m] = s
            /\ Priority[s] \in OSReadyList'
        BY <1>2, Zenon DEF TypeOK
      <4>. QED  BY <1>1, <1>2, <1>6, <3>1, <3>2, <3>3, <4>1, Zenon DEF MutexWaiter
    <3>4. CASE u # s
      <4>1. /\ Priority'[u] = Priority[u] /\ Priority[u] # Priority[s]
            /\ Priority[u] \in OSReadyList' <=> Priority[u] \in OSReadyList
        BY <1>6, <3>1, <3>4, Zenon
      <4>2. Priority[u] \in OSEventWaitList'[pont_event[u]]
              <=> Priority[u] \in OSEventWaitList[pont_event[u]]
        BY <1>2, <3>1, <4>1, Zenon DEF TypeOK
      <4>3. Priority[u] \notin OSEventWaitList[pont_event[u]]
              => OSEventOwner'[pont_event[u]] = u
        BY <1>2, <1>3, <3>1, Zenon DEF MutexWaiter, TypeOK
      <4>. QED  BY <1>2, <3>1, <3>2, <4>1, <4>2, <4>3, Zenon DEF MutexWaiter
    <3>. QED  BY <3>3, <3>4, Zenon
  <2>. QED  BY <2>1, Zenon DEF WaitersInv
<1>13. OwnerIsTold'
  <2>1. ASSUME NEW n \in Mutexes, NEW u \in Tasks, OSEventOwner'[n] = u
        PROVE  \/ Holds(u, n)'
               \/ /\ pc'[u] = "mutex" /\ pont_event'[u] = n
                  /\ Priority'[u] \in OSReadyList' \ OSEventWaitList'[n]
    <3>1. CASE n = m
      <4>1. u = s /\ Priority[s] \in OSReadyList' \ OSEventWaitList'[m]
        BY <1>2, <2>1, <3>1, Zenon DEF TypeOK
      <4>. QED  BY <1>1, <1>2, <1>6, <3>1, <4>1, Zenon
    <3>2. CASE n # m /\ Holds(u, n)
      BY <1>5, <3>2, Zenon
    <3>3. CASE n # m /\ ~Holds(u, n)
      <4>1. OSEventOwner[n] = u /\ u # NOBODY
        BY <1>2, <2>1, <3>3, HandleFacts, Zenon DEF TypeOK
      <4>2. /\ pc[u] = "mutex" /\ pont_event[u] = n
            /\ Priority[u] \in OSReadyList \ OSEventWaitList[n]
        BY <3>3, <4>1, Zenon DEF OwnerIsTold
      <4>3. u \in Tasks \ {t, s} /\ OSEventWaitList'[n] = OSEventWaitList[n]
        BY <1>1, <1>2, <1>4, <3>3, <4>2, Zenon DEF TypeOK
      <4>. QED  BY <1>2, <1>6, <4>2, <4>3, Zenon
    <3>. QED  BY <3>1, <3>2, <3>3, Zenon
  <2>2. \A n \in Mutexes : OSEventOwner'[n] # NOBODY => OSEventOwner'[n] \in Tasks
    BY <1>9, Zenon DEF TypeOK
  <2>. QED  BY <2>1, <2>2, Zenon DEF OwnerIsTold, Holds
<1>. QED  BY <1>5, <1>7, <1>9, <1>10, <1>11, <1>12, <1>13, Zenon
-----------------------------------------------------------------------------

\* Every step preserves the invariant.
LEMMA MutexStepInv ==
  ASSUME Disciplined, MutexInv, NEW t \in Tasks, MutexStep(t)
  PROVE  MutexInv'
<1>1. CASE \E c \in Ceilings :
             MutexCreateFull(t, c) \/ \E m \in Mutexes : OSMutexCreate(t, m, c)
  BY <1>1, MutexAssumption, CreateInv, Zenon
<1>2. CASE \E m \in Mutexes : OSMutexDelete(t, m) \/ AcquireAvailable(t, m)
  BY <1>2, DeleteInv, AcquireAvailableInv, Zenon
<1>3. CASE \E m \in Mutexes : \E w \in AcquireTimes : AcquireWait(t, m, w)
  <2>. PICK m \in Mutexes, w \in AcquireTimes : AcquireWait(t, m, w)
    BY <1>3, Zenon
  <2>1. w \in 0..TICK_COUNT_OVERFLOW
    BY Zenon DEF Disciplined, AcquireWait
  <2>. QED  BY <2>1, AcquireWaitInv, Zenon
<1>4. CASE \E m \in Mutexes : OSMutexRelease(t, m)
  BY <1>4, ReleaseHandOverInv, ReleaseAvailableInv, Zenon DEF OSMutexRelease, Disciplined
<1>5. CASE AcquireTimeout(t) \/ AcquireOK(t)
  BY <1>5, AcquireTimeoutInv, AcquireOKInv, Zenon
<1>. QED  BY <1>1, <1>2, <1>3, <1>4, <1>5, Zenon DEF MutexStep

(***************************************************************************)
(* MutexInv holds in every reachable state.                                *)
(***************************************************************************)
THEOREM MutexInvariant ==
  ASSUME Disciplined
  PROVE  Spec => []MutexInv
<1>1. Init => MutexInv
  BY MutexInitInv, Zenon
<1>2. ASSUME MutexInv, [Next]_vars
      PROVE  MutexInv'
  <2>1. CASE [CoreStep]_vars
    BY <1>2, <2>1, MutexCoreStepInv, Zenon
  <2>2. CASE \E t \in Tasks : MutexStep(t)
    BY <1>2, <2>2, MutexStepInv, Zenon
  <2>. QED  BY <1>2, <2>1, <2>2, Zenon DEF Next
<1>. QED  BY <1>1, <1>2, PTL DEF Spec

(***************************************************************************)
(* OSMutexAcquire excludes: two tasks never hold the same mutex.           *)
(***************************************************************************)
THEOREM MutexMutualExclusion ==
  ASSUME Disciplined
  PROVE  Spec => []MutualExclusion
<1>1. MutexInv => MutualExclusion
  BY Zenon DEF MutexInv
<1>2. Spec => []MutexInv
  BY MutexInvariant, Zenon
<1>. QED  BY <1>1, <1>2, PTL

(***************************************************************************)
(* OSMutexRelease never hands a mutex to a task that is not told: the new  *)
(* owner is about to return OK, timeouts included.                         *)
(***************************************************************************)
THEOREM MutexOwnerIsTold ==
  ASSUME Disciplined
  PROVE  Spec => []OwnerIsTold
<1>1. MutexInv => OwnerIsTold
  BY Zenon DEF MutexInv
<1>2. Spec => []MutexInv
  BY MutexInvariant, Zenon
<1>. QED  BY <1>1, <1>2, PTL

(***************************************************************************)
(* OSSchedule always finds a task behind the priority it selects.          *)
(***************************************************************************)
THEOREM MutexReadyPrioritiesHaveTasks ==
  ASSUME Disciplined
  PROVE  Spec => []ReadyPrioritiesHaveTasks
<1>1. MutexInv => ReadyPrioritiesHaveTasks
  BY Zenon DEF MutexInv, CoreInv
<1>2. Spec => []MutexInv
  BY MutexInvariant, Zenon
<1>. QED  BY <1>1, <1>2, PTL

(***************************************************************************)
(* A task runs at the highest of its own priority and of the ceilings of   *)
(* the mutexes it holds.                                                   *)
(***************************************************************************)
LEMMA CeilingFromLevels ==
  ASSUME MutexInv, NEW t \in Tasks
  PROVE  LET ceilings == {OSMaxPriority[m] : m \in {n \in Mutexes : Holds(t, n)}}
         IN  /\ Priority[t] \in ceilings \cup {TaskPriority[t]}
             /\ \A p \in ceilings \cup {TaskPriority[t]} : p <= Priority[t]
<1>. DEFINE ceilings == {OSMaxPriority[m] : m \in {n \in Mutexes : Holds(t, n)}}
<1>. PICK k \in Nat : k = Len(held[t])
  BY HolderFacts, Zenon
<1>1. IsHighest(Priority[t], Levels(t, k))
  BY Zenon DEF MutexInv, HeldInv, HeldOf
<1>2. \A j \in 1..k : held[t][j] \in Mutexes /\ Holds(t, held[t][j])
  BY HolderFacts, Zenon
<1>3. \A p : p \in ceilings <=> \E j \in 1..k : p = OSMaxPriority[held[t][j]]
  <2>1. ASSUME NEW p \in ceilings
        PROVE  \E j \in 1..k : p = OSMaxPriority[held[t][j]]
    <3>1. PICK m \in Mutexes : Holds(t, m) /\ p = OSMaxPriority[m]
      BY Zenon
    <3>. QED  BY <3>1, Zenon DEF Holds
  <2>2. ASSUME NEW j \in 1..k
        PROVE  OSMaxPriority[held[t][j]] \in ceilings
    BY <1>2, Zenon
  <2>. QED  BY <2>1, <2>2, Zenon
<1>4. \A p : p \in Levels(t, k) <=> p = TaskPriority[t] \/ p \in ceilings
  BY <1>3, Zenon DEF Levels
<1>. HIDE DEF ceilings
<1>5. \A p \in Levels(t, k) : p <= Priority[t]
  BY <1>1, Zenon DEF IsHighest
<1>6. Priority[t] \in Levels(t, k)
  BY <1>1, Zenon DEF IsHighest
<1>7. /\ Priority[t] \in ceilings \cup {TaskPriority[t]}
      /\ \A p \in ceilings \cup {TaskPriority[t]} : p <= Priority[t]
  BY <1>4, <1>5, <1>6, Zenon
<1>. QED  BY <1>7, Zenon DEF ceilings

\* The ceiling protocol (OSMutexAcquire, OSMutexRelease): a task runs at the
\* highest of its own priority and the ceilings of the mutexes it holds.
THEOREM MutexCeilingInForce ==
  ASSUME Disciplined
  PROVE  Spec => []CeilingInForce
<1>1. MutexInv => CeilingInForce
  BY CeilingFromLevels, Zenon DEF CeilingInForce
<1>2. Spec => []MutexInv
  BY MutexInvariant, Zenon
<1>. QED  BY <1>1, <1>2, PTL
-----------------------------------------------------------------------------
(***************************************************************************)
(* Which task runs.  A ceiling is not blocked unless a task runs at it: a  *)
(* blocked priority is some task's, and a task executes above its own      *)
(* priority only while that is not blocked.  Without this, a task that     *)
(* takes a mutex could be moved to a priority the scheduler passes over.   *)
(***************************************************************************)
BlockedAreTasks ==
  \A p \in Priorities \ OSBlockedList :
    \E h \in Handles : p = Priority[h] \/ p = PriorityOf(h)

RaisedIsUnblocked ==
  ~pendSV /\ currentTask \in Tasks =>
    \/ Priority[currentTask] \in OSBlockedList
    \/ Priority[currentTask] = TaskPriority[currentTask]

RunsInv ==
  MutexInv /\ BlockedAreTasks /\ RaisedIsUnblocked /\ RunsHighestUnlessReleased

\* OSSchedule chooses the task of the highest ready unblocked priority.
LEMMA MutexChoice ==
  ASSUME CoreInv, NEW t \in Tasks, t = OSSchedule
  PROVE  IsHighest(Priority[t], OSReadyList \cap OSBlockedList)
<1>. DEFINE L == OSReadyList \cap OSBlockedList
<1>1. L \in SUBSET Priorities
  BY Zenon DEF CoreInv, KernelTypeOK
<1>2. L # {}
  <2>1. ASSUME L = {}
        PROVE  FALSE
    <3>1. OSSchedule = Idle
      BY <2>1, SASchedulerEmpty, PrioritiesDiffer, Zenon DEF OSSchedule
    <3>. QED  BY <3>1, PriorityOfFacts, Zenon
  <2>. QED  BY <2>1, Zenon
<1>3. IsHighest(SAScheduler(L), L)
  BY <1>1, <1>2, SASchedulerHighest, Zenon
<1>4. SAScheduler(L) = Priority[t]
  BY <1>3, Zenon DEF IsHighest, CoreInv, ReadyPrioritiesHaveTasks, OSSchedule
<1>. QED  BY <1>3, <1>4, Zenon

(***************************************************************************)
(* A change of the blocked list keeps the choice when a switch is          *)
(* requested, or when it only blocks priorities other than the current.    *)
(***************************************************************************)
LEMMA RunsBlocked ==
  ASSUME RunsInv, blockUnchanged, OSBlockedList' \in SUBSET Priorities,
         lateRelease' = (lateRelease /\ (pendSV => pendSV')),
         \A p \in OSBlockedList \ OSBlockedList' :
           \E h \in Handles : p = Priority[h] \/ p = PriorityOf(h),
         \/ pendSV'
         \/ /\ OSBlockedList' \subseteq OSBlockedList
            /\ \E t \in Tasks :
                 OnCPU(t) /\ (Priority[t] \in OSBlockedList => Priority[t] \in OSBlockedList')
  PROVE  BlockedAreTasks' /\ RaisedIsUnblocked' /\ RunsHighestUnlessReleased'
<1>. USE DEF RunsInv
<1>1. /\ UNCHANGED <<Priority, PriorityVector, currentTask, OSReadyList, inTick>>
      /\ CoreInv
  BY Zenon DEF blockUnchanged, prioVars, tickVars, MutexInv
<1>2. BlockedAreTasks'
  BY <1>1, Zenon DEF BlockedAreTasks
<1>3. CASE pendSV'
  BY <1>2, <1>3, Zenon DEF RaisedIsUnblocked, RunsHighestUnlessReleased, RunsHighest
<1>4. CASE ~pendSV'
  <2>1. PICK t \in Tasks :
          OnCPU(t) /\ (Priority[t] \in OSBlockedList => Priority[t] \in OSBlockedList')
    BY <1>4, Zenon
  <2>2. /\ OSBlockedList' \subseteq OSBlockedList /\ currentTask = t /\ ~pendSV /\ ~inTick
        /\ lateRelease' = lateRelease
    BY <1>4, <2>1, Zenon DEF OnCPU, MutexInv, TypeOK
  <2>3. RaisedIsUnblocked'
    BY <1>1, <2>1, <2>2, Zenon DEF RaisedIsUnblocked
  <2>4. CASE lateRelease
    BY <1>2, <2>2, <2>3, <2>4, Zenon DEF RunsHighestUnlessReleased
  <2>5. CASE ~lateRelease
    <3>. DEFINE L == OSReadyList \cap OSBlockedList
                M == OSReadyList \cap OSBlockedList'
    <3>1. t = OSSchedule
      BY <2>2, <2>5, Zenon DEF RunsHighestUnlessReleased, RunsHighest
    <3>2. IsHighest(Priority[t], L)
      BY <1>1, <3>1, MutexChoice, Zenon
    <3>3. M \in SUBSET L /\ Priority[t] \in M /\ L \in SUBSET Priorities
      BY <1>1, <2>1, <2>2, <3>2, Zenon DEF IsHighest, CoreInv, KernelTypeOK
    <3>4. SAScheduler(M) = Priority[t]
      BY <3>2, <3>3, SameChoice, Zenon
    <3>5. PriorityVector[Priority[t]] = t
      BY <1>1, PriorityOfFacts, Zenon DEF CoreInv, CurrentTablesAgree
    <3>6. OSSchedule' = t
      BY <1>1, <3>4, <3>5, Zenon DEF OSSchedule
    <3>. QED  BY <1>1, <1>2, <2>2, <2>3, <3>6, Zenon DEF RunsHighestUnlessReleased, RunsHighest
  <2>. QED  BY <2>4, <2>5, Zenon
<1>. QED  BY <1>3, <1>4, Zenon

\* Blocking and unblocking ask for a switch when they change the choice.
LEMMA RunsBlockStep ==
  ASSUME RunsInv, lateRelease' = (lateRelease /\ (pendSV => pendSV')),
         InterruptUnBlock \/ \E t \in Tasks : BlockStep(t)
  PROVE  BlockedAreTasks' /\ RaisedIsUnblocked' /\ RunsHighestUnlessReleased'
<1>. DEFINE Goal == BlockedAreTasks' /\ RaisedIsUnblocked' /\ RunsHighestUnlessReleased'
<1>1. /\ OSBlockedList \subseteq Priorities /\ Blockable \subseteq Handles
      /\ \A h \in Handles : /\ Priority[h] \in Priorities /\ PriorityOf(h) \in Priorities
                            /\ PriorityVector[PriorityOf(h)] = h
                            /\ PriorityVector[Priority[h]] = h
  <2>1. CoreInv
    BY Zenon DEF RunsInv, MutexInv
  <2>2. \A h \in Handles : PriorityVector[PriorityOf(h)] = h
    BY <2>1, PriorityOfFacts, Zenon DEF CoreInv, CurrentTablesAgree, PriorityOf
  <2>. QED  BY <2>1, <2>2, PriorityOfFacts, KernelAssumption, Zenon
            DEF CoreInv, CurrentTablesAgree, KernelTypeOK
<1>2. ASSUME NEW t \in Tasks, NEW h \in Handles,
             OSBlockPriority(t, PriorityOf(h)) \/ OSBlockTask(t, h)
      PROVE  Goal
  <2>1. PICK p \in {Priority[h], PriorityOf(h)} :
          /\ OSBlockedList' = OSBlockedList \ {p}
          /\ pendSV' = (currentTask = h)
    BY <1>1, <1>2, Zenon DEF OSBlockPriority, OSBlockTask
  <2>2. blockUnchanged /\ OnCPU(t) /\ currentTask = t
    BY <1>2, Zenon DEF OSBlockPriority, OSBlockTask, Running, OnCPU
  <2>3. h # t => p # Priority[t]
    BY <1>1, <2>1, PriorityOfFacts
  <2>4. h = t => pendSV'
    BY <2>1, <2>2, Zenon
  <2>5. OSBlockedList' \in SUBSET Priorities
    BY <1>1, <2>1, Zenon
  <2>6. \A q \in OSBlockedList \ OSBlockedList' :
          \E g \in Handles : q = Priority[g] \/ q = PriorityOf(g)
    BY <2>1, Zenon
  <2>. QED  BY <2>1, <2>2, <2>3, <2>4, <2>5, <2>6, RunsBlocked, Zenon
<1>3. ASSUME NEW h \in Handles, OSUnBlockPriority(PriorityOf(h)) \/ OSUnBlockTask(h)
      PROVE  Goal
  <2>1. /\ OSBlockedList' \in SUBSET Priorities /\ pendSV' = TRUE /\ blockUnchanged
        /\ OSBlockedList \subseteq OSBlockedList'
    BY <1>1, <1>3, Zenon DEF OSUnBlockPriority, OSUnBlockTask, ChangeContext
  <2>. QED  BY <2>1, RunsBlocked, Zenon
<1>4. ASSUME NEW t \in Tasks, NEW s \in Handles, NEW n \in 1..(NumTasks + 1),
             s..(s + n - 1) \subseteq Blockable,
             OSBlockMultipleTask(t, s, n) \/ OSUnBlockMultipleTask(t, s, n)
      PROVE  Goal
  <2>. DEFINE others == (s..(s + n - 1)) \ {currentTask}
  <2>1. /\ currentTask = t /\ OnCPU(t) /\ blockUnchanged
        /\ \A h \in others : h \in Handles /\ h # t
    BY <1>1, <1>4, Zenon
    DEF OSBlockMultipleTask, OSUnBlockMultipleTask, Running, OnCPU
  <2>2. \A h \in others : Priority[h] # Priority[t] /\ Priority[h] \in Priorities
    BY <1>1, <2>1, PriorityOfFacts
  <2>3. CASE OSBlockMultipleTask(t, s, n)
    <3>1. OSBlockedList' = OSBlockedList \ {Priority[h] : h \in others}
      BY <2>3, Zenon DEF OSBlockMultipleTask
    <3>. HIDE DEF others
    <3>2. /\ Priority[t] \notin {Priority[h] : h \in others}
          /\ OSBlockedList' \in SUBSET Priorities /\ OSBlockedList' \subseteq OSBlockedList
      BY <1>1, <2>2, <3>1, Zenon
    <3>3. \A q \in OSBlockedList \ OSBlockedList' :
            \E g \in Handles : q = Priority[g] \/ q = PriorityOf(g)
      BY <2>1, <3>1, Zenon
    <3>4. Priority[t] \in OSBlockedList => Priority[t] \in OSBlockedList'
      BY <3>1, <3>2, Zenon
    <3>. QED  BY <2>1, <3>2, <3>3, <3>4, RunsBlocked, Zenon
  <2>4. CASE OSUnBlockMultipleTask(t, s, n)
    <3>1. /\ OSBlockedList' \in SUBSET Priorities /\ pendSV' = TRUE
          /\ OSBlockedList \subseteq OSBlockedList'
      BY <1>1, <2>2, <2>4 DEF OSUnBlockMultipleTask, ChangeContext
    <3>. QED  BY <2>1, <3>1, RunsBlocked, Zenon
  <2>. QED  BY <1>4, <2>3, <2>4, Zenon
<1>5. CASE InterruptUnBlock
  BY <1>1, <1>3, <1>5, Zenon DEF InterruptUnBlock
<1>6. ASSUME NEW t \in Tasks, BlockStep(t)
      PROVE  Goal
  BY <1>1, <1>2, <1>3, <1>4, <1>6, Zenon DEF BlockStep
<1>. QED  BY <1>5, <1>6, Zenon
(***************************************************************************)
(* The steps of the core.                                                  *)
(***************************************************************************)
LEMMA RunsCoreStep ==
  ASSUME RunsInv, CoreStep
  PROVE  BlockedAreTasks' /\ RaisedIsUnblocked' /\ RunsHighestUnlessReleased'
<1>1. lateRelease' = (lateRelease /\ (pendSV => pendSV')) /\ KernelNext
  BY Zenon DEF CoreStep
<1>2. UNCHANGED <<Priority, PriorityVector>> /\ CoreInv /\ lateRelease \in BOOLEAN
  BY <1>1, KernelNextKeeps, Zenon DEF CoreStepKeeps, prioVars, RunsInv, MutexInv, TypeOK
<1>3. CASE UNCHANGED OSBlockedList /\ pendSV'
  BY <1>2, <1>3, Zenon DEF RunsInv, BlockedAreTasks, RaisedIsUnblocked,
                    RunsHighestUnlessReleased, RunsHighest
<1>4. CASE UNCHANGED <<OSBlockedList, pendSV, currentTask>> /\ inTick'
  BY <1>1, <1>2, <1>4, Zenon DEF RunsInv, BlockedAreTasks, RaisedIsUnblocked,
                          RunsHighestUnlessReleased, RunsHighest
<1>5. CASE UNCHANGED <<OSBlockedList, pendSV, currentTask, inTick, OSReadyList>>
  <2>1. lateRelease' = lateRelease
    BY <1>1, <1>2, <1>5, Zenon
  <2>2. OSSchedule' = OSSchedule
    BY <1>2, <1>5, Zenon DEF OSSchedule
  <2>. QED  BY <1>2, <1>5, <2>1, <2>2, Zenon
            DEF RunsInv, BlockedAreTasks, RaisedIsUnblocked,
                RunsHighestUnlessReleased, RunsHighest
<1>6. CASE SwitchContext
  <2>1. /\ currentTask' = OSSchedule /\ UNCHANGED <<OSBlockedList, OSReadyList>>
    BY <1>6, Zenon DEF SwitchContext
  <2>2. OSSchedule' = OSSchedule
    BY <1>2, <2>1, Zenon DEF OSSchedule
  <2>3. OSSchedule \in Tasks => Priority[OSSchedule] \in OSBlockedList
    BY <1>2, MutexChoice, Zenon DEF IsHighest
  <2>. QED  BY <1>2, <2>1, <2>2, <2>3, Zenon
            DEF RunsInv, BlockedAreTasks, RaisedIsUnblocked,
                RunsHighestUnlessReleased, RunsHighest
<1>7. CASE InterruptUnBlock \/ \E t \in Tasks : BlockStep(t)
  BY <1>1, <1>7, RunsBlockStep, Zenon
<1>8. CASE TickStep
  BY <1>3, <1>4, <1>8 DEF TickStep, TickTimer, TickPass, TickWake, TickExit
<1>9. CASE \E t \in Tasks : DelayStep(t)
  BY <1>3, <1>5, <1>9, Zenon DEF DelayStep, OSDelayTask, OSDelayTaskReturn, Suspend,
                          ChangeContext, tickVars
<1>. QED  BY <1>1, <1>6, <1>7, <1>8, <1>9, Zenon DEF KernelNext

(***************************************************************************)
(* Only a holder of a mutex is at its ceiling.                             *)
(***************************************************************************)
LEMMA NobodyAtCeiling ==
  ASSUME MutexInv, NEW m \in Mutexes, OSEventAllocated[m], OSMaxPriority[m] > 0,
         NEW s, \A u \in Tasks \ {s} : ~Holds(u, m)
  PROVE  /\ \A h \in Handles \ {s} : Priority[h] # OSMaxPriority[m]
         /\ \A h \in Handles : PriorityOf(h) # OSMaxPriority[m]
<1>. DEFINE c == OSMaxPriority[m]
<1>1. ASSUME NEW u \in Tasks \ {s}
      PROVE  Priority[u] # c
  <2>1. Len(held[u]) \in 0..Len(held[u])
    BY HolderFacts
  <2>2. \A j \in 1..Len(held[u]) : held[u][j] # m
    BY HolderFacts
  <2>3. c \notin Levels(u, Len(held[u]))
    BY <2>1, <2>2, CeilingIsReserved, Zenon
  <2>4. Priority[u] \in Levels(u, Len(held[u]))
    BY Zenon DEF MutexInv, HeldInv, HeldOf, IsHighest
  <2>. QED  BY <2>3, <2>4, Zenon
<1>2. /\ \A u \in Tasks : PriorityOf(u) = TaskPriority[u] /\ TaskPriority[u] # c
      /\ PriorityOf(Idle) = 0 /\ Priority[Idle] = 0 /\ c # 0
  BY PriorityOfFacts DEF MutexInv, CoreInv, CeilingsInv, CurrentTablesAgree, PriorityOf
<1>. QED  BY <1>1, <1>2, PriorityOfFacts, Zenon

(***************************************************************************)
(* Nobody is at the ceiling a task moves to, so it is not blocked.         *)
(***************************************************************************)
LEMMA RunsRaise ==
  ASSUME RunsInv, NEW t \in Tasks, OnCPU(t), NEW m \in Mutexes,
         OSEventAllocated[m], \A u \in Tasks : ~Holds(u, m), RaiseToCeiling(t, m),
         UNCHANGED <<OSBlockedList, pendSV, currentTask, inTick, lateRelease>>
  PROVE  BlockedAreTasks' /\ RaisedIsUnblocked' /\ RunsHighestUnlessReleased'
<1>. DEFINE c == OSMaxPriority[m]
<1>1. /\ MutexInv /\ CoreInv /\ t \in Handles /\ currentTask = t /\ ~pendSV /\ ~inTick
      /\ Priority \in [Handles -> Priorities] /\ c \in Priorities
      /\ PriorityVector \in [Priorities -> Handles \cup {EMPTY_PRIO, MUTEX_PRIO}]
      /\ OSReadyList \subseteq Priorities /\ OSBlockedList \subseteq Priorities
      /\ PriorityOf(t) = TaskPriority[t]
  BY PriorityOfFacts, Zenon DEF RunsInv, MutexInv, TypeOK, KernelTypeOK, OnCPU, PriorityOf
<1>2. CASE ~(c > Priority[t])
  <2>1. UNCHANGED <<Priority, PriorityVector, OSReadyList>>
    BY <1>2, Zenon DEF RaiseToCeiling
  <2>2. OSSchedule' = OSSchedule
    BY <2>1, Zenon DEF OSSchedule
  <2>. QED  BY <2>1, <2>2, Zenon DEF RunsInv, BlockedAreTasks, RaisedIsUnblocked,
                              RunsHighestUnlessReleased, RunsHighest
<1>3. CASE c > Priority[t]
  <2>1. /\ Priority' = [Priority EXCEPT ![t] = c]
        /\ PriorityVector' = [PriorityVector EXCEPT ![c] = t]
        /\ OSReadyList' = (OSReadyList \ {Priority[t]}) \cup {c}
    BY <1>3, Zenon DEF RaiseToCeiling
  <2>2. /\ Priority'[t] = c /\ PriorityVector'[c] = t
        /\ \A h \in Handles \ {t} : Priority'[h] = Priority[h]
    BY <1>1, <2>1, Zenon
  <2>3. c > 0 /\ Priority[t] \in Priorities
    BY <1>1, <1>3, HandleFacts
  <2>4. \A h \in Handles : Priority[h] # c /\ PriorityOf(h) # c
    <3>1. NULL \notin Handles /\ \A u \in Tasks \ {NULL} : ~Holds(u, m)
      BY KernelAssumption DEF NULL, Handles
    <3>. QED  BY <1>1, <2>3, <3>1, NobodyAtCeiling, Zenon
  <2>5. c \in OSBlockedList
    BY <1>1, <2>4, Zenon DEF RunsInv, BlockedAreTasks
  <2>6. BlockedAreTasks'
    <3>1. ASSUME NEW p \in Priorities \ OSBlockedList
          PROVE  \E h \in Handles : p = Priority'[h] \/ p = PriorityOf(h)
      <4>1. PICK h \in Handles : p = Priority[h] \/ p = PriorityOf(h)
        BY Zenon DEF RunsInv, BlockedAreTasks
      <4>2. h = t => p = PriorityOf(t)
        BY <1>1, <4>1, Zenon DEF RunsInv, RaisedIsUnblocked
      <4>. QED  BY <2>2, <4>1, <4>2, Zenon
    <3>. QED  BY <3>1, Zenon DEF BlockedAreTasks
  <2>7. RaisedIsUnblocked'
    BY <1>1, <2>2, <2>5, Zenon DEF RaisedIsUnblocked
  <2>8. CASE ~lateRelease
    <3>. DEFINE L == OSReadyList \cap OSBlockedList
                M == OSReadyList' \cap OSBlockedList'
    <3>1. t = OSSchedule
      BY <1>1, <2>8, Zenon DEF RunsInv, RunsHighestUnlessReleased, RunsHighest
    <3>2. IsHighest(Priority[t], L)
      BY <1>1, <3>1, MutexChoice, Zenon
    <3>3. M \in SUBSET Priorities /\ c \in M /\ \A p \in M : p \in L \/ p = c
      BY <1>1, <2>1, <2>5, Zenon
    <3>4. IsHighest(c, M)
      <4>1. ASSUME NEW p \in M
            PROVE  p <= c
        <5>1. p \in Int /\ c \in Int /\ Priority[t] \in Int
          BY <1>1, <2>3, <3>3, HandleFacts, Zenon
        <5>2. p <= Priority[t] \/ p = c
          BY <3>2, <3>3, Zenon DEF IsHighest
        <5>. HIDE DEF c
        <5>. QED  BY <1>3, <5>1, <5>2
      <4>. QED  BY <3>3, <4>1, Zenon DEF IsHighest
    <3>5. SAScheduler(M) = c
      BY <3>3, <3>4, SameChoice
    <3>6. OSSchedule' = t
      BY <2>2, <3>5, Zenon DEF OSSchedule
    <3>. QED  BY <1>1, <2>6, <2>7, <3>6, Zenon DEF RunsHighestUnlessReleased, RunsHighest
  <2>. QED  BY <2>6, <2>7, <2>8, Zenon DEF RunsHighestUnlessReleased
<1>. QED  BY <1>2, <1>3, Zenon
(***************************************************************************)
(* OSMutexRelease: the priority the task returns to is blocked only when   *)
(* it is the task's own.                                                   *)
(***************************************************************************)
LEMMA RunsRelease ==
  ASSUME RunsInv, Nested, NEW t \in Tasks, NEW m \in Mutexes, OSMutexRelease(t, m)
  PROVE  BlockedAreTasks' /\ RaisedIsUnblocked' /\ RunsHighestUnlessReleased'
<1>. DEFINE p == OSOriginalPriority[m]
<1>1. /\ MutexInv /\ CoreInv /\ ReleaseBegin(t, m)
      /\ UNCHANGED <<currentTask, OSBlockedList>>
      /\ pendSV' \/ lateRelease'
  BY Zenon DEF RunsInv, MutexInv, OSMutexRelease, ReleaseHandOver, ReleaseAvailable, ChangeContext
<1>2. /\ currentTask = t /\ ~pendSV /\ p \in Priorities /\ PriorityVector[p] = t
      /\ Priority' = [Priority EXCEPT ![t] = p]
      /\ \A h \in Handles \ {t} : Priority[h] # p
  BY <1>1, ReleaseFacts, Zenon DEF Releasing, Running, OnCPU
<1>3. /\ t \in Handles /\ t # Idle /\ Priority'[t] = p /\ PriorityOf(t) = TaskPriority[t]
      /\ \A h \in Handles \ {t} : Priority'[h] = Priority[h]
  BY <1>1, <1>2, PriorityOfFacts, Zenon DEF CoreInv, KernelTypeOK, PriorityOf
<1>4. \A h \in Handles : PriorityVector[PriorityOf(h)] = h
  BY <1>1, PrioritiesDiffer, PriorityOfFacts, Zenon DEF CoreInv, CurrentTablesAgree, PriorityOf
<1>5. Priority[t] \in OSBlockedList \/ Priority[t] = PriorityOf(t)
  BY <1>2, <1>3, Zenon DEF RunsInv, RaisedIsUnblocked
<1>6. BlockedAreTasks'
  <2>1. ASSUME NEW q \in Priorities \ OSBlockedList
        PROVE  \E h \in Handles : q = Priority'[h] \/ q = PriorityOf(h)
    <3>1. PICK h \in Handles : q = Priority[h] \/ q = PriorityOf(h)
      BY Zenon DEF RunsInv, BlockedAreTasks
    <3>2. h = t => q = PriorityOf(t)
      BY <1>5, <3>1, Zenon
    <3>. QED  BY <1>3, <3>1, <3>2, Zenon
  <2>. QED  BY <1>1, <2>1, Zenon DEF BlockedAreTasks
<1>7. p \in OSBlockedList \/ p = TaskPriority[t]
  <2>1. ASSUME p \notin OSBlockedList
        PROVE  p = TaskPriority[t]
    <3>1. PICK h \in Handles : p = Priority[h] \/ p = PriorityOf(h)
      BY <1>2, <2>1, Zenon DEF RunsInv, BlockedAreTasks
    <3>2. h = t
      BY <1>2, <1>4, <3>1, Zenon
    <3>. QED  BY <1>3, <1>5, <2>1, <3>1, <3>2, Zenon
  <2>. QED  BY <2>1, Zenon
<1>8. RaisedIsUnblocked'
  BY <1>1, <1>2, <1>3, <1>7 DEF RaisedIsUnblocked
<1>9. RunsHighestUnlessReleased'
  BY <1>1, Zenon DEF RunsHighestUnlessReleased, RunsHighest
<1>. QED  BY <1>6, <1>8, <1>9, Zenon

(***************************************************************************)
(* OSMutexCreate gives the scheduler nothing new to choose.                *)
(***************************************************************************)
LEMMA RunsCreate ==
  ASSUME RunsInv, NEW c \in Priorities, ReserveCeiling(c), createUnchanged
  PROVE  BlockedAreTasks' /\ RaisedIsUnblocked' /\ RunsHighestUnlessReleased'
<1>1. /\ MutexInv /\ CoreInv
      /\ UNCHANGED <<Priority, OSReadyList, OSBlockedList, pendSV, currentTask, inTick,
                     lateRelease>>
  BY Zenon DEF RunsInv, MutexInv, createUnchanged, mutexLocals, tickVars
<1>2. \A p \in Priorities :
        PriorityVector[p] # EMPTY_PRIO => PriorityVector'[p] = PriorityVector[p]
  BY <1>1, ReserveInv, Zenon
<1>3. OSSchedule' = OSSchedule
  <2>. DEFINE L == OSReadyList \cap OSBlockedList
  <2>1. L \in SUBSET Priorities /\ 0 \in Priorities
    BY <1>1, PriorityOfFacts, Zenon DEF CoreInv, KernelTypeOK
  <2>2. PriorityVector[SAScheduler(L)] \in Handles /\ SAScheduler(L) \in Priorities
    <3>1. CASE L = {}
      BY <1>1, <2>1, <3>1, SASchedulerEmpty, PrioritiesDiffer, Zenon
    <3>2. CASE L # {}
      <4>1. SAScheduler(L) \in L
        BY <2>1, <3>2, SASchedulerHighest, Zenon DEF IsHighest
      <4>. QED  BY <1>1, <2>1, <4>1, Zenon DEF CoreInv, ReadyPrioritiesHaveTasks
    <3>. QED  BY <3>1, <3>2, Zenon
  <2>3. PriorityVector'[SAScheduler(L)] = PriorityVector[SAScheduler(L)]
    BY <1>2, <2>2, HandleFacts, Zenon
  <2>. QED  BY <1>1, <2>3, Zenon DEF OSSchedule
<1>. QED  BY <1>1, <1>3, Zenon DEF RunsInv, BlockedAreTasks, RaisedIsUnblocked,
                            RunsHighestUnlessReleased, RunsHighest

\* The mutex services ask for a switch, but for a release without waiters.
LEMMA RunsMutexStep ==
  ASSUME Disciplined, RunsInv, NEW t \in Tasks, MutexStep(t)
  PROVE  BlockedAreTasks' /\ RaisedIsUnblocked' /\ RunsHighestUnlessReleased'
<1>. USE DEF RunsInv
<1>1. CASE \E c \in Ceilings :
             MutexCreateFull(t, c) \/ \E m \in Mutexes : OSMutexCreate(t, m, c)
  BY <1>1, MutexAssumption, RunsCreate, Zenon DEF MutexCreateFull, OSMutexCreate
<1>2. CASE (\E m \in Mutexes : OSMutexDelete(t, m)) \/ AcquireTimeout(t)
  <2>1. UNCHANGED <<Priority, PriorityVector, OSReadyList, OSBlockedList, pendSV,
                    currentTask, inTick, lateRelease>>
    BY <1>2, Zenon DEF OSMutexDelete, AcquireTimeout, AcquireReturn, kernelVars, mutexLocals,
                tickVars, prioVars
  <2>2. OSSchedule' = OSSchedule
    BY <2>1, Zenon DEF OSSchedule
  <2>. QED  BY <2>1, <2>2, Zenon DEF BlockedAreTasks, RaisedIsUnblocked,
                              RunsHighestUnlessReleased, RunsHighest
<1>3. CASE \E m \in Mutexes : \E w \in AcquireTimes : AcquireWait(t, m, w)
  <2>1. pendSV' /\ UNCHANGED <<Priority, OSBlockedList>>
    BY <1>3, Zenon DEF AcquireWait, Suspend, ChangeContext, prioVars
  <2>. QED  BY <2>1, Zenon DEF BlockedAreTasks, RaisedIsUnblocked,
                        RunsHighestUnlessReleased, RunsHighest
<1>4. CASE \E m \in Mutexes : OSMutexRelease(t, m)
  BY <1>4, RunsRelease, Zenon DEF Disciplined
<1>5. ASSUME NEW m \in Mutexes, AcquireAvailable(t, m)
      PROVE  BlockedAreTasks' /\ RaisedIsUnblocked' /\ RunsHighestUnlessReleased'
  <2>1. /\ OnCPU(t) /\ OSEventAllocated[m] /\ OSEventState[m] /\ RaiseToCeiling(t, m)
        /\ UNCHANGED <<OSBlockedList, pendSV, currentTask, inTick, lateRelease>>
    BY <1>5, Zenon DEF AcquireAvailable, Running, tickVars
  <2>2. \A u \in Tasks : ~Holds(u, m)
    BY <2>1, HandleFacts DEF MutexInv, TableInv, MutualExclusion
  <2>. QED  BY <2>1, <2>2, RunsRaise, Zenon
<1>6. CASE AcquireOK(t)
  <2>1. /\ OnCPU(t) /\ pc[t] = "mutex" /\ ~AcquireTimedOut(t)
        /\ RaiseToCeiling(t, pont_event[t])
        /\ UNCHANGED <<OSBlockedList, pendSV, currentTask, inTick, lateRelease>>
    BY <1>6, Zenon DEF AcquireOK, AcquireReturn, Resumed, tickVars
  <2>2. PICK m \in Mutexes : m = pont_event[t]
    BY <2>1, Zenon DEF MutexInv, WaitersInv, MutexWaiter
  <2>3. OSEventAllocated[m] /\ ~Holds(t, m) /\ OSEventOwner[m] = t
    BY <2>1, <2>2, OnCPUIsReady, Zenon DEF MutexInv, WaitersInv, MutexWaiter, AcquireTimedOut
  <2>4. \A u \in Tasks : ~Holds(u, m)
    BY <2>3, Zenon DEF MutexInv, MutualExclusion
  <2>. QED  BY <2>1, <2>2, <2>3, <2>4, RunsRaise, Zenon
<1>. QED  BY <1>1, <1>2, <1>3, <1>4, <1>5, <1>6, Zenon DEF MutexStep

(***************************************************************************)
(* Preemption is exact while no release without waiters is pending: the    *)
(* task that executes is the highest of the ready, unblocked ones, at the  *)
(* ceilings they hold.                                                     *)
(***************************************************************************)
THEOREM MutexRunsHighest ==
  ASSUME Disciplined
  PROVE  Spec => []RunsHighestUnlessReleased
<1>1. Init => RunsInv
  <2>. SUFFICES ASSUME Init
                PROVE  RunsInv
    BY Zenon
  <2>1. MutexInv /\ KernelInit
    BY MutexInitInv, Zenon DEF Init
  <2>2. /\ OSBlockedList = Priorities
        /\ currentTask = PriorityVector[SAScheduler(OSReadyList)]
    BY <2>1, Zenon DEF KernelInit
  <2>3. OSReadyList \cap OSBlockedList = OSReadyList
    BY <2>1, <2>2, Zenon DEF MutexInv, CoreInv, KernelTypeOK
  <2>4. currentTask = OSSchedule
    BY <2>2, <2>3, Zenon DEF OSSchedule
  <2>5. currentTask \in Tasks => Priority[currentTask] \in OSBlockedList
    BY <2>1, <2>2, PrioritiesDiffer, Zenon DEF MutexInv
  <2>. QED  BY <2>1, <2>2, <2>4, <2>5, Zenon
            DEF RunsInv, BlockedAreTasks, RaisedIsUnblocked,
                RunsHighestUnlessReleased, RunsHighest
<1>2. ASSUME RunsInv, [Next]_vars, MutexInv'
      PROVE  RunsInv'
  <2>1. CASE CoreStep
    BY <1>2, <2>1, RunsCoreStep, Zenon DEF RunsInv
  <2>2. CASE \E t \in Tasks : MutexStep(t)
    BY <1>2, <2>2, RunsMutexStep, Zenon DEF RunsInv
  <2>3. CASE UNCHANGED vars
    <3>1. UNCHANGED <<Priority, PriorityVector, OSReadyList, OSBlockedList, pendSV,
                      currentTask, inTick, lateRelease>>
      BY <2>3, Zenon DEF vars, kernelVars, mutexLocals, tickVars, prioVars
    <3>2. OSSchedule' = OSSchedule
      BY <3>1, Zenon DEF OSSchedule
    <3>. QED  BY <1>2, <3>1, <3>2, Zenon DEF RunsInv, BlockedAreTasks, RaisedIsUnblocked,
                                      RunsHighestUnlessReleased, RunsHighest
  <2>. QED  BY <1>2, <2>1, <2>2, <2>3, Zenon DEF Next
<1>3. Spec => []MutexInv
  BY MutexInvariant, Zenon
<1>4. RunsInv => RunsHighestUnlessReleased
  BY Zenon DEF RunsInv
<1>. QED  BY <1>1, <1>2, <1>3, <1>4, PTL DEF Spec


=============================================================================
