---------------------------- MODULE KernelProofs ----------------------------
(***************************************************************************)
(* The core, for every number of tasks, assignment of priorities, width of *)
(* the tick counter and set of delays; and what semaphores, mailboxes and  *)
(* queues have in common.                                                  *)
(***************************************************************************)
EXTENDS KernelFacts

(***************************************************************************)
(* What OSSchedule returns is a task or the idle task; it returns a task   *)
(* only if it is ready and unblocked, and then none of higher priority is. *)
(***************************************************************************)
LEMMA ScheduleFacts ==
  ASSUME KernelTypeOK, TablesAgree
  PROVE  /\ OSSchedule \in Handles
         /\ OSSchedule \in Tasks =>
              IsHighest(PriorityOf(OSSchedule), OSReadyList \cap OSBlockedList)
<1>. DEFINE L == OSReadyList \cap OSBlockedList
<1>1. L \in SUBSET Priorities
  BY Zenon DEF KernelTypeOK
<1>2. CASE L = {}
  <2>1. OSSchedule = Idle
    BY <1>2, SASchedulerEmpty, PriorityOfFacts, Zenon DEF OSSchedule, TablesAgree
  <2>. QED  BY <2>1, PriorityOfFacts, Zenon
<1>3. CASE L # {}
  <2>1. IsHighest(SAScheduler(L), L)
    BY <1>1, <1>3, SASchedulerHighest, Zenon
  <2>2. PICK h \in Handles : SAScheduler(L) = PriorityOf(h)
    BY <2>1, Zenon DEF IsHighest, TablesAgree
  <2>3. OSSchedule = h
    BY <2>2, Zenon DEF OSSchedule, TablesAgree
  <2>. QED  BY <2>1, <2>2, <2>3, Zenon
<1>. QED  BY <1>2, <1>3, Zenon

(***************************************************************************)
(* A task that executes is ready, unblocked and the highest such.          *)
(***************************************************************************)
LEMMA OnCPUIsHighest ==
  ASSUME KernelInv, NEW t \in Tasks, OnCPU(t)
  PROVE  IsHighest(PriorityOf(t), OSReadyList \cap OSBlockedList)
<1>1. t = OSSchedule
  BY Zenon DEF KernelInv, OnCPU, RunsHighest
<1>. QED  BY <1>1, ScheduleFacts, Zenon DEF KernelInv

(***************************************************************************)
(* A task that suspends itself preserves the invariant; the services built *)
(* on the core suspend their tasks this way too.                           *)
(***************************************************************************)
LEMMA SuspendInv ==
  ASSUME KernelInv, NEW t \in Tasks, Running(t),
         NEW w \in 0..MAX_TIMER, NEW service \in Services \ {"app"},
         service = "delay" => w > 0,
         Suspend(t, w, service)
  PROVE  KernelInv'
<1>. USE DEF KernelInv
<1>1. KernelTypeOK'
  BY DeadlineType, KernelAssumption
  DEF KernelTypeOK, Suspend, IncludeTaskIntoDelayList, ChangeContext, tickVars,
      prioVars, NO_TIMEOUT
<1>2. TablesAgree'
  BY Zenon DEF TablesAgree, Suspend, prioVars
<1>3. WalkIsLinked'
  BY Zenon DEF WalkIsLinked, Suspend, IncludeTaskIntoDelayList, tickVars
<1>4. RunsHighest'
  BY Zenon DEF RunsHighest, Suspend, ChangeContext
<1>5. DelayedAreLinked'
  <2>1. ASSUME NEW u \in Tasks, u # t
        PROVE  /\ u \in DelayList' <=> u \in DelayList
               /\ pc'[u] = pc[u]
               /\ Priority'[u] \in OSReadyList' <=> Priority[u] \in OSReadyList
    <3>1. Priority[u] # Priority[t] /\ Priority' = Priority
      BY <2>1, PriorityOfFacts, Zenon DEF TablesAgree, Suspend, prioVars
    <3>. QED  BY <2>1, <3>1, Zenon DEF Suspend, IncludeTaskIntoDelayList, KernelTypeOK
  <2>2. /\ pc'[t] = service
        /\ service = "delay" => t \in DelayList'
        /\ Priority'[t] \notin OSReadyList'
    BY DEF Suspend, IncludeTaskIntoDelayList, KernelTypeOK, prioVars
  <2>. QED  BY <2>1, <2>2, Zenon DEF DelayedAreLinked
<1>. QED  BY <1>1, <1>2, <1>3, <1>4, <1>5, Zenon

(***************************************************************************)
(* OSDelayTask returns to a task that is ready and no longer linked.       *)
(***************************************************************************)
LEMMA DelayReturnInv ==
  ASSUME KernelInv, NEW t \in Tasks, OSDelayTaskReturn(t)
  PROVE  KernelInv'
<1>. USE DEF KernelInv
<1>1. PriorityOf(t) \in OSReadyList /\ Priority[t] = PriorityOf(t)
  BY OnCPUIsHighest, PriorityOfFacts, Zenon
  DEF IsHighest, OSDelayTaskReturn, Resumed, TablesAgree
<1>2. KernelTypeOK'
  BY Zenon DEF KernelTypeOK, OSDelayTaskReturn, tickVars, waitVars, prioVars, Services
<1>3. TablesAgree' /\ WalkIsLinked' /\ RunsHighest'
  BY Zenon DEF TablesAgree, WalkIsLinked, RunsHighest, OSSchedule, OSDelayTaskReturn,
         tickVars, waitVars, prioVars
<1>4. DelayedAreLinked'
  BY <1>1, Zenon DEF DelayedAreLinked, OSDelayTaskReturn, Resumed, KernelTypeOK,
              waitVars, prioVars
<1>. QED  BY <1>2, <1>3, <1>4, Zenon

(***************************************************************************)
(* PendSV puts the scheduler's choice on the CPU.                          *)
(***************************************************************************)
LEMMA SwitchContextInv ==
  ASSUME KernelInv, SwitchContext
  PROVE  KernelInv'
<1>. USE DEF KernelInv
<1>1. KernelTypeOK'
  BY ScheduleFacts, Zenon DEF KernelTypeOK, SwitchContext, tickVars, waitVars, prioVars
<1>2. TablesAgree' /\ WalkIsLinked' /\ RunsHighest' /\ DelayedAreLinked'
  BY Zenon DEF TablesAgree, WalkIsLinked, RunsHighest, DelayedAreLinked, OSSchedule,
         SwitchContext, tickVars, waitVars, prioVars
<1>. QED  BY <1>1, <1>2, Zenon

(***************************************************************************)
(* The tick handler, entry to exit.                                        *)
(***************************************************************************)
LEMMA TickInv ==
  ASSUME KernelInv, TickStep
  PROVE  KernelInv'
<1>. USE DEF KernelInv
<1>1. CASE TickTimer
  <2>1. KernelTypeOK'
    <3>1. OSTickCounter' \in 0..(TICK_COUNT_OVERFLOW - 1)
      BY <1>1, KernelAssumption
      DEF KernelTypeOK, TickTimer, OSIncCounter, TICK_COUNT_OVERFLOW
    <3>2. ticksLeft' \in [Tasks -> 0..MAX_TIMER]
      BY <1>1, KernelAssumption DEF KernelTypeOK, TickTimer
    <3>. QED  BY <1>1, <3>1, <3>2, Zenon DEF KernelTypeOK, TickTimer, prioVars
  <2>2. TablesAgree' /\ WalkIsLinked' /\ RunsHighest' /\ DelayedAreLinked'
    BY <1>1, Zenon DEF TickTimer, TablesAgree, WalkIsLinked, RunsHighest,
                DelayedAreLinked, prioVars
  <2>. QED  BY <2>1, <2>2, Zenon
<1>2. ASSUME NEW t \in Tasks, TickPass(t)
      PROVE  KernelInv'
  <2>1. KernelTypeOK'
    BY <1>2, Zenon DEF KernelTypeOK, TickPass, waitVars, prioVars
  <2>2. TablesAgree' /\ WalkIsLinked' /\ RunsHighest' /\ DelayedAreLinked'
    BY <1>2, Zenon DEF TickPass, TablesAgree, WalkIsLinked, RunsHighest,
                DelayedAreLinked, waitVars, prioVars
  <2>. QED  BY <2>1, <2>2, Zenon
<1>3. ASSUME NEW t \in Tasks, TickWake(t)
      PROVE  KernelInv'
  <2>1. Priority[t] = PriorityOf(t) /\ PriorityOf(t) \in Priorities /\ t \in Handles
    BY PriorityOfFacts, Zenon DEF TablesAgree
  <2>2. KernelTypeOK'
    BY <1>3, <2>1, KernelAssumption
    DEF KernelTypeOK, TickWake, RemoveFromDelayList, prioVars, EXIT_BY_TIMEOUT
  <2>3. TablesAgree' /\ WalkIsLinked' /\ RunsHighest'
    BY <1>3, <2>1, Zenon DEF TickWake, TablesAgree, WalkIsLinked, RunsHighest,
                      RemoveFromDelayList, prioVars
  <2>4. DelayedAreLinked'
    <3>1. ASSUME NEW u \in Tasks, u # t
          PROVE  /\ u \in DelayList' <=> u \in DelayList
                 /\ Priority'[u] \in OSReadyList' <=> Priority[u] \in OSReadyList
      <4>1. Priority[u] # Priority[t]
        BY <3>1, PriorityOfFacts, Zenon DEF TablesAgree
      <4>. QED  BY <1>3, <3>1, <4>1, Zenon DEF TickWake, RemoveFromDelayList, prioVars
    <3>2. t \notin DelayList' /\ Priority'[t] \in OSReadyList' /\ pc' = pc
      BY <1>3, Zenon DEF TickWake, RemoveFromDelayList, prioVars
    <3>. QED  BY <3>1, <3>2, Zenon DEF DelayedAreLinked
  <2>. QED  BY <2>2, <2>3, <2>4, Zenon
<1>4. CASE TickExit
  <2>1. KernelTypeOK'
    BY <1>4, Zenon DEF KernelTypeOK, TickExit, waitVars, prioVars
  <2>2. TablesAgree' /\ WalkIsLinked' /\ RunsHighest' /\ DelayedAreLinked'
    BY <1>4, Zenon DEF TickExit, TablesAgree, WalkIsLinked, RunsHighest,
                DelayedAreLinked, waitVars, prioVars
  <2>. QED  BY <2>1, <2>2, Zenon
<1>. QED  BY <1>1, <1>2, <1>3, <1>4, Zenon DEF TickStep

(***************************************************************************)
(* A change of the blocked list preserves the invariant when a switch is   *)
(* requested, or when it only blocks priorities other than the running     *)
(* task's: the two ways out of every blocking service.                     *)
(***************************************************************************)
LEMMA BlockedListInv ==
  ASSUME KernelInv, blockUnchanged, OSBlockedList' \in SUBSET Priorities,
         pendSV' \in BOOLEAN,
         \/ pendSV'
         \/ /\ OSBlockedList' \subseteq OSBlockedList
            /\ \E t \in Tasks :
                 OnCPU(t) /\ (PriorityOf(t) \in OSBlockedList => PriorityOf(t) \in OSBlockedList')
  PROVE  KernelInv'
<1>. USE DEF KernelInv
<1>1. KernelTypeOK'
  BY Zenon DEF KernelTypeOK, blockUnchanged, tickVars, waitVars, prioVars
<1>2. TablesAgree' /\ WalkIsLinked' /\ DelayedAreLinked'
  BY Zenon DEF TablesAgree, WalkIsLinked, DelayedAreLinked, blockUnchanged, tickVars,
         waitVars, prioVars
<1>3. RunsHighest'
  <2>1. CASE pendSV'
    BY <2>1, Zenon DEF RunsHighest
  <2>2. CASE ~pendSV'
    <3>1. PICK t \in Tasks :
            OnCPU(t) /\ (PriorityOf(t) \in OSBlockedList => PriorityOf(t) \in OSBlockedList')
      BY <2>2, Zenon
    <3>. DEFINE L == OSReadyList \cap OSBlockedList
                M == OSReadyList \cap OSBlockedList'
    <3>2. IsHighest(PriorityOf(t), L)
      BY <3>1, OnCPUIsHighest, Zenon
    <3>3. M \in SUBSET L /\ PriorityOf(t) \in M /\ L \in SUBSET Priorities
      BY <2>2, <3>1, <3>2, Zenon DEF IsHighest, KernelTypeOK
    <3>4. SAScheduler(M) = PriorityOf(t)
      BY <3>2, <3>3, SameChoice
    <3>5. OSSchedule' = t
      BY <3>4, PriorityOfFacts, Zenon DEF OSSchedule, TablesAgree, blockUnchanged, prioVars
    <3>. QED  BY <3>1, <3>5, Zenon DEF RunsHighest, OnCPU, blockUnchanged
  <2>. QED  BY <2>1, <2>2, Zenon
<1>. QED  BY <1>1, <1>2, <1>3, Zenon

(***************************************************************************)
(* The blocking services, called by a task.                                *)
(***************************************************************************)
LEMMA BlockInv ==
  ASSUME KernelInv, NEW t \in Tasks, BlockStep(t)
  PROVE  KernelInv'
<1>. USE DEF KernelInv
<1>1. /\ \A h \in Handles : Priority[h] = PriorityOf(h) /\ PriorityVector[PriorityOf(h)] = h
      /\ OSBlockedList \subseteq Priorities
  BY Zenon DEF TablesAgree, KernelTypeOK
<1>2. Blockable \subseteq Handles
  BY KernelAssumption, Zenon
<1>3. ASSUME NEW h \in Handles, OSBlockPriority(t, PriorityOf(h)) \/ OSBlockTask(t, h)
      PROVE  KernelInv'
  <2>1. /\ OSBlockedList' = OSBlockedList \ {PriorityOf(h)}
        /\ pendSV' = (currentTask = h)
        /\ blockUnchanged /\ OnCPU(t)
    BY <1>1, <1>3, Zenon DEF OSBlockPriority, OSBlockTask, Running
  <2>2. h = t \/ PriorityOf(h) # PriorityOf(t)
    BY PriorityOfFacts, Zenon
  <2>3. pendSV' \in BOOLEAN /\ (h = t => pendSV')
    BY <2>1, Zenon DEF OnCPU
  <2>. QED  BY <1>1, <2>1, <2>2, <2>3, BlockedListInv, Zenon
<1>4. ASSUME NEW p \in Priorities, OSUnBlockPriority(p)
      PROVE  KernelInv'
  <2>1. OSBlockedList' \in SUBSET Priorities /\ pendSV' = TRUE /\ blockUnchanged
    BY <1>1, <1>4, Zenon DEF OSUnBlockPriority, ChangeContext
  <2>. QED  BY <2>1, BlockedListInv, Zenon
<1>5. ASSUME NEW h \in Handles, OSUnBlockTask(h)
      PROVE  KernelInv'
  <2>1. OSBlockedList' \in SUBSET Priorities /\ pendSV' = TRUE /\ blockUnchanged
    BY <1>1, <1>5, PriorityOfFacts DEF OSUnBlockTask, ChangeContext
  <2>. QED  BY <2>1, BlockedListInv, Zenon
<1>6. ASSUME NEW s \in Handles, NEW n \in 1..(NumTasks + 1),
             s..(s + n - 1) \subseteq Blockable,
             OSBlockMultipleTask(t, s, n) \/ OSUnBlockMultipleTask(t, s, n)
      PROVE  KernelInv'
  <2>. DEFINE others == (s..(s + n - 1)) \ {currentTask}
  <2>1. /\ currentTask = t /\ OnCPU(t)
        /\ \A h \in others : h \in Handles /\ PriorityOf(h) # PriorityOf(t)
        /\ {Priority[h] : h \in others} \subseteq Priorities
    BY <1>1, <1>2, <1>6, PriorityOfFacts
    DEF OSBlockMultipleTask, OSUnBlockMultipleTask, Running, OnCPU
  <2>2. CASE OSBlockMultipleTask(t, s, n)
    <3>1. /\ OSBlockedList' = OSBlockedList \ {Priority[h] : h \in others}
          /\ pendSV' = pendSV /\ blockUnchanged
      BY <2>2, Zenon DEF OSBlockMultipleTask
    <3>2. PriorityOf(t) \notin {Priority[h] : h \in others}
      BY <1>1, <2>1
    <3>3. pendSV' \in BOOLEAN
      BY <3>1, Zenon DEF KernelTypeOK
    <3>. QED  BY <1>1, <2>1, <3>1, <3>2, <3>3, BlockedListInv, Zenon
  <2>3. CASE OSUnBlockMultipleTask(t, s, n)
    <3>1. OSBlockedList' \in SUBSET Priorities /\ pendSV' = TRUE /\ blockUnchanged
      BY <1>1, <2>1, <2>3, Zenon DEF OSUnBlockMultipleTask, ChangeContext
    <3>. QED  BY <3>1, BlockedListInv, Zenon
  <2>. QED  BY <1>6, <2>2, <2>3, Zenon
<1>. QED  BY <1>2, <1>3, <1>4, <1>5, <1>6, PriorityOfFacts, Zenon DEF BlockStep

(***************************************************************************)
(* Unblocking by an interrupt handler.                                     *)
(***************************************************************************)
LEMMA InterruptUnBlockInv ==
  ASSUME KernelInv, InterruptUnBlock
  PROVE  KernelInv'
<1>1. PICK h \in Handles : OSUnBlockPriority(PriorityOf(h)) \/ OSUnBlockTask(h)
  BY KernelAssumption, Zenon DEF InterruptUnBlock
<1>2. PriorityOf(h) \in Priorities /\ Priority[h] = PriorityOf(h)
  BY PriorityOfFacts, Zenon DEF KernelInv, TablesAgree
<1>3. OSBlockedList' \in SUBSET Priorities /\ pendSV' = TRUE /\ blockUnchanged
  BY <1>1, <1>2, Zenon
  DEF OSUnBlockPriority, OSUnBlockTask, ChangeContext, KernelInv, KernelTypeOK
<1>. QED  BY <1>3, BlockedListInv, Zenon

(***************************************************************************)
(* Every step of the core preserves the invariant.                         *)
(***************************************************************************)
LEMMA KernelStepInv ==
  ASSUME KernelInv, [KernelNext]_kernelVars
  PROVE  KernelInv'
<1>1. ASSUME NEW t \in Tasks, NEW w \in DelayTimes, OSDelayTask(t, w)
      PROVE  KernelInv'
  <2>1. w \in 0..MAX_TIMER
    BY KernelAssumption
  <2>. QED  BY <1>1, <2>1, SuspendInv, Zenon DEF OSDelayTask, Services
<1>2. ASSUME NEW t \in Tasks, DelayStep(t) \/ BlockStep(t)
      PROVE  KernelInv'
  BY <1>1, <1>2, DelayReturnInv, BlockInv, Zenon DEF DelayStep
<1>3. CASE UNCHANGED kernelVars
  BY <1>3, Zenon DEF kernelVars, tickVars, waitVars, prioVars, KernelInv, KernelTypeOK,
              TablesAgree, WalkIsLinked, RunsHighest, OSSchedule, DelayedAreLinked
<1>. QED  BY <1>2, <1>3, TickInv, SwitchContextInv, InterruptUnBlockInv, Zenon DEF KernelNext

(***************************************************************************)
(* The invariant holds throughout.                                         *)
(***************************************************************************)
THEOREM KernelInvariant == KernelSpec => []KernelInv
<1>1. KernelInit => KernelInv
  BY KernelInitInv, Zenon
<1>2. KernelInv /\ [KernelNext]_kernelVars => KernelInv'
  BY KernelStepInv, Zenon
<1>. QED  BY <1>1, <1>2, PTL DEF KernelSpec

(***************************************************************************)
(* Type correctness of the core: no list, table or counter leaves its      *)
(* range, and the task on the CPU always exists.                           *)
(***************************************************************************)
THEOREM KernelTypeCorrect == KernelSpec => []KernelTypeOK
<1>1. KernelInv => KernelTypeOK
  BY Zenon DEF KernelInv
<1>. QED  BY <1>1, KernelInvariant, PTL

(***************************************************************************)
(* The decision tree of SAScheduler finds the most significant bit of the  *)
(* list of tasks that may run, whatever one priority joins it: a list of   *)
(* priorities is all the tree asks for.                                    *)
(***************************************************************************)
THEOREM KernelSelectsHighest == KernelSpec => []SelectsHighest
<1>1. KernelTypeOK => SelectsHighest
  <2>. SUFFICES ASSUME KernelTypeOK, NEW prio \in Priorities
                PROVE  LET L == (OSReadyList \cap OSBlockedList) \cup {prio}
                       IN  /\ SAScheduler(L) \in L
                           /\ \A b \in L : b <= SAScheduler(L)
    BY Zenon DEF SelectsHighest
  <2>. DEFINE L == (OSReadyList \cap OSBlockedList) \cup {prio}
  <2>1. L \in SUBSET Priorities /\ L # {}
    BY Zenon DEF KernelTypeOK
  <2>2. IsHighest(SAScheduler(L), L)
    BY <2>1, SASchedulerHighest, Zenon
  <2>. QED  BY <2>2, Zenon DEF IsHighest
<1>. QED  BY <1>1, KernelTypeCorrect, PTL

(***************************************************************************)
(* Preemption: while tasks execute, the CPU runs OSSchedule's choice.      *)
(***************************************************************************)
THEOREM KernelRunsHighest == KernelSpec => []RunsHighest
<1>1. KernelInv => RunsHighest
  BY Zenon DEF KernelInv
<1>. QED  BY <1>1, KernelInvariant, PTL

(***************************************************************************)
(* No wake-up is lost or duplicated: a delayed task is linked in the delay *)
(* list exactly as long as it is not ready.                                *)
(***************************************************************************)
THEOREM KernelDelayedAreLinked == KernelSpec => []DelayedAreLinked
<1>1. KernelInv => DelayedAreLinked
  BY Zenon DEF KernelInv
<1>. QED  BY <1>1, KernelInvariant, PTL

-----------------------------------------------------------------------------
(***************************************************************************)
(* Exactness of delays.  The comparison by equality works because, for     *)
(* every linked task, TimeToWait stays the deadline of the ticks that are  *)
(* left, which the wrap of the counter moves along with the counter.  It   *)
(* needs delays of at most one revolution of the counter.                  *)
(***************************************************************************)
DelaysFit == DelayTimes \subseteq 1..TICK_COUNT_OVERFLOW

TaskTime(t) ==
  /\ t \in DelayList =>
       /\ ticksLeft[t] \in 0..TICK_COUNT_OVERFLOW
       /\ t \in tickList => ticksLeft[t] < TICK_COUNT_OVERFLOW
       /\ t \notin tickList => ticksLeft[t] > 0
       /\ TimeToWait[t] = Deadline(ticksLeft[t])
  /\ pc[t] = "delay" /\ t \notin DelayList => ticksLeft[t] = 0

TimeInv == \A t \in Tasks : TaskTime(t)

(***************************************************************************)
(* One tick leaves the deadline of a linked task where it was.             *)
(***************************************************************************)
LEMMA DeadlineOfTick ==
  ASSUME KernelTypeOK, OSIncCounter, NEW n \in 1..TICK_COUNT_OVERFLOW
  PROVE  Deadline(n - 1)' = Deadline(n)
  BY KernelAssumption
  DEF KernelTypeOK, OSIncCounter, Deadline, TICK_COUNT_OVERFLOW

(***************************************************************************)
(* Within a walk, the equality test finds the tasks with no tick left.     *)
(***************************************************************************)
LEMMA DeadlineIsNow ==
  ASSUME KernelTypeOK, NEW n \in 0..TICK_COUNT_OVERFLOW, n < TICK_COUNT_OVERFLOW
  PROVE  Deadline(n) = OSTickCounter <=> n = 0
  BY KernelAssumption DEF KernelTypeOK, Deadline, TICK_COUNT_OVERFLOW

(***************************************************************************)
(* The timing invariant is preserved by every step of the core.            *)
(***************************************************************************)
LEMMA TimeStepInv ==
  ASSUME DelaysFit, KernelInv, TimeInv, [KernelNext]_kernelVars
  PROVE  TimeInv'
<1>1. ASSUME NEW t \in Tasks, NEW w \in DelayTimes, OSDelayTask(t, w)
      PROVE  TimeInv'
  <2>1. w \in 1..TICK_COUNT_OVERFLOW
    BY Zenon DEF DelaysFit
  <2>2. /\ w > 0 /\ w \in 0..TICK_COUNT_OVERFLOW
        /\ t \notin tickList /\ tickList' = tickList
    BY <1>1, <2>1, KernelAssumption
    DEF OSDelayTask, Suspend, Running, OnCPU, KernelInv, WalkIsLinked,
        tickVars, TICK_COUNT_OVERFLOW
  <2>3. /\ ticksLeft'[t] = w /\ TimeToWait'[t] = Deadline(w)
        /\ t \in DelayList' /\ Deadline(w)' = Deadline(w)
    BY <1>1, <2>1, <2>2, KernelAssumption
    DEF OSDelayTask, Suspend, IncludeTaskIntoDelayList, KernelInv,
        KernelTypeOK, Deadline, tickVars, TICK_COUNT_OVERFLOW
  <2>4. ASSUME NEW u \in Tasks, u # t
        PROVE  /\ u \in DelayList' <=> u \in DelayList
               /\ ticksLeft'[u] = ticksLeft[u] /\ TimeToWait'[u] = TimeToWait[u]
               /\ pc'[u] = pc[u] /\ Deadline(ticksLeft[u])' = Deadline(ticksLeft[u])
    BY <1>1, <2>2, <2>4, Zenon
    DEF OSDelayTask, Suspend, IncludeTaskIntoDelayList, KernelInv, KernelTypeOK,
        Deadline, tickVars
  <2>. QED  BY <2>2, <2>3, <2>4, Zenon DEF TimeInv, TaskTime
<1>2. CASE TickTimer
  <2>. SUFFICES ASSUME NEW t \in Tasks
                PROVE  TaskTime(t)'
    BY Zenon DEF TimeInv
  <2>1. /\ DelayList' = DelayList /\ tickList' = DelayList /\ tickList = {}
        /\ pc' = pc /\ TimeToWait' = TimeToWait /\ OSIncCounter
    BY <1>2, Zenon DEF TickTimer, KernelInv, WalkIsLinked
  <2>2. CASE t \in DelayList
    <3>1. PICK n \in 1..TICK_COUNT_OVERFLOW :
            n = ticksLeft[t] /\ TimeToWait[t] = Deadline(n)
      BY <2>1, <2>2, KernelAssumption DEF TimeInv, TaskTime, TICK_COUNT_OVERFLOW
    <3>2. ticksLeft'[t] = n - 1 /\ n - 1 \in 0..TICK_COUNT_OVERFLOW
          /\ n - 1 < TICK_COUNT_OVERFLOW
      BY <1>2, <2>2, <3>1, KernelAssumption DEF TickTimer, TICK_COUNT_OVERFLOW
    <3>3. Deadline(ticksLeft[t])' = Deadline(n)
      BY <2>1, <3>2, DeadlineOfTick, Zenon DEF KernelInv
    <3>. QED  BY <2>1, <2>2, <3>1, <3>2, <3>3, Zenon DEF TaskTime
  <2>3. CASE t \notin DelayList
    BY <1>2, <2>1, <2>3, Zenon DEF TimeInv, TaskTime, TickTimer
  <2>. QED  BY <2>2, <2>3, Zenon
<1>3. ASSUME NEW t \in Tasks, TickPass(t) \/ TickWake(t)
      PROVE  TimeInv'
  <2>1. /\ t \in tickList /\ t \in DelayList
        /\ tickList' = tickList \ {t}
        /\ pc' = pc /\ ticksLeft' = ticksLeft /\ OSTickCounter' = OSTickCounter
    BY <1>3, Zenon DEF TickPass, TickWake, KernelInv, WalkIsLinked, waitVars
  <2>2. TaskTime(t) /\ (TimeToWait[t] = OSTickCounter <=> ticksLeft[t] = 0)
    BY <2>1, DeadlineIsNow, Zenon DEF TimeInv, TaskTime, KernelInv
  <2>3. TaskTime(t)'
    <3>1. CASE TickPass(t)
      <4>1. ticksLeft[t] > 0 /\ TimeToWait' = TimeToWait /\ DelayList' = DelayList
        BY <2>1, <2>2, <3>1, KernelAssumption
        DEF TaskTime, TickPass, waitVars, TICK_COUNT_OVERFLOW
      <4>. QED  BY <2>1, <2>2, <4>1, Zenon DEF TaskTime, Deadline
    <3>2. CASE TickWake(t)
      BY <2>1, <2>2, <3>2, Zenon DEF TaskTime, TickWake, RemoveFromDelayList
    <3>. QED  BY <1>3, <3>1, <3>2, Zenon
  <2>4. ASSUME NEW u \in Tasks, u # t
        PROVE  TaskTime(u)'
    <3>1. /\ u \in DelayList' <=> u \in DelayList
          /\ u \in tickList' <=> u \in tickList
          /\ TimeToWait'[u] = TimeToWait[u]
      BY <1>3, <2>1, <2>4, Zenon
      DEF TickPass, TickWake, RemoveFromDelayList, waitVars, KernelInv, KernelTypeOK
    <3>. QED  BY <2>1, <3>1, Zenon DEF TimeInv, TaskTime, Deadline
  <2>. QED  BY <2>3, <2>4, Zenon DEF TimeInv
<1>4. ASSUME UNCHANGED <<OSTickCounter, tickList, waitVars>>,
             \A t \in Tasks : pc'[t] = pc[t] \/ pc'[t] # "delay"
      PROVE  TimeInv'
  BY <1>4, Zenon DEF TimeInv, TaskTime, Deadline, waitVars
<1>5. ASSUME NEW t \in Tasks, OSDelayTaskReturn(t)
      PROVE  TimeInv'
  BY <1>4, <1>5, Zenon DEF OSDelayTaskReturn, tickVars, KernelInv, KernelTypeOK
<1>6. CASE blockUnchanged \/ SwitchContext \/ TickExit \/ UNCHANGED kernelVars
  BY <1>4, <1>6, Zenon DEF blockUnchanged, SwitchContext, TickExit, kernelVars, tickVars
<1>7. ASSUME NEW t \in Tasks, BlockStep(t)
      PROVE  blockUnchanged
  BY <1>7, Zenon DEF BlockStep, OSBlockPriority, OSBlockTask, OSBlockMultipleTask,
              OSUnBlockPriority, OSUnBlockTask, OSUnBlockMultipleTask
<1>8. InterruptUnBlock => blockUnchanged
  BY Zenon DEF InterruptUnBlock, OSUnBlockPriority, OSUnBlockTask
<1>. QED  BY <1>1, <1>2, <1>3, <1>5, <1>6, <1>7, <1>8, Zenon
          DEF KernelNext, DelayStep, TickStep

(***************************************************************************)
(* Every delay of at most one revolution of the tick counter lasts exactly *)
(* the ticks asked for.                                                    *)
(***************************************************************************)
THEOREM KernelWaitsAreExact ==
  ASSUME DelaysFit
  PROVE  KernelSpec => []WaitsAreExact
<1>1. KernelInit => TimeInv
  BY Zenon DEF KernelInit, TimeInv, TaskTime
<1>2. KernelInv /\ TimeInv /\ [KernelNext]_kernelVars => TimeInv'
  BY TimeStepInv, Zenon
<1>3. KernelInv /\ TimeInv => WaitsAreExact
  BY Zenon DEF WaitsAreExact, TimeInv, TaskTime
<1>. QED  BY <1>1, <1>2, <1>3, KernelInvariant, PTL DEF KernelSpec

-----------------------------------------------------------------------------
(***************************************************************************)
(* Events: tasks suspended in a pend, named by a wait list and its         *)
(* counter, woken by a post or by the tick.  The facts are stated once,    *)
(* for a service, a set of events and the variables of its module, which   *)
(* are parameters here.                                                    *)
(***************************************************************************)
\* A task suspended in a pend is ready when a post took it out of the wait
\* list or its time ran out, and linked until then if it gave a time.
Waiter(t, Events, WaitList, pont, timed) ==
  /\ pont[t] \in Events
  /\ timed[t] => (t \in DelayList <=> TimeToWait[t] # EXIT_BY_TIMEOUT)
  /\ ~timed[t] => t \notin DelayList
  /\ PriorityOf(t) \in OSReadyList <=>
       \/ PriorityOf(t) \notin WaitList[pont[t]]
       \/ timed[t] /\ TimeToWait[t] = EXIT_BY_TIMEOUT

EventInv(service, Events, Wait, WaitList, pont, timed) ==
  /\ Wait \in [Events -> Nat] /\ WaitList \in [Events -> SUBSET Priorities]
  /\ DOMAIN pont = Tasks /\ timed \in [Tasks -> BOOLEAN]
  /\ \A e \in Events : Counts(Wait[e], WaitList[e])
  /\ \A e \in Events : \A p \in WaitList[e] :
       \E t \in Tasks : p = PriorityOf(t) /\ pc[t] = service /\ pont[t] = e
  /\ \A t \in Tasks :
       pc[t] = service => Waiter(t, Events, WaitList, pont, timed)

\* The services that wait for events.
EventServices == Services \ {"app", "delay"}

(***************************************************************************)
(* A step of the core leaves a task that waits for an event alone, or      *)
(* times it out.                                                           *)
(***************************************************************************)
LEMMA CoreKeepsWaiters ==
  ASSUME KernelInv, [KernelNext]_kernelVars, NEW t \in Tasks
  PROVE  /\ pc[t] \in EventServices \/ pc'[t] \in EventServices => pc'[t] = pc[t]
         /\ pc[t] \in EventServices =>
              \/ /\ t \in DelayList' <=> t \in DelayList
                 /\ TimeToWait'[t] = TimeToWait[t]
                 /\ PriorityOf(t) \in OSReadyList' <=> PriorityOf(t) \in OSReadyList
              \/ /\ t \in DelayList /\ t \notin DelayList'
                 /\ TimeToWait'[t] = EXIT_BY_TIMEOUT
                 /\ PriorityOf(t) \in OSReadyList'
<1>. DEFINE Kept == /\ pc[t] \in EventServices \/ pc'[t] \in EventServices => pc'[t] = pc[t]
                    /\ pc[t] \in EventServices =>
                         \/ /\ t \in DelayList' <=> t \in DelayList
                            /\ TimeToWait'[t] = TimeToWait[t]
                            /\ PriorityOf(t) \in OSReadyList' <=> PriorityOf(t) \in OSReadyList
                         \/ /\ t \in DelayList /\ t \notin DelayList'
                            /\ TimeToWait'[t] = EXIT_BY_TIMEOUT
                            /\ PriorityOf(t) \in OSReadyList'
<1>. USE DEF KernelInv, EventServices
<1>1. /\ \A u \in Tasks : Priority[u] = PriorityOf(u)
      /\ \A u \in Tasks : PriorityOf(u) = PriorityOf(t) => u = t
      /\ pc \in [Tasks -> Services] /\ TimeToWait \in [Tasks -> 0..MAX_TIMER]
  BY PriorityOfFacts, Zenon DEF TablesAgree, KernelTypeOK
<1>2. ASSUME NEW u \in Tasks, NEW w \in DelayTimes, OSDelayTask(u, w)
      PROVE  Kept
  <2>1. /\ pc[u] = "app" /\ pc' = [pc EXCEPT ![u] = "delay"]
        /\ OSReadyList' = OSReadyList \ {PriorityOf(u)}
        /\ DelayList' = DelayList \cup {u} \/ DelayList' = DelayList
        /\ \E d : TimeToWait' = [TimeToWait EXCEPT ![u] = d]
    BY <1>1, <1>2, Zenon DEF OSDelayTask, Running, Suspend, IncludeTaskIntoDelayList
  <2>. QED  BY <1>1, <2>1, Zenon
<1>3. ASSUME NEW u \in Tasks, OSDelayTaskReturn(u)
      PROVE  Kept
  BY <1>1, <1>3, Zenon DEF OSDelayTaskReturn, Resumed, waitVars
<1>4. ASSUME NEW u \in Tasks, TickWake(u)
      PROVE  Kept
  <2>1. u \in DelayList
    BY <1>4, Zenon DEF TickWake, WalkIsLinked
  <2>. QED  BY <1>1, <1>4, <2>1, Zenon DEF TickWake, RemoveFromDelayList
<1>5. CASE UNCHANGED <<DelayList, TimeToWait, OSReadyList, pc>>
  BY <1>5, Zenon
<1>6. ASSUME NEW u \in Tasks, BlockStep(u)
      PROVE  Kept
  <2>1. blockUnchanged
    BY <1>6, Zenon DEF BlockStep, OSBlockPriority, OSBlockTask, OSBlockMultipleTask,
                OSUnBlockPriority, OSUnBlockTask, OSUnBlockMultipleTask
  <2>. QED  BY <1>5, <2>1, Zenon DEF blockUnchanged, waitVars
<1>7. CASE InterruptUnBlock
  <2>1. blockUnchanged
    BY <1>7, Zenon DEF InterruptUnBlock, OSUnBlockPriority, OSUnBlockTask
  <2>. QED  BY <1>5, <2>1, Zenon DEF blockUnchanged, waitVars
<1>8. CASE TickTimer \/ TickExit \/ SwitchContext \/ UNCHANGED kernelVars
  BY <1>5, <1>8, Zenon DEF TickTimer, TickExit, SwitchContext, kernelVars, waitVars
<1>9. ASSUME NEW u \in Tasks, TickPass(u)
      PROVE  Kept
  BY <1>5, <1>9, Zenon DEF TickPass, waitVars
<1>. QED  BY <1>2, <1>3, <1>4, <1>6, <1>7, <1>8, <1>9, Zenon
          DEF KernelNext, DelayStep, TickStep

(***************************************************************************)
(* The core: delays, ticks, switches and blocking preserve the invariant.  *)
(***************************************************************************)
LEMMA EventCoreStep ==
  ASSUME KernelInv, [KernelNext]_kernelVars, NEW service \in EventServices,
         NEW Events, NEW Wait, NEW WaitList, NEW pont, NEW timed,
         EventInv(service, Events, Wait, WaitList, pont, timed)
  PROVE  EventInv(service, Events, Wait, WaitList, pont, timed)'
<1>1. \A t \in Tasks : pc'[t] = service <=> pc[t] = service
  BY CoreKeepsWaiters, Zenon
<1>2. ASSUME NEW t \in Tasks, pc[t] = service
      PROVE  Waiter(t, Events, WaitList, pont, timed)'
  BY <1>2, CoreKeepsWaiters DEF EventInv, Waiter
<1>. QED  BY <1>1, <1>2, Zenon DEF EventInv

(***************************************************************************)
(* So does every step that changes nothing a waiting task depends on.      *)
(***************************************************************************)
LEMMA EventSame ==
  ASSUME NEW service, NEW Events, NEW Wait, NEW WaitList, NEW pont, NEW timed,
         EventInv(service, Events, Wait, WaitList, pont, timed),
         UNCHANGED <<pc, DelayList, TimeToWait, OSReadyList>>
  PROVE  EventInv(service, Events, Wait, WaitList, pont, timed)'
  BY DEF EventInv, Waiter

(***************************************************************************)
(* A pend that finds nothing enters the wait list, the delay list if it    *)
(* gives a time, and suspends.                                             *)
(***************************************************************************)
LEMMA EventWait ==
  ASSUME KernelInv, NEW service \in EventServices,
         NEW Events, NEW Wait, NEW WaitList, NEW pont, NEW timed,
         EventInv(service, Events, Wait, WaitList, pont, timed),
         NEW t \in Tasks, Running(t), NEW e \in Events,
         NEW w \in 0..TICK_COUNT_OVERFLOW, Suspend(t, w, service),
         NEW Wait1, Wait1 = [Wait EXCEPT ![e] = @ + 1],
         NEW WaitList1, WaitList1 = [WaitList EXCEPT ![e] = @ \cup {Priority[t]}],
         NEW pont1, pont1 = [pont EXCEPT ![t] = e],
         NEW timed1, timed1 = [timed EXCEPT ![t] = w > 0]
  PROVE  EventInv(service, Events, Wait1, WaitList1, pont1, timed1)'
<1>. USE DEF KernelInv
<1>. DEFINE p == PriorityOf(t)
<1>1. /\ Priority[t] = p /\ p \in Priorities /\ pc[t] = "app"
      /\ \A u \in Tasks : PriorityOf(u) = p => u = t
      /\ t \notin DelayList /\ pc[t] # service
  BY PriorityOfFacts, Zenon DEF TablesAgree, Running, DelayedAreLinked, EventServices
<1>2. p \notin WaitList[e]
  BY <1>1 DEF EventInv
<1>3. /\ Wait1 \in [Events -> Nat] /\ WaitList1 \in [Events -> SUBSET Priorities]
      /\ DOMAIN pont1 = Tasks /\ timed1 \in [Tasks -> BOOLEAN]
  BY <1>1 DEF EventInv
<1>4. ASSUME NEW f \in Events
      PROVE  Counts(Wait1[f], WaitList1[f])
  <2>1. Counts(Wait[e] + 1, WaitList[e] \cup {p})
    BY <1>2, CountInsert, Zenon DEF EventInv
  <2>. QED  BY <1>1, <2>1, Zenon DEF EventInv
<1>5. /\ pc' = [pc EXCEPT ![t] = service] /\ OSReadyList' = OSReadyList \ {p}
      /\ \A u \in Tasks : u # t => /\ u \in DelayList' <=> u \in DelayList
                                   /\ TimeToWait'[u] = TimeToWait[u]
                                   /\ PriorityOf(u) # p
      /\ w > 0 => t \in DelayList' /\ TimeToWait'[t] = Deadline(w)
      /\ ~(w > 0) => t \notin DelayList' /\ TimeToWait'[t] = NO_TIMEOUT
  BY <1>1 DEF Suspend, IncludeTaskIntoDelayList, KernelTypeOK
<1>6. ASSUME NEW f \in Events, NEW q \in WaitList1[f]
      PROVE  \E u \in Tasks : q = PriorityOf(u) /\ pc'[u] = service /\ pont1[u] = f
  <2>1. CASE q = p /\ f = e
    BY <1>5, <2>1, Zenon DEF EventInv, KernelTypeOK
  <2>2. CASE ~(q = p /\ f = e)
    <3>1. q \in WaitList[f]
      BY <1>1, <2>2 DEF EventInv
    <3>2. PICK u \in Tasks : q = PriorityOf(u) /\ pc[u] = service /\ pont[u] = f
      BY <3>1, Zenon DEF EventInv
    <3>. QED  BY <1>1, <1>5, <3>2, Zenon DEF EventInv, KernelTypeOK
  <2>. QED  BY <2>1, <2>2, Zenon
<1>7. ASSUME NEW u \in Tasks, pc'[u] = service
      PROVE  Waiter(u, Events, WaitList1, pont1, timed1)'
  <2>1. CASE u = t
    <3>1. /\ pont1[t] = e /\ timed1[t] = (w > 0)
          /\ p \in WaitList1[e] /\ p \notin OSReadyList'
      BY <1>1, <1>5 DEF EventInv
    <3>2. Deadline(w) # EXIT_BY_TIMEOUT /\ NO_TIMEOUT # EXIT_BY_TIMEOUT
      BY DeadlineFits, Zenon
    <3>3. TimeToWait'[t] # EXIT_BY_TIMEOUT /\ (t \in DelayList' <=> w > 0)
      BY <1>5, <3>2, Zenon
    <3>. QED  BY <2>1, <3>1, <3>3, Zenon DEF Waiter
  <2>2. CASE u # t
    BY <1>1, <1>5, <1>7, <2>2 DEF Waiter, EventInv, KernelTypeOK
  <2>. QED  BY <2>1, <2>2, Zenon
<1>. QED  BY <1>3, <1>4, <1>6, <1>7, Zenon DEF EventInv

(***************************************************************************)
(* A task that executes after its wait was taken out of the list by a post *)
(* or ran out of time; there is no third way out.                          *)
(***************************************************************************)
LEMMA EventResumed ==
  ASSUME KernelInv, NEW service,
         NEW Events, NEW Wait, NEW WaitList, NEW pont, NEW timed,
         EventInv(service, Events, Wait, WaitList, pont, timed),
         NEW t \in Tasks, Resumed(t, service)
  PROVE  /\ Priority[t] = PriorityOf(t) /\ pont[t] \in Events
         /\ \/ Priority[t] \notin WaitList[pont[t]]
            \/ timed[t] /\ TimeToWait[t] = EXIT_BY_TIMEOUT
<1>1. PriorityOf(t) \in OSReadyList
  BY OnCPUIsHighest, Zenon DEF Resumed, IsHighest
<1>. QED  BY <1>1, PriorityOfFacts, Zenon
          DEF EventInv, Waiter, Resumed, KernelInv, TablesAgree

(***************************************************************************)
(* A pend returns to a task a post took out of the list: nothing of the    *)
(* other waits changes.                                                    *)
(***************************************************************************)
LEMMA EventReturn ==
  ASSUME KernelInv, NEW service \in EventServices,
         NEW Events, NEW Wait, NEW WaitList, NEW pont, NEW timed,
         EventInv(service, Events, Wait, WaitList, pont, timed),
         NEW t \in Tasks, pc[t] = service,
         PriorityOf(t) \notin WaitList[pont[t]],
         pc' = [pc EXCEPT ![t] = "app"], OSReadyList' = OSReadyList,
         DelayList' = DelayList \ {t},
         \A u \in Tasks \ {t} : TimeToWait'[u] = TimeToWait[u],
         NEW Wait1, Wait1 = Wait, NEW WaitList1, WaitList1 = WaitList,
         NEW pont1, NEW v, pont1 = [pont EXCEPT ![t] = v],
         NEW timed1, timed1 = [timed EXCEPT ![t] = FALSE]
  PROVE  EventInv(service, Events, Wait1, WaitList1, pont1, timed1)'
<1>. USE DEF KernelInv
<1>1. \A u \in Tasks : pc'[u] = service <=> (pc[u] = service /\ u # t)
  BY Zenon DEF KernelTypeOK, EventServices
<1>2. DOMAIN pont1 = Tasks /\ timed1 \in [Tasks -> BOOLEAN]
  BY Zenon DEF EventInv
<1>3. ASSUME NEW e \in Events, NEW p \in WaitList[e]
      PROVE  \E u \in Tasks : p = PriorityOf(u) /\ pc'[u] = service /\ pont1[u] = e
  <2>1. PICK u \in Tasks : p = PriorityOf(u) /\ pc[u] = service /\ pont[u] = e
    BY Zenon DEF EventInv
  <2>. QED  BY <1>1, <2>1, Zenon DEF EventInv
<1>4. ASSUME NEW u \in Tasks, pc'[u] = service
      PROVE  Waiter(u, Events, WaitList, pont1, timed1)'
  <2>1. u # t /\ pc[u] = service /\ pont1[u] = pont[u] /\ timed1[u] = timed[u]
    BY <1>1, <1>4, Zenon DEF EventInv
  <2>. QED  BY <2>1, Zenon DEF EventInv, Waiter
<1>. QED  BY <1>2, <1>3, <1>4, Zenon DEF EventInv

(***************************************************************************)
(* A task that timed out takes itself out of the wait list and returns.    *)
(***************************************************************************)
LEMMA EventTimeout ==
  ASSUME KernelInv, NEW service \in EventServices,
         NEW Events, NEW Wait, NEW WaitList, NEW pont, NEW timed,
         EventInv(service, Events, Wait, WaitList, pont, timed),
         NEW t \in Tasks, pc[t] = service,
         PriorityOf(t) \in WaitList[pont[t]],
         timed[t], TimeToWait[t] = EXIT_BY_TIMEOUT,
         pc' = [pc EXCEPT ![t] = "app"],
         UNCHANGED <<OSReadyList, DelayList, TimeToWait>>,
         NEW Wait1, Wait1 = [Wait EXCEPT ![pont[t]] = @ - 1],
         NEW WaitList1,
         WaitList1 = [WaitList EXCEPT ![pont[t]] = @ \ {PriorityOf(t)}],
         NEW pont1, NEW v, pont1 = [pont EXCEPT ![t] = v],
         NEW timed1, timed1 = [timed EXCEPT ![t] = FALSE]
  PROVE  EventInv(service, Events, Wait1, WaitList1, pont1, timed1)'
<1>. USE DEF KernelInv
<1>. DEFINE p == PriorityOf(t)
            e == pont[t]
<1>1. /\ \A u \in Tasks : pc'[u] = service <=> (pc[u] = service /\ u # t)
      /\ \A u \in Tasks : PriorityOf(u) = p => u = t
      /\ e \in Events /\ p \in Priorities
  BY PriorityOfFacts, Zenon DEF KernelTypeOK, EventServices, EventInv, Waiter
<1>2. /\ DOMAIN pont1 = Tasks /\ timed1 \in [Tasks -> BOOLEAN]
      /\ WaitList1 \in [Events -> SUBSET Priorities]
  BY <1>1, Zenon DEF EventInv
<1>3. /\ Wait1 \in [Events -> Nat]
      /\ \A f \in Events : Counts(Wait1[f], WaitList1[f])
  <2>1. Wait[e] > 0 /\ Counts(Wait[e] - 1, WaitList[e] \ {p})
    <3>1. Counts(Wait[e], WaitList[e]) /\ p \in WaitList[e]
      BY <1>1, Zenon DEF EventInv
    <3>. HIDE DEF e, p
    <3>. QED  BY <3>1, CountRemove, Zenon
  <2>. QED  BY <1>1, <2>1 DEF EventInv
<1>4. ASSUME NEW f \in Events, NEW q \in WaitList1[f]
      PROVE  \E u \in Tasks : q = PriorityOf(u) /\ pc'[u] = service /\ pont1[u] = f
  <2>1. q \in WaitList[f] /\ ~(q = p /\ f = e)
    BY <1>1, Zenon DEF EventInv
  <2>2. PICK u \in Tasks : q = PriorityOf(u) /\ pc[u] = service /\ pont[u] = f
    BY <2>1, Zenon DEF EventInv
  <2>3. u # t
    BY <2>1, <2>2, Zenon
  <2>4. pont1[u] = f
    BY <2>2, <2>3, Zenon DEF EventInv
  <2>. QED  BY <1>1, <2>2, <2>3, <2>4, Zenon
<1>5. ASSUME NEW u \in Tasks, pc'[u] = service
      PROVE  Waiter(u, Events, WaitList1, pont1, timed1)'
  <2>1. u # t /\ pc[u] = service /\ pont1[u] = pont[u] /\ timed1[u] = timed[u]
    BY <1>1, <1>5, Zenon DEF EventInv
  <2>2. PriorityOf(u) \in WaitList1[pont[u]] <=> PriorityOf(u) \in WaitList[pont[u]]
    BY <1>1, <2>1, Zenon DEF EventInv, Waiter
  <2>. QED  BY <2>1, <2>2, Zenon DEF EventInv, Waiter
<1>. QED  BY <1>2, <1>3, <1>4, <1>5, Zenon DEF EventInv

(***************************************************************************)
(* A post finds a task: the priority it takes out of the list is the       *)
(* highest waiting one, and the task it names is suspended on this event.  *)
(***************************************************************************)
LEMMA EventHighest ==
  ASSUME KernelInv, NEW service,
         NEW Events, NEW Wait, NEW WaitList, NEW pont, NEW timed,
         EventInv(service, Events, Wait, WaitList, pont, timed),
         NEW e \in Events, Wait[e] # 0
  PROVE  /\ IsHighest(SAScheduler(WaitList[e]), WaitList[e])
         /\ \E t \in Tasks :
              /\ SAScheduler(WaitList[e]) = PriorityOf(t)
              /\ PriorityVector[PriorityOf(t)] = t
              /\ pc[t] = service /\ pont[t] = e
<1>1. WaitList[e] \in SUBSET Priorities /\ WaitList[e] # {}
  <2>1. WaitList[e] \in SUBSET Priorities /\ Counts(Wait[e], WaitList[e])
    BY Zenon DEF EventInv
  <2>. QED  BY <2>1, CountZero, Zenon
<1>2. IsHighest(SAScheduler(WaitList[e]), WaitList[e])
  BY <1>1, SASchedulerHighest, Zenon
<1>3. PICK t \in Tasks : /\ SAScheduler(WaitList[e]) = PriorityOf(t)
                         /\ pc[t] = service /\ pont[t] = e
  BY <1>2, Zenon DEF IsHighest, EventInv
<1>. QED  BY <1>2, <1>3, PriorityOfFacts, Zenon DEF KernelInv, TablesAgree

\* A post takes the highest waiter out of the list and makes it ready.
LEMMA EventPost ==
  ASSUME KernelInv, NEW service \in EventServices,
         NEW Events, NEW Wait, NEW WaitList, NEW pont, NEW timed,
         EventInv(service, Events, Wait, WaitList, pont, timed),
         NEW e \in Events, Wait[e] # 0,
         OSReadyList' = OSReadyList \cup {SAScheduler(WaitList[e])},
         UNCHANGED <<pc, DelayList, TimeToWait>>,
         NEW Wait1, Wait1 = [Wait EXCEPT ![e] = @ - 1],
         NEW WaitList1,
         WaitList1 = [WaitList EXCEPT ![e] = @ \ {SAScheduler(WaitList[e])}]
  PROVE  EventInv(service, Events, Wait1, WaitList1, pont, timed)'
<1>. USE DEF KernelInv
<1>1. PICK t \in Tasks : /\ SAScheduler(WaitList[e]) = PriorityOf(t)
                         /\ pc[t] = service /\ pont[t] = e
  BY EventHighest
<1>. DEFINE p == PriorityOf(t)
<1>2. /\ p \in WaitList[e] /\ p \in Priorities
      /\ \A u \in Tasks : PriorityOf(u) = p => u = t
  BY <1>1, EventHighest, PriorityOfFacts DEF IsHighest
<1>3. WaitList1 \in [Events -> SUBSET Priorities]
  BY Zenon DEF EventInv
<1>4. /\ Wait1 \in [Events -> Nat]
      /\ \A f \in Events : Counts(Wait1[f], WaitList1[f])
  <2>1. Wait[e] > 0 /\ Counts(Wait[e] - 1, WaitList[e] \ {p})
    BY <1>2, CountRemove, Zenon DEF EventInv
  <2>. QED  BY <1>1, <2>1 DEF EventInv
<1>5. ASSUME NEW f \in Events, NEW q \in WaitList1[f]
      PROVE  \E u \in Tasks : q = PriorityOf(u) /\ pc'[u] = service /\ pont[u] = f
  BY <1>1 DEF EventInv
<1>6. ASSUME NEW u \in Tasks, pc'[u] = service
      PROVE  Waiter(u, Events, WaitList1, pont, timed)'
  <2>1. CASE u = t
    BY <1>1, <1>6, <2>1, Zenon DEF EventInv, Waiter
  <2>2. CASE u # t
    <3>1. /\ PriorityOf(u) \in WaitList1[pont[u]] <=> PriorityOf(u) \in WaitList[pont[u]]
          /\ PriorityOf(u) \in OSReadyList' <=> PriorityOf(u) \in OSReadyList
      BY <1>1, <1>2, <1>6, <2>2, Zenon DEF EventInv, Waiter
    <3>. QED  BY <1>6, <3>1, Zenon DEF EventInv, Waiter
  <2>. QED  BY <2>1, <2>2, Zenon
<1>. QED  BY <1>3, <1>4, <1>5, <1>6, Zenon DEF EventInv

(***************************************************************************)
(* The invariant of the core, under the return and the wake-up of a task   *)
(* suspended in a service.                                                 *)
(***************************************************************************)
LEMMA ServiceReturnInv ==
  ASSUME KernelInv, NEW service, NEW t \in Tasks, Resumed(t, service),
         pc' = [pc EXCEPT ![t] = "app"], DelayList' = DelayList \ {t},
         TimeToWait' \in [Tasks -> 0..MAX_TIMER],
         UNCHANGED <<tickVars, prioVars, currentTask, OSReadyList,
                     OSBlockedList, pendSV, ticksLeft>>
  PROVE  KernelInv'
<1>. USE DEF KernelInv
<1>1. PriorityOf(t) \in OSReadyList /\ Priority[t] = PriorityOf(t)
  BY OnCPUIsHighest, PriorityOfFacts, Zenon DEF IsHighest, Resumed, TablesAgree
<1>2. KernelTypeOK'
  BY Zenon DEF KernelTypeOK, tickVars, prioVars, Services
<1>3. TablesAgree' /\ RunsHighest'
  BY Zenon DEF TablesAgree, RunsHighest, OSSchedule, tickVars, prioVars
<1>4. WalkIsLinked'
  BY Zenon DEF WalkIsLinked, Resumed, OnCPU, tickVars
<1>5. DelayedAreLinked'
  BY <1>1, Zenon DEF DelayedAreLinked, KernelTypeOK, prioVars
<1>. QED  BY <1>2, <1>3, <1>4, <1>5, Zenon

\* A service makes a task suspended in it ready.
LEMMA WakeInv ==
  ASSUME KernelInv, NEW t \in Tasks, pc[t] \in EventServices,
         OSReadyList' = OSReadyList \cup {PriorityOf(t)}, ChangeContext,
         UNCHANGED <<tickVars, waitVars, prioVars, currentTask, OSBlockedList, pc>>
  PROVE  KernelInv'
<1>. USE DEF KernelInv
<1>1. /\ PriorityOf(t) \in Priorities /\ t \in Handles
      /\ \A u \in Tasks : PriorityOf(u) = PriorityOf(t) => u = t
      /\ \A u \in Tasks : Priority[u] = PriorityOf(u)
  BY PriorityOfFacts, Zenon DEF TablesAgree
<1>2. KernelTypeOK'
  BY <1>1, Zenon DEF KernelTypeOK, tickVars, waitVars, prioVars, ChangeContext
<1>3. TablesAgree' /\ WalkIsLinked' /\ RunsHighest'
  BY <1>1, Zenon DEF TablesAgree, WalkIsLinked, RunsHighest, ChangeContext, tickVars,
              waitVars, prioVars
<1>4. DelayedAreLinked'
  BY <1>1, Zenon DEF DelayedAreLinked, EventServices, waitVars, prioVars
<1>. QED  BY <1>2, <1>3, <1>4, Zenon

=============================================================================
