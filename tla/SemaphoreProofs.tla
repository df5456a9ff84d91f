-------------------------- MODULE SemaphoreProofs ---------------------------
(***************************************************************************)
(* Semaphores, for every number of tasks and semaphores, every priority    *)
(* assignment and every width of the counters.  The theorems are about an  *)
(* application that deletes no semaphore tasks wait for and gives pend     *)
(* times of at most one revolution of the tick counter: the code enforces  *)
(* neither, and without either they fail.                                  *)
(***************************************************************************)
EXTENDS Semaphore, KernelProofs, FiniteSetTheorems

PendTimesFit == PendTimes \subseteq 0..TICK_COUNT_OVERFLOW \cup {NO_TIMEOUT}

Disciplined == ~DeleteWaited /\ PendTimesFit

SemEvents == EventInv("sem", Sems, OSEventWait, OSEventWaitList, pont_event, timed)

\* posted names the tasks that a post took out of the wait list.
LocalsInv ==
  \A t \in Tasks :
    /\ pont_event[t] # NULL <=> pc[t] = "sem"
    /\ t \in posted <=>
         pc[t] = "sem" /\ PriorityOf(t) \notin OSEventWaitList[pont_event[t]]

TableInv ==
  \A s \in Sems :
    /\ ~OSEventAllocated[s] => OSEventWaitList[s] = {}
    /\ Binary[s] => OSEventCount[s] <= 1

SemInv == TypeOK /\ KernelInv /\ SemEvents /\ LocalsInv /\ TableInv

\* What the assumptions on constants say of a semaphore and of a wait.
LEMMA SemFacts ==
  /\ "sem" \in EventServices /\ NULL \notin Sems
  /\ SEM_MAX \in Nat /\ SEM_MAX > 0
  BY SemaphoreAssumption DEF EventServices, Services, NULL, Sems

(***************************************************************************)
(* After BRTOSStart() no semaphore exists.                                 *)
(***************************************************************************)
LEMMA SemInitInv ==
  ASSUME Init
  PROVE  SemInv
<1>1. KernelInv
  BY KernelInitInv, Zenon DEF Init
<1>2. TypeOK
  BY <1>1, SemFacts DEF Init, TypeOK, KernelInv
<1>3. SemEvents
  BY CountNone, Zenon DEF Init, SemEvents, EventInv, KernelInit
<1>4. LocalsInv /\ TableInv
  BY Zenon DEF Init, LocalsInv, TableInv, KernelInit
<1>. QED  BY <1>1, <1>2, <1>3, <1>4, Zenon DEF SemInv

(***************************************************************************)
(* Creation and deletion: the wait list was and is empty.                  *)
(***************************************************************************)
LEMMA SemTableInv ==
  ASSUME SemInv, NEW s \in Sems, OSEventWaitList[s] = {},
         NEW count \in 0..SEM_MAX, NEW binary \in BOOLEAN,
         binary => count <= 1,
         OSEventAllocated' \in [Sems -> BOOLEAN],
         OSEventCount' = [OSEventCount EXCEPT ![s] = count],
         OSEventWait' = [OSEventWait EXCEPT ![s] = 0],
         OSEventWaitList' = [OSEventWaitList EXCEPT ![s] = {}],
         Binary' = [Binary EXCEPT ![s] = binary],
         \A r \in Sems \ {s} : OSEventAllocated'[r] = OSEventAllocated[r],
         UNCHANGED <<kernelVars, semLocals>>
  PROVE  SemInv'
<1>1. KernelInv' /\ KernelTypeOK'
  BY KernelStepInv, Zenon DEF SemInv, KernelInv
<1>2. OSEventWaitList' = OSEventWaitList /\ OSEventWait' = OSEventWait
  <2>1. OSEventWait[s] = 0
    BY CountZero, Zenon DEF SemInv, SemEvents, EventInv
  <2>. QED  BY <2>1, Zenon DEF SemInv, TypeOK
<1>3. SemEvents'
  BY <1>2, EventSame, Zenon DEF SemInv, SemEvents, kernelVars, waitVars, semLocals
<1>4. TypeOK'
  BY <1>1, <1>2, Zenon DEF SemInv, TypeOK, semLocals
<1>5. LocalsInv' /\ TableInv'
  BY <1>2, SemFacts, Zenon DEF SemInv, TypeOK, LocalsInv, TableInv, semLocals, kernelVars
<1>. QED  BY <1>1, <1>3, <1>4, <1>5, Zenon DEF SemInv

\* OSSemCreate and OSSemBinaryCreate.
LEMMA AllocateInv ==
  ASSUME SemInv, NEW t, NEW s \in Sems, NEW count \in 0..SEM_MAX,
         NEW binary \in BOOLEAN, binary => count <= 1,
         Allocate(t, s, count, binary)
  PROVE  SemInv' /\ OSEventWaitList[s] = {}
<1>1. OSEventWaitList[s] = {}
  BY Zenon DEF Allocate, FirstFree, SemInv, TableInv
<1>2. OSEventAllocated' \in [Sems -> BOOLEAN]
      /\ \A r \in Sems \ {s} : OSEventAllocated'[r] = OSEventAllocated[r]
  BY Zenon DEF Allocate, SemInv, TypeOK
<1>. QED  BY <1>1, <1>2, SemTableInv, Zenon DEF Allocate

\* OSSemDelete, of a semaphore without waiters.
LEMMA DeleteInv ==
  ASSUME Disciplined, SemInv, NEW t, NEW s \in Sems, OSSemDelete(t, s)
  PROVE  SemInv' /\ OSEventWaitList[s] = {}
<1>1. OSEventWaitList[s] = {}
  BY Zenon DEF OSSemDelete, Disciplined
<1>2. OSEventAllocated' \in [Sems -> BOOLEAN]
      /\ \A r \in Sems \ {s} : OSEventAllocated'[r] = OSEventAllocated[r]
  BY Zenon DEF OSSemDelete, SemInv, TypeOK
<1>3. PICK binary \in BOOLEAN : Binary' = [Binary EXCEPT ![s] = binary]
  BY Zenon DEF OSSemDelete, SemInv, TypeOK
<1>4. 0 \in 0..SEM_MAX /\ (binary => 0 <= 1)
  BY SemFacts
<1>5. /\ OSEventCount' = [OSEventCount EXCEPT ![s] = 0]
      /\ OSEventWait' = [OSEventWait EXCEPT ![s] = 0]
      /\ OSEventWaitList' = [OSEventWaitList EXCEPT ![s] = {}]
      /\ UNCHANGED <<kernelVars, semLocals>>
  BY Zenon DEF OSSemDelete
<1>. QED  BY <1>1, <1>2, <1>3, <1>4, <1>5, SemTableInv, Zenon

(***************************************************************************)
(* OSSemPend.                                                              *)
(***************************************************************************)
LEMMA PendTakeInv ==
  ASSUME SemInv, NEW t, NEW s \in Sems, SemPendTake(t, s)
  PROVE  SemInv'
<1>1. KernelInv' /\ KernelTypeOK'
  BY KernelStepInv, Zenon DEF SemInv, KernelInv, SemPendTake
<1>2. SemEvents'
  BY EventSame, Zenon DEF SemInv, SemEvents, SemPendTake, kernelVars, waitVars, semLocals
<1>3. OSEventCount[s] - 1 \in 0..SEM_MAX
  BY SemFacts DEF SemInv, TypeOK, SemPendTake
<1>4. TypeOK'
  BY <1>1, <1>3, Zenon DEF SemInv, TypeOK, SemPendTake, semLocals
<1>5. LocalsInv'
  BY Zenon DEF SemInv, LocalsInv, SemPendTake, semLocals, kernelVars
<1>6. TableInv'
  BY SemFacts DEF SemInv, TypeOK, TableInv, SemPendTake
<1>. QED  BY <1>1, <1>2, <1>4, <1>5, <1>6, Zenon DEF SemInv

\* OSSemPend without a token suspends the caller.
LEMMA PendWaitInv ==
  ASSUME Disciplined, SemInv, NEW t \in Tasks, NEW s \in Sems,
         NEW w \in PendTimes, SemPendWait(t, s, w)
  PROVE  SemInv'
<1>1. w \in 0..TICK_COUNT_OVERFLOW /\ w \in 0..MAX_TIMER
  BY SemaphoreAssumption, Zenon DEF Disciplined, PendTimesFit, SemPendWait
<1>2. KernelInv' /\ KernelTypeOK'
  <2>1. Running(t) /\ Suspend(t, w, "sem")
    BY Zenon DEF SemPendWait
  <2>2. "sem" \in Services \ {"app"} /\ "sem" # "delay"
    BY Zenon DEF Services
  <2>. QED  BY <1>1, <2>1, <2>2, SuspendInv, Zenon DEF SemInv, KernelInv
<1>3. SemEvents'
  <2>1. /\ Running(t) /\ Suspend(t, w, "sem")
        /\ OSEventWait' = [OSEventWait EXCEPT ![s] = @ + 1]
        /\ OSEventWaitList' = [OSEventWaitList EXCEPT ![s] = @ \cup {Priority[t]}]
        /\ pont_event' = [pont_event EXCEPT ![t] = s]
        /\ timed' = [timed EXCEPT ![t] = w > 0]
    BY Zenon DEF SemPendWait
  <2>2. KernelInv /\ SemEvents /\ "sem" \in EventServices
    BY SemFacts, Zenon DEF SemInv
  <2>. QED  BY <1>1, <2>1, <2>2, EventWait DEF SemEvents
<1>4. /\ Priority[t] = PriorityOf(t) /\ PriorityOf(t) \in Priorities
      /\ \A u \in Tasks : PriorityOf(u) = PriorityOf(t) => u = t
      /\ pc[t] = "app" /\ pc' = [pc EXCEPT ![t] = "sem"]
      /\ pc \in [Tasks -> Services]
  BY PriorityOfFacts, Zenon DEF SemInv, KernelInv, TablesAgree, SemPendWait, Running,
                         Suspend, KernelTypeOK
<1>5. TypeOK'
  <2>1. OSEventWait' \in [Sems -> Nat] /\ OSEventWaitList' \in [Sems -> SUBSET Priorities]
        /\ timed' \in [Tasks -> BOOLEAN]
    BY <1>3, Zenon DEF SemEvents, EventInv
  <2>. QED  BY <1>2, <2>1, Zenon DEF SemInv, TypeOK, SemPendWait
<1>6. LocalsInv'
  <2>1. /\ pont_event'[t] = s /\ PriorityOf(t) \in OSEventWaitList'[s]
        /\ pc'[t] = "sem" /\ t \notin posted'
    BY <1>4, Zenon DEF SemInv, TypeOK, SemPendWait, LocalsInv
  <2>2. ASSUME NEW u \in Tasks, u # t
        PROVE  /\ pont_event'[u] = pont_event[u] /\ pc'[u] = pc[u]
               /\ pont_event[u] \in Sems =>
                    (PriorityOf(u) \in OSEventWaitList'[pont_event[u]]
                      <=> PriorityOf(u) \in OSEventWaitList[pont_event[u]])
    BY <1>4, <2>2, Zenon DEF SemInv, TypeOK, SemPendWait
  <2>. QED  BY <2>1, <2>2, SemFacts DEF SemInv, TypeOK, LocalsInv, SemPendWait
<1>7. TableInv'
  BY Zenon DEF SemInv, TypeOK, TableInv, SemPendWait
<1>. QED  BY <1>2, <1>3, <1>5, <1>6, <1>7, Zenon DEF SemInv

\* What both returns of OSSemPend leave of the locals.
LEMMA ReturnLocals ==
  ASSUME SemInv, NEW t \in Tasks, pc[t] = "sem", PendReturn(t),
         OSEventWaitList' \in [Sems -> SUBSET Priorities],
         \A u \in Tasks \ {t} : \A s \in Sems :
           PriorityOf(u) \in OSEventWaitList'[s] <=> PriorityOf(u) \in OSEventWaitList[s]
  PROVE  /\ LocalsInv'
         /\ pont_event' \in [Tasks -> Sems \cup {NULL}]
         /\ timed' \in [Tasks -> BOOLEAN] /\ posted' \subseteq Tasks
<1>1. pc' = [pc EXCEPT ![t] = "app"] /\ pc \in [Tasks -> Services]
  BY Zenon DEF PendReturn, SemInv, KernelInv, KernelTypeOK
<1>2. /\ pont_event' \in [Tasks -> Sems \cup {NULL}]
      /\ timed' \in [Tasks -> BOOLEAN] /\ posted' \subseteq Tasks
  BY Zenon DEF PendReturn, SemInv, TypeOK
<1>3. ASSUME NEW u \in Tasks, u # t
      PROVE  /\ pont_event'[u] = pont_event[u] /\ pc'[u] = pc[u]
             /\ u \in posted' <=> u \in posted
             /\ pont_event[u] # NULL => pont_event[u] \in Sems
  BY <1>1, <1>3, Zenon DEF PendReturn, SemInv, TypeOK
<1>4. pont_event'[t] = NULL /\ pc'[t] = "app" /\ t \notin posted'
  BY <1>1, Zenon DEF PendReturn, SemInv, TypeOK
<1>. QED  BY <1>2, <1>3, <1>4 DEF SemInv, LocalsInv

\* OSSemPend returns TIMEOUT.
LEMMA PendTimeoutInv ==
  ASSUME SemInv, NEW t \in Tasks, SemPendTimeout(t)
  PROVE  SemInv' /\ pont_event[t] \in Sems /\ t \notin posted
<1>. DEFINE s == pont_event[t]
<1>1. /\ Resumed(t, "sem") /\ pc[t] = "sem" /\ KernelInv /\ SemEvents
      /\ "sem" \in EventServices
  BY SemFacts, Zenon DEF SemPendTimeout, Resumed, SemInv
<1>2. Priority[t] = PriorityOf(t) /\ s \in Sems
  BY <1>1, EventResumed, Zenon DEF SemEvents
<1>3. /\ PriorityOf(t) \in OSEventWaitList[s] /\ timed[t]
      /\ TimeToWait[t] = EXIT_BY_TIMEOUT
      /\ OSEventWait' = [OSEventWait EXCEPT ![pont_event[t]] = @ - 1]
      /\ OSEventWaitList' = [OSEventWaitList EXCEPT ![pont_event[t]] = @ \ {PriorityOf(t)}]
      /\ pc' = [pc EXCEPT ![t] = "app"]
      /\ UNCHANGED <<OSReadyList, DelayList, TimeToWait>>
      /\ UNCHANGED <<tickVars, prioVars, currentTask, OSReadyList,
                     OSBlockedList, pendSV, ticksLeft>>
      /\ pont_event' = [pont_event EXCEPT ![t] = NULL]
      /\ timed' = [timed EXCEPT ![t] = FALSE]
  BY <1>2, Zenon DEF SemPendTimeout, SemTimedOut, PendReturn
<1>4. SemEvents'
  BY <1>1, <1>3, EventTimeout, Zenon DEF SemEvents
<1>5. KernelInv' /\ KernelTypeOK'
  <2>1. DelayList' = DelayList \ {t} /\ TimeToWait' \in [Tasks -> 0..MAX_TIMER]
    BY <1>1, <1>3 DEF SemEvents, EventInv, Waiter, KernelInv, KernelTypeOK
  <2>. QED  BY <1>1, <1>3, <2>1, ServiceReturnInv, Zenon DEF KernelInv
<1>6. /\ OSEventWaitList' \in [Sems -> SUBSET Priorities]
      /\ OSEventWait' \in [Sems -> Nat]
  BY <1>4, Zenon DEF SemEvents, EventInv
<1>7. \A u \in Tasks \ {t} : \A r \in Sems :
        PriorityOf(u) \in OSEventWaitList'[r] <=> PriorityOf(u) \in OSEventWaitList[r]
  BY <1>2, <1>3, PriorityOfFacts, Zenon DEF SemInv, TypeOK
<1>8. /\ LocalsInv' /\ pont_event' \in [Tasks -> Sems \cup {NULL}]
      /\ timed' \in [Tasks -> BOOLEAN] /\ posted' \subseteq Tasks
  BY <1>1, <1>6, <1>7, ReturnLocals, Zenon DEF SemPendTimeout
<1>9. TypeOK' /\ TableInv'
  BY <1>5, <1>6, <1>8, <1>2, <1>3, Zenon DEF SemPendTimeout, SemInv, TypeOK, TableInv
<1>10. t \notin posted
  BY <1>1, <1>3, Zenon DEF SemInv, LocalsInv
<1>. QED  BY <1>2, <1>4, <1>5, <1>8, <1>9, <1>10, Zenon DEF SemInv

\* OSSemPend returns OK after a post.
LEMMA PendOKInv ==
  ASSUME SemInv, NEW t \in Tasks, SemPendOK(t)
  PROVE  SemInv' /\ pont_event[t] \in Sems /\ t \in posted
<1>. DEFINE s == pont_event[t]
<1>1. /\ Resumed(t, "sem") /\ pc[t] = "sem" /\ KernelInv /\ SemEvents
      /\ "sem" \in EventServices
  BY SemFacts, Zenon DEF SemPendOK, Resumed, SemInv
<1>2. Priority[t] = PriorityOf(t) /\ s \in Sems
      /\ PriorityOf(t) \notin OSEventWaitList[s]
  BY <1>1, EventResumed DEF SemEvents, SemPendOK, SemTimedOut
<1>3. /\ pc' = [pc EXCEPT ![t] = "app"]
      /\ UNCHANGED <<tickVars, prioVars, currentTask, OSReadyList,
                     OSBlockedList, pendSV, ticksLeft>>
      /\ OSReadyList' = OSReadyList
      /\ pont_event' = [pont_event EXCEPT ![t] = NULL]
      /\ timed' = [timed EXCEPT ![t] = FALSE]
      /\ UNCHANGED semTable
  BY Zenon DEF SemPendOK, PendReturn
<1>4. /\ DelayList' = DelayList \ {t} /\ TimeToWait' \in [Tasks -> 0..MAX_TIMER]
      /\ \A u \in Tasks \ {t} : TimeToWait'[u] = TimeToWait[u]
  <2>1. NO_TIMEOUT \in 0..MAX_TIMER /\ TimeToWait \in [Tasks -> 0..MAX_TIMER]
    BY <1>1, KernelAssumption DEF NO_TIMEOUT, KernelInv, KernelTypeOK
  <2>2. /\ timed[t] \in BOOLEAN
        /\ ~timed[t] \/ TimeToWait[t] = EXIT_BY_TIMEOUT => t \notin DelayList
    BY <1>1, Zenon DEF SemEvents, EventInv, Waiter
  <2>. QED  BY <2>1, <2>2, Zenon DEF SemPendOK, RemoveFromDelayList
<1>5. SemEvents'
  <2>1. OSEventWait' = OSEventWait /\ OSEventWaitList' = OSEventWaitList
    BY <1>3, Zenon DEF semTable
  <2>. QED  BY <1>1, <1>2, <1>3, <1>4, <2>1, EventReturn, Zenon DEF SemEvents
<1>6. KernelInv' /\ KernelTypeOK'
  BY <1>1, <1>3, <1>4, ServiceReturnInv, Zenon DEF KernelInv
<1>7. /\ LocalsInv' /\ pont_event' \in [Tasks -> Sems \cup {NULL}]
      /\ timed' \in [Tasks -> BOOLEAN] /\ posted' \subseteq Tasks
  BY <1>1, <1>3, ReturnLocals, Zenon DEF SemPendOK, semTable, SemInv, TypeOK
<1>8. TypeOK' /\ TableInv'
  BY <1>3, <1>6, <1>7, Zenon DEF semTable, SemInv, TypeOK, TableInv
<1>9. t \in posted
  BY <1>1, <1>2, Zenon DEF SemInv, LocalsInv
<1>. QED  BY <1>2, <1>5, <1>6, <1>7, <1>8, <1>9, Zenon DEF SemInv

(***************************************************************************)
(* OSSemPost wakes the highest waiting task, or counts.                    *)
(***************************************************************************)
LEMMA PostWakeInv ==
  ASSUME SemInv, NEW s \in Sems, SemPostWake(s)
  PROVE  /\ SemInv'
         /\ \E t \in Tasks :
              /\ pont_event[t] = s /\ t \notin posted /\ posted' = posted \cup {t}
              /\ IsHighest(PriorityOf(t), OSEventWaitList[s])
<1>1. KernelInv /\ SemEvents /\ "sem" \in EventServices /\ OSEventWait[s] # 0
  BY SemFacts, Zenon DEF SemInv, SemPostWake
<1>2. PICK t \in Tasks :
        /\ IsHighest(PriorityOf(t), OSEventWaitList[s])
        /\ SAScheduler(OSEventWaitList[s]) = PriorityOf(t)
        /\ PriorityVector[PriorityOf(t)] = t
        /\ pc[t] = "sem" /\ pont_event[t] = s
  BY <1>1, EventHighest DEF SemEvents
<1>3. /\ OSEventWaitList' = [OSEventWaitList EXCEPT ![s] = @ \ {PriorityOf(t)}]
      /\ OSReadyList' = OSReadyList \cup {PriorityOf(t)}
      /\ posted' = posted \cup {t}
      /\ OSEventWait' = [OSEventWait EXCEPT ![s] = @ - 1]
      /\ ChangeContext
      /\ UNCHANGED <<tickVars, waitVars, prioVars, currentTask, OSBlockedList, pc,
                     pont_event, timed, OSEventAllocated, OSEventCount, Binary>>
  BY <1>2, Zenon DEF SemPostWake
<1>4. KernelInv' /\ KernelTypeOK'
  BY <1>1, <1>2, <1>3, WakeInv, Zenon DEF KernelInv
<1>5. SemEvents'
  <2>1. UNCHANGED <<pc, DelayList, TimeToWait>> /\ pont_event' = pont_event
        /\ timed' = timed
    BY <1>3, Zenon DEF waitVars
  <2>2. /\ OSReadyList' = OSReadyList \cup {SAScheduler(OSEventWaitList[s])}
        /\ OSEventWaitList' =
             [OSEventWaitList EXCEPT ![s] = @ \ {SAScheduler(OSEventWaitList[s])}]
        /\ OSEventWait' = [OSEventWait EXCEPT ![s] = @ - 1]
    BY <1>2, <1>3, Zenon
  <2>. QED  BY <1>1, <2>1, <2>2, EventPost, Zenon DEF SemEvents
<1>6. /\ PriorityOf(t) \in OSEventWaitList[s] /\ t \notin posted
      /\ \A u \in Tasks : PriorityOf(u) = PriorityOf(t) => u = t
  BY <1>2, PriorityOfFacts, Zenon DEF IsHighest, SemInv, LocalsInv
<1>7. TypeOK' /\ TableInv'
  <2>1. OSEventWait' \in [Sems -> Nat] /\ OSEventWaitList' \in [Sems -> SUBSET Priorities]
    BY <1>5, Zenon DEF SemEvents, EventInv
  <2>. QED  BY <1>3, <1>4, <2>1, Zenon DEF SemInv, TypeOK, TableInv
<1>8. LocalsInv'
  <2>1. ASSUME NEW u \in Tasks, u # t, pc[u] = "sem"
        PROVE  PriorityOf(u) \in OSEventWaitList'[pont_event[u]]
                 <=> PriorityOf(u) \in OSEventWaitList[pont_event[u]]
    BY <1>3, <1>6, <2>1, Zenon DEF SemInv, SemEvents, EventInv, Waiter
  <2>2. PriorityOf(t) \notin OSEventWaitList'[s]
    BY <1>3, Zenon DEF SemInv, TypeOK
  <2>. QED  BY <1>2, <1>3, <2>1, <2>2, Zenon DEF SemInv, LocalsInv
<1>. QED  BY <1>2, <1>3, <1>4, <1>5, <1>6, <1>7, <1>8, Zenon DEF SemInv

\* OSSemPost without a waiter.
LEMMA PostCountInv ==
  ASSUME SemInv, NEW s \in Sems, SemPostCount(s)
  PROVE  SemInv' /\ OSEventWaitList[s] = {}
<1>1. KernelInv' /\ KernelTypeOK'
  BY KernelStepInv, Zenon DEF SemInv, KernelInv, SemPostCount
<1>2. SemEvents'
  BY EventSame, Zenon DEF SemInv, SemEvents, SemPostCount, kernelVars, waitVars, semLocals
<1>3. OSEventWaitList[s] = {}
  <2>1. Counts(0, OSEventWaitList[s])
    BY Zenon DEF SemPostCount, SemInv, SemEvents, EventInv
  <2>. QED  BY <2>1, CountZero, Zenon
<1>4. (IF Binary[s] THEN 1 ELSE OSEventCount[s] + 1) \in 0..SEM_MAX
  BY SemFacts DEF SemInv, TypeOK, SemPostCount
<1>5. TypeOK'
  BY <1>1, <1>4, Zenon DEF SemInv, TypeOK, SemPostCount, semLocals
<1>6. LocalsInv'
  BY Zenon DEF SemInv, LocalsInv, SemPostCount, semLocals, kernelVars
<1>7. TableInv'
  BY SemFacts DEF SemInv, TypeOK, TableInv, SemPostCount
<1>. QED  BY <1>1, <1>2, <1>3, <1>5, <1>6, <1>7, Zenon DEF SemInv

(***************************************************************************)
(* Every step preserves the invariant.                                     *)
(***************************************************************************)
LEMMA CreateArguments ==
  ASSUME NEW t, NEW s \in Sems, NEW n \in InitialCounts,
         OSSemCreate(t, s, n) \/ OSSemBinaryCreate(t, s, n)
  PROVE  \E count \in 0..SEM_MAX, binary \in BOOLEAN :
           (binary => count <= 1) /\ Allocate(t, s, count, binary)
<1>1. n \in 0..SEM_MAX /\ (IF n > 1 THEN 1 ELSE 0) \in 0..SEM_MAX
      /\ (IF n > 1 THEN 1 ELSE 0) <= 1
  BY SemaphoreAssumption
<1>. QED  BY <1>1, Zenon DEF OSSemCreate, OSSemBinaryCreate

\* Every step preserves the invariant.
LEMMA SemStepInv ==
  ASSUME Disciplined, SemInv, [Next]_vars
  PROVE  SemInv'
<1>1. ASSUME [KernelNext]_kernelVars, UNCHANGED <<semTable, semLocals>>
      PROVE  SemInv'
  <2>1. KernelInv' /\ KernelTypeOK'
    BY <1>1, KernelStepInv, Zenon DEF SemInv, KernelInv
  <2>2. SemEvents'
    BY <1>1, EventCoreStep, SemFacts, Zenon DEF SemInv, SemEvents, semTable, semLocals
  <2>3. \A t \in Tasks : pc'[t] = "sem" <=> pc[t] = "sem"
    BY <1>1, CoreKeepsWaiters, SemFacts, Zenon DEF SemInv
  <2>. QED  BY <1>1, <2>1, <2>2, <2>3, Zenon
            DEF SemInv, TypeOK, LocalsInv, TableInv, semTable, semLocals
<1>2. ASSUME NEW t \in Tasks, SemStep(t)
      PROVE  SemInv'
  <2>1. ASSUME NEW s \in Sems, NEW n \in InitialCounts,
               OSSemCreate(t, s, n) \/ OSSemBinaryCreate(t, s, n)
        PROVE  SemInv'
    BY <2>1, CreateArguments, AllocateInv, Zenon
  <2>. QED  BY <1>2, <2>1, DeleteInv, PendTakeInv, PendWaitInv, PendTimeoutInv,
               PendOKInv, PostWakeInv, PostCountInv, Zenon DEF SemStep, OSSemPost
<1>3. CASE InterruptPost
  BY <1>3, PostWakeInv, PostCountInv, Zenon DEF InterruptPost, OSSemPost
<1>4. CASE UNCHANGED vars
  BY <1>1, <1>4, Zenon DEF vars
<1>. QED  BY <1>1, <1>2, <1>3, <1>4, Zenon DEF Next, CoreStep

\* SemInv is an invariant of semaphores (semaphore.c).
THEOREM SemaphoreInvariant ==
  ASSUME Disciplined
  PROVE  Spec => []SemInv
<1>1. Init => SemInv
  BY SemInitInv, Zenon
<1>2. SemInv /\ [Next]_vars => SemInv'
  BY SemStepInv, Zenon
<1>. QED  BY <1>1, <1>2, PTL DEF Spec

\* Counts is what it is named for.
LEMMA CountIsCardinality ==
  ASSUME NEW n, NEW L, Counts(n, L)
  PROVE  n = Cardinality(L)
<1>1. PICK f \in [1..n -> L] :
        /\ \A p \in L : \E i \in 1..n : f[i] = p
        /\ \A i, j \in 1..n : f[i] = f[j] => i = j
  BY Zenon DEF Counts
<1>2. f \in Bijection(1..n, L)
  BY <1>1, Zenon DEF Bijection, Injection, Surjection, IsInjective
<1>3. n \in Nat /\ ExistsBijection(1..n, L)
  BY <1>2, Zenon DEF Counts, ExistsBijection
<1>. QED  BY <1>3, FS_CountingElements, Zenon

(***************************************************************************)
(* The counter OSEventWait always is the number of bits of the wait list,  *)
(* so a post never wakes from an empty list nor counts beside a waiter.    *)
(***************************************************************************)
THEOREM SemaphoreWaitCountsWaiters ==
  ASSUME Disciplined
  PROVE  Spec => []WaitCountsWaiters
<1>1. SemInv => WaitCountsWaiters
  BY CountIsCardinality DEF SemInv, SemEvents, EventInv, WaitCountsWaiters
<1>. QED  BY <1>1, SemaphoreInvariant, PTL

(***************************************************************************)
(* A task suspended in OSSemPend and not ready is where a post and, if it  *)
(* gave a time, the tick will find it.                                     *)
(***************************************************************************)
THEOREM SemaphoreWaitersCanBeWoken ==
  ASSUME Disciplined
  PROVE  Spec => []WaitersCanBeWoken
<1>1. SemInv => WaitersCanBeWoken
  BY PriorityOfFacts
  DEF SemInv, SemEvents, EventInv, Waiter, WaitersCanBeWoken, KernelInv, TablesAgree
<1>. QED  BY <1>1, SemaphoreInvariant, PTL

(***************************************************************************)
(* OSSemPend unlinks its task from the delay list only when it is linked.  *)
(***************************************************************************)
THEOREM SemaphoreUnlinksOnlyLinked ==
  ASSUME Disciplined
  PROVE  Spec => []UnlinksOnlyLinked
<1>1. SemInv => UnlinksOnlyLinked
  BY Zenon DEF SemInv, SemEvents, EventInv, Waiter, UnlinksOnlyLinked, KernelInv,
         DelayedAreLinked
<1>. QED  BY <1>1, SemaphoreInvariant, PTL

-----------------------------------------------------------------------------
(***************************************************************************)
(* The semaphores implement SemaphoreSpec.                                 *)
(***************************************************************************)
Waiting == [s \in Sems |-> {t \in Tasks : pont_event[t] = s /\ t \notin posted}]
Granted == [s \in Sems |-> {t \in Tasks : pont_event[t] = s /\ t \in posted}]

\* A task waits in the specification exactly if its priority is in the list.
LEMMA WaitingIsListed ==
  ASSUME SemInv, NEW s \in Sems, NEW t \in Tasks
  PROVE  /\ t \in Waiting[s] => PriorityOf(t) \in OSEventWaitList[s]
         /\ OSEventWaitList[s] = {} => Waiting[s] = {}
  BY SemFacts, Zenon DEF SemInv, LocalsInv, Waiting

\* A step that leaves the locals alone leaves both sets alone.
LEMMA SetsSame ==
  ASSUME UNCHANGED <<pont_event, posted>>
  PROVE  UNCHANGED <<Waiting, Granted>>
  BY Zenon DEF Waiting, Granted

\* Creation and deletion set the value.
LEMMA ResetStep ==
  ASSUME SemInv, NEW s \in Sems, OSEventWaitList[s] = {}, NEW n \in 0..SEM_MAX,
         OSEventCount' = [OSEventCount EXCEPT ![s] = n], UNCHANGED semLocals
  PROVE  Abstract!Next
<1>1. Waiting[s] = {}
  BY SemFacts, Zenon DEF SemInv, LocalsInv, Waiting
<1>2. UNCHANGED <<Waiting, Granted>>
  BY SetsSame, Zenon DEF semLocals
<1>3. Abstract!Reset(s)
  BY <1>1, <1>2, Zenon DEF Abstract!Reset, Waiting, Granted
<1>. QED  BY <1>3, Zenon DEF Abstract!Next

\* A pend takes a token.
LEMMA TakeStep ==
  ASSUME SemInv, NEW t, NEW s \in Sems, SemPendTake(t, s)
  PROVE  Abstract!Next
<1>1. UNCHANGED <<Waiting, Granted>>
  BY SetsSame, Zenon DEF semLocals, SemPendTake
<1>2. Abstract!Take(s)
  BY <1>1, Zenon DEF Abstract!Take, Waiting, Granted, SemPendTake
<1>. QED  BY <1>2, Zenon DEF Abstract!Next

\* A pend joins the waiting tasks.
LEMMA WaitStep ==
  ASSUME SemInv, NEW t \in Tasks, NEW s \in Sems, NEW w, SemPendWait(t, s, w)
  PROVE  Abstract!Next
<1>1. /\ pont_event[t] = NULL /\ t \notin posted /\ posted' = posted
      /\ pont_event' = [pont_event EXCEPT ![t] = s]
      /\ pont_event \in [Tasks -> Sems \cup {NULL}]
      /\ OSEventCount[s] = 0 /\ OSEventCount' = OSEventCount
  BY Zenon DEF SemInv, LocalsInv, TypeOK, SemPendWait, Running
<1>2. \A r \in Sems : t \notin Waiting[r] /\ t \notin Granted[r]
  BY <1>1, SemFacts, Zenon DEF Waiting, Granted
<1>3. Waiting' = [Waiting EXCEPT ![s] = @ \cup {t}]
  BY <1>1, SemFacts, Zenon DEF Waiting
<1>4. Granted' = Granted
  BY <1>1, Zenon DEF Granted
<1>5. Abstract!Wait(s, t)
  BY <1>1, <1>2, <1>3, <1>4, Zenon DEF Abstract!Wait, Waiting, Granted
<1>. QED  BY <1>5, Zenon DEF Abstract!Next

\* A pend returns: the task leaves the set it is in.
LEMMA ReturnStep ==
  ASSUME SemInv, NEW t \in Tasks, pont_event[t] \in Sems, PendReturn(t),
         OSEventCount' = OSEventCount
  PROVE  Abstract!Next
<1>. PICK s \in Sems : s = pont_event[t]
  BY Zenon
<1>1. /\ pont_event' = [pont_event EXCEPT ![t] = NULL] /\ posted' = posted \ {t}
      /\ pont_event \in [Tasks -> Sems \cup {NULL}]
  BY Zenon DEF SemInv, TypeOK, PendReturn
<1>2. CASE t \in posted
  <2>1. t \in Granted[s] /\ Granted' = [Granted EXCEPT ![s] = @ \ {t}]
    BY <1>1, <1>2, SemFacts, Zenon DEF Granted
  <2>2. Waiting' = Waiting
    BY <1>1, <1>2, SemFacts, Zenon DEF Waiting
  <2>3. Abstract!ReturnOK(s, t)
    BY <2>1, <2>2, Zenon DEF Abstract!ReturnOK, Waiting, Granted
  <2>. QED  BY <2>3, Zenon DEF Abstract!Next
<1>3. CASE t \notin posted
  <2>1. t \in Waiting[s] /\ Waiting' = [Waiting EXCEPT ![s] = @ \ {t}]
    BY <1>1, <1>3, SemFacts, Zenon DEF Waiting
  <2>2. Granted' = Granted
    BY <1>1, <1>3, SemFacts, Zenon DEF Granted
  <2>3. Abstract!ReturnTimeout(s, t)
    BY <2>1, <2>2, Zenon DEF Abstract!ReturnTimeout, Waiting, Granted
  <2>. QED  BY <2>3, Zenon DEF Abstract!Next
<1>. QED  BY <1>2, <1>3, Zenon

\* A post grants the highest waiter, or adds a token.
LEMMA PostStep ==
  ASSUME SemInv, NEW s \in Sems, OSSemPost(s)
  PROVE  Abstract!Next \/ UNCHANGED Abstract!vars
<1>1. CASE SemPostWake(s)
  <2>1. PICK t \in Tasks :
          /\ pont_event[t] = s /\ t \notin posted /\ posted' = posted \cup {t}
          /\ IsHighest(PriorityOf(t), OSEventWaitList[s])
    BY <1>1, PostWakeInv, Zenon
  <2>2. pont_event' = pont_event /\ OSEventCount' = OSEventCount
    BY <1>1, Zenon DEF SemPostWake
  <2>3. t \in Waiting[s] /\ \A u \in Waiting[s] : TaskPriority[u] <= TaskPriority[t]
    <3>1. t \in Waiting[s]
      BY <2>1, Zenon DEF Waiting
    <3>2. ASSUME NEW u \in Waiting[s]
          PROVE  TaskPriority[u] <= TaskPriority[t]
      <4>1. u \in Tasks /\ PriorityOf(u) \in OSEventWaitList[s]
        BY WaitingIsListed, Zenon DEF Waiting
      <4>2. PriorityOf(u) <= PriorityOf(t)
        BY <2>1, <4>1, Zenon DEF IsHighest
      <4>. QED  BY <4>1, <4>2, PriorityOfFacts, Zenon DEF PriorityOf
    <3>. QED  BY <3>1, <3>2, Zenon
  <2>4. /\ Waiting' = [Waiting EXCEPT ![s] = @ \ {t}]
        /\ Granted' = [Granted EXCEPT ![s] = @ \cup {t}]
    BY <2>1, <2>2, Zenon DEF Waiting, Granted
  <2>5. Abstract!Grant(s, t)
    BY <2>2, <2>3, <2>4, Zenon DEF Abstract!Grant, Waiting, Granted
  <2>. QED  BY <2>5, Zenon DEF Abstract!Next
<1>2. CASE SemPostCount(s)
  <2>1. Waiting[s] = {} /\ UNCHANGED <<Waiting, Granted>>
    BY <1>2, PostCountInv, SetsSame, SemFacts, Zenon
    DEF SemPostCount, semLocals, SemInv, LocalsInv, Waiting
  <2>2. /\ OSEventCount \in [Sems -> 0..SEM_MAX] /\ OSEventCount[s] < SEM_MAX
        /\ Binary[s] => OSEventCount[s] <= 1
        /\ OSEventCount' = [OSEventCount EXCEPT ![s] = IF Binary[s] THEN 1 ELSE @ + 1]
    BY <1>2, Zenon DEF SemPostCount, SemInv, TypeOK, TableInv
  <2>3. \/ OSEventCount' = OSEventCount
        \/ OSEventCount' = [OSEventCount EXCEPT ![s] = @ + 1]
    <3>1. CASE Binary[s] /\ OSEventCount[s] = 1
      BY <2>2, <3>1, Zenon
    <3>2. CASE OSEventCount[s] = 0
      BY <2>2, <3>2
    <3>3. CASE ~Binary[s]
      BY <2>2, <3>3, Zenon
    <3>. QED  BY <2>2, <3>1, <3>2, <3>3, SemFacts
  <2>4. CASE OSEventCount' = OSEventCount
    BY <2>1, <2>4, Zenon DEF Abstract!vars, Waiting, Granted
  <2>5. CASE OSEventCount' = [OSEventCount EXCEPT ![s] = @ + 1]
    <3>1. Abstract!Count(s)
      BY <2>1, <2>2, <2>5, Zenon DEF Abstract!Count, Waiting, Granted
    <3>. QED  BY <3>1, Zenon DEF Abstract!Next
  <2>. QED  BY <2>3, <2>4, <2>5, Zenon
<1>. QED  BY <1>1, <1>2, Zenon DEF OSSemPost

(***************************************************************************)
(* Every step of the code is a step of the specification or none: creating *)
(* or deleting sets the value of a semaphore without waiters, a pend that  *)
(* returns OK was granted its token, one that returns TIMEOUT was not, and *)
(* a post grants the waiter of highest priority.                           *)
(***************************************************************************)
THEOREM SemaphoreRefines ==
  ASSUME Disciplined
  PROVE  Spec => ImplementsSemaphoreSpec
<1>1. Init => Abstract!Init
  <2>. SUFFICES ASSUME Init
                PROVE  Abstract!Init
    BY Zenon
  <2>1. Waiting = [s \in Sems |-> {}] /\ Granted = [s \in Sems |-> {}]
    BY SemFacts, Zenon DEF Init, Waiting, Granted
  <2>. QED  BY <2>1, Zenon DEF Init, Abstract!Init, Waiting, Granted
<1>2. SemInv /\ [Next]_vars => [Abstract!Next]_(Abstract!vars)
  <2>. SUFFICES ASSUME SemInv, [Next]_vars
                PROVE  Abstract!Next \/ UNCHANGED Abstract!vars
    BY Zenon
  <2>1. ASSUME UNCHANGED <<semTable, semLocals>>
        PROVE  UNCHANGED Abstract!vars
    BY <2>1, SetsSame, Zenon DEF semTable, semLocals, Abstract!vars, Waiting, Granted
  <2>2. ASSUME NEW t \in Tasks, SemStep(t)
        PROVE  Abstract!Next \/ UNCHANGED Abstract!vars
    <3>1. ASSUME NEW s \in Sems, NEW n \in InitialCounts,
                 OSSemCreate(t, s, n) \/ OSSemBinaryCreate(t, s, n)
          PROVE  Abstract!Next
      <4>1. PICK count \in 0..SEM_MAX, binary \in BOOLEAN :
              (binary => count <= 1) /\ Allocate(t, s, count, binary)
        BY <3>1, CreateArguments, Zenon
      <4>2. OSEventWaitList[s] = {}
        BY <4>1, AllocateInv, Zenon
      <4>3. /\ OSEventCount' = [OSEventCount EXCEPT ![s] = count]
            /\ UNCHANGED semLocals
        BY <4>1, Zenon DEF Allocate
      <4>. QED  BY <4>2, <4>3, ResetStep, Zenon
    <3>2. ASSUME NEW s \in Sems, OSSemDelete(t, s)
          PROVE  Abstract!Next
      <4>1. 0 \in 0..SEM_MAX
        BY SemFacts
      <4>. QED  BY <3>2, <4>1, DeleteInv, ResetStep, Zenon DEF OSSemDelete
    <3>3. SemPendTimeout(t) => Abstract!Next
      BY PendTimeoutInv, ReturnStep, Zenon DEF SemPendTimeout
    <3>4. SemPendOK(t) => Abstract!Next
      BY PendOKInv, ReturnStep, Zenon DEF SemPendOK, semTable
    <3>. QED  BY <2>2, <3>1, <3>2, <3>3, <3>4, TakeStep, WaitStep, PostStep, Zenon
              DEF SemStep
  <2>3. CASE InterruptPost
    BY <2>3, PostStep, Zenon DEF InterruptPost
  <2>. QED  BY <2>1, <2>2, <2>3, Zenon DEF Next, CoreStep, vars
<1>. QED  BY <1>1, <1>2, SemaphoreInvariant, PTL
          DEF Spec, ImplementsSemaphoreSpec, Abstract!Spec

=============================================================================
