---------------------------- MODULE KernelFacts -----------------------------
(***************************************************************************)
(* The scheduler's decision tree, and what the other proofs use of the     *)
(* core: its priorities, its deadlines and the size of its wait lists.     *)
(***************************************************************************)
EXTENDS Kernel, TLAPS

(***************************************************************************)
(* SAScheduler is correct for every 32-bit priority list.                  *)
(***************************************************************************)
\* b is the most significant bit of the list L.
IsHighest(b, L) == b \in L /\ \A c \in L : c <= b

\* The highest bit of L is one of the n from base on.
HighestWithin(L, base, n) ==
  (\E b \in L : b >= base) /\ (\A b \in L : b < base + n)

(***************************************************************************)
(* Two-way decision: SA2 is right when the highest bit is one of the two.  *)
(***************************************************************************)
LEMMA SA2Correct ==
  ASSUME NEW L \in SUBSET Priorities, NEW base \in Nat, HighestWithin(L, base, 2)
  PROVE  IsHighest(SA2(L, base), L)
  BY DEF SA2, Above, IsHighest, HighestWithin, Priorities, MAX_PRIORITY

(***************************************************************************)
(* One comparison splits four priorities in two pairs.                     *)
(***************************************************************************)
LEMMA SA4Correct ==
  ASSUME NEW L \in SUBSET Priorities, NEW base \in Nat, HighestWithin(L, base, 4)
  PROVE  IsHighest(SA4(L, base), L)
<1>a. \A b \in L : b \in Int
  BY DEF Priorities, MAX_PRIORITY
<1>1. CASE Above(L, base + 2)
  <2>1. HighestWithin(L, base + 2, 2)
    BY <1>a, <1>1 DEF HighestWithin, Above
  <2>. QED  BY <1>1, <2>1, SA2Correct, base + 2 \in Nat DEF SA4
<1>2. CASE ~Above(L, base + 2)
  <2>1. HighestWithin(L, base, 2)
    BY <1>a, <1>2 DEF HighestWithin, Above
  <2>. QED  BY <1>2, <2>1, SA2Correct DEF SA4
<1>. QED  BY <1>1, <1>2

(***************************************************************************)
(* One comparison splits eight priorities in two halves.                   *)
(***************************************************************************)
LEMMA SA8Correct ==
  ASSUME NEW L \in SUBSET Priorities, NEW base \in Nat, HighestWithin(L, base, 8)
  PROVE  IsHighest(SA8(L, base), L)
<1>a. \A b \in L : b \in Int
  BY DEF Priorities, MAX_PRIORITY
<1>1. CASE Above(L, base + 4)
  <2>1. HighestWithin(L, base + 4, 4)
    BY <1>a, <1>1 DEF HighestWithin, Above
  <2>. QED  BY <1>1, <2>1, SA4Correct, base + 4 \in Nat DEF SA8
<1>2. CASE ~Above(L, base + 4)
  <2>1. HighestWithin(L, base, 4)
    BY <1>a, <1>2 DEF HighestWithin, Above
  <2>. QED  BY <1>2, <2>1, SA4Correct DEF SA8
<1>. QED  BY <1>1, <1>2

(***************************************************************************)
(* One comparison splits sixteen priorities in two halves.                 *)
(***************************************************************************)
LEMMA SA16Correct ==
  ASSUME NEW L \in SUBSET Priorities, NEW base \in Nat, HighestWithin(L, base, 16)
  PROVE  IsHighest(SA16(L, base), L)
<1>a. \A b \in L : b \in Int
  BY DEF Priorities, MAX_PRIORITY
<1>1. CASE Above(L, base + 8)
  <2>1. HighestWithin(L, base + 8, 8)
    BY <1>a, <1>1 DEF HighestWithin, Above
  <2>. QED  BY <1>1, <2>1, SA8Correct, base + 8 \in Nat DEF SA16
<1>2. CASE ~Above(L, base + 8)
  <2>1. HighestWithin(L, base, 8)
    BY <1>a, <1>2 DEF HighestWithin, Above
  <2>. QED  BY <1>2, <2>1, SA8Correct DEF SA16
<1>. QED  BY <1>1, <1>2

(***************************************************************************)
(* The decision tree returns the highest bit of every nonempty list: the   *)
(* priority OSSchedule runs, and the one a post or a release wakes.        *)
(***************************************************************************)
THEOREM SASchedulerHighest ==
  ASSUME NEW L \in SUBSET Priorities, L # {}
  PROVE  IsHighest(SAScheduler(L), L)
<1>a. \A b \in L : b \in Int /\ b >= 0 /\ b < 32
  BY DEF Priorities, MAX_PRIORITY
<1>1. CASE Above(L, 16)
  <2>1. HighestWithin(L, 16, 16)
    BY <1>a, <1>1 DEF HighestWithin, Above
  <2>. QED  BY <1>1, <2>1, SA16Correct DEF SAScheduler
<1>2. CASE ~Above(L, 16)
  <2>1. HighestWithin(L, 0, 16)
    BY <1>a, <1>2 DEF HighestWithin, Above
  <2>. QED  BY <1>2, <2>1, SA16Correct DEF SAScheduler
<1>. QED  BY <1>1, <1>2

(***************************************************************************)
(* An empty list gives priority 0: with no unblocked ready task OSSchedule *)
(* falls back on the idle task.                                            *)
(***************************************************************************)
THEOREM SASchedulerEmpty == SAScheduler({}) = 0
  BY DEF SAScheduler, SA16, SA8, SA4, SA2, Above

-----------------------------------------------------------------------------
(***************************************************************************)
(* Priorities identify the installed tasks and the idle task.              *)
(***************************************************************************)
LEMMA PriorityOfFacts ==
  /\ Tasks \subseteq Handles /\ Idle \in Handles /\ Idle \notin Tasks
  /\ \A h \in Handles : PriorityOf(h) \in Priorities
  /\ \A g, h \in Handles : PriorityOf(g) = PriorityOf(h) => g = h
  /\ PriorityOf(Idle) = 0
  /\ \A h \in Handles : h \in Tasks \/ h = Idle
<1>1. NumTasks \in Nat /\ NumTasks >= 1
  BY KernelAssumption
<1>2. /\ Tasks \subseteq Handles /\ Idle \in Handles /\ Idle \notin Tasks
      /\ \A h \in Handles : h \in Tasks \/ h = Idle
  BY <1>1 DEF Tasks, Handles, Idle
<1>3. \A t \in Tasks : TaskPriority[t] \in 1..31 /\ PriorityOf(t) = TaskPriority[t]
  BY <1>2, KernelAssumption DEF PriorityOf, MAX_PRIORITY
<1>4. PriorityOf(Idle) = 0
  BY DEF PriorityOf
<1>5. \A h \in Handles : PriorityOf(h) \in Priorities
  BY <1>2, <1>3, <1>4 DEF Priorities, MAX_PRIORITY
<1>6. ASSUME NEW g \in Handles, NEW h \in Handles, PriorityOf(g) = PriorityOf(h)
      PROVE  g = h
  <2>1. CASE g \in Tasks /\ h \in Tasks
    BY <1>3, <1>6, <2>1, KernelAssumption
  <2>2. CASE g = Idle \/ h = Idle
    BY <1>2, <1>3, <1>4, <1>6, <2>2
  <2>. QED  BY <1>2, <2>1, <2>2
<1>. QED  BY <1>2, <1>4, <1>5, <1>6

(***************************************************************************)
(* Removing bits other than the highest does not change the choice.        *)
(***************************************************************************)
LEMMA SameChoice ==
  ASSUME NEW L \in SUBSET Priorities, NEW M \in SUBSET L, NEW p \in M,
         IsHighest(p, L)
  PROVE  SAScheduler(M) = p
<1>1. M \in SUBSET Priorities /\ M # {}
  OBVIOUS
<1>2. IsHighest(SAScheduler(M), M)
  BY <1>1, SASchedulerHighest
<1>3. \A c \in L : c \in Int
  BY DEF Priorities, MAX_PRIORITY
<1>. QED  BY <1>2, <1>3 DEF IsHighest

(***************************************************************************)
(* The range of a deadline, whatever time is asked for.                    *)
(***************************************************************************)
LEMMA DeadlineType ==
  ASSUME KernelTypeOK, NEW w \in 0..MAX_TIMER
  PROVE  Deadline(w) \in 0..MAX_TIMER
  BY KernelAssumption DEF KernelTypeOK, Deadline, TICK_COUNT_OVERFLOW

(***************************************************************************)
(* A deadline within a revolution of the counter is a value the counter    *)
(* takes, so it is none of the marks kept in TimeToWait.                   *)
(***************************************************************************)
LEMMA DeadlineFits ==
  ASSUME KernelTypeOK, NEW w \in 0..TICK_COUNT_OVERFLOW
  PROVE  Deadline(w) # EXIT_BY_TIMEOUT /\ NO_TIMEOUT # EXIT_BY_TIMEOUT
  BY KernelAssumption
  DEF KernelTypeOK, Deadline, TICK_COUNT_OVERFLOW, EXIT_BY_TIMEOUT, NO_TIMEOUT

(***************************************************************************)
(* n is the number of tasks in wait list L: the tasks can be numbered from *)
(* 1 to n.  (Cardinality(L) = n says the same; this form spares the        *)
(* proofs of the event services the theory of finite sets.)                *)
(***************************************************************************)
Counts(n, L) ==
  /\ n \in Nat
  /\ \E f \in [1..n -> L] :
       /\ \A p \in L : \E i \in 1..n : f[i] = p
       /\ \A i, j \in 1..n : f[i] = f[j] => i = j

(***************************************************************************)
(* Counting follows insertions and removals.                               *)
(***************************************************************************)
LEMMA CountNone ==
  Counts(0, {})
<1>. DEFINE f == [i \in 1..0 |-> i]
<1>1. f \in [1..0 -> {}] /\ \A i \in 1..0 : FALSE
  OBVIOUS
<1>. QED  BY <1>1 DEF Counts

\* No bit is counted in the empty list only.
LEMMA CountZero ==
  ASSUME NEW n, NEW L, Counts(n, L)
  PROVE  n \in Nat /\ (n = 0 <=> L = {})
  BY DEF Counts

\* One more bit, one more counted.
LEMMA CountInsert ==
  ASSUME NEW n, NEW L, Counts(n, L), NEW p, p \notin L
  PROVE  Counts(n + 1, L \cup {p})
<1>1. PICK f \in [1..n -> L] :
        /\ \A q \in L : \E i \in 1..n : f[i] = q
        /\ \A i, j \in 1..n : f[i] = f[j] => i = j
  BY DEF Counts
<1>. DEFINE g == [i \in 1..(n + 1) |-> IF i = n + 1 THEN p ELSE f[i]]
<1>2. n \in Nat
  BY DEF Counts
<1>3. g \in [1..(n + 1) -> L \cup {p}]
  BY <1>2
<1>4. \A q \in L \cup {p} : \E i \in 1..(n + 1) : g[i] = q
  BY <1>1, <1>2
<1>5. \A i, j \in 1..(n + 1) : g[i] = g[j] => i = j
  BY <1>1, <1>2
<1>6. n + 1 \in Nat
  BY <1>2
<1>. HIDE DEF g
<1>. QED  BY <1>3, <1>4, <1>5, <1>6 DEF Counts

\* The last task takes the number of the one removed.
LEMMA CountRemove ==
  ASSUME NEW n, NEW L, Counts(n, L), NEW p \in L
  PROVE  n > 0 /\ Counts(n - 1, L \ {p})
<1>1. PICK f \in [1..n -> L] :
        /\ \A q \in L : \E i \in 1..n : f[i] = q
        /\ \A i, j \in 1..n : f[i] = f[j] => i = j
  BY DEF Counts
<1>2. PICK k \in 1..n : f[k] = p
  BY <1>1
<1>3. n \in Nat /\ n > 0
  BY <1>2 DEF Counts
<1>. DEFINE g == [i \in 1..(n - 1) |-> IF i = k THEN f[n] ELSE f[i]]
<1>4. g \in [1..(n - 1) -> L \ {p}]
  BY <1>1, <1>2, <1>3
<1>5. \A q \in L \ {p} : \E i \in 1..(n - 1) : g[i] = q
  BY <1>1, <1>2, <1>3
<1>6. \A i, j \in 1..(n - 1) : g[i] = g[j] => i = j
  BY <1>1, <1>2, <1>3
<1>7. n - 1 \in Nat
  BY <1>3
<1>. HIDE DEF g
<1>. QED  BY <1>3, <1>4, <1>5, <1>6, <1>7 DEF Counts

-----------------------------------------------------------------------------
(***************************************************************************)
(* The inductive invariant.  RunsHighest needs that a task on the CPU is   *)
(* ready (so that leaving a service finds it ready), which needs the       *)
(* priority tables to be consistent; the tick needs its cursor to be in    *)
(* the delay list.                                                         *)
(***************************************************************************)
TablesAgree ==
  /\ Priority = [h \in Handles |-> PriorityOf(h)]
  /\ \A h \in Handles : PriorityVector[PriorityOf(h)] = h
  /\ \A p \in OSReadyList : \E h \in Handles : p = PriorityOf(h)

WalkIsLinked == tickList \subseteq DelayList /\ (inTick \/ tickList = {})

KernelInv ==
  KernelTypeOK /\ TablesAgree /\ WalkIsLinked /\ RunsHighest /\ DelayedAreLinked

(***************************************************************************)
(* BRTOSStart() establishes the invariant.                                 *)
(***************************************************************************)
LEMMA KernelInitInv ==
  ASSUME KernelInit
  PROVE  KernelInv
<1>1. PriorityVector \in [Priorities -> Handles \cup {EMPTY_PRIO, MUTEX_PRIO}]
  <2>1. ASSUME NEW p \in Priorities, p \in OSReadyList
        PROVE  (CHOOSE h \in Handles : PriorityOf(h) = p) \in Handles
    BY <2>1 DEF KernelInit
  <2>. QED  BY <2>1 DEF KernelInit
<1>2. TablesAgree
  <2>1. ASSUME NEW h \in Handles
        PROVE  PriorityVector[PriorityOf(h)] = h
    <3>1. PriorityOf(h) \in OSReadyList /\ PriorityOf(h) \in Priorities
      BY PriorityOfFacts DEF KernelInit
    <3>2. PriorityVector[PriorityOf(h)] =
            CHOOSE g \in Handles : PriorityOf(g) = PriorityOf(h)
      BY <3>1 DEF KernelInit
    <3>3. \A g \in Handles : PriorityOf(g) = PriorityOf(h) => g = h
      BY PriorityOfFacts
    <3>. QED  BY <3>2, <3>3
  <2>. QED  BY <2>1 DEF TablesAgree, KernelInit
<1>3. RunsHighest
  <2>1. OSReadyList \subseteq Priorities
    BY PriorityOfFacts DEF KernelInit
  <2>2. OSReadyList \cap OSBlockedList = OSReadyList
    BY <2>1 DEF KernelInit
  <2>. QED  BY <2>2 DEF RunsHighest, OSSchedule, KernelInit
<1>4. KernelTypeOK
  <2>1. 0 \in 0..(TICK_COUNT_OVERFLOW - 1) /\ NO_TIMEOUT \in 0..MAX_TIMER
        /\ 0 \in 0..MAX_TIMER
    BY KernelAssumption DEF TICK_COUNT_OVERFLOW, NO_TIMEOUT
  <2>2. OSReadyList \subseteq Priorities
        /\ Priority \in [Handles -> Priorities]
    BY PriorityOfFacts DEF KernelInit
  <2>3. currentTask \in Handles
    <3>1. OSReadyList # {}
      BY PriorityOfFacts DEF KernelInit
    <3>2. SAScheduler(OSReadyList) \in OSReadyList
      BY <2>2, <3>1, SASchedulerHighest DEF IsHighest
    <3>3. PICK h \in Handles : SAScheduler(OSReadyList) = PriorityOf(h)
      BY <1>2, <3>2 DEF TablesAgree
    <3>. QED  BY <1>2, <3>3 DEF TablesAgree, KernelInit
  <2>. QED  BY <1>1, <2>1, <2>2, <2>3 DEF KernelTypeOK, KernelInit, Services
<1>5. WalkIsLinked
  BY DEF WalkIsLinked, KernelInit
<1>6. DelayedAreLinked
  BY PriorityOfFacts DEF DelayedAreLinked, KernelInit
<1>. QED  BY <1>2, <1>3, <1>4, <1>5, <1>6 DEF KernelInv

=============================================================================
