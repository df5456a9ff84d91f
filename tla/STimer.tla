------------------------------- MODULE STimer -------------------------------
(***************************************************************************)
(* Software timers (stimer.c): two binary heaps of timers, the current one *)
(* for deadlines before the tick counter wraps and the future one for      *)
(* deadlines after, and a task that sleeps until the first deadline, calls *)
(* the callbacks that are due and exchanges the heaps.                     *)
(*                                                                         *)
(* The timer task works outside critical sections, except where it moves a *)
(* timer: each access to shared state is a step of its own, between which  *)
(* the tick and tasks of higher priority run.  What a callback does with   *)
(* timers is a call of a client at that point; only its result is kept.    *)
(* The system is observed after OSTimerInit().                             *)
(***************************************************************************)
EXTENDS Kernel, Integers

CONSTANTS
  BRTOS_MAX_TIMER,  \* timer blocks, and the size of each heap's array
  TimerTask,        \* handle of the task OSTimerInit() installs
  Clients,          \* the tasks that call the timer services
  SetTimes,         \* the values of time_wait they pass
  Repeats,          \* the results of callbacks: the next period, or 0
  MaxTimers,        \* bound: timers the application has in use
  Restart           \* the application also starts running timers

ASSUME STimerAssumption ==
  /\ BRTOS_MAX_TIMER \in Nat /\ BRTOS_MAX_TIMER > 1
  /\ TimerTask \in Tasks /\ Clients \subseteq Tasks \ {TimerTask}
  /\ SetTimes \subseteq 0..MAX_TIMER /\ Repeats \subseteq 0..MAX_TIMER
  /\ MaxTimers \in 1..BRTOS_MAX_TIMER
  /\ Restart \in BOOLEAN

Blocks == 1..BRTOS_MAX_TIMER
NULL == 0
Slots == 0..(BRTOS_MAX_TIMER - 1)
Lists == {"PING", "PONG"}
TIMER_MAX_COUNTER == TICK_COUNT_OVERFLOW - 1

VARIABLES
  mem,            \* the timer blocks: func_cb (set or not), timeout, state
  heap,           \* BRTOS_TMR_PING and BRTOS_TMR_PONG: timers and count
  current,        \* the list of this turn of the tick counter
  future,         \* the list of the next one
  handling_task,  \* the timer task, once it has started
  tpc,            \* where the timer task is
  p,              \* its local variables: the timer at hand,
  list,           \* the list it works on,
  beyond,         \* and whether the last timeout it computed overflowed
  due,            \* history: ticks until a timer is due, negative when late
  astray,         \* history: timers the lists do not order by time (see Mark)
  stopped         \* history: a timer was stopped since the last sleep

serviceVars == <<mem, heap, due, astray, stopped>>
taskVars == <<tpc, p, list, beyond>>
listVars == <<current, future>>
timerVars == <<serviceVars, taskVars, listVars, handling_task>>
vars == <<kernelVars, timerVars>>

Free == [func_cb |-> FALSE, timeout |-> 0, state |-> "NOT_USED"]
EmptyHeap == [timers |-> [i \in Slots |-> NULL], count |-> 0]

STimerInit ==
  /\ KernelInit
  /\ mem = [b \in Blocks |-> Free]
  /\ heap = [l \in Lists |-> EmptyHeap]
  /\ current = "PING" /\ future = "PONG"
  /\ handling_task = NULL
  /\ tpc = "start" /\ p = NULL /\ list = "PING" /\ beyond = FALSE
  /\ due = [b \in Blocks |-> 0]
  /\ astray = {} /\ stopped = FALSE

-----------------------------------------------------------------------------
(***************************************************************************)
(* The heaps.  timers is the array, m the timer blocks.                    *)
(***************************************************************************)
Exchange(timers, i, j) == [timers EXCEPT ![i] = timers[j], ![j] = timers[i]]

RECURSIVE Subir(_, _, _)
Subir(timers, m, i) ==
  IF i > 1 /\ m[timers[i \div 2]].timeout > m[timers[i]].timeout
    THEN Subir(Exchange(timers, i \div 2, i), m, i \div 2)
    ELSE timers

DescerLeft(timers, m, i, n) ==
  LET son == 2 * i
  IN  IF son <= n /\ m[timers[son]].timeout < m[timers[i]].timeout
        THEN Exchange(timers, son, i) ELSE timers

RECURSIVE Descer(_, _, _, _)
Descer(timers, m, i, n) ==
  LET left  == 2 * i
      right == 2 * i + 1
      son == IF right <= n /\ m[timers[right]].timeout < m[timers[left]].timeout
               THEN right ELSE left
  IN  IF son <= n /\ m[timers[son]].timeout < m[timers[i]].timeout
        THEN Descer(Exchange(timers, son, i), m, son, n)
        ELSE timers

\* Append b, over the last timer when the array is full, and order.
Insert(h, m, b) ==
  LET count == IF h.count < BRTOS_MAX_TIMER - 1 THEN h.count + 1 ELSE h.count
  IN  [timers |-> Subir([h.timers EXCEPT ![count] = b], m, count),
       count  |-> count]

\* Take the root out, put the last timer in its place, and order.
RemoveRoot(h, m) ==
  LET count == IF h.count > 0 THEN h.count - 1 ELSE 0
      timers == [h.timers EXCEPT ![1] = h.timers[h.count], ![h.count] = NULL]
  IN  [timers |-> Descer(timers, m, 1, count), count |-> count]

Root(l) == heap[l].timers[1]

Contents(l) == {heap[l].timers[i] : i \in 1..heap[l].count}

Listed(b) == \E l \in Lists : b \in Contents(l)

-----------------------------------------------------------------------------
(***************************************************************************)
(* The services, called by tasks.  Start, Stop and Get take a timer the    *)
(* application has set.                                                    *)
(***************************************************************************)
\* The timer task has taken its next deadline and is not asleep yet.
FallingAsleep == pc[TimerTask] = "app" /\ tpc \in {"sleep", "link"}

KeepDeadline(deadline, root) == UNCHANGED TimeToWait

\* The new first deadline becomes the timer task's.
AdvanceWake(deadline, root) ==
  IF handling_task # NULL /\ deadline = root.timeout
    THEN TimeToWait' = [TimeToWait EXCEPT ![handling_task] = deadline]
    ELSE UNCHANGED TimeToWait

(***************************************************************************)
(* Timers the lists do not order by time: armed beyond the wrap of the     *)
(* counter, or into a list with such a timer, or listed when the counter   *)
(* outran the timer task.                                                  *)
(***************************************************************************)
Mark(b, wraps, l) ==
  astray' = IF wraps \/ (Contents(l) \ {b}) \cap astray # {}
               THEN astray \cup {b} ELSE astray \ {b}

\* Start block b, whose callback is set, to expire in time_wait ticks.
Arm(b, time_wait) ==
  LET deadline == OSTickCounter + time_wait
      wraps == deadline >= TICK_COUNT_OVERFLOW
      to == IF wraps THEN deadline - TICK_COUNT_OVERFLOW ELSE deadline
      l == IF wraps THEN future ELSE current
      m == [mem EXCEPT ![b] = [func_cb |-> TRUE, timeout |-> to,
                               state |-> "RUNNING"]]
      h == Insert(heap[l], m, b)
  IN  /\ mem' = m
      /\ heap' = [heap EXCEPT ![l] = h]
      /\ IF wraps THEN UNCHANGED TimeToWait
                  ELSE AdvanceWake(to, m[h.timers[1]])
      /\ due' = [due EXCEPT ![b] = time_wait]
      /\ Mark(b, wraps, l)
      /\ UNCHANGED stopped

FirstFree(b) ==
  /\ mem[b].state = "NOT_USED"
  /\ \A i \in 1..(b - 1) : mem[i].state # "NOT_USED"

serviceUnchanged ==
  UNCHANGED <<taskVars, listVars, handling_task, tickVars, prioVars, DelayList,
              ticksLeft, currentTask, OSReadyList, OSBlockedList, pendSV, pc>>

OSTimerSet(c, time_wait) ==
  /\ Running(c)
  /\ \E b \in Blocks :
       /\ FirstFree(b)
       /\ \/ time_wait > 0 /\ Arm(b, time_wait)
          \/ /\ time_wait = 0
             /\ mem' = [mem EXCEPT ![b].state = "STOPPED", ![b].func_cb = TRUE]
             /\ UNCHANGED <<heap, due, astray, stopped, TimeToWait>>
  /\ serviceUnchanged

OSTimerStart(c, b, time_wait) ==
  /\ Running(c)
  /\ time_wait # 0
  /\ Arm(b, IF time_wait > TIMER_MAX_COUNTER THEN TIMER_MAX_COUNTER
                                             ELSE time_wait)
  /\ serviceUnchanged

\* The list OSTimerStop searches: told from the deadline, not looked up.
StopList(b) == IF mem[b].timeout >= OSTickCounter THEN current ELSE future

StateAfterStop(del) == IF del THEN "NOT_USED" ELSE "STOPPED"

OSTimerStop(c, b, del) ==
  LET l == StopList(b)
      h == heap[l]
      m == [mem EXCEPT ![b] = [func_cb |-> ~del, timeout |-> 0,
                               state |-> StateAfterStop(del)]]
      pos_timer == CHOOSE i \in 1..h.count : h.timers[i] = b
  IN  /\ Running(c)
      /\ b \in Contents(l)
      /\ mem' = m
      /\ heap' = [heap EXCEPT ![l] =
           RemoveRoot([h EXCEPT !.timers = Subir(h.timers, m, pos_timer)], m)]
      /\ due' = [due EXCEPT ![b] = 0]
      /\ astray' = astray \ {b}
      /\ stopped' = TRUE
      /\ UNCHANGED TimeToWait
      /\ serviceUnchanged

OSTimerGetOneShort(b) ==
  IF mem[b].timeout >= OSTickCounter
    THEN mem[b].timeout - OSTickCounter
    ELSE TIMER_MAX_COUNTER - OSTickCounter + mem[b].timeout

\* What OSTimerGet returns for a running timer.
OSTimerGet(b) ==
  IF mem[b].timeout >= OSTickCounter
    THEN mem[b].timeout - OSTickCounter
    ELSE TIMER_MAX_COUNTER - OSTickCounter + mem[b].timeout + 1

-----------------------------------------------------------------------------
(***************************************************************************)
(* The timer task.                                                         *)
(***************************************************************************)
coreUnchanged ==
  UNCHANGED <<tickVars, waitVars, prioVars, currentTask, OSReadyList,
              OSBlockedList, pendSV, pc>>

At(label) == Running(TimerTask) /\ tpc = label

TimerTaskStart ==
  /\ At("start")
  /\ handling_task' = TimerTask
  /\ list' = current /\ p' = Root(current)
  /\ tpc' = "sleep"
  /\ coreUnchanged
  /\ UNCHANGED <<serviceVars, listVars, beyond>>

\* The next deadline is taken and written outside the critical section.
TakeDeadline ==
  /\ At("sleep")
  /\ TimeToWait' = [TimeToWait EXCEPT ![TimerTask] =
       IF p # NULL THEN mem[p].timeout ELSE TIMER_MAX_COUNTER]
  /\ tpc' = "link"
  /\ UNCHANGED <<tickVars, prioVars, DelayList, ticksLeft, currentTask,
                 OSReadyList, OSBlockedList, pendSV, pc, serviceVars, listVars,
                 handling_task, p, list, beyond>>

BRTOS_TimerTaskSleep ==
  /\ At("link")
  /\ IncludeTaskIntoDelayList(TimerTask)
  /\ OSReadyList' = OSReadyList \ {Priority[TimerTask]}
  /\ ChangeContext
  /\ pc' = [pc EXCEPT ![TimerTask] = "timer"]
  /\ tpc' = "woken"
  /\ p' = NULL   \* read again on waking
  /\ UNCHANGED <<tickVars, prioVars, TimeToWait, ticksLeft, currentTask,
                 OSBlockedList, serviceVars, listVars, handling_task, list,
                 beyond>>

TimerTaskWoken ==
  /\ Resumed(TimerTask, "timer")
  /\ pc' = [pc EXCEPT ![TimerTask] = "app"]
  /\ list' = current /\ p' = Root(current)
  /\ tpc' = "test"
  /\ UNCHANGED <<tickVars, waitVars, prioVars, currentTask, OSReadyList,
                 OSBlockedList, pendSV, serviceVars, listVars, handling_task,
                 beyond>>

WrappedOrDue == p # NULL /\ mem[p].timeout >= OSTickCounter

\* A first deadline ahead of the counter means that the counter wrapped.
CounterWrapped == p # NULL /\ mem[p].timeout > OSTickCounter

TestWrap ==
  /\ At("test")
  /\ tpc' = IF CounterWrapped THEN "remaining" ELSE "expired"
  /\ astray' = IF p # NULL /\ due[p] = -TICK_COUNT_OVERFLOW
                 THEN {b \in Blocks : Listed(b)} ELSE astray
  /\ coreUnchanged
  /\ UNCHANGED <<mem, heap, due, stopped, listVars, handling_task, p, list, beyond>>

\* The callback of p is called.
Callback(next) ==
  /\ mem' = [mem EXCEPT ![p].state = "STOPPED"]
  /\ tpc' = next
  /\ coreUnchanged
  /\ UNCHANGED <<heap, due, astray, stopped, listVars, handling_task,
                 p, list, beyond>>

\* What it returns: the application deletes no timer during its callback.
Result(repeat) == IF mem[p].func_cb THEN repeat \in Repeats ELSE repeat = 0

\* Block b, given back.
Released(b) ==
  /\ mem' = [mem EXCEPT ![b] = Free]
  /\ heap' = [heap EXCEPT ![list] = RemoveRoot(heap[list], mem')]
  /\ due' = [due EXCEPT ![b] = 0]
  /\ astray' = astray \ {b}
  /\ UNCHANGED beyond

Rearmed(b, to, repeat) ==
  /\ mem' = [mem EXCEPT ![b].state = "RUNNING", ![b].timeout = to]
  /\ due' = [due EXCEPT ![b] = repeat]
  /\ beyond' = (OSTickCounter + repeat > TIMER_MAX_COUNTER)

MovedKeepsRoot(b) ==
  heap' = [heap EXCEPT ![future] = Insert(heap[future], mem', b)]

MovedToFuture(b) ==
  heap' = LET h == [heap EXCEPT ![future] = Insert(heap[future], mem', b)]
          IN  [h EXCEPT ![list] = RemoveRoot(h[list], mem')]

afterCallback(next) ==
  /\ p' = heap'[list].timers[1]
  /\ tpc' = next
  /\ coreUnchanged
  /\ UNCHANGED <<listVars, handling_task, list, stopped>>

\* The counter wrapped: every timer left in the list is called, and goes to
\* the future list when it repeats.
CallRemaining == At("remaining") /\ p # NULL /\ Callback("remaining called")

RemainingCalled ==
  /\ At("remaining called")
  /\ \E repeat \in Repeats \cup {0} :
       /\ Result(repeat)
       /\ \/ /\ repeat > 0
             /\ Rearmed(p, OSTickCounter + repeat, repeat)
             /\ MovedToFuture(p)
             /\ Mark(p, OSTickCounter + repeat >= TICK_COUNT_OVERFLOW, future)
          \/ repeat = 0 /\ Released(p)
  /\ afterCallback("remaining")

\* The timers whose deadline has come are called.
CallExpired ==
  /\ At("expired")
  /\ p # NULL /\ mem[p].timeout <= OSTickCounter
  /\ Callback("expired called")

KeptAtRoot(b) ==
  heap' = [heap EXCEPT ![list].timers =
             Descer(heap[list].timers, mem', 1, heap[list].count)]

RepeatExpired(b, repeat) ==
  LET deadline == OSTickCounter + repeat
  IN  \/ /\ deadline >= TICK_COUNT_OVERFLOW
         /\ Rearmed(b, deadline - TICK_COUNT_OVERFLOW, repeat)
         /\ MovedToFuture(b)
         /\ Mark(b, TRUE, future)
      \/ /\ deadline < TICK_COUNT_OVERFLOW
         /\ Rearmed(b, deadline, repeat)
         /\ KeptAtRoot(b)
         /\ Mark(b, FALSE, list)

ExpiredCalled ==
  /\ At("expired called")
  /\ \E repeat \in Repeats \cup {0} :
       /\ Result(repeat)
       /\ \/ repeat > 0 /\ RepeatExpired(p, repeat)
          \/ repeat = 0 /\ Released(p)
  /\ afterCallback("expired")

\* The lists change places in two writes, outside critical sections.
SwitchCurrent(from, next) ==
  /\ At(from) /\ p = NULL
  /\ current' = future
  /\ tpc' = next
  /\ coreUnchanged
  /\ UNCHANGED <<serviceVars, future, handling_task, p, list, beyond>>

\* tmp is the list the task still works on.
SwitchFuture(from, next) ==
  /\ At(from)
  /\ future' = list
  /\ list' = current /\ p' = Root(current)
  /\ tpc' = next
  /\ coreUnchanged
  /\ UNCHANGED <<mem, heap, due, astray, current, handling_task, beyond>>

SwitchAfterRemaining ==
  \/ SwitchCurrent("remaining", "remaining switch")
  \/ SwitchFuture("remaining switch", "expired") /\ UNCHANGED stopped

NoneExpired == p # NULL => mem[p].timeout > OSTickCounter

\* No timer is left to call: the lists are exchanged only when the last
\* deadline the task computed lies beyond the wrap.
SwitchAfterExpired ==
  \/ beyond /\ SwitchCurrent("expired", "expired switch")
  \/ /\ SwitchFuture("expired switch", "sleep")
     /\ stopped' = FALSE

SleepAgain ==
  /\ At("expired") /\ NoneExpired
  /\ ~(beyond /\ p = NULL)
  /\ tpc' = "sleep"
  /\ stopped' = FALSE
  /\ coreUnchanged
  /\ UNCHANGED <<mem, heap, due, astray, listVars, handling_task, p, list,
                 beyond>>

TimerTaskStep ==
  \/ TimerTaskStart \/ TakeDeadline \/ BRTOS_TimerTaskSleep \/ TimerTaskWoken
  \/ TestWrap \/ CallRemaining \/ RemainingCalled \/ SwitchAfterRemaining
  \/ CallExpired \/ ExpiredCalled \/ SwitchAfterExpired \/ SleepAgain

-----------------------------------------------------------------------------
InUse == {b \in Blocks : mem[b].state # "NOT_USED"}

\* The application starts timers that are stopped, or any with Restart.
MayStart(b) == b \in InUse /\ (~Restart => ~Listed(b))

(***************************************************************************)
(* The application stops running timers that are not overdue: OSTimerStop  *)
(* tells the list from the deadline, and takes the root for the timer it   *)
(* stops, which another deadline of 0 in that list would prevent.          *)
(***************************************************************************)
MayStop(b) ==
  /\ mem[b].state = "RUNNING"
  /\ b \in Contents(StopList(b))
  /\ \A o \in Contents(StopList(b)) \ {b} : mem[o].timeout # 0

ClientStep(c) ==
  \/ /\ Cardinality(InUse) < MaxTimers
     /\ \E w \in SetTimes : OSTimerSet(c, w)
  \/ \E b \in Blocks :
       \/ MayStart(b) /\ \E w \in SetTimes : OSTimerStart(c, b, w)
       \/ MayStop(b) /\ \E del \in BOOLEAN : OSTimerStop(c, b, del)

CountDown ==
  /\ due' = [b \in Blocks |-> IF mem[b].state = "RUNNING" /\ due[b] > -TICK_COUNT_OVERFLOW
                                THEN due[b] - 1 ELSE due[b]]
  /\ astray' = IF \/ FallingAsleep
                  \/ tpc \notin {"start", "woken", "test"} /\ OSTickCounter' = 0
                 THEN {b \in Blocks : Listed(b)} ELSE astray

\* Any number of ticks may pass between two steps of a task: that is all the
\* timers notice of other tasks.
TimerNext ==
  \/ \E c \in Clients : ClientStep(c)
  \/ TimerTaskStep
  \/ TickTimer /\ CountDown
       /\ UNCHANGED <<mem, heap, stopped, taskVars, listVars, handling_task>>
  \/ /\ \/ \E t \in Tasks : TickPass(t) \/ TickWake(t)
        \/ TickExit
        \/ SwitchContext
     /\ UNCHANGED timerVars

STimerSpec == STimerInit /\ [][TimerNext]_vars

-----------------------------------------------------------------------------
(***************************************************************************)
(* Both heaps are heaps whenever a task or the tick can look: no timer is  *)
(* before its parent, and the array is filled up to count and no further,  *)
(* however timers are set, stopped, repeated and moved between the lists.  *)
(***************************************************************************)
HeapsOrdered ==
  \A l \in Lists : LET h == heap[l] IN
    /\ \A i \in Slots : h.timers[i] # NULL <=> i \in 1..h.count
    /\ \A i \in 2..h.count :
         mem[h.timers[i \div 2]].timeout <= mem[h.timers[i]].timeout

Called(b) == b = p /\ tpc \in {"remaining called", "expired called"}

(***************************************************************************)
(* A timer that runs, or whose callback is being called, has exactly one   *)
(* place in the two heaps, and no other timer has one: none is lost from   *)
(* the lists while the application believes it running, and none is called *)
(* after it was stopped, deleted or given to another user.                 *)
(***************************************************************************)
ListedOnce ==
  LET places == {x \in Lists \X Slots : heap[x[1]].timers[x[2]] # NULL}
      active == {b \in Blocks : mem[b].state = "RUNNING" \/ Called(b)}
  IN  /\ {heap[x[1]].timers[x[2]] : x \in places} = active
      /\ Cardinality(places) = Cardinality(active)

(***************************************************************************)
(* No callback is called before its time, however long tasks of higher     *)
(* priority kept the timer task off the CPU and wherever the counter wraps *)
(* meanwhile, unless a timer was stopped since the timer task slept:       *)
(* OSTimerStop leaves the deadline of the timer task, which then finds the *)
(* next timer ahead of the counter and takes that for a wrap.              *)
(***************************************************************************)
NeverEarlyUnlessStopped ==
  \A b \in Blocks : Called(b) /\ ~stopped => due[b] <= 0

(***************************************************************************)
(* While the timer task is linked in the delay list no timer is overdue,   *)
(* but for the tick that is about to wake the task.  Not so for timers     *)
(* armed beyond the wrap, and for those in the lists when the counter      *)
(* outran the timer task: by a tick after its last test of a deadline,     *)
(* which BRTOS_TimerTaskSleep writes before its critical section, by a     *)
(* wrap after the test for a wrap, or by a whole turn before it.           *)
(***************************************************************************)
SleepsNoLongerThanNext ==
  TimerTask \in DelayList /\ TimerTask \notin tickList
  => \A b \in Blocks \ astray : mem[b].state = "RUNNING" => due[b] > 0

(***************************************************************************)
(* OSTimerGet returns the time a running timer has left, on both sides of  *)
(* the wrap of the tick counter, if its deadline is one the counter can    *)
(* reach: a timer repeated after a wrap may get one that is not.           *)
(***************************************************************************)
RemainingIsExact ==
  \A b \in Blocks :
    /\ mem[b].state = "RUNNING" /\ due[b] >= 0
    /\ mem[b].timeout < TICK_COUNT_OVERFLOW
    => OSTimerGet(b) = due[b]
=============================================================================
