----------------------------- MODULE MboxProofs -----------------------------
(***************************************************************************)
(* Mailboxes, for every number of tasks and mailboxes and every priority   *)
(* assignment, for pend times of at most one revolution of the counter.    *)
(***************************************************************************)
EXTENDS Mbox, KernelProofs

PendTimesFit == PendTimes \subseteq 0..TICK_COUNT_OVERFLOW \cup {NO_TIMEOUT}

MboxEvents == EventInv("mbox", Mboxes, OSEventWait, OSEventWaitList, pont_event, timed)

\* posted names the tasks that a post took out of the wait list, and every
\* suspended task was recorded as a receiver.
LocalsInv ==
  \A t \in Tasks :
    /\ pont_event[t] # NULL <=> pc[t] = "mbox"
    /\ t \in posted <=>
         pc[t] = "mbox" /\ PriorityOf(t) \notin OSEventWaitList[pont_event[t]]
    /\ pc[t] = "mbox" =>
         OSEventAllocated[pont_event[t]] /\ t \in receivers[pont_event[t]]

\* The mailbox of a sole receiver is full exactly if it was woken.
SoleReceiverInv ==
  \A t \in Tasks :
    pc[t] = "mbox" /\ receivers[pont_event[t]] = {t} =>
      (OSEventState[pont_event[t]]
         <=> PriorityOf(t) \notin OSEventWaitList[pont_event[t]])

MboxInv ==
  /\ TypeOK /\ KernelInv /\ MboxEvents /\ LocalsInv
  /\ MessageReachesWaiter /\ SoleReceiverInv

\* What the assumptions on constants say of a mailbox and of a wait.
LEMMA MboxFacts == "mbox" \in EventServices /\ NULL \notin Mboxes
  BY MboxAssumption DEF EventServices, Services, NULL, Mboxes

\* Nobody is suspended on a mailbox that does not exist.
LEMMA FreeHasNoWaiters ==
  ASSUME MboxInv, NEW b \in Mboxes, \A u \in Tasks : pont_event[u] # b
  PROVE  OSEventWaitList[b] = {} /\ OSEventWait[b] = 0
<1>1. OSEventWaitList[b] = {}
  BY Zenon DEF MboxInv, MboxEvents, EventInv
<1>2. Counts(OSEventWait[b], OSEventWaitList[b])
  BY Zenon DEF MboxInv, MboxEvents, EventInv
<1>. QED  BY <1>1, <1>2, CountZero, Zenon

\* BRTOSStart() establishes the invariant: no mailbox is in use.
LEMMA MboxInitInv ==
  ASSUME Init
  PROVE  MboxInv
<1>1. KernelInv
  BY KernelInitInv, Zenon DEF Init
<1>2. TypeOK
  BY <1>1, Zenon DEF Init, TypeOK, KernelInv
<1>3. MboxEvents
  BY CountNone, Zenon DEF Init, MboxEvents, EventInv, KernelInit
<1>4. LocalsInv /\ MessageReachesWaiter /\ SoleReceiverInv
  BY Zenon DEF Init, LocalsInv, MessageReachesWaiter, SoleReceiverInv, KernelInit
<1>. QED  BY <1>1, <1>2, <1>3, <1>4, Zenon DEF MboxInv

(***************************************************************************)
(* Creation and deletion.                                                  *)
(***************************************************************************)
LEMMA MboxTableInv ==
  ASSUME MboxInv, NEW b \in Mboxes, \A u \in Tasks : pont_event[u] # b,
         NEW allocated \in BOOLEAN, NEW full \in BOOLEAN,
         OSEventAllocated' = [OSEventAllocated EXCEPT ![b] = allocated],
         OSEventState' = [OSEventState EXCEPT ![b] = full],
         OSEventWait' = [OSEventWait EXCEPT ![b] = 0],
         OSEventWaitList' = [OSEventWaitList EXCEPT ![b] = {}],
         receivers' \in [Mboxes -> SUBSET Tasks],
         \A a \in Mboxes \ {b} : receivers'[a] = receivers[a],
         UNCHANGED <<kernelVars, pont_event, timed, posted>>
  PROVE  MboxInv'
<1>1. KernelInv' /\ KernelTypeOK'
  BY KernelStepInv, Zenon DEF MboxInv, KernelInv
<1>2. /\ OSEventWaitList' = OSEventWaitList /\ OSEventWait' = OSEventWait
      /\ OSEventWaitList'[b] = {}
  BY FreeHasNoWaiters, Zenon DEF MboxInv, TypeOK
<1>3. MboxEvents'
  BY <1>2, EventSame, Zenon DEF MboxInv, MboxEvents, kernelVars, waitVars
<1>4. TypeOK'
  BY <1>1, <1>2, Zenon DEF MboxInv, TypeOK
<1>5. \A a \in Mboxes \ {b} : /\ OSEventState'[a] = OSEventState[a]
                              /\ OSEventAllocated'[a] = OSEventAllocated[a]
  BY Zenon DEF MboxInv, TypeOK
<1>6. \A t \in Tasks : pc[t] = "mbox" => pont_event[t] \in Mboxes \ {b}
  BY Zenon DEF MboxInv, LocalsInv, TypeOK
<1>7. UNCHANGED <<pc, pont_event, posted>>
  BY Zenon DEF kernelVars
<1>8. LocalsInv'
  BY <1>2, <1>5, <1>6, <1>7 DEF MboxInv, LocalsInv
<1>9. SoleReceiverInv' /\ MessageReachesWaiter'
  BY <1>2, <1>5, <1>6, <1>7 DEF MboxInv, SoleReceiverInv, MessageReachesWaiter
<1>. QED  BY <1>1, <1>3, <1>4, <1>8, <1>9, Zenon DEF MboxInv

\* OSMboxCreate.
LEMMA CreateInv ==
  ASSUME MboxInv, NEW t, NEW b \in Mboxes, NEW full \in BOOLEAN,
         OSMboxCreate(t, b, full)
  PROVE  MboxInv'
<1>1. \A u \in Tasks : pont_event[u] # b
  BY MboxFacts, Zenon DEF OSMboxCreate, MboxInv, LocalsInv
<1>2. /\ receivers' \in [Mboxes -> SUBSET Tasks]
      /\ \A a \in Mboxes \ {b} : receivers'[a] = receivers[a]
  BY Zenon DEF OSMboxCreate, MboxInv, TypeOK
<1>. QED  BY <1>1, <1>2, MboxTableInv, Zenon DEF OSMboxCreate

\* OSMboxDelete, of a mailbox no task is suspended on.
LEMMA DeleteInv ==
  ASSUME MboxInv, NEW t, NEW b \in Mboxes, OSMboxDelete(t, b)
  PROVE  MboxInv'
<1>1. receivers' = receivers /\ receivers \in [Mboxes -> SUBSET Tasks]
  BY Zenon DEF OSMboxDelete, MboxInv, TypeOK, mboxLocals
<1>2. UNCHANGED <<kernelVars, pont_event, timed, posted>>
  BY Zenon DEF OSMboxDelete, mboxLocals
<1>. QED  BY <1>1, <1>2, MboxTableInv, Zenon DEF OSMboxDelete

(***************************************************************************)
(* OSMboxPend.                                                             *)
(***************************************************************************)
LEMMA FetchInv ==
  ASSUME MboxInv, NEW t \in Tasks, NEW b \in Mboxes, MboxPendFetch(t, b)
  PROVE  MboxInv'
<1>1. KernelInv' /\ KernelTypeOK'
  BY KernelStepInv, Zenon DEF MboxInv, KernelInv, MboxPendFetch
<1>2. MboxEvents'
  BY EventSame, Zenon DEF MboxInv, MboxEvents, MboxPendFetch, kernelVars, waitVars
<1>3. TypeOK'
  BY <1>1, Zenon DEF MboxInv, TypeOK, MboxPendFetch
<1>4. UNCHANGED <<pc, pont_event, posted, OSEventWaitList, OSEventAllocated>>
  BY Zenon DEF MboxPendFetch, kernelVars
<1>5. LocalsInv'
  BY <1>4, Zenon DEF MboxInv, LocalsInv, MboxPendFetch, TypeOK
<1>6. MessageReachesWaiter'
  BY <1>4, Zenon DEF MboxInv, MessageReachesWaiter, MboxPendFetch, TypeOK
<1>7. SoleReceiverInv'
  <2>1. pc[t] = "app" /\ t \in receivers'[b]
    BY Zenon DEF MboxPendFetch, Running, MboxInv, TypeOK
  <2>2. \A a \in Mboxes \ {b} :
          receivers'[a] = receivers[a] /\ OSEventState'[a] = OSEventState[a]
    BY Zenon DEF MboxPendFetch, MboxInv, TypeOK
  <2>3. \A u \in Tasks : pc[u] = "mbox" => pont_event[u] \in Mboxes
    BY Zenon DEF MboxInv, LocalsInv, TypeOK
  <2>. QED  BY <1>4, <2>1, <2>2, <2>3 DEF MboxInv, SoleReceiverInv
<1>. QED  BY <1>1, <1>2, <1>3, <1>5, <1>6, <1>7, Zenon DEF MboxInv

\* OSMboxPend on an empty mailbox suspends the caller.
LEMMA WaitInv ==
  ASSUME PendTimesFit, MboxInv, NEW t \in Tasks, NEW b \in Mboxes,
         NEW w \in PendTimes, MboxPendWait(t, b, w)
  PROVE  MboxInv'
<1>1. w \in 0..TICK_COUNT_OVERFLOW /\ w \in 0..MAX_TIMER
  BY MboxAssumption, Zenon DEF PendTimesFit, MboxPendWait
<1>2. Running(t) /\ Suspend(t, w, "mbox") /\ KernelInv /\ MboxEvents
  BY Zenon DEF MboxPendWait, MboxInv
<1>3. KernelInv' /\ KernelTypeOK'
  <2>1. "mbox" \in Services \ {"app"} /\ "mbox" # "delay"
    BY Zenon DEF Services
  <2>. QED  BY <1>1, <1>2, <2>1, SuspendInv, Zenon DEF KernelInv
<1>4. /\ OSEventWait' = [OSEventWait EXCEPT ![b] = @ + 1]
      /\ OSEventWaitList' = [OSEventWaitList EXCEPT ![b] = @ \cup {Priority[t]}]
      /\ pont_event' = [pont_event EXCEPT ![t] = b]
      /\ timed' = [timed EXCEPT ![t] = w > 0]
      /\ receivers' = [receivers EXCEPT ![b] = @ \cup {t}]
      /\ UNCHANGED <<OSEventAllocated, OSEventState, posted>>
      /\ OSEventAllocated[b] /\ OSEventState[b] = FALSE
  BY Zenon DEF MboxPendWait, MboxInv, TypeOK
<1>5. MboxEvents'
  <2>1. "mbox" \in EventServices
    BY MboxFacts, Zenon
  <2>2. /\ Running(t) /\ Suspend(t, w, "mbox")
        /\ OSEventWait' = [OSEventWait EXCEPT ![b] = @ + 1]
        /\ OSEventWaitList' = [OSEventWaitList EXCEPT ![b] = @ \cup {Priority[t]}]
        /\ pont_event' = [pont_event EXCEPT ![t] = b]
        /\ timed' = [timed EXCEPT ![t] = w > 0]
    BY <1>2, <1>4, Zenon
  <2>3. KernelInv /\ MboxEvents
    BY <1>2, Zenon
  <2>. QED  BY <1>1, <2>1, <2>2, <2>3, EventWait, ZenonT(60) DEF MboxEvents
<1>6. /\ Priority[t] = PriorityOf(t)
      /\ \A u \in Tasks : PriorityOf(u) = PriorityOf(t) => u = t
      /\ pc[t] = "app" /\ pc' = [pc EXCEPT ![t] = "mbox"]
      /\ pc \in [Tasks -> Services]
  BY <1>2, PriorityOfFacts, Zenon DEF KernelInv, TablesAgree, Running, Suspend, KernelTypeOK
<1>7. TypeOK'
  <2>1. /\ OSEventWait' \in [Mboxes -> Nat]
        /\ OSEventWaitList' \in [Mboxes -> SUBSET Priorities]
        /\ timed' \in [Tasks -> BOOLEAN]
    BY <1>5, Zenon DEF MboxEvents, EventInv
  <2>. QED  BY <1>3, <1>4, <2>1 DEF MboxInv, TypeOK
<1>8. /\ pont_event'[t] = b /\ PriorityOf(t) \in OSEventWaitList'[b]
      /\ pc'[t] = "mbox" /\ t \notin posted /\ t \in receivers'[b]
  BY <1>4, <1>6, Zenon DEF MboxInv, TypeOK, LocalsInv
<1>9. ASSUME NEW u \in Tasks, u # t
      PROVE  /\ pont_event'[u] = pont_event[u] /\ pc'[u] = pc[u]
             /\ pont_event[u] \in Mboxes =>
                  /\ PriorityOf(u) \in OSEventWaitList'[pont_event[u]]
                       <=> PriorityOf(u) \in OSEventWaitList[pont_event[u]]
                  /\ receivers[pont_event[u]] \subseteq receivers'[pont_event[u]]
                  /\ pont_event[u] # b =>
                       receivers'[pont_event[u]] = receivers[pont_event[u]]
             /\ pont_event[u] # NULL => pont_event[u] \in Mboxes
  BY <1>4, <1>6, <1>9, Zenon DEF MboxInv, TypeOK
<1>10. LocalsInv'
  BY <1>4, <1>8, <1>9, MboxFacts DEF MboxInv, LocalsInv
<1>11. MessageReachesWaiter'
  <2>. SUFFICES ASSUME NEW a \in Mboxes, OSEventState'[a], OSEventWaitList'[a] # {}
                PROVE  \E u \in posted' : pont_event'[u] = a
    BY Zenon DEF MessageReachesWaiter
  <2>1. a # b /\ OSEventState[a] /\ OSEventWaitList[a] # {}
    BY <1>4, Zenon DEF MboxInv, TypeOK
  <2>2. PICK u \in posted : pont_event[u] = a
    BY <2>1, Zenon DEF MboxInv, MessageReachesWaiter
  <2>3. u \in Tasks /\ u # t
    BY <1>8, Zenon DEF MboxInv, TypeOK
  <2>. QED  BY <1>4, <1>9, <2>2, <2>3, Zenon
<1>12. SoleReceiverInv'
  <2>1. ASSUME NEW u \in Tasks, u # t, pc'[u] = "mbox",
               receivers'[pont_event'[u]] = {u}
        PROVE  OSEventState'[pont_event'[u]]
                 <=> PriorityOf(u) \notin OSEventWaitList'[pont_event'[u]]
    BY <1>4, <1>8, <1>9, <2>1, MboxFacts DEF MboxInv, SoleReceiverInv, LocalsInv
  <2>. QED  BY <1>4, <1>8, <2>1, Zenon DEF SoleReceiverInv
<1>. QED  BY <1>3, <1>5, <1>7, <1>10, <1>11, <1>12, Zenon DEF MboxInv

\* What a return of OSMboxPend keeps of the invariant: only the task that
\* returns was concerned by its mailbox's state, if it was the only receiver.
LEMMA ReturnLocals ==
  ASSUME MboxInv, NEW t \in Tasks, pc[t] = "mbox", MboxPendReturn(t),
         OSEventWaitList' \in [Mboxes -> SUBSET Priorities],
         \A b \in Mboxes : OSEventWaitList'[b] \subseteq OSEventWaitList[b],
         \A u \in Tasks \ {t} : \A b \in Mboxes :
           PriorityOf(u) \in OSEventWaitList'[b] <=> PriorityOf(u) \in OSEventWaitList[b],
         OSEventState' \in [Mboxes -> BOOLEAN],
         \A b \in Mboxes \ {pont_event[t]} : OSEventState'[b] = OSEventState[b],
         \/ OSEventState'[pont_event[t]] = FALSE
         \/ t \notin posted /\ OSEventState' = OSEventState
  PROVE  /\ LocalsInv' /\ MessageReachesWaiter' /\ SoleReceiverInv'
         /\ pont_event' \in [Tasks -> Mboxes \cup {NULL}]
         /\ timed' \in [Tasks -> BOOLEAN] /\ posted' \subseteq Tasks
         /\ OSEventAllocated' = OSEventAllocated /\ receivers' = receivers
<1>1. pc' = [pc EXCEPT ![t] = "app"] /\ pc \in [Tasks -> Services]
  BY Zenon DEF MboxPendReturn, MboxInv, KernelInv, KernelTypeOK
<1>2. /\ pont_event' \in [Tasks -> Mboxes \cup {NULL}]
      /\ timed' \in [Tasks -> BOOLEAN] /\ posted' \subseteq Tasks
      /\ OSEventAllocated' = OSEventAllocated /\ receivers' = receivers
  BY Zenon DEF MboxPendReturn, MboxInv, TypeOK
<1>3. ASSUME NEW u \in Tasks, u # t
      PROVE  /\ pont_event'[u] = pont_event[u] /\ pc'[u] = pc[u]
             /\ u \in posted' <=> u \in posted
             /\ pc[u] = "mbox" => pont_event[u] \in Mboxes
  BY <1>1, <1>3 DEF MboxPendReturn, MboxInv, TypeOK, LocalsInv
<1>4. pont_event'[t] = NULL /\ pc'[t] = "app" /\ t \notin posted'
  BY <1>1, Zenon DEF MboxPendReturn, MboxInv, TypeOK
<1>5. LocalsInv'
  BY <1>2, <1>3, <1>4 DEF MboxInv, LocalsInv
<1>6. MessageReachesWaiter'
  <2>. SUFFICES ASSUME NEW b \in Mboxes, OSEventState'[b], OSEventWaitList'[b] # {}
                PROVE  \E u \in posted' : pont_event'[u] = b
    BY Zenon DEF MessageReachesWaiter
  <2>1. /\ OSEventState[b] /\ OSEventWaitList[b] # {}
        /\ b # pont_event[t] \/ t \notin posted
    BY Zenon
  <2>2. PICK u \in posted : pont_event[u] = b
    BY <2>1, Zenon DEF MboxInv, MessageReachesWaiter
  <2>3. u \in Tasks /\ u # t
    BY <2>1, <2>2, Zenon DEF MboxInv, TypeOK
  <2>. QED  BY <1>3, <2>2, <2>3, Zenon
<1>7. SoleReceiverInv'
  <2>. SUFFICES ASSUME NEW u \in Tasks, pc'[u] = "mbox",
                       receivers'[pont_event'[u]] = {u}
                PROVE  OSEventState'[pont_event'[u]]
                         <=> PriorityOf(u) \notin OSEventWaitList'[pont_event'[u]]
    BY Zenon DEF SoleReceiverInv
  <2>1. u # t /\ pc[u] = "mbox" /\ pont_event'[u] = pont_event[u]
        /\ pont_event[u] \in Mboxes /\ receivers[pont_event[u]] = {u}
    BY <1>2, <1>3, <1>4, Zenon
  <2>2. t \in receivers[pont_event[t]]
    BY Zenon DEF MboxInv, LocalsInv
  <2>3. pont_event[u] # pont_event[t]
    BY <2>1, <2>2, Zenon
  <2>. QED  BY <2>1, <2>3, Zenon DEF MboxInv, SoleReceiverInv
<1>. QED  BY <1>2, <1>5, <1>6, <1>7, Zenon

\* OSMboxPend returns TIMEOUT.
LEMMA TimeoutInv ==
  ASSUME MboxInv, NEW t \in Tasks, MboxPendTimeout(t)
  PROVE  MboxInv'
<1>. DEFINE b == pont_event[t]
<1>1. /\ Resumed(t, "mbox") /\ pc[t] = "mbox" /\ KernelInv /\ MboxEvents
      /\ "mbox" \in EventServices
  BY MboxFacts, Zenon DEF MboxPendTimeout, Resumed, MboxInv
<1>2. Priority[t] = PriorityOf(t) /\ b \in Mboxes
  BY <1>1, EventResumed, Zenon DEF MboxEvents
<1>3. /\ PriorityOf(t) \in OSEventWaitList[b] /\ timed[t]
      /\ TimeToWait[t] = EXIT_BY_TIMEOUT
      /\ OSEventWait' = [OSEventWait EXCEPT ![pont_event[t]] = @ - 1]
      /\ OSEventWaitList' = [OSEventWaitList EXCEPT ![pont_event[t]] = @ \ {PriorityOf(t)}]
      /\ pc' = [pc EXCEPT ![t] = "app"]
      /\ UNCHANGED <<OSReadyList, DelayList, TimeToWait>>
      /\ UNCHANGED <<tickVars, prioVars, currentTask, OSReadyList,
                     OSBlockedList, pendSV, ticksLeft>>
      /\ pont_event' = [pont_event EXCEPT ![t] = NULL]
      /\ timed' = [timed EXCEPT ![t] = FALSE]
  BY <1>2, Zenon DEF MboxPendTimeout, MboxTimedOut, MboxPendReturn
<1>4. MboxEvents'
  BY <1>1, <1>3, EventTimeout, Zenon DEF MboxEvents
<1>5. KernelInv' /\ KernelTypeOK'
  <2>1. DelayList' = DelayList \ {t} /\ TimeToWait' \in [Tasks -> 0..MAX_TIMER]
    BY <1>1, <1>3 DEF MboxEvents, EventInv, Waiter, KernelInv, KernelTypeOK
  <2>. QED  BY <1>1, <1>3, <2>1, ServiceReturnInv, Zenon DEF KernelInv
<1>6. /\ OSEventWaitList' \in [Mboxes -> SUBSET Priorities]
      /\ OSEventWait' \in [Mboxes -> Nat]
  BY <1>4, Zenon DEF MboxEvents, EventInv
<1>7. /\ \A a \in Mboxes : OSEventWaitList'[a] \subseteq OSEventWaitList[a]
      /\ \A u \in Tasks \ {t} : \A a \in Mboxes :
           PriorityOf(u) \in OSEventWaitList'[a] <=> PriorityOf(u) \in OSEventWaitList[a]
  BY <1>2, <1>3, PriorityOfFacts, Zenon DEF MboxInv, TypeOK
<1>8. /\ OSEventState' = OSEventState /\ OSEventState' \in [Mboxes -> BOOLEAN]
      /\ t \notin posted
  BY <1>1, <1>3, Zenon DEF MboxPendTimeout, MboxInv, TypeOK, LocalsInv
<1>9. /\ LocalsInv' /\ MessageReachesWaiter' /\ SoleReceiverInv'
      /\ pont_event' \in [Tasks -> Mboxes \cup {NULL}]
      /\ timed' \in [Tasks -> BOOLEAN] /\ posted' \subseteq Tasks
      /\ OSEventAllocated' = OSEventAllocated /\ receivers' = receivers
  BY <1>1, <1>6, <1>7, <1>8, ReturnLocals, Zenon DEF MboxPendTimeout
<1>10. TypeOK'
  BY <1>5, <1>6, <1>8, <1>9, Zenon DEF MboxInv, TypeOK
<1>. QED  BY <1>4, <1>5, <1>9, <1>10, Zenon DEF MboxInv

\* OSMboxPend returns OK with the message.
LEMMA OKInv ==
  ASSUME MboxInv, NEW t \in Tasks, MboxPendOK(t)
  PROVE  MboxInv'
<1>. DEFINE b == pont_event[t]
<1>1. /\ Resumed(t, "mbox") /\ pc[t] = "mbox" /\ KernelInv /\ MboxEvents
      /\ "mbox" \in EventServices
  BY MboxFacts, Zenon DEF MboxPendOK, Resumed, MboxInv
<1>2. Priority[t] = PriorityOf(t) /\ b \in Mboxes
      /\ PriorityOf(t) \notin OSEventWaitList[b]
  BY <1>1, EventResumed DEF MboxEvents, MboxPendOK, MboxTimedOut
<1>3. /\ pc' = [pc EXCEPT ![t] = "app"]
      /\ UNCHANGED <<tickVars, prioVars, currentTask, OSReadyList,
                     OSBlockedList, pendSV, ticksLeft>>
      /\ OSReadyList' = OSReadyList
      /\ pont_event' = [pont_event EXCEPT ![t] = NULL]
      /\ timed' = [timed EXCEPT ![t] = FALSE]
      /\ OSEventWait' = OSEventWait /\ OSEventWaitList' = OSEventWaitList
  BY Zenon DEF MboxPendOK, MboxPendReturn
<1>4. /\ DelayList' = DelayList \ {t} /\ TimeToWait' \in [Tasks -> 0..MAX_TIMER]
      /\ \A u \in Tasks \ {t} : TimeToWait'[u] = TimeToWait[u]
  <2>1. NO_TIMEOUT \in 0..MAX_TIMER /\ TimeToWait \in [Tasks -> 0..MAX_TIMER]
    BY <1>1, KernelAssumption DEF NO_TIMEOUT, KernelInv, KernelTypeOK
  <2>2. /\ timed[t] \in BOOLEAN
        /\ ~timed[t] \/ TimeToWait[t] = EXIT_BY_TIMEOUT => t \notin DelayList
    BY <1>1, Zenon DEF MboxEvents, EventInv, Waiter
  <2>. QED  BY <2>1, <2>2, Zenon DEF MboxPendOK, RemoveFromDelayList
<1>5. MboxEvents'
  BY <1>1, <1>2, <1>3, <1>4, EventReturn, Zenon DEF MboxEvents
<1>6. KernelInv' /\ KernelTypeOK'
  BY <1>1, <1>3, <1>4, ServiceReturnInv, Zenon DEF KernelInv
<1>7. /\ OSEventState' \in [Mboxes -> BOOLEAN] /\ OSEventState'[b] = FALSE
      /\ \A a \in Mboxes \ {pont_event[t]} : OSEventState'[a] = OSEventState[a]
      /\ OSEventWaitList' \in [Mboxes -> SUBSET Priorities]
  BY <1>2, <1>3, Zenon DEF MboxPendOK, MboxInv, TypeOK
<1>8. /\ LocalsInv' /\ MessageReachesWaiter' /\ SoleReceiverInv'
      /\ pont_event' \in [Tasks -> Mboxes \cup {NULL}]
      /\ timed' \in [Tasks -> BOOLEAN] /\ posted' \subseteq Tasks
      /\ OSEventAllocated' = OSEventAllocated /\ receivers' = receivers
  BY <1>1, <1>3, <1>7, ReturnLocals, Zenon DEF MboxPendOK
<1>9. TypeOK'
  BY <1>3, <1>6, <1>7, <1>8, Zenon DEF MboxInv, TypeOK
<1>. QED  BY <1>5, <1>6, <1>8, <1>9, Zenon DEF MboxInv

(***************************************************************************)
(* OSMboxPost: the woken task is a receiver, and the only one if it is     *)
(* alone.                                                                  *)
(***************************************************************************)
LEMMA PostWakeInv ==
  ASSUME MboxInv, NEW b \in Mboxes, MboxPostWake(b)
  PROVE  MboxInv'
<1>1. KernelInv /\ MboxEvents /\ "mbox" \in EventServices /\ OSEventWait[b] # 0
  BY MboxFacts, Zenon DEF MboxInv, MboxPostWake
<1>2. PICK t \in Tasks :
        /\ IsHighest(PriorityOf(t), OSEventWaitList[b])
        /\ SAScheduler(OSEventWaitList[b]) = PriorityOf(t)
        /\ PriorityVector[PriorityOf(t)] = t
        /\ pc[t] = "mbox" /\ pont_event[t] = b
  BY <1>1, EventHighest DEF MboxEvents
<1>3. /\ OSEventWaitList' = [OSEventWaitList EXCEPT ![b] = @ \ {PriorityOf(t)}]
      /\ OSReadyList' = OSReadyList \cup {PriorityOf(t)}
      /\ posted' = posted \cup {t}
      /\ OSEventWait' = [OSEventWait EXCEPT ![b] = @ - 1]
      /\ OSEventState' = [OSEventState EXCEPT ![b] = TRUE]
      /\ ChangeContext
      /\ UNCHANGED <<tickVars, waitVars, prioVars, currentTask, OSBlockedList, pc,
                     OSEventAllocated, pont_event, timed, receivers>>
  BY <1>2, Zenon DEF MboxPostWake
<1>4. KernelInv' /\ KernelTypeOK'
  BY <1>1, <1>2, <1>3, WakeInv, Zenon DEF KernelInv
<1>5. MboxEvents'
  <2>1. UNCHANGED <<pc, DelayList, TimeToWait>> /\ pont_event' = pont_event
        /\ timed' = timed
    BY <1>3, Zenon DEF waitVars
  <2>2. /\ OSReadyList' = OSReadyList \cup {SAScheduler(OSEventWaitList[b])}
        /\ OSEventWaitList' =
             [OSEventWaitList EXCEPT ![b] = @ \ {SAScheduler(OSEventWaitList[b])}]
        /\ OSEventWait' = [OSEventWait EXCEPT ![b] = @ - 1]
    BY <1>2, <1>3, Zenon
  <2>. QED  BY <1>1, <2>1, <2>2, EventPost, Zenon DEF MboxEvents
<1>6. /\ \A u \in Tasks : PriorityOf(u) = PriorityOf(t) => u = t
      /\ t \in receivers[b]
  BY <1>2, PriorityOfFacts, Zenon DEF MboxInv, LocalsInv
<1>7. TypeOK'
  <2>1. /\ OSEventWait' \in [Mboxes -> Nat]
        /\ OSEventWaitList' \in [Mboxes -> SUBSET Priorities]
    BY <1>5, Zenon DEF MboxEvents, EventInv
  <2>. QED  BY <1>3, <1>4, <2>1, Zenon DEF MboxInv, TypeOK
<1>8. ASSUME NEW u \in Tasks, u # t, pc[u] = "mbox"
      PROVE  /\ PriorityOf(u) \in OSEventWaitList'[pont_event[u]]
                  <=> PriorityOf(u) \in OSEventWaitList[pont_event[u]]
             /\ pont_event[u] # b =>
                  OSEventState'[pont_event[u]] = OSEventState[pont_event[u]]
  BY <1>3, <1>6, <1>8, Zenon DEF MboxInv, TypeOK, MboxEvents, EventInv, Waiter
<1>9. PriorityOf(t) \notin OSEventWaitList'[b] /\ OSEventState'[b]
  BY <1>3, Zenon DEF MboxInv, TypeOK
<1>10. LocalsInv'
  BY <1>2, <1>3, <1>8, <1>9, Zenon DEF MboxInv, LocalsInv
<1>11. MessageReachesWaiter'
  <2>. SUFFICES ASSUME NEW a \in Mboxes, a # b, OSEventState'[a], OSEventWaitList'[a] # {}
                PROVE  \E u \in posted' : pont_event'[u] = a
    BY <1>2, <1>3, Zenon DEF MessageReachesWaiter
  <2>1. OSEventState[a] /\ OSEventWaitList[a] # {}
    BY <1>3, Zenon DEF MboxInv, TypeOK
  <2>. QED  BY <1>3, <2>1, Zenon DEF MboxInv, MessageReachesWaiter
<1>12. SoleReceiverInv'
  <2>1. ASSUME NEW u \in Tasks, u # t, pc[u] = "mbox", receivers[pont_event[u]] = {u}
        PROVE  OSEventState'[pont_event[u]]
                 <=> PriorityOf(u) \notin OSEventWaitList'[pont_event[u]]
    BY <1>6, <1>8, <2>1, Zenon DEF MboxInv, SoleReceiverInv
  <2>. QED  BY <1>2, <1>3, <1>9, <2>1, Zenon DEF SoleReceiverInv
<1>. QED  BY <1>4, <1>5, <1>7, <1>10, <1>11, <1>12, Zenon DEF MboxInv

\* OSMboxPost without a waiter leaves the message.
LEMMA PostStoreInv ==
  ASSUME MboxInv, NEW b \in Mboxes, MboxPostStore(b)
  PROVE  MboxInv'
<1>1. KernelInv' /\ KernelTypeOK'
  BY KernelStepInv, Zenon DEF MboxInv, KernelInv, MboxPostStore
<1>2. MboxEvents'
  BY EventSame, Zenon DEF MboxInv, MboxEvents, MboxPostStore, kernelVars, waitVars, mboxLocals
<1>3. OSEventWaitList[b] = {}
  <2>1. Counts(0, OSEventWaitList[b])
    BY Zenon DEF MboxPostStore, MboxInv, MboxEvents, EventInv
  <2>. QED  BY <2>1, CountZero, Zenon
<1>4. TypeOK'
  BY <1>1, Zenon DEF MboxInv, TypeOK, MboxPostStore, mboxLocals
<1>5. UNCHANGED <<pc, OSEventWaitList, OSEventAllocated, pont_event, posted, receivers>>
  BY Zenon DEF MboxPostStore, kernelVars, mboxLocals
<1>6. LocalsInv'
  BY <1>5, Zenon DEF MboxInv, LocalsInv
<1>7. MessageReachesWaiter' /\ SoleReceiverInv'
  <2>1. OSEventState'[b] /\ \A a \in Mboxes \ {b} : OSEventState'[a] = OSEventState[a]
    BY Zenon DEF MboxPostStore, MboxInv, TypeOK
  <2>2. \A t \in Tasks : pc[t] = "mbox" => pont_event[t] \in Mboxes
    BY Zenon DEF MboxInv, LocalsInv, TypeOK
  <2>. QED  BY <1>3, <1>5, <2>1, <2>2, Zenon
            DEF MboxInv, MessageReachesWaiter, SoleReceiverInv
<1>. QED  BY <1>1, <1>2, <1>4, <1>6, <1>7, Zenon DEF MboxInv

\* Every step preserves the invariant.
LEMMA MboxStepInv ==
  ASSUME PendTimesFit, MboxInv, [Next]_vars
  PROVE  MboxInv'
<1>1. ASSUME [KernelNext]_kernelVars, UNCHANGED <<mboxTable, mboxLocals>>
      PROVE  MboxInv'
  <2>1. KernelInv' /\ KernelTypeOK'
    BY <1>1, KernelStepInv, Zenon DEF MboxInv, KernelInv
  <2>2. MboxEvents'
    BY <1>1, EventCoreStep, MboxFacts, Zenon DEF MboxInv, MboxEvents, mboxTable, mboxLocals
  <2>3. \A t \in Tasks : pc'[t] = "mbox" <=> pc[t] = "mbox"
    BY <1>1, CoreKeepsWaiters, MboxFacts, Zenon DEF MboxInv
  <2>. QED  BY <1>1, <2>1, <2>2, <2>3, Zenon
            DEF MboxInv, TypeOK, LocalsInv, MessageReachesWaiter, SoleReceiverInv,
                mboxTable, mboxLocals
<1>2. ASSUME NEW t \in Tasks, MboxStep(t)
      PROVE  MboxInv'
  BY <1>2, CreateInv, DeleteInv, FetchInv, WaitInv, TimeoutInv, OKInv,
     PostWakeInv, PostStoreInv, Zenon DEF MboxStep, OSMboxPost
<1>3. CASE InterruptPost
  BY <1>3, PostWakeInv, PostStoreInv, Zenon DEF InterruptPost, OSMboxPost
<1>4. CASE UNCHANGED vars
  BY <1>1, <1>4, Zenon DEF vars
<1>. QED  BY <1>1, <1>2, <1>3, <1>4, Zenon DEF Next, CoreStep

\* MboxInv is an invariant of mailboxes (mbox.c).
THEOREM MboxInvariant ==
  ASSUME PendTimesFit
  PROVE  Spec => []MboxInv
<1>1. Init => MboxInv
  BY MboxInitInv, Zenon
<1>2. MboxInv /\ [Next]_vars => MboxInv'
  BY MboxStepInv, Zenon
<1>. QED  BY <1>1, <1>2, PTL DEF Spec

(***************************************************************************)
(* No message is left in a mailbox beside a waiting task: a task a post    *)
(* woke is on its way to fetch it.                                         *)
(***************************************************************************)
THEOREM MboxMessageReachesWaiter ==
  ASSUME PendTimesFit
  PROVE  Spec => []MessageReachesWaiter
<1>1. MboxInv => MessageReachesWaiter
  BY Zenon DEF MboxInv
<1>. QED  BY <1>1, MboxInvariant, PTL

(***************************************************************************)
(* The only receiver of a mailbox resumes without a timeout exactly when   *)
(* there is a message for it to fetch.                                     *)
(***************************************************************************)
THEOREM MboxSoleReceiverGetsMessage ==
  ASSUME PendTimesFit
  PROVE  Spec => []SoleReceiverGetsMessage
<1>1. MboxInv => SoleReceiverGetsMessage
  <2>. SUFFICES ASSUME MboxInv, NEW t \in Tasks, pc[t] = "mbox",
                       receivers[pont_event[t]] = {t}, Priority[t] \in OSReadyList
                PROVE  OSEventState[pont_event[t]] <=> ~MboxTimedOut(t)
    BY Zenon DEF SoleReceiverGetsMessage
  <2>1. Priority[t] = PriorityOf(t)
    BY PriorityOfFacts, Zenon DEF MboxInv, KernelInv, TablesAgree
  <2>2. OSEventState[pont_event[t]]
          <=> PriorityOf(t) \notin OSEventWaitList[pont_event[t]]
    BY Zenon DEF MboxInv, SoleReceiverInv
  <2>3. PriorityOf(t) \in OSEventWaitList[pont_event[t]] =>
          timed[t] /\ TimeToWait[t] = EXIT_BY_TIMEOUT
    BY <2>1, Zenon DEF MboxInv, MboxEvents, EventInv, Waiter
  <2>. QED  BY <2>1, <2>2, <2>3, Zenon DEF MboxTimedOut
<1>. QED  BY <1>1, MboxInvariant, PTL

=============================================================================
