-------------------------------- MODULE Mbox --------------------------------
(***************************************************************************)
(* Mailboxes (mbox.c) on top of the core.  A mailbox holds one message; a  *)
(* post overwrites what is there.  A post to waiting tasks leaves the      *)
(* message in the mailbox and makes the highest of them ready, which       *)
(* fetches it when it next runs, without looking at OSEventState again.    *)
(*                                                                         *)
(* Of the message only its freshness is kept: OSEventState says whether    *)
(* the last message posted is still to be fetched.                         *)
(***************************************************************************)
EXTENDS Kernel

CONSTANTS
  BRTOS_MAX_MBOX,  \* size of BRTOS_Mbox_Table
  PendTimes        \* values of time_wait passed to OSMboxPend

Mboxes == 0..(BRTOS_MAX_MBOX - 1)
NULL == -1

ASSUME MboxAssumption ==
  /\ BRTOS_MAX_MBOX \in Nat
  /\ PendTimes \subseteq 0..MAX_TIMER

VARIABLES
  OSEventAllocated,
  OSEventState,    \* TRUE: AVAILABLE_MESSAGE, FALSE: NO_MESSAGE
  OSEventWait, OSEventWaitList,
  pont_event,      \* local of OSMboxPend: the mailbox t is pending on
  timed,           \* local of OSMboxPend: time_wait # 0
  posted,          \* history: tasks a post woke that have not returned yet
  receivers        \* history: tasks that pended on a mailbox since its creation

mboxTable == <<OSEventAllocated, OSEventState, OSEventWait, OSEventWaitList>>
mboxLocals == <<pont_event, timed, posted, receivers>>
vars == <<kernelVars, mboxTable, mboxLocals>>

Init ==
  /\ KernelInit
  /\ OSEventAllocated = [b \in Mboxes |-> FALSE]
  /\ OSEventState = [b \in Mboxes |-> FALSE]
  /\ OSEventWait = [b \in Mboxes |-> 0]
  /\ OSEventWaitList = [b \in Mboxes |-> {}]
  /\ pont_event = [t \in Tasks |-> NULL]
  /\ timed = [t \in Tasks |-> FALSE]
  /\ posted = {}
  /\ receivers = [b \in Mboxes |-> {}]

-----------------------------------------------------------------------------
\* With a message other than NULL the mailbox starts full.
OSMboxCreate(t, b, full) ==
  /\ Running(t)
  /\ ~OSEventAllocated[b] /\ \A a \in Mboxes : a < b => OSEventAllocated[a]
  /\ OSEventAllocated' = [OSEventAllocated EXCEPT ![b] = TRUE]
  /\ OSEventState' = [OSEventState EXCEPT ![b] = full]
  /\ OSEventWait' = [OSEventWait EXCEPT ![b] = 0]
  /\ OSEventWaitList' = [OSEventWaitList EXCEPT ![b] = {}]
  /\ receivers' = [receivers EXCEPT ![b] = {}]
  /\ UNCHANGED <<kernelVars, pont_event, timed, posted>>

\* The application deletes mailboxes no task is suspended on.
OSMboxDelete(t, b) ==
  /\ Running(t)
  /\ OSEventAllocated[b]
  /\ \A u \in Tasks : pont_event[u] # b
  /\ OSEventAllocated' = [OSEventAllocated EXCEPT ![b] = FALSE]
  /\ OSEventState' = [OSEventState EXCEPT ![b] = FALSE]
  /\ OSEventWait' = [OSEventWait EXCEPT ![b] = 0]
  /\ OSEventWaitList' = [OSEventWaitList EXCEPT ![b] = {}]
  /\ UNCHANGED <<kernelVars, mboxLocals>>

-----------------------------------------------------------------------------
(***************************************************************************)
(* OSMboxPend: fetch the message, or fail when time_wait = NO_TIMEOUT (no  *)
(* state change), or wait.                                                 *)
(***************************************************************************)
MboxPendFetch(t, b) ==
  /\ Running(t)
  /\ OSEventAllocated[b]
  /\ OSEventState[b]
  /\ OSEventState' = [OSEventState EXCEPT ![b] = FALSE]
  /\ receivers' = [receivers EXCEPT ![b] = @ \cup {t}]
  /\ UNCHANGED <<kernelVars, OSEventAllocated, OSEventWait, OSEventWaitList,
                 pont_event, timed, posted>>

MboxPendWait(t, b, time_wait) ==
  /\ Running(t)
  /\ OSEventAllocated[b]
  /\ ~OSEventState[b]
  /\ time_wait # NO_TIMEOUT
  /\ OSEventWait' = [OSEventWait EXCEPT ![b] = @ + 1]
  /\ OSEventWaitList' = [OSEventWaitList EXCEPT ![b] = @ \cup {Priority[t]}]
  /\ Suspend(t, time_wait, "mbox")
  /\ pont_event' = [pont_event EXCEPT ![t] = b]
  /\ timed' = [timed EXCEPT ![t] = time_wait > 0]
  /\ receivers' = [receivers EXCEPT ![b] = @ \cup {t}]
  /\ UNCHANGED <<OSEventAllocated, OSEventState, posted>>

\* The call returns; its locals are gone.
MboxPendReturn(t) ==
  /\ pc' = [pc EXCEPT ![t] = "app"]
  /\ pont_event' = [pont_event EXCEPT ![t] = NULL]
  /\ timed' = [timed EXCEPT ![t] = FALSE]
  /\ posted' = posted \ {t}
  /\ UNCHANGED <<tickVars, prioVars, currentTask, OSReadyList, OSBlockedList,
                 pendSV, ticksLeft, OSEventAllocated, receivers>>

\* Without the test of the wait list.
MboxTimedOutAlways(t) == timed[t] /\ TimeToWait[t] = EXIT_BY_TIMEOUT

\* Time ran out and no post came as well.
MboxTimedOut(t) ==
  /\ timed[t] /\ TimeToWait[t] = EXIT_BY_TIMEOUT
  /\ Priority[t] \in OSEventWaitList[pont_event[t]]

MboxPendTimeout(t) ==
  /\ Resumed(t, "mbox")
  /\ MboxTimedOut(t)
  /\ LET b == pont_event[t]
     IN  /\ OSEventWaitList' = [OSEventWaitList EXCEPT ![b] = @ \ {Priority[t]}]
         /\ OSEventWait' = [OSEventWait EXCEPT ![b] = @ - 1]
  /\ MboxPendReturn(t)
  /\ UNCHANGED <<TimeToWait, DelayList, OSEventState>>

\* A post and, if the wait was timed, perhaps the timeout too: fetch.
MboxPendOK(t) ==
  /\ Resumed(t, "mbox")
  /\ ~MboxTimedOut(t)
  /\ \/ /\ timed[t] /\ TimeToWait[t] # EXIT_BY_TIMEOUT
        /\ TimeToWait' = [TimeToWait EXCEPT ![t] = NO_TIMEOUT]
        /\ RemoveFromDelayList(t)
     \/ /\ ~timed[t] \/ TimeToWait[t] = EXIT_BY_TIMEOUT
        /\ UNCHANGED <<TimeToWait, DelayList>>
  /\ OSEventState' = [OSEventState EXCEPT ![pont_event[t]] = FALSE]
  /\ MboxPendReturn(t)
  /\ UNCHANGED <<OSEventWait, OSEventWaitList>>

-----------------------------------------------------------------------------
(***************************************************************************)
(* OSMboxPost, from a task or from an interrupt handler.                   *)
(***************************************************************************)
MboxPostWake(b) ==
  /\ OSEventAllocated[b]
  /\ OSEventWait[b] # 0
  /\ LET iPriority == SAScheduler(OSEventWaitList[b])
     IN  /\ OSEventWaitList' = [OSEventWaitList EXCEPT ![b] = @ \ {iPriority}]
         /\ OSReadyList' = OSReadyList \cup {iPriority}
         /\ posted' = posted \cup {PriorityVector[iPriority]}
  /\ OSEventWait' = [OSEventWait EXCEPT ![b] = @ - 1]
  /\ OSEventState' = [OSEventState EXCEPT ![b] = TRUE]
  /\ ChangeContext
  /\ UNCHANGED <<tickVars, waitVars, prioVars, currentTask, OSBlockedList, pc,
                 OSEventAllocated, pont_event, timed, receivers>>

\* The slot is filled although a task may be waiting.
MboxPostStoreAlways(b) ==
  /\ OSEventAllocated[b]
  /\ OSEventState' = [OSEventState EXCEPT ![b] = TRUE]
  /\ UNCHANGED <<kernelVars, OSEventAllocated, OSEventWait, OSEventWaitList,
                 mboxLocals>>

MboxPostStore(b) ==
  /\ OSEventAllocated[b]
  /\ OSEventWait[b] = 0
  /\ OSEventState' = [OSEventState EXCEPT ![b] = TRUE]
  /\ UNCHANGED <<kernelVars, OSEventAllocated, OSEventWait, OSEventWaitList,
                 mboxLocals>>

OSMboxPost(b) == MboxPostWake(b) \/ MboxPostStore(b)

-----------------------------------------------------------------------------
MboxStep(t) ==
  \/ \E b \in Mboxes :
       \/ \E full \in BOOLEAN : OSMboxCreate(t, b, full)
       \/ OSMboxDelete(t, b)
       \/ MboxPendFetch(t, b)
       \/ \E w \in PendTimes : MboxPendWait(t, b, w)
       \/ Running(t) /\ OSMboxPost(b)
  \/ MboxPendTimeout(t)
  \/ MboxPendOK(t)

InterruptPost == \E b \in Mboxes : OSMboxPost(b)

CoreStep ==
  /\ KernelNext
  /\ UNCHANGED <<mboxTable, mboxLocals>>

Next ==
  \/ CoreStep
  \/ \E t \in Tasks : MboxStep(t)
  \/ InterruptPost

Spec == Init /\ [][Next]_vars

-----------------------------------------------------------------------------
TypeOK ==
  /\ KernelTypeOK
  /\ OSEventAllocated \in [Mboxes -> BOOLEAN]
  /\ OSEventState \in [Mboxes -> BOOLEAN]
  /\ OSEventWait \in [Mboxes -> Nat]
  /\ OSEventWaitList \in [Mboxes -> SUBSET Priorities]
  /\ pont_event \in [Tasks -> Mboxes \cup {NULL}]
  /\ timed \in [Tasks -> BOOLEAN]
  /\ posted \subseteq Tasks
  /\ receivers \in [Mboxes -> SUBSET Tasks]

(***************************************************************************)
(* No message waits beside a waiting task: when a mailbox is full and      *)
(* tasks are in its wait list, a task a post woke is on its way to fetch   *)
(* the message.                                                            *)
(***************************************************************************)
MessageReachesWaiter ==
  \A b \in Mboxes :
    OSEventState[b] /\ OSEventWaitList[b] # {} =>
      \E t \in posted : pont_event[t] = b

(***************************************************************************)
(* The unconditional fetch of a resumed OSMboxPend is right when one task  *)
(* receives from the mailbox: it resumes without a timeout only with a     *)
(* message to fetch, and the timeout is reported only when no message is   *)
(* there, however timeouts, posts and ticks interleave.                    *)
(***************************************************************************)
SoleReceiverGetsMessage ==
  \A t \in Tasks :
    pc[t] = "mbox" /\ receivers[pont_event[t]] = {t} /\ Priority[t] \in OSReadyList =>
      (OSEventState[pont_event[t]] <=> ~MboxTimedOut(t))

(***************************************************************************)
(* A task a post woke finds a message that nobody has fetched.             *)
(***************************************************************************)
WokenFindMessage ==
  \A t \in posted : OSEventState[pont_event[t]]

=============================================================================
