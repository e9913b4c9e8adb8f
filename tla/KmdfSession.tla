---------------------------- MODULE KmdfSession ----------------------------
(***************************************************************************)
(* The control driver YumeDiskKMDF: the session of each App file object,   *)
(* its transport runtime, and the three ways a session ends.               *)
(*                                                                         *)
(* The App opens the device, sends commands that are proxied to the        *)
(* miniport and posts slots that stay pending there.  The device queue is  *)
(* parallel (device.c, WdfIoQueueDispatchParallel), slots are dispatched   *)
(* by work items, the watchdog is a timer and file cleanup is a callback:  *)
(* all of them run concurrently.  pc[r] is where the thread that carries   *)
(* request r stands; closer[f] is where the watchdog and the cleanup of    *)
(* file f stand in the close sequence.                                     *)
(*                                                                         *)
(* A session's SessionId is its file.  The miniport is reduced to what     *)
(* DiskHandleIoControlSrb does with a session and one target, each command *)
(* in one step.  InFlightZeroEvent, PendingSlotZeroEvent and               *)
(* ActiveZeroEvent are a wait for the counter to be zero: the thread that  *)
(* counts up from zero clears the event before it counts down again, so    *)
(* the last KeSetEvent is never undone.                                    *)
(***************************************************************************)
EXTENDS Naturals, FiniteSets

CONSTANTS
    Files,          \* file objects, each opened at most once
    SlotRequests,   \* POST_READ_SLOT and POST_WRITE_SLOT requests
    EventRequests,  \* POST_EVENT_SLOT requests
    SyncRequests,   \* every other command
    Command,        \* what each SyncRequest may ask of the miniport
    After,          \* the requests whose completion the App awaits before it sends r
    PoolLimit,      \* CTRL_TRANSPORT_SLOT_POOL_HARD_LIMIT
    SyncPoolLimit,  \* CTRL_TRANSPORT_SYNC_POOL_HARD_LIMIT
    AllocFails,     \* whether a kernel allocation may fail
    MaxHeartbeats,  \* bound: heartbeats of all sessions
    None

Async == SlotRequests \cup EventRequests
Requests == Async \cup SyncRequests
Commands == {"create", "remove", "removeAll", "cancel", "query"}
Closers == {"watchdog", "cleanup"}

ASSUME ConstantsAssumption ==
    /\ SlotRequests \cap EventRequests = {} /\ SyncRequests \cap Async = {}
    /\ Command \in [SyncRequests -> SUBSET Commands]
    /\ After \in [Requests -> SUBSET Requests]
    /\ PoolLimit \in Nat /\ SyncPoolLimit \in Nat /\ MaxHeartbeats \in Nat
    /\ AllocFails \in BOOLEAN
    /\ None \notin Files \cup Requests

VARIABLES
    openFile,      \* OpenFileObject; OpenCount is 1 when it is a file
    state,         \* State
    handle,        \* MiniportHandle is not NULL, with its file and device object
    hasId,         \* SessionId is not 0
    inFlight,      \* InFlightRequestCount
    pendingSlots,  \* PendingSlotCount
    eventSlot,     \* PendingEventSlots[target]
    armed,         \* WatchdogTimer is started
    fresh,         \* LastHeartbeatTick is younger than the timeout
    beats,         \* heartbeats so far (bound)
    closer,        \* where the watchdog and the cleanup stand
    runtime,       \* TransportRuntime is not NULL
    rtState,       \* runtime State
    active,        \* runtime ActiveCount
    pool,          \* runtime PoolObjectCount, SyncPoolObjectCount
    free,          \* length of FreeList, SyncFreeList
    pc, file,      \* per request: place and file object
    holds,         \* per request: "none", "reference" or "object" of the runtime
    calling,       \* requests whose dispatching thread has not settled yet
    completion,    \* per request: CompletionState
    irp,           \* per request: "none", "sent" to or "done" by the miniport
    completed,     \* per request: how often WdfRequestComplete was called
    mpSession,     \* miniport CurrentSessionId
    mpPresent      \* miniport Disk[target].Present

deviceVars   == <<openFile>>
sessionVars  == <<state, handle, hasId, inFlight, pendingSlots, eventSlot>>
watchVars    == <<armed, fresh, beats, closer>>
runtimeVars  == <<runtime, rtState, active, pool, free>>
irpVars      == <<calling, completion, irp>>
requestVars  == <<pc, file, holds, irpVars, completed>>
miniportVars == <<mpSession, mpPresent>>
vars == <<deviceVars, sessionVars, watchVars, runtimeVars, requestVars, miniportVars>>

PoolOf(r) == IF r \in Async THEN "slot" ELSE "sync"
LimitOf(r) == IF r \in Async THEN PoolLimit ELSE SyncPoolLimit

Init ==
    /\ openFile = None
    /\ state = [f \in Files |-> "unopened"] /\ handle = [f \in Files |-> FALSE]
    /\ hasId = [f \in Files |-> FALSE]
    /\ inFlight = [f \in Files |-> 0] /\ pendingSlots = [f \in Files |-> 0]
    /\ eventSlot = [f \in Files |-> None]
    /\ armed = [f \in Files |-> FALSE] /\ fresh = [f \in Files |-> FALSE]
    /\ beats = 0
    /\ closer = [f \in Files |-> [k \in Closers |-> "idle"]]
    /\ runtime = [f \in Files |-> FALSE] /\ rtState = [f \in Files |-> "none"]
    /\ active = [f \in Files |-> 0]
    /\ pool = [f \in Files |-> [p \in {"slot", "sync"} |-> 0]]
    /\ free = [f \in Files |-> [p \in {"slot", "sync"} |-> 0]]
    /\ pc = [r \in Requests |-> "idle"] /\ file = [r \in Requests |-> None]
    /\ holds = [r \in Requests |-> "none"]
    /\ calling = {} /\ completion = [r \in Requests |-> 0] /\ irp = [r \in Requests |-> "none"]
    /\ completed = [r \in Requests |-> 0]
    /\ mpSession = None /\ mpPresent = FALSE

Go(r, place) == pc' = [pc EXCEPT ![r] = place]

(***************************************************************************)
(* Opening a session (ControlEvtFileCreate, ControlSessionTryOpen).  The   *)
(* App has no handle until it returns, so nothing else touches the file.   *)
(***************************************************************************)
TryOpen(f) ==
    /\ openFile = None /\ state[f] = "unopened"
    /\ openFile' = f
    /\ state' = [state EXCEPT ![f] = "Invalid"]
    /\ UNCHANGED <<handle, hasId, inFlight, pendingSlots, eventSlot, watchVars, runtimeVars,
                   requestVars, miniportVars>>

\* Resources, miniport handle and runtime are there: the session is Active and
\* watched.
OpenSucceeds(f) ==
    /\ openFile = f /\ state[f] = "Invalid"
    /\ state' = [state EXCEPT ![f] = "Active"]
    /\ handle' = [handle EXCEPT ![f] = TRUE] /\ hasId' = [hasId EXCEPT ![f] = TRUE]
    /\ runtime' = [runtime EXCEPT ![f] = TRUE]
    /\ rtState' = [rtState EXCEPT ![f] = "Running"]
    /\ armed' = [armed EXCEPT ![f] = TRUE] /\ fresh' = [fresh EXCEPT ![f] = TRUE]
    /\ UNCHANGED <<openFile, inFlight, pendingSlots, eventSlot, beats, closer, active, pool, free,
                   requestVars, miniportVars>>

\* One of the steps failed: what was acquired is given back and the file is
\* never used.
OpenFails(f) ==
    /\ openFile = f /\ state[f] = "Invalid"
    /\ openFile' = None
    /\ state' = [state EXCEPT ![f] = "Closed"]
    /\ UNCHANGED <<handle, hasId, inFlight, pendingSlots, eventSlot, watchVars, runtimeVars,
                   requestVars, miniportVars>>

(***************************************************************************)
(* Admission of a request.                                                 *)
(***************************************************************************)
MayIssue(r, f) ==
    /\ pc[r] = "idle" /\ state[f] \notin {"unopened", "Invalid"}
    /\ \A q \in After[r] : pc[q] = "done"

\* ControlSessionEnterLocked.
Entered(f) == state[f] = "Active" /\ handle[f] /\ hasId[f]

\* ControlSessionAcquire: the check and the reference are one critical section
\* of SessionLock, in which the closers also change the state.
AcquireSession(r, f) ==
    /\ r \in SyncRequests /\ MayIssue(r, f)
    /\ file' = [file EXCEPT ![r] = f]
    /\ IF Entered(f)
         THEN inFlight' = [inFlight EXCEPT ![f] = @ + 1] /\ Go(r, "lookup") /\ UNCHANGED completed
         ELSE Go(r, "done") /\ completed' = [completed EXCEPT ![r] = @ + 1] /\ UNCHANGED inFlight
    /\ UNCHANGED <<deviceVars, state, handle, hasId, pendingSlots, eventSlot, watchVars,
                   runtimeVars, holds, irpVars, miniportVars>>

\* ControlSessionAcquireSlot takes no lock: it looks at the state,
PeekState(r, f) ==
    /\ r \in Async /\ MayIssue(r, f)
    /\ file' = [file EXCEPT ![r] = f]
    /\ IF state[f] = "Active" THEN Go(r, "refer") /\ UNCHANGED completed
       ELSE Go(r, "done") /\ completed' = [completed EXCEPT ![r] = @ + 1]
    /\ UNCHANGED <<deviceVars, sessionVars, watchVars, runtimeVars, holds, irpVars,
                   miniportVars>>

\* counts itself in,
ReferenceSlot(r) ==
    LET f == file[r] IN
    /\ pc[r] = "refer"
    /\ inFlight' = [inFlight EXCEPT ![f] = @ + 1]
    /\ pendingSlots' = [pendingSlots EXCEPT ![f] = @ + 1]
    /\ Go(r, "recheck")
    /\ UNCHANGED <<deviceVars, state, handle, hasId, eventSlot, watchVars, runtimeVars, file,
                   holds, irpVars, completed, miniportVars>>

\* Variant: the state is not read a second time.
SlotAdmittedUnchecked(f) == TRUE

\* What the second look requires.
SlotAdmitted(f) == Entered(f) /\ runtime[f]

\* and looks again.
RecheckState(r) ==
    /\ pc[r] = "recheck"
    /\ Go(r, IF SlotAdmitted(file[r]) THEN "lookup" ELSE "failSlot")
    /\ UNCHANGED <<deviceVars, sessionVars, watchVars, runtimeVars, file, holds, irpVars,
                   completed, miniportVars>>

(***************************************************************************)
(* Pool objects of the runtime (ControlTransportRuntimeAcquireSlotRequest  *)
(* and ControlTransportRuntimeAcquireSyncCommandBuffer).                   *)
(***************************************************************************)

\* The way out of a request that got no object.
FailPlace(r) == IF r \in Async THEN "failSlot" ELSE "reply"

\* The runtime pointer and its state are read without a reference.
LookupRuntime(r) ==
    LET f == file[r] IN
    /\ pc[r] = "lookup"
    /\ Go(r, IF handle[f] /\ runtime[f] /\ rtState[f] = "Running" THEN "reference"
             ELSE FailPlace(r))
    /\ UNCHANGED <<deviceVars, sessionVars, watchVars, runtimeVars, file, holds, irpVars,
                   completed, miniportVars>>

\* ControlTransportRuntimeReferenceActive, and the state again.
ReferenceRuntime(r) ==
    LET f == file[r] IN
    /\ pc[r] = "reference"
    /\ active' = [active EXCEPT ![f] = @ + 1]
    /\ holds' = [holds EXCEPT ![r] = "reference"]
    /\ Go(r, IF rtState[f] = "Running" THEN "object" ELSE "drop")
    /\ UNCHANGED <<deviceVars, sessionVars, watchVars, runtime, rtState, pool, free, file,
                   irpVars, completed, miniportVars>>

\* A free object, or a new one within the limit.
TakeObject(r) ==
    LET f == file[r]  p == PoolOf(r) IN
    /\ pc[r] = "object"
    /\ \/ /\ free[f][p] > 0
          /\ free' = [free EXCEPT ![f][p] = @ - 1] /\ UNCHANGED pool
       \/ /\ free[f][p] = 0 /\ pool[f][p] < LimitOf(r)
          /\ pool' = [pool EXCEPT ![f][p] = @ + 1] /\ UNCHANGED free
    /\ holds' = [holds EXCEPT ![r] = "object"]
    /\ Go(r, IF r \in SyncRequests THEN "send"
             ELSE IF r \in EventRequests THEN "reserve" ELSE "submit")
    /\ UNCHANGED <<deviceVars, sessionVars, watchVars, runtime, rtState, active, file, irpVars, completed, miniportVars>>

\* The limit, or no memory.
NoObject(r) ==
    LET f == file[r] IN
    /\ pc[r] = "object" /\ free[f][PoolOf(r)] = 0
    /\ AllocFails \/ pool[f][PoolOf(r)] >= LimitOf(r)
    /\ Go(r, "drop")
    /\ UNCHANGED <<deviceVars, sessionVars, watchVars, runtimeVars, file, holds, irpVars,
                   completed, miniportVars>>

\* Variant: whoever releases clears the target's reservation.
ClearsAnyEventSlot(r, f) == r \in EventRequests

\* ControlTransportRuntimeClearPendingEventSlot: only its own reservation.
ClearsEventSlot(r, f) == eventSlot[f] = r

\* ControlTransportRuntimeReleaseSlotRequest and ...ReleaseSyncCommandBuffer
\* or, for a request that has no object yet, only
\* ControlTransportRuntimeDereferenceActive.
ReleaseRuntime(r, place) ==
    LET f == file[r] IN
    /\ IF holds[r] = "object"
         THEN /\ free' = [free EXCEPT ![f][PoolOf(r)] = @ + 1]
              /\ eventSlot' = IF ClearsEventSlot(r, f) THEN [eventSlot EXCEPT ![f] = None] ELSE eventSlot
         ELSE UNCHANGED <<free, eventSlot>>
    /\ holds' = [holds EXCEPT ![r] = "none"]
    /\ active' = [active EXCEPT ![f] = @ - 1]
    /\ Go(r, place)

\* A request gives up after it had a reference.
DropObject(r) ==
    /\ pc[r] = "drop"
    /\ ReleaseRuntime(r, FailPlace(r))
    /\ UNCHANGED <<deviceVars, state, handle, hasId, inFlight, pendingSlots, watchVars, runtime,
                   rtState, pool, file, irpVars, completed, miniportVars>>

\* ControlTryReservePendingEventSlot.
ReserveEventSlot(r) ==
    LET f == file[r] IN
    /\ pc[r] = "reserve"
    /\ IF eventSlot[f] = None
         THEN eventSlot' = [eventSlot EXCEPT ![f] = r] /\ Go(r, "submit")
         ELSE Go(r, "drop") /\ UNCHANGED eventSlot
    /\ UNCHANGED <<deviceVars, state, handle, hasId, inFlight, pendingSlots, watchVars,
                   runtimeVars, file, holds, irpVars, completed, miniportVars>>

\* IoAllocateIrp, which may fail, and ControlTransportRuntimeSubmitSlotRequest:
\* the work item is queued while the runtime is Running.
SubmitWorkItem(r) ==
    /\ pc[r] = "submit"
    /\ \/ rtState[file[r]] = "Running" /\ Go(r, "queued")
       \/ (AllocFails \/ rtState[file[r]] # "Running") /\ Go(r, "drop")
    /\ completion' = [completion EXCEPT ![r] = 0]
    /\ UNCHANGED <<deviceVars, sessionVars, watchVars, runtimeVars, file, holds, calling, irp, completed,
                   miniportVars>>

(***************************************************************************)
(* The miniport as the control driver sees it.                             *)
(***************************************************************************)

\* DiskClaimSessionLocked: the first command claims the adapter.
MayClaim(f) == mpSession \in {None, f}

\* Variant: the posted slots stay where they are.
PostedStay == UNCHANGED irp

\* Deactivation of the target completes every slot posted there.
CompletePosted == irp' = [q \in Requests |-> IF irp[q] = "sent" THEN "done" ELSE irp[q]]

\* The handlers of the commands, for a session that holds the adapter.
CommandEffect(cmd) ==
    \/ cmd = "create" /\ mpPresent' = TRUE /\ UNCHANGED irp
    \/ cmd = "remove" /\ mpPresent /\ mpPresent' = FALSE /\ CompletePosted
    \/ cmd = "removeAll" /\ mpPresent' = FALSE /\ CompletePosted
    \/ /\ cmd = "cancel"
       /\ \E q \in SlotRequests : irp[q] = "sent" /\ irp' = [irp EXCEPT ![q] = "done"]
       /\ UNCHANGED mpPresent
    \/ /\ \/ cmd = "query"
          \/ cmd = "remove" /\ ~mpPresent
          \/ cmd = "cancel" /\ \A q \in SlotRequests : irp[q] # "sent"
       /\ UNCHANGED <<mpPresent, irp>>

\* ControlSendPreparedMiniportBuffer and DiskHandleIoControlSrb.
SendCommand(r) ==
    LET f == file[r] IN
    /\ pc[r] = "send"
    /\ IF MayClaim(f) THEN mpSession' = f /\ \E cmd \in Command[r] : CommandEffect(cmd)
       ELSE UNCHANGED <<mpSession, mpPresent, irp>>
    /\ Go(r, "releaseBuffer")
    /\ UNCHANGED <<deviceVars, sessionVars, watchVars, runtimeVars, file, holds, calling, completion,
                   completed>>

ReleaseBuffer(r) ==
    /\ pc[r] = "releaseBuffer"
    /\ ReleaseRuntime(r, "reply")
    /\ UNCHANGED <<deviceVars, state, handle, hasId, inFlight, pendingSlots, watchVars, runtime,
                   rtState, pool, file, irpVars, completed, miniportVars>>

\* WdfRequestComplete of a command, then ControlSessionRelease.
Reply(r) ==
    /\ pc[r] = "reply"
    /\ completed' = [completed EXCEPT ![r] = @ + 1]
    /\ Go(r, "leave")
    /\ UNCHANGED <<deviceVars, sessionVars, watchVars, runtimeVars, file, holds, irpVars,
                   miniportVars>>

ReleaseSession(r) ==
    /\ pc[r] = "leave"
    /\ inFlight' = [inFlight EXCEPT ![file[r]] = @ - 1]
    /\ Go(r, "done")
    /\ UNCHANGED <<deviceVars, state, handle, hasId, pendingSlots, eventSlot, watchVars,
                   runtimeVars, file, holds, irpVars, completed, miniportVars>>

(***************************************************************************)
(* A slot in the miniport: the thread that called IoCallDriver and the     *)
(* completion routine settle who completes the App's request.              *)
(***************************************************************************)

\* ControlTransportRuntimeSlotWorkItem.
SlotWorkItem(r) ==
    /\ pc[r] = "queued"
    /\ Go(r, IF rtState[file[r]] = "Running" THEN "dispatch" ELSE "complete")
    /\ UNCHANGED <<deviceVars, sessionVars, watchVars, runtimeVars, file, holds, irpVars,
                   completed, miniportVars>>

\* DiskHandleSubmitSlotIoctl and DiskHandleSubmitEventSlotIoctl keep the slot.
MiniportKeeps(r) ==
    /\ MayClaim(file[r]) /\ mpPresent
    /\ r \in EventRequests => \A q \in EventRequests : irp[q] # "sent"

\* IoCallDriver.  A slot the miniport does not keep is completed at once.
DispatchSlot(r) ==
    /\ pc[r] = "dispatch"
    /\ mpSession' = IF MayClaim(file[r]) THEN file[r] ELSE mpSession
    /\ irp' = [irp EXCEPT ![r] = IF MiniportKeeps(r) THEN "sent" ELSE "done"]
    /\ Go(r, "posted") /\ calling' = calling \cup {r}
    /\ UNCHANGED <<deviceVars, sessionVars, watchVars, runtimeVars, file, holds, completion,
                   completed, mpPresent>>

\* Windows I/O, or a media event, completes a posted slot.
MiniportCompletes(r) ==
    /\ irp[r] = "sent"
    /\ irp' = [irp EXCEPT ![r] = "done"]
    /\ UNCHANGED <<deviceVars, sessionVars, watchVars, runtimeVars, pc, file, holds, calling,
                   completion, completed, miniportVars>>

\* Variant: the completion routine takes every request.
RoutineTakesAll(r) == TRUE

\* The exchange found that the dispatching thread is through (state 1).
RoutineOwns(r) == completion[r] = 1

\* ControlSubmitSlotCompletionRoutine.
CompletionRoutine(r) ==
    /\ irp[r] = "done"
    /\ irp' = [irp EXCEPT ![r] = "none"]
    /\ completion' = [completion EXCEPT ![r] = IF @ = 0 THEN 2 ELSE @]
    /\ IF RoutineOwns(r) THEN Go(r, "complete") ELSE UNCHANGED pc
    /\ UNCHANGED <<deviceVars, sessionVars, watchVars, runtimeVars, file, holds, calling, completed,
                   miniportVars>>

\* The rest of ControlTransportDispatchSlotRequest.  IoCallDriver returns
\* anything but STATUS_PENDING only after the routine ran, so its last branch
\* is not taken.
SettleDispatch(r) ==
    /\ r \in calling /\ calling' = calling \ {r}
    /\ IF completion[r] = 2 THEN Go(r, "complete") /\ UNCHANGED completion
       ELSE completion' = [completion EXCEPT ![r] = 1] /\ UNCHANGED pc
    /\ UNCHANGED <<deviceVars, sessionVars, watchVars, runtimeVars, file, holds, irp, completed,
                   miniportVars>>

\* ControlCompleteAsyncSlotRequest: the App first,
CompleteSlot(r) ==
    /\ pc[r] = "complete"
    /\ completed' = [completed EXCEPT ![r] = @ + 1]
    /\ Go(r, "leaveSlot")
    /\ UNCHANGED <<deviceVars, sessionVars, watchVars, runtimeVars, file, holds, irpVars,
                   miniportVars>>

\* then ControlSessionReleaseSlot, which a request that failed early runs
\* before it is completed,
ReleaseSlot(r) ==
    LET f == file[r] IN
    /\ pc[r] \in {"leaveSlot", "failSlot"}
    /\ inFlight' = [inFlight EXCEPT ![f] = @ - 1]
    /\ pendingSlots' = [pendingSlots EXCEPT ![f] = @ - 1]
    /\ Go(r, IF pc[r] = "leaveSlot" THEN "giveBack" ELSE "answer")
    /\ UNCHANGED <<deviceVars, state, handle, hasId, eventSlot, watchVars, runtimeVars, file,
                   holds, irpVars, completed, miniportVars>>

\* and ControlTransportRuntimeReleaseSlotRequest last.
GiveBack(r) ==
    /\ pc[r] = "giveBack"
    /\ ReleaseRuntime(r, "done")
    /\ UNCHANGED <<deviceVars, state, handle, hasId, inFlight, pendingSlots, watchVars, runtime,
                   rtState, pool, file, irpVars, completed, miniportVars>>

\* WdfRequestComplete of a slot that never reached the work queue.
Answer(r) ==
    /\ pc[r] = "answer"
    /\ completed' = [completed EXCEPT ![r] = @ + 1]
    /\ Go(r, "done")
    /\ UNCHANGED <<deviceVars, sessionVars, watchVars, runtimeVars, file, holds, irpVars,
                   miniportVars>>

(***************************************************************************)
(* Heartbeat, watchdog and file cleanup.                                   *)
(***************************************************************************)
Step(f, k, place) == closer' = [closer EXCEPT ![f][k] = place]

\* Variant: the timer is stopped and not started again.
HeartbeatTimer(f) == FALSE

\* What the heartbeat leaves in the timer: stopped and started anew.
TimerAfterHeartbeat(f) == TRUE

\* ControlSessionHeartbeat, under SessionLock.
Heartbeat(f) ==
    /\ Entered(f) /\ beats < MaxHeartbeats
    /\ beats' = beats + 1
    /\ fresh' = [fresh EXCEPT ![f] = TRUE]
    /\ armed' = [armed EXCEPT ![f] = TimerAfterHeartbeat(f)]
    /\ UNCHANGED <<deviceVars, sessionVars, closer, runtimeVars, requestVars, miniportVars>>

\* The one-shot timer expires: the callback is queued.  By now the tick of the
\* heartbeat that started it is older than the timeout.  A timer that a late
\* heartbeat starts after the cleanup stopped it has ten seconds to go, and the
\* cleanup only has to take SessionLock: it gets there first.
TimerExpires(f) ==
    /\ armed[f] /\ closer[f]["watchdog"] = "idle" /\ closer[f]["cleanup"] # "lock"
    /\ armed' = [armed EXCEPT ![f] = FALSE]
    /\ fresh' = [fresh EXCEPT ![f] = FALSE]
    /\ Step(f, "watchdog", "lock")
    /\ UNCHANGED <<deviceVars, sessionVars, beats, runtimeVars, requestVars, miniportVars>>

\* ControlEvtSessionWatchdogTimer under SessionLock.
WatchdogLocks(f) ==
    /\ closer[f]["watchdog"] = "lock"
    /\ IF Entered(f) /\ ~fresh[f]
         THEN state' = [state EXCEPT ![f] = "Locked"] /\ Step(f, "watchdog", "beginClose")
         ELSE Step(f, "watchdog", "idle") /\ UNCHANGED state
    /\ UNCHANGED <<deviceVars, handle, hasId, inFlight, pendingSlots, eventSlot, armed, fresh,
                   beats, runtimeVars, requestVars, miniportVars>>

\* The last handle is closed: ControlEvtFileCleanup.
BeginCleanup(f) ==
    /\ state[f] \in {"Active", "Locked"} /\ closer[f]["cleanup"] = "idle"
    /\ Step(f, "cleanup", "stopTimer")
    /\ UNCHANGED <<deviceVars, sessionVars, armed, fresh, beats, runtimeVars, requestVars,
                   miniportVars>>

\* WdfTimerStop with Wait: a running callback is waited for.
StopTimer(f) ==
    /\ closer[f]["cleanup"] = "stopTimer" /\ closer[f]["watchdog"] = "idle"
    /\ armed' = [armed EXCEPT ![f] = FALSE]
    /\ Step(f, "cleanup", "lock")
    /\ UNCHANGED <<deviceVars, sessionVars, fresh, beats, runtimeVars, requestVars, miniportVars>>

CleanupLocks(f) ==
    /\ closer[f]["cleanup"] = "lock"
    /\ state' = [state EXCEPT ![f] = "Closing"]
    /\ Step(f, "cleanup", "beginClose")
    /\ UNCHANGED <<deviceVars, handle, hasId, inFlight, pendingSlots, eventSlot, armed, fresh,
                   beats, runtimeVars, requestVars, miniportVars>>

(***************************************************************************)
(* The close sequence, the same calls in both.                             *)
(***************************************************************************)

\* ControlTransportRuntimeBeginClose.
BeginClose(f, k) ==
    /\ closer[f][k] = "beginClose"
    /\ rtState' = IF runtime[f] THEN [rtState EXCEPT ![f] = "Closing"] ELSE rtState
    /\ Step(f, k, "send")
    /\ UNCHANGED <<deviceVars, sessionVars, armed, fresh, beats, runtime, active, pool, free,
                   requestVars, miniportVars>>

\* ControlSendSessionCleanup: RemoveAllDisks with YUMEDISK_SESSION_CLOSE_FLAG,
\* while admitted requests are still on their way.  Its result is ignored.
SendSessionCleanup(f, k) ==
    /\ closer[f][k] = "send"
    /\ \/ /\ handle[f] /\ hasId[f] /\ MayClaim(f)
          /\ mpPresent' = FALSE /\ CompletePosted /\ mpSession' = None
       \/ /\ ~handle[f] \/ ~hasId[f] \/ ~MayClaim(f) \/ AllocFails
          /\ UNCHANGED <<mpPresent, irp, mpSession>>
    /\ Step(f, k, "drainIo")
    /\ UNCHANGED <<deviceVars, sessionVars, armed, fresh, beats, runtimeVars, pc, file, holds,
                   calling, completion, completed>>

\* The condition ControlSessionDrainInFlightIo waits for.
Drained(f) == inFlight[f] = 0

DrainInFlightIo(f, k) ==
    /\ closer[f][k] = "drainIo" /\ Drained(f)
    /\ Step(f, k, "stop")
    /\ UNCHANGED <<deviceVars, sessionVars, armed, fresh, beats, runtimeVars, requestVars,
                   miniportVars>>

\* ControlTransportRuntimeStop: whoever takes the pointer frees the runtime.
StopRuntime(f, k) ==
    /\ closer[f][k] = "stop"
    /\ IF runtime[f]
         THEN /\ runtime' = [runtime EXCEPT ![f] = FALSE]
              /\ rtState' = [rtState EXCEPT ![f] = "Closing"]
              /\ Step(f, k, "drainActive")
         ELSE Step(f, k, "drainSlots") /\ UNCHANGED <<runtime, rtState>>
    /\ UNCHANGED <<deviceVars, sessionVars, armed, fresh, beats, active, pool, free, requestVars,
                   miniportVars>>

\* Variant: the references of completing slots are not waited for.
IdleUnchecked(f) == TRUE

\* The condition ControlTransportRuntimeDrainActive waits for.
RuntimeIdle(f) == active[f] = 0

FreeRuntime(f, k) ==
    /\ closer[f][k] = "drainActive" /\ RuntimeIdle(f)
    /\ rtState' = [rtState EXCEPT ![f] = "freed"]
    /\ pool' = [pool EXCEPT ![f] = [p \in {"slot", "sync"} |-> @[p] - free[f][p]]]
    /\ free' = [free EXCEPT ![f] = [p \in {"slot", "sync"} |-> 0]]
    /\ Step(f, k, "drainSlots")
    /\ UNCHANGED <<deviceVars, sessionVars, armed, fresh, beats, runtime, active, requestVars,
                   miniportVars>>

DrainPendingSlots(f, k) ==
    /\ closer[f][k] = "drainSlots" /\ pendingSlots[f] = 0
    /\ Step(f, k, "closeHandle")
    /\ UNCHANGED <<deviceVars, sessionVars, armed, fresh, beats, runtimeVars, requestVars,
                   miniportVars>>

\* ControlCloseMiniportHandle; the watchdog stops its timer and returns, the
\* cleanup forgets the session.
CloseHandle(f, k) ==
    /\ closer[f][k] = "closeHandle"
    /\ handle' = [handle EXCEPT ![f] = FALSE]
    /\ \/ /\ k = "watchdog"
          /\ armed' = [armed EXCEPT ![f] = FALSE]
          /\ Step(f, k, "idle") /\ UNCHANGED <<state, hasId>>
       \/ /\ k = "cleanup"
          /\ hasId' = [hasId EXCEPT ![f] = FALSE]
          /\ state' = [state EXCEPT ![f] = "Closed"]
          /\ Step(f, k, "release") /\ UNCHANGED armed
    /\ UNCHANGED <<deviceVars, inFlight, pendingSlots, eventSlot, fresh, beats, runtimeVars,
                   requestVars, miniportVars>>

\* ControlSessionReleaseDeviceOpen.
ReleaseDeviceOpen(f) ==
    /\ closer[f]["cleanup"] = "release"
    /\ openFile' = IF openFile = f THEN None ELSE openFile
    /\ Step(f, "cleanup", "done")
    /\ UNCHANGED <<sessionVars, armed, fresh, beats, runtimeVars, requestVars, miniportVars>>

(***************************************************************************)
(* The next-state relation.                                                *)
(***************************************************************************)
Device(f) == TryOpen(f) \/ OpenSucceeds(f) \/ OpenFails(f)

App(r) == \E f \in Files : AcquireSession(r, f) \/ PeekState(r, f)

\* What a driver thread does next with request r.
Serve(r) ==
    \/ ReferenceSlot(r) \/ RecheckState(r) \/ LookupRuntime(r) \/ ReferenceRuntime(r)
    \/ TakeObject(r) \/ NoObject(r) \/ DropObject(r) \/ ReserveEventSlot(r) \/ SubmitWorkItem(r)
    \/ SendCommand(r) \/ ReleaseBuffer(r) \/ Reply(r) \/ ReleaseSession(r)
    \/ SlotWorkItem(r) \/ DispatchSlot(r) \/ SettleDispatch(r)
    \/ CompleteSlot(r) \/ ReleaseSlot(r) \/ GiveBack(r) \/ Answer(r)

Watchdog(f) == TimerExpires(f) \/ WatchdogLocks(f)

Cleanup(f) == StopTimer(f) \/ CleanupLocks(f) \/ ReleaseDeviceOpen(f)

Close(f, k) ==
    \/ BeginClose(f, k) \/ SendSessionCleanup(f, k) \/ DrainInFlightIo(f, k) \/ StopRuntime(f, k)
    \/ FreeRuntime(f, k) \/ DrainPendingSlots(f, k) \/ CloseHandle(f, k)

Next ==
    \/ \E f \in Files :
         \/ Device(f) \/ Heartbeat(f) \/ BeginCleanup(f) \/ Watchdog(f) \/ Cleanup(f)
         \/ \E k \in Closers : Close(f, k)
    \/ \E r \in Requests : App(r) \/ Serve(r) \/ MiniportCompletes(r) \/ CompletionRoutine(r)

Spec == Init /\ [][Next]_vars

(***************************************************************************)
(* Type correctness.                                                       *)
(***************************************************************************)
SessionStates == {"unopened", "Invalid", "Active", "Locked", "Closing", "Closed"}
Places == {"idle", "refer", "recheck", "lookup", "reference", "object", "reserve", "submit",
           "drop", "queued", "dispatch", "posted", "complete", "leaveSlot", "failSlot",
           "giveBack", "answer", "send", "releaseBuffer", "reply", "leave", "done"}
CloserPlaces == {"idle", "stopTimer", "lock", "beginClose", "send", "drainIo", "stop",
                 "drainActive", "drainSlots", "closeHandle", "release", "done"}
Pools == {"slot", "sync"}

\* The values of the driver's contexts; the counters never go below zero.
TypeOK ==
    /\ openFile \in Files \cup {None}
    /\ state \in [Files -> SessionStates]
    /\ handle \in [Files -> BOOLEAN] /\ hasId \in [Files -> BOOLEAN]
    /\ inFlight \in [Files -> Nat] /\ pendingSlots \in [Files -> Nat]
    /\ eventSlot \in [Files -> EventRequests \cup {None}]
    /\ armed \in [Files -> BOOLEAN] /\ fresh \in [Files -> BOOLEAN] /\ beats \in Nat
    /\ closer \in [Files -> [Closers -> CloserPlaces]]
    /\ runtime \in [Files -> BOOLEAN]
    /\ rtState \in [Files -> {"none", "Running", "Closing", "freed"}]
    /\ active \in [Files -> Nat]
    /\ pool \in [Files -> [Pools -> Nat]] /\ free \in [Files -> [Pools -> Nat]]
    /\ pc \in [Requests -> Places] /\ file \in [Requests -> Files \cup {None}]
    /\ holds \in [Requests -> {"none", "reference", "object"}]
    /\ calling \subseteq Async /\ completion \in [Requests -> 0 .. 2] /\ irp \in [Requests -> {"none", "sent", "done"}]
    /\ completed \in [Requests -> Nat]
    /\ mpSession \in Files \cup {None} /\ mpPresent \in BOOLEAN

(***************************************************************************)
(* Safety.                                                                 *)
(***************************************************************************)

\* Places at which an admitted request still uses the session's miniport
\* handle, its device object or the runtime pointer.
UsePlaces == {"lookup", "reference", "object", "reserve", "submit", "queued", "dispatch", "send"}

\* The miniport handle is open for as long as an admitted request may use it,
\* whichever of watchdog and cleanup closes it and whenever the request passed
\* the two unsynchronised looks at the state.
HandleOutlivesUse == \A r \in Requests : pc[r] \in UsePlaces => handle[file[r]]

\* The runtime is not freed while a thread holds a reference to it or is about
\* to take one, although a slot leaves the session before the runtime.
RuntimeOutlivesUse ==
    \A r \in Requests :
        holds[r] # "none" \/ pc[r] = "reference" => rtState[file[r]] # "freed"

\* Once the handle is closed, no slot of the session is left in the miniport
\* and none of its pool objects is out: buffers of the App are not written to.
ClosedMeansReturned ==
    \A f \in Files : state[f] = "Closed" =>
        \A r \in Async : file[r] = f =>
            irp[r] = "none" /\ holds[r] = "none" /\ pc[r] \in {"refer", "recheck", "failSlot", "answer", "done"}

\* Every App request is completed exactly once, by whoever the exchange on
\* CompletionState made its owner.
CompletedOnce ==
    \A r \in Requests : completed[r] <= 1 /\ (pc[r] = "done" => completed[r] = 1)

\* PendingEventSlots names the one event slot of the session that is on its
\* way to, or in, the miniport.
EventPlaces == {"submit", "queued", "dispatch", "posted", "complete", "leaveSlot", "giveBack"}
EventSlotReserved ==
    \A r \in EventRequests : pc[r] \in EventPlaces => eventSlot[file[r]] = r

\* An Active session is watched: a heartbeat that races with the expiry never
\* leaves the one-shot timer stopped.
ActiveIsWatched ==
    \A f \in Files : state[f] = "Active" =>
        armed[f] \/ closer[f]["watchdog"] # "idle" \/ closer[f]["cleanup"] # "idle"

(***************************************************************************)
(* The inductive invariant: what the steps rely on about each other.       *)
(***************************************************************************)

\* Places between the two counts of ControlSessionAcquire or AcquireSlot and
\* of the release; places that a request which does not touch the runtime or
\* the handle any more, or not yet, goes through after the session was closed;
\* places with a pool object.
InPlaces == Places \ {"idle", "refer", "giveBack", "answer", "done"}
QuietPlaces == {"refer", "recheck", "failSlot", "giveBack", "answer", "done"}
ObjectPlaces == {"reserve", "submit", "send", "releaseBuffer", "queued", "dispatch", "posted",
                 "complete", "leaveSlot", "giveBack"}

\* A request: which way it goes, what it holds, whether its App request was
\* completed, and who of dispatching thread and completion routine comes next.
RequestOK(r) ==
    /\ (pc[r] = "idle") = (file[r] = None)
    /\ r \in SyncRequests => pc[r] \in {"idle", "lookup", "reference", "object", "drop", "send",
                                       "releaseBuffer", "reply", "leave", "done"}
    /\ r \in Async => pc[r] \notin {"send", "releaseBuffer", "reply", "leave"}
    /\ pc[r] = "reserve" => r \in EventRequests
    /\ pc[r] \in ObjectPlaces => holds[r] = "object"
    /\ pc[r] = "object" => holds[r] = "reference"
    /\ (holds[r] = "none") = (pc[r] \notin ObjectPlaces \cup {"object", "drop"})
    /\ completed[r] = IF pc[r] \in {"leaveSlot", "giveBack", "leave", "done"} THEN 1 ELSE 0
    /\ r \in calling \/ irp[r] # "none" => pc[r] = "posted"
    /\ pc[r] = "posted" /\ r \in calling => completion[r] = IF irp[r] = "none" THEN 2 ELSE 0
    /\ pc[r] = "posted" /\ r \notin calling => completion[r] = 1 /\ irp[r] # "none"
    /\ pc[r] \in {"queued", "dispatch"} => completion[r] = 0

RequestsOK == \A r \in Requests : RequestOK(r)

\* The counters of the session and of the runtime count requests.
InSession(f) == {r \in Requests : file[r] = f /\ pc[r] \in InPlaces}
Holders(f) == {r \in Requests : file[r] = f /\ holds[r] # "none"}
ObjectsOut(f, p) == {r \in Requests : file[r] = f /\ holds[r] = "object" /\ PoolOf(r) = p}

InFlightOK ==
    \A f \in Files :
        /\ IsFiniteSet(InSession(f)) /\ inFlight[f] = Cardinality(InSession(f))
        /\ pendingSlots[f] = Cardinality(InSession(f) \cap Async)
ActiveOK == \A f \in Files : IsFiniteSet(Holders(f)) /\ active[f] = Cardinality(Holders(f))
PoolOK == \A f \in Files, p \in Pools : pool[f][p] = free[f][p] + Cardinality(ObjectsOut(f, p))

\* A session: how far watchdog and cleanup can be in each state, never both in
\* the close sequence, and what they have left of handle and runtime.
EndPlaces == {"beginClose", "send", "drainIo", "stop", "drainActive", "drainSlots", "closeHandle"}

SessionOK(f) ==
    LET w == closer[f]["watchdog"]
        c == closer[f]["cleanup"]
    IN  /\ state[f] \in {"unopened", "Invalid"} =>
             w = "idle" /\ c = "idle" /\ ~handle[f] /\ ~armed[f] /\ rtState[f] = "none"
        /\ state[f] = "Active" =>
             /\ w \in {"idle", "lock"} /\ c \in {"idle", "stopTimer", "lock"}
             /\ hasId[f] /\ runtime[f] /\ rtState[f] = "Running"
             /\ armed[f] \/ c # "idle" \/ (w = "lock" /\ ~fresh[f])
        /\ state[f] = "Locked" =>
             /\ w \in {"idle", "lock"} \cup EndPlaces /\ c \in {"idle", "stopTimer", "lock"}
             /\ w \in EndPlaces \/ rtState[f] = "freed"
        /\ state[f] = "Closing" => w \in {"idle", "lock"} /\ c \in EndPlaces
        /\ state[f] = "Closed" =>
             /\ w \in {"idle", "lock"} /\ c \in {"idle", "release", "done"}
             /\ rtState[f] \in {"none", "freed"}
        /\ c = "lock" => w = "idle"
        /\ runtime[f] => rtState[f] \in {"Running", "Closing"} /\ handle[f]
        /\ ~handle[f] => rtState[f] \in {"none", "freed"}
        /\ rtState[f] = "none" => state[f] \in {"unopened", "Invalid", "Closed"}
        /\ ~runtime[f] /\ rtState[f] \notin {"none", "freed"} => "drainActive" \in {w, c}
        /\ "drainActive" \in {w, c} => ~runtime[f] /\ rtState[f] = "Closing"
        /\ w \in {"drainSlots", "closeHandle"} \/ c \in {"drainSlots", "closeHandle"} => rtState[f] = "freed"

SessionsOK == \A f \in Files : SessionOK(f)

\* Whom a session still serves: once its requests were drained, or the runtime
\* was freed, whoever comes late turns back.
Quiet(f) == \A r \in Requests : file[r] = f => pc[r] \in QuietPlaces
QuietAt(f) ==
    /\ state[f] \in {"unopened", "Invalid"} => \A r \in Requests : file[r] # f
    /\ (\E k \in Closers : closer[f][k] \in {"stop", "drainActive"}) => Quiet(f)
    /\ rtState[f] = "freed" => Quiet(f) /\ \A r \in Requests : file[r] = f => holds[r] = "none"
    /\ rtState[f] = "none" => \A r \in Requests : file[r] = f => pc[r] = "done"

QuietOK == \A f \in Files : QuietAt(f)

IndInv ==
    /\ TypeOK /\ RequestsOK /\ InFlightOK /\ ActiveOK /\ PoolOK /\ SessionsOK /\ QuietOK
    /\ EventSlotReserved

(***************************************************************************)
(* What the documentation says and the code does not keep (docs/           *)
(* architecture, section 3.1: no App session, no disk).                    *)
(***************************************************************************)

\* Without a session the miniport shows no disk.
NoSessionNoDisk == openFile = None => ~mpPresent

(***************************************************************************)
(* Liveness: driver threads, work items, completion routines, the timer    *)
(* and a cleanup that began go on; the App and Windows need not.           *)
(***************************************************************************)
Fairness ==
    /\ \A f \in Files : WF_vars(OpenSucceeds(f)) /\ WF_vars(Watchdog(f)) /\ WF_vars(Cleanup(f))
    /\ \A f \in Files, k \in Closers : WF_vars(Close(f, k))
    /\ \A r \in Requests : WF_vars(Serve(r)) /\ WF_vars(CompletionRoutine(r))

FairSpec == Spec /\ Fairness

\* A session whose App falls silent is closed without the App's help.
SilentSessionCloses == \A f \in Files : state[f] = "Active" ~> ~handle[f]

\* File cleanup ends: the next App can open the device.
CleanupFinishes ==
    \A f \in Files : closer[f]["cleanup"] = "stopTimer" ~> closer[f]["cleanup"] = "done"

\* Every request the App issued is answered, posted slots included.
RequestIsAnswered == \A r \in Requests : file[r] # None ~> completed[r] = 1
=============================================================================
