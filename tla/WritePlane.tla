----------------------------- MODULE WritePlane -----------------------------
(***************************************************************************)
(* The write path above the miniport: AppKernel's write workers and        *)
(* acknowledgement flusher, its response queue, and BackendRust, which     *)
(* stages fragments, commits or rejects them when the final response of    *)
(* their write arrives, overlays them on reads, and takes the disk down.   *)
(*                                                                         *)
(* A write is its EventId: writes are numbered in the order in which       *)
(* Windows sends them, and Fragments[w] names the block each fragment      *)
(* covers.  A block holds the last write that reached it, or Blank.        *)
(*                                                                         *)
(* Each thread of the code is a group of actions: a write worker per slot  *)
(* (Track, Stage, EnqueueAck), the flusher (Steal, Send, ApplyRange,       *)
(* StopFlusher), the signal loop (Poll, Commit, Reject), and the control   *)
(* calls, which their callers serialise (ctl).  A lock of the code covers  *)
(* one action: disk->WriteTrackLock Track and ApplyRange, the lock of the  *)
(* DiskRuntime Stage, Commit, Reject and TakeMedia.                        *)
(***************************************************************************)
EXTENDS Naturals, Sequences, FiniteSets

CONSTANTS
    Writes,             \* EventIds, 1 .. n
    Blocks,             \* blocks of the disk
    Fragments,          \* the blocks of each write, one per fragment
    Slots,              \* write slots of all write workers
    AckBatchMaxRanges,  \* ranges in one WRITE_ACK_BATCH
    QueueDepth,         \* Params.QueueDepth: finalized events remembered
    Faults,             \* the faults that may occur
    MaxFaults,          \* bound: faults
    MaxCreates,         \* bound: disk creations
    Removals,           \* the control calls that take the disk away
    Blank, None

ASSUME ConstantsAssumption ==
    /\ Writes \subseteq Nat \ {0} /\ IsFiniteSet(Writes)
    /\ Fragments \in [Writes -> Seq(Blocks)] /\ \A w \in Writes : Fragments[w] # <<>>
    /\ Slots \in Nat \ {0} /\ AckBatchMaxRanges \in Nat \ {0} /\ QueueDepth \in Nat \ {0}
    /\ MaxFaults \in Nat /\ MaxCreates \in Nat
    /\ Faults \subseteq {"reset", "media", "remove", "create", "broken"}
    /\ Removals \subseteq {"remove", "detach", "removeAll", "close"}
    /\ Blank \notin Writes /\ None \notin [ev : Writes, committed : BOOLEAN]

VARIABLES
    srb,         \* what Windows was told of each write
    issued,      \* fragments the miniport has put in a slot
    accepted,    \* fragments whose acknowledgement the miniport accepted
    earlier,     \* observation: the writes that had succeeded when w was sent
    slots,       \* filled slots and how far their worker has got
    ackQueue,    \* disk->WriteAckHead ..
    flush,       \* AK_WRITE_ACK_FLUSH_CONTEXT of the flusher
    active,      \* disk->ActiveWriteEvents: AckedSeqCount by EventId
    finalized,   \* disk->FinalizedWriteEventsHead ..
    responses,   \* session->ResponseQueue
    disk,        \* AK_DISK: "none", "running" or "stopping"
    handle,      \* lifecycle.handle: none, or valid, or left over from a freed AK_DISK
    runtime,     \* disk_runtimes holds the target
    media,       \* who holds the media: its caller, the runtime, or nobody
    store,       \* content of the media
    staging,     \* StagingStore.writes
    nextOrdinal, \* StagingStore.next_ordinal
    loop,        \* the signal loop runs
    polled,      \* the response the signal loop is handling
    session,     \* the session is open
    ctl,         \* the control call in progress and where it stands
    stuck,       \* observation: writes whose commit failed
    lost,        \* observation: writes that had succeeded when their record was cleared
    creates, faults

windowsVars == <<srb, issued, accepted, earlier>>
kernelVars  == <<slots, ackQueue, flush, active, finalized, disk>>
backendVars == <<handle, runtime, media, session, ctl, creates>>
dataVars    == <<store, staging, nextOrdinal, stuck, lost>>
loopVars    == <<responses, loop, polled>>
vars == <<windowsVars, kernelVars, backendVars, dataVars, loopVars, faults>>

Idle == [call |-> "none", at |-> "idle"]
Flush(at, ranges) == [at |-> at, ranges |-> ranges]
EmptyFlush == Flush("idle", <<>>)
NoEvents == [w \in {} |-> 0]
NoRecords == [w \in {} |-> {}]

\* BackendContext::new, and a session opened with no disk.
Init ==
    /\ srb = [w \in Writes |-> "unsent"] /\ issued = [w \in Writes |-> 0]
    /\ accepted = [w \in Writes |-> {}] /\ earlier = [w \in Writes |-> {}]
    /\ slots = {} /\ ackQueue = <<>> /\ flush = EmptyFlush
    /\ active = NoEvents /\ finalized = <<>> /\ responses = <<>>
    /\ disk = "none" /\ handle = "none" /\ runtime = FALSE /\ media = "caller"
    /\ store = [b \in Blocks |-> Blank] /\ staging = NoRecords /\ nextOrdinal = 1
    /\ loop = "off" /\ polled = None /\ session = FALSE
    /\ ctl = Idle /\ stuck = {} /\ lost = {} /\ creates = 0 /\ faults = 0

Without(f, w) == [x \in DOMAIN f \ {w} |-> f[x]]
With(f, w, v) == [x \in DOMAIN f \cup {w} |-> IF x = w THEN v ELSE f[x]]
TotalSeq(w) == Len(Fragments[w])
Fault(kind) == kind \in Faults /\ faults < MaxFaults /\ faults' = faults + 1

-----------------------------------------------------------------------------
(* Windows and the miniport.                                               *)

\* DiskQueueWriteSrb: EventIds follow the order of arrival.
SendWrite(w) ==
    /\ disk = "running" /\ srb[w] = "unsent"
    /\ \A v \in Writes : v < w => srb[v] # "unsent"
    /\ srb' = [srb EXCEPT ![w] = "open"]
    /\ earlier' = [earlier EXCEPT ![w] = {v \in Writes : srb[v] = "done"}]
    /\ UNCHANGED <<issued, accepted, kernelVars, backendVars, dataVars, loopVars, faults>>

\* DiskDrainWriteSlots: the next fragment of the first write with one left.
FillSlot(w) ==
    /\ disk = "running" /\ srb[w] = "open" /\ issued[w] < TotalSeq(w)
    /\ \A v \in Writes : v < w /\ srb[v] = "open" => issued[v] = TotalSeq(v)
    /\ Cardinality(slots) < Slots
    /\ slots' = slots \cup {[ev |-> w, seq |-> issued[w], at |-> "filled"]}
    /\ issued' = [issued EXCEPT ![w] = @ + 1]
    /\ UNCHANGED <<srb, accepted, earlier, ackQueue, flush, active, finalized, disk, backendVars,
                   dataVars, loopVars, faults>>

FailOpen == srb' = [w \in Writes |-> IF srb[w] = "open" THEN "failed" ELSE srb[w]]

\* A reset of the bus or a cancel of its SRBs: every pending write fails, and
\* what was not issued yet never will be.
Reset ==
    /\ disk = "running" /\ Fault("reset") /\ FailOpen
    /\ UNCHANGED <<issued, accepted, earlier, kernelVars, backendVars, dataVars, loopVars>>

\* Variant: AppKernel goes by the status it sent, not by the failure list.
OwnStatus(range) == range.ok

\* DiskHandleWriteAckBatchIoctl on one range.  A write that is no longer
\* pending makes the range a failure; a refused range fails the write.
Outcome(range) == IF srb[range.ev] = "open" THEN range.ok ELSE FALSE
Answer(range) == [ev |-> range.ev, seq |-> range.seq, ok |-> Outcome(range)]

\* What the ranges of a batch, in order, make of write w.
AckedBy(batch, w) ==
    LET mine == {i \in 1 .. Len(batch) : batch[i].ev = w} IN
    IF srb[w] # "open" \/ mine = {} THEN srb[w]
    ELSE IF \E i \in mine : ~batch[i].ok THEN "failed"
    ELSE IF accepted[w] \cup {batch[i].seq : i \in mine} = 0 .. (TotalSeq(w) - 1) THEN "done"
    ELSE "open"

-----------------------------------------------------------------------------
(* The write workers: AkDiskHandleWriteSlotCompletion of one slot.         *)

\* The worker of slot x gets on.
Moves(x, at) == slots' = (slots \ {x}) \cup {[ev |-> x.ev, seq |-> x.seq, at |-> at]}

IsFinalized(w) == \E i \in 1 .. Len(finalized) : finalized[i] = w

\* AkDiskEnsureWriteEventTracked, under disk->WriteTrackLock: a fragment of a
\* write that is already decided is refused.
Track(x) ==
    /\ x.at = "filled"
    /\ IF IsFinalized(x.ev)
       THEN Moves(x, "refused") /\ UNCHANGED active
       ELSE /\ Moves(x, "tracked")
            /\ active' = IF x.ev \in DOMAIN active THEN active ELSE With(active, x.ev, 0)
    /\ UNCHANGED <<windowsVars, ackQueue, flush, finalized, disk, backendVars, dataVars, loopVars, faults>>

RecordOf(w) == IF w \in DOMAIN staging THEN staging[w] ELSE {}

\* host_stage_write and StagingStore::stage_write_locked: the fragment joins the
\* record of its event, and replaces the fragment with its seq.
StageWriteLocked(w, seq) ==
    /\ staging' = With(staging, w,
           {f \in RecordOf(w) : f.seq # seq}
             \cup {[seq |-> seq, block |-> Fragments[w][seq + 1], ordinal |-> nextOrdinal]})
    /\ nextOrdinal' = nextOrdinal + 1

Stage(x) ==
    /\ x.at = "tracked"
    /\ StageWriteLocked(x.ev, x.seq)
    /\ Moves(x, "staged")
    /\ UNCHANGED <<windowsVars, ackQueue, flush, active, finalized, disk, backendVars, store, stuck, lost,
                   loopVars, faults>>

\* AkDiskEnqueueWriteAckRange; the slot is free to be posted again.
EnqueueAck(x) ==
    /\ x.at \in {"staged", "refused"}
    /\ ackQueue' = Append(ackQueue, [ev |-> x.ev, seq |-> x.seq, ok |-> x.at = "staged"])
    /\ slots' = slots \ {x}
    /\ UNCHANGED <<windowsVars, flush, active, finalized, disk, backendVars, dataVars, loopVars, faults>>

Worker == \E x \in slots : Track(x) \/ Stage(x) \/ EnqueueAck(x)

-----------------------------------------------------------------------------
(* The acknowledgement flusher.                                            *)

\* Variant: the last range that is taken stays in the queue.
Overlapping(n) == SubSeq(ackQueue, n, Len(ackQueue))

\* AkDiskStealWriteAckRanges: as many as one batch holds.
LeftAfter(n) == SubSeq(ackQueue, n + 1, Len(ackQueue))
Steal ==
    /\ disk = "running" /\ flush.at = "idle" /\ ackQueue # <<>>
    /\ LET n == IF Len(ackQueue) < AckBatchMaxRanges THEN Len(ackQueue) ELSE AckBatchMaxRanges
       IN /\ flush' = Flush("held", SubSeq(ackQueue, 1, n))
          /\ ackQueue' = LeftAfter(n)
    /\ UNCHANGED <<windowsVars, slots, active, finalized, disk, backendVars, dataVars, loopVars, faults>>

\* AkDiskBeginWriteAckFlushAsync, and the miniport's answer.  A request that
\* fails with a recoverable status leaves the payload to be sent again.
Send ==
    /\ disk = "running" /\ flush.at = "held"
    /\ flush' = Flush("answered", [i \in 1 .. Len(flush.ranges) |-> Answer(flush.ranges[i])])
    /\ srb' = [w \in Writes |-> AckedBy(flush.ranges, w)]
    /\ accepted' = [w \in Writes |->
           IF srb[w] # "open" THEN accepted[w]
           ELSE accepted[w] \cup {flush.ranges[i].seq : i \in {j \in 1 .. Len(flush.ranges) :
                                    flush.ranges[j].ev = w /\ flush.ranges[j].ok}}]
    /\ UNCHANGED <<issued, earlier, slots, ackQueue, active, finalized, disk, backendVars, dataVars,
                   loopVars, faults>>

\* AkDiskRememberFinalizedWriteEventLocked: the oldest gives way.
Remembered(all) == IF Len(all) > QueueDepth THEN Tail(all) ELSE all

\* AkDiskFinalizeWriteEventLocked: the final response is queued and the event
\* moves to the bounded list of finalized events.
Finalize(w, committed) ==
    /\ responses' = Append(responses, [ev |-> w, committed |-> committed])
    /\ active' = Without(active, w)
    /\ finalized' = Remembered(Append(finalized, w))

\* Variant: the first accepted fragment decides.
FirstAcked(w) == TRUE

AllAcked(w) == active[w] + 1 = TotalSeq(w)
\* AkDiskApplyWriteAckResult on the next range of the answer.  A range of an
\* event that is neither active nor remembered stops the flusher.
ApplyRange ==
    /\ flush.at = "answered"
    /\ LET range == Head(flush.ranges)
           rest  == Tail(flush.ranges)
           next  == IF rest = <<>> THEN EmptyFlush ELSE Flush("answered", rest)
       IN IF range.ev \in DOMAIN active
          THEN /\ flush' = next
               /\ IF ~range.ok THEN Finalize(range.ev, FALSE)
                  ELSE IF AllAcked(range.ev) THEN Finalize(range.ev, TRUE)
                  ELSE /\ active' = [active EXCEPT ![range.ev] = @ + 1]
                       /\ UNCHANGED <<responses, finalized>>
          ELSE /\ flush' = IF IsFinalized(range.ev) THEN next ELSE Flush("exited", <<>>)
               /\ UNCHANGED <<responses, active, finalized>>
    /\ UNCHANGED <<windowsVars, slots, ackQueue, disk, backendVars, dataVars, loop, polled, faults>>

\* AkDiskWriteAckFlusherThreadProc after the stop event: what was not sent is
\* dropped, and CancelIoEx may drop an answer that was not read yet.
StopFlusher ==
    /\ disk = "stopping" /\ flush.at # "exited"
    /\ flush' = Flush("exited", <<>>) /\ ackQueue' = <<>>
    /\ UNCHANGED <<windowsVars, slots, active, finalized, disk, backendVars, dataVars, loopVars, faults>>

Flusher == Steal \/ Send \/ ApplyRange \/ StopFlusher

-----------------------------------------------------------------------------
(* BackendRust: the signal loop.                                           *)

\* run_signal_loop polls a response; handle_appkernel_response drops it when
\* the target has no runtime.
Poll ==
    /\ loop = "running" /\ polled = None /\ responses # <<>>
    /\ polled' = IF runtime THEN Head(responses) ELSE None
    /\ responses' = Tail(responses)
    /\ UNCHANGED <<windowsVars, kernelVars, backendVars, dataVars, loop, faults>>

\* Variant: only the first fragment of the record is written.
WrittenFirst(w, fragments) ==
    [b \in Blocks |-> IF \E f \in fragments : f.block = b /\ f.seq = 0 THEN w ELSE store[b]]

\* The fragments of a record that reach the media before a write fails, and
\* the content they leave: StagingStore::commit_locked writes in seq order.
Prefix(w, n) == {f \in RecordOf(w) : Cardinality({g \in RecordOf(w) : g.seq < f.seq}) < n}
Written(w, fragments) ==
    [b \in Blocks |-> IF \E f \in fragments : f.block = b THEN w ELSE store[b]]
\* commit_disk_runtime_staging: nothing to do without media or without a
\* record; a record that could not be written whole stays.
Commit ==
    /\ polled # None /\ polled.committed
    /\ polled' = None
    /\ LET w == polled.ev IN
       \/ /\ media # "runtime" /\ UNCHANGED <<dataVars, faults>>
       \/ /\ media = "runtime"
          /\ store' = Written(w, RecordOf(w)) /\ staging' = Without(staging, w)
          /\ UNCHANGED <<nextOrdinal, stuck, lost, faults>>
       \/ /\ media = "runtime" /\ RecordOf(w) # {} /\ Fault("media")
          /\ \E n \in 0 .. (Cardinality(RecordOf(w)) - 1) : store' = Written(w, Prefix(w, n))
          /\ stuck' = stuck \cup {w}
          /\ UNCHANGED <<staging, nextOrdinal, lost>>
    /\ UNCHANGED <<windowsVars, kernelVars, backendVars, responses, loop>>

\* reject_disk_runtime_staging.
Reject ==
    /\ polled # None /\ ~polled.committed
    /\ polled' = None
    /\ staging' = Without(staging, polled.ev)
    /\ UNCHANGED <<windowsVars, kernelVars, backendVars, store, nextOrdinal, stuck, lost, responses, loop, faults>>

\* The Broken notice, or a poll that fails: the loop ends, the disk stays.
SessionBroken ==
    /\ loop = "running" /\ polled = None /\ Fault("broken")
    /\ loop' = "off"
    /\ UNCHANGED <<windowsVars, kernelVars, backendVars, dataVars, responses, polled>>

SignalLoop == Poll \/ Commit \/ Reject

\* Variant: reads go to the media alone.
MediaRead(b) == store[b]

\* StagingStore::overlay_read_locked over Media::read_locked, under one read
\* lock: on each block the staged fragment with the highest ordinal wins.
Staged(b) == {p \in UNION {{<<w, f>> : f \in staging[w]} : w \in DOMAIN staging} : p[2].block = b}
HostRead(b) ==
    IF Staged(b) = {} THEN store[b]
    ELSE (CHOOSE p \in Staged(b) : \A q \in Staged(b) : q[2].ordinal <= p[2].ordinal)[1]
-----------------------------------------------------------------------------
(* BackendRust: the control calls.                                         *)

\* The call in progress gets on.
GoTo(place) == ctl' = [call |-> ctl.call, at |-> place]

\* BackendContext::open; open_succeeded and the stop event are part of it.
Open ==
    /\ ctl = Idle /\ ~session
    /\ session' = TRUE /\ loop' = "running" /\ responses' = <<>>
    /\ UNCHANGED <<windowsVars, kernelVars, handle, runtime, media, ctl, creates, dataVars, polled, faults>>

\* try_create_managed_disk up to AkCreateDisk: the runtime with its media is
\* in the map before AppKernel can call it back.
BeginCreate ==
    /\ ctl = Idle /\ session /\ ~runtime /\ media = "caller" /\ creates < MaxCreates
    /\ runtime' = TRUE /\ media' = "runtime" /\ creates' = creates + 1
    /\ staging' = NoRecords /\ nextOrdinal' = 1
    /\ ctl' = [call |-> "create", at |-> "AkCreateDisk"]
    /\ UNCHANGED <<windowsVars, kernelVars, handle, session, store, stuck, lost, loopVars, faults>>

\* AkDiskCreate: the workers run before the miniport has the disk, so writes
\* may flow before the handle is returned.
AkCreateDisk ==
    /\ ctl = [call |-> "create", at |-> "AkCreateDisk"]
    /\ \/ /\ disk' = "running" /\ flush' = EmptyFlush /\ GoTo("return")
          /\ UNCHANGED <<runtime, media, faults>>
       \/ /\ Fault("create") /\ runtime' = FALSE /\ media' = "caller" /\ ctl' = Idle
          /\ UNCHANGED <<disk, flush>>
    /\ UNCHANGED <<windowsVars, slots, ackQueue, active, finalized, handle, session, creates, dataVars, loopVars>>

EndCreate ==
    /\ ctl = [call |-> "create", at |-> "return"]
    /\ handle' = "valid" /\ ctl' = Idle
    /\ UNCHANGED <<windowsVars, kernelVars, runtime, media, session, creates, dataVars, loopVars, faults>>

\* remove_managed_disk_with_media, detach_managed_disk_with_media,
\* remove_all_managed_disks and close up to the AppKernel call, which raises
\* the stop event first.  detach is for a target the driver side has already
\* cleaned up, so nothing is pending there.
BeginRemoval(call) ==
    /\ ctl = Idle /\ session /\ call \in Removals
    /\ runtime \/ call = "close"
    /\ handle # "freed" \/ call = "close"  \* a call through a freed AK_DISK is undefined; close survives it
    /\ IF call = "detach" THEN FailOpen ELSE UNCHANGED srb
    /\ IF runtime /\ handle = "valid"
       THEN disk' = "stopping" /\ ctl' = [call |-> call, at |-> IF call = "detach" THEN "join" ELSE "protocol"]
       ELSE ctl' = [call |-> call, at |-> IF runtime THEN "take" ELSE "closeSession"] /\ UNCHANGED disk
    /\ UNCHANGED <<issued, accepted, earlier, slots, ackQueue, flush, active, finalized, handle, runtime,
                   media, session, creates, dataVars, loopVars, faults>>

\* AkProtocolRemoveDisk: the miniport completes what is pending, or the
\* command fails.
RemoveDisk ==
    /\ ctl.at = "protocol"
    /\ \/ FailOpen /\ GoTo("join") /\ UNCHANGED faults
       \/ Fault("remove") /\ GoTo("joinFailed") /\ UNCHANGED srb
    /\ UNCHANGED <<issued, accepted, earlier, kernelVars, handle, runtime, media, session, creates, dataVars, loopVars>>

\* AkDiskStopWorkers and AkDiskDestroy: the AK_DISK is freed whether or not
\* REMOVE_DISK failed.
DestroyDisk ==
    /\ ctl.at \in {"join", "joinFailed"} /\ slots = {} /\ flush.at = "exited"
    /\ disk' = "none" /\ active' = NoEvents /\ finalized' = <<>> /\ ackQueue' = <<>>
    /\ GoTo(IF ctl.at = "join" THEN "take" ELSE "takeFailed")
    /\ UNCHANGED <<windowsVars, slots, flush, handle, runtime, media, session, creates, dataVars, loopVars, faults>>

\* After the AppKernel call.  A failed call leaves the runtime, its media and
\* its handle, unless the backend is closing.
KeepsDisk == ctl.at = "takeFailed" /\ ctl.call # "close"

TakeMedia ==
    /\ ctl.at \in {"take", "takeFailed"}
    /\ IF KeepsDisk
       THEN /\ handle' = "freed" /\ ctl' = Idle
            /\ UNCHANGED <<runtime, media, staging, nextOrdinal, lost>>
       ELSE /\ handle' = "none" /\ runtime' = FALSE /\ staging' = NoRecords /\ nextOrdinal' = 1
            /\ lost' = lost \cup {w \in DOMAIN staging : srb[w] = "done"}
            /\ media' = IF ctl.call \in {"remove", "detach"} THEN "caller" ELSE "dropped"
            /\ IF ctl.call = "close" THEN GoTo("closeSession") ELSE ctl' = Idle
    /\ UNCHANGED <<windowsVars, kernelVars, session, creates, store, stuck, loopVars, faults>>

\* The rest of close: the loop is stopped and joined, AkClose ends the
\* session (its disks leave the miniport) and discard_all_disk_runtime_state
\* empties the queues.
CloseSession ==
    /\ ctl.at = "closeSession" /\ polled = None
    /\ loop' = "off" /\ session' = FALSE /\ responses' = <<>> /\ ctl' = Idle /\ FailOpen
    /\ UNCHANGED <<issued, accepted, earlier, kernelVars, handle, runtime, media, creates, dataVars, polled, faults>>

Control ==
    \/ Open \/ BeginCreate \/ AkCreateDisk \/ EndCreate
    \/ \E call \in Removals : BeginRemoval(call)
    \/ RemoveDisk \/ DestroyDisk \/ TakeMedia \/ CloseSession

Next ==
    \/ \E w \in Writes : SendWrite(w) \/ FillSlot(w)
    \/ Reset \/ Worker \/ Flusher \/ SignalLoop \/ SessionBroken \/ Control

Spec == Init /\ [][Next]_vars

\* The threads run: workers, flusher, signal loop and the control call in
\* progress.  Windows owes nothing; the miniport fills posted slots.
Fairness ==
    /\ WF_vars(Worker) /\ WF_vars(Flusher) /\ WF_vars(SignalLoop)
    /\ WF_vars(\E w \in Writes : FillSlot(w))
    /\ WF_vars(AkCreateDisk \/ EndCreate \/ RemoveDisk \/ DestroyDisk \/ TakeMedia \/ CloseSession)

LiveSpec == Spec /\ Fairness

-----------------------------------------------------------------------------
(* Properties.                                                             *)

SlotType == [ev : Writes, seq : Nat, at : {"filled", "tracked", "refused", "staged"}]
RangeType == [ev : Writes, seq : Nat, ok : BOOLEAN]
ResponseType == [ev : Writes, committed : BOOLEAN]
CtlPlaces == {"idle", "AkCreateDisk", "return", "protocol", "join", "joinFailed", "take", "takeFailed", "closeSession"}

WindowsTypeOK ==
    /\ srb \in [Writes -> {"unsent", "open", "done", "failed"}]
    /\ issued \in [Writes -> Nat] /\ accepted \in [Writes -> SUBSET Nat]
    /\ earlier \in [Writes -> SUBSET Writes]
KernelTypeOK ==
    /\ slots \subseteq SlotType /\ IsFiniteSet(slots) /\ Cardinality(slots) <= Slots
    /\ ackQueue \in Seq(RangeType)
    /\ flush \in [at : {"idle", "held", "answered", "exited"}, ranges : Seq(RangeType)]
    /\ Len(flush.ranges) <= AckBatchMaxRanges
    /\ DOMAIN active \subseteq Writes /\ active \in [DOMAIN active -> Nat]
    /\ finalized \in Seq(Writes) /\ Len(finalized) <= QueueDepth
    /\ disk \in {"none", "running", "stopping"}
BackendTypeOK ==
    /\ handle \in {"none", "valid", "freed"} /\ runtime \in BOOLEAN
    /\ media \in {"caller", "runtime", "dropped"} /\ session \in BOOLEAN
    /\ ctl \in [call : Removals \cup {"none", "create"}, at : CtlPlaces]
DataTypeOK ==
    /\ store \in [Blocks -> Writes \cup {Blank}] /\ DOMAIN staging \subseteq Writes
    /\ stuck \subseteq Writes /\ lost \subseteq Writes
LoopTypeOK ==
    /\ responses \in Seq(ResponseType) /\ polled \in ResponseType \cup {None}
    /\ loop \in {"off", "running"}

\* Every variable has its type; slots, ack batches and remembered events keep
\* within their limits.
TypeOK == WindowsTypeOK /\ KernelTypeOK /\ BackendTypeOK /\ DataTypeOK /\ LoopTypeOK

\* Two ranges or slots are of one fragment.
Same(r, q) == r.ev = q.ev /\ r.seq = q.seq

\* A fragment is in one place at a time: in one slot, or in one range that waits
\* or is being sent.
OnePlace ==
    /\ \A x, y \in slots : Same(x, y) => x = y
    /\ \A i, j \in 1 .. Len(ackQueue) : i # j => ~Same(ackQueue[i], ackQueue[j])
    /\ \A i, j \in 1 .. Len(flush.ranges) : i # j => ~Same(flush.ranges[i], flush.ranges[j])
    /\ \A i \in 1 .. Len(ackQueue), j \in 1 .. Len(flush.ranges) : ~Same(ackQueue[i], flush.ranges[j])
    /\ \A x \in slots, i \in 1 .. Len(ackQueue) : ~Same(x, ackQueue[i])
    /\ \A x \in slots, j \in 1 .. Len(flush.ranges) : ~Same(x, flush.ranges[j])

\* The miniport has filled a slot with the fragment, and has not accepted its
\* acknowledgement.
Unaccepted(r) == r.seq < issued[r.ev] /\ r.seq \notin accepted[r.ev]

\* What has not been answered was not accepted, and what was answered agrees
\* with the miniport: a refusal means that the write has failed.
RangesOK ==
    /\ \A x \in slots : Unaccepted(x)
    /\ \A i \in 1 .. Len(ackQueue) : Unaccepted(ackQueue[i])
    /\ flush.at = "held" => \A i \in 1 .. Len(flush.ranges) : Unaccepted(flush.ranges[i])
    /\ flush.at = "answered" =>
         \A i \in 1 .. Len(flush.ranges) :
            LET r == flush.ranges[i] IN
            /\ r.seq < issued[r.ev]
            /\ r.ok => r.seq \in accepted[r.ev]
            /\ ~r.ok => srb[r.ev] = "failed"
    /\ flush.ranges = <<>> <=> flush.at \in {"idle", "exited"}

\* A write has succeeded exactly when all its fragments were accepted.
SuccessOK ==
    \A w \in Writes :
        /\ issued[w] <= TotalSeq(w) /\ (srb[w] = "unsent" => issued[w] = 0)
        /\ \A n \in accepted[w] : n < issued[w]
        /\ srb[w] = "done" <=> accepted[w] = 0 .. (TotalSeq(w) - 1)

\* AckedSeqCount counts no fragment twice: it is within the accepted fragments
\* of which the flusher has not still to learn.
Uncounted(w) ==
    {flush.ranges[i].seq : i \in {j \in 1 .. Len(flush.ranges) :
        flush.at = "answered" /\ flush.ranges[j].ev = w /\ flush.ranges[j].ok}}
CountOK == \A w \in DOMAIN active : active[w] <= Cardinality(accepted[w] \ Uncounted(w))

\* The media only ever holds blocks of writes that Windows saw succeed: a
\* write that was rejected, cancelled or cut off by a removal leaves no byte,
\* even when some of its fragments were staged and acknowledged.
MediaHoldsOnlySucceeded ==
    \A b \in Blocks : store[b] # Blank => srb[store[b]] = "done"

\* The final response agrees with what Windows was told: a commit is queued
\* only for a write that succeeded, a reject only for one that failed.
Pending == {responses[i] : i \in 1 .. Len(responses)} \cup ({polled} \ {None})
FinalAgreesWithWindows ==
    \A r \in Pending : srb[r.ev] = IF r.committed THEN "done" ELSE "failed"

\* The inductive invariant: how the count of acknowledged fragments in AppKernel
\* stays within what the miniport accepted, so that the final response, and with
\* it what reaches the media, cannot run ahead of Windows.
IndInv ==
    /\ TypeOK /\ OnePlace /\ RangesOK /\ SuccessOK /\ CountOK
    /\ FinalAgreesWithWindows /\ MediaHoldsOnlySucceeded

Covers(w, b) == \E i \in 1 .. TotalSeq(w) : Fragments[w][i] = b
Succeeded(b) == {w \in Writes : srb[w] = "done" /\ Covers(w, b)}
Kept(b) == Succeeded(b) \ lost
\* A record that stays over the media although its write is not under way:
\* its write failed, or its commit did.
Abandoned(b) == \E p \in Staged(b) : srb[p[1]] = "failed" \/ p[1] \in stuck
InService == disk = "running" /\ media = "runtime" /\ loop = "running"

\* Reads see writes: while no write to a block is in flight and no abandoned
\* record covers it, host_read_bytes returns a write to it that succeeded and
\* that no later one has replaced, wherever staging and commit have got to.
\* A removal clears records apart (see RemovalKeepsSucceeded): of a write whose
\* commit failed it may leave the part that had reached the media.
ReadSeesSucceeded ==
    InService => \A b \in Blocks :
        (\A w \in Writes : Covers(w, b) => srb[w] # "open") /\ ~Abandoned(b) =>
            LET seen == HostRead(b) IN
            /\ Kept(b) # {} => seen \in Kept(b) \cup (Succeeded(b) \cap stuck)
            /\ ~ \E w \in Kept(b) : seen \in earlier[w]

(***************************************************************************)
(* The inductive invariant behind ReadSeesSucceeded.                       *)
(***************************************************************************)

\* What AppKernel has of the disk, by the place of the control call.
DiskAt ==
    IF ctl.at \in {"protocol", "join", "joinFailed"} THEN "stopping"
    ELSE IF ctl.at = "return" \/ (ctl.at = "idle" /\ handle = "valid") THEN "running"
    ELSE "none"

\* Disk, handle, runtime, media and records come and go together, and an AK_DISK
\* is destroyed when its threads have ended.
LifecycleOK ==
    /\ disk = DiskAt
    /\ ctl.at \in {"protocol", "join", "joinFailed", "takeFailed"} => handle = "valid"
    /\ ctl.at \in {"AkCreateDisk", "return", "closeSession"} => handle = "none"
    /\ ctl.at = "take" => handle = "valid" \/ (handle = "freed" /\ ctl.call = "close")
    /\ runtime <=> ctl.at # "closeSession" /\ (ctl.at = "idle" => handle # "none")
    /\ media = "runtime" <=> runtime
    /\ ~session => ~runtime
    /\ ~runtime \/ ctl.at = "AkCreateDisk" => DOMAIN staging = {}
    /\ disk = "none" => slots = {} /\ flush.at \in {"idle", "exited"} /\ DOMAIN active = {}

\* Windows waits for a write only while the miniport has the disk: it runs, or
\* its removal is under way or has failed.
OpenOK ==
    \A w \in Writes : srb[w] = "open" =>
        \/ disk = "running" \/ handle = "freed"
        \/ ctl.at \in {"protocol", "joinFailed", "takeFailed", "closeSession"}

\* What was there before a write has succeeded, what a removal cleared is gone,
\* and what is finalized is decided.
HistoryOK ==
    /\ \A w \in Writes :
         /\ w \notin earlier[w] /\ \A v \in earlier[w] : srb[v] = "done"
         /\ w \in lost => srb[w] = "done" /\ w \notin DOMAIN staging
         /\ w \in stuck => srb[w] = "done" /\ w \notin DOMAIN active
    /\ \A i \in 1 .. Len(finalized) : srb[finalized[i]] \in {"done", "failed"}

\* A record holds issued fragments, and their ordinals follow the order of writes.
RecordsOK ==
    /\ nextOrdinal \in Nat
    /\ \A w \in DOMAIN staging : \A f \in staging[w] :
         /\ f.seq \in 0 .. (issued[w] - 1) /\ f.block = Fragments[w][f.seq + 1]
         /\ f.ordinal \in Nat /\ f.ordinal < nextOrdinal
    /\ \A w \in DOMAIN staging : \A v \in DOMAIN staging \cap earlier[w] :
         \A f \in staging[v], g \in staging[w] : f.ordinal < g.ordinal

\* Fragment n of w was staged by its worker, and is on its way to the miniport
\* or accepted there.
Reported(w, n) ==
    \/ n \in accepted[w]
    \/ \E x \in slots : x.ev = w /\ x.seq = n /\ x.at = "staged"
    \/ \E i \in 1 .. Len(ackQueue) : ackQueue[i].ev = w /\ ackQueue[i].seq = n /\ ackQueue[i].ok
    \/ /\ flush.at = "held"
       /\ \E i \in 1 .. Len(flush.ranges) :
            flush.ranges[i].ev = w /\ flush.ranges[i].seq = n /\ flush.ranges[i].ok
HasFragment(w, n) == \E f \in RecordOf(w) : f.seq = n

\* No acknowledgement without its record and its tracked event; the record of a
\* write that succeeded is complete.
ReportedOK ==
    \A w \in Writes :
        /\ srb[w] = "open" /\ disk # "none" =>
             /\ \A n \in 0 .. (TotalSeq(w) - 1) :
                  Reported(w, n) => HasFragment(w, n) /\ w \in DOMAIN active
             /\ \A x \in slots : x.ev = w /\ x.at = "tracked" => w \in DOMAIN active
        /\ srb[w] = "done" /\ w \in DOMAIN staging => \A n \in 0 .. (TotalSeq(w) - 1) : HasFragment(w, n)

\* AckedSeqCount misses no fragment either, as long as the flusher runs.
ExactOK ==
    \A w \in DOMAIN active :
        /\ active[w] < TotalSeq(w)
        /\ srb[w] # "failed" /\ flush.at # "exited" => active[w] = Cardinality(accepted[w] \ Uncounted(w))

\* The final response of v is queued or being handled, and commits it.
ToCommit(v) == \E r \in Pending : r.ev = v /\ r.committed

\* No write that was sent after v had succeeded has succeeded itself.
NoneAfter(v) == \A w \in Writes : v \in earlier[w] => srb[w] # "done"

\* The commit of r does not come after one that must not precede it.
CommitsAfter(r, q) == r.committed /\ q.committed => r.ev # q.ev /\ q.ev \notin earlier[r.ev]

\* Commits are queued once and in the order of the writes.
QueueOK ==
    /\ \A i, j \in 1 .. Len(responses) : i < j => CommitsAfter(responses[i], responses[j])
    /\ polled # None => \A j \in 1 .. Len(responses) : CommitsAfter(polled, responses[j])
    /\ \A r \in Pending : r.committed => r.ev \notin DOMAIN active /\ r.ev \notin stuck

\* A write that succeeded and whose record is still there is on its way to be
\* committed, before every later one, unless the commit or the disk failed.
CommitOK ==
    \A v \in Writes : srb[v] = "done" =>
        /\ v \in DOMAIN active => NoneAfter(v)
        /\ v \in DOMAIN staging \ stuck =>
             v \in DOMAIN active \/ ToCommit(v) \/ (disk = "none" /\ NoneAfter(v))
        /\ v \in DOMAIN staging \ stuck =>
             \A w \in Writes : v \in earlier[w] /\ srb[w] = "done" => w \in lost \cup DOMAIN staging

\* The media holds what was committed, and of a commit that failed what it wrote.
StoreOK ==
    \A b \in Blocks :
        /\ store[b] # Blank =>
             /\ Covers(store[b], b)
             /\ store[b] \in lost \cup DOMAIN staging => store[b] \in stuck
        /\ \A w \in Kept(b) \ DOMAIN staging : store[b] # Blank /\ store[b] \notin earlier[w]

ReadInv ==
    /\ IndInv /\ LifecycleOK /\ OpenOK /\ HistoryOK /\ RecordsOK /\ ReportedOK /\ ExactOK
    /\ QueueOK /\ CommitOK /\ StoreOK

\* A write that Windows saw succeed reaches the media, unless the disk is
\* taken down, the signal loop has ended or the media refused it.
SucceededIsCommitted ==
    \A w \in Writes :
        srb[w] = "done" ~>
            \/ \A b \in Blocks : Covers(w, b) => store[b] # Blank /\ store[b] \notin earlier[w]
            \/ stuck # {} \/ w \in lost
            \/ disk # "running" \/ loop = "off"

\* What AppKernel-SDK promises of AkRemoveDisk: once it has returned, the host
\* may let go of the media and of the staged records.  The media that remove
\* hands back then holds every write that Windows saw succeed.
RemovalKeepsSucceeded ==
    runtime = FALSE /\ media = "caller" =>
        \A b \in Blocks : Succeeded(b) # {} => store[b] \in Succeeded(b)
=============================================================================
