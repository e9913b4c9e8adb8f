--------------------------- MODULE MiniportQueue ---------------------------
(***************************************************************************)
(* The request queues of one target of the YumeDiskSCSI virtual miniport.  *)
(*                                                                         *)
(* Windows sends READ and WRITE SRBs; the App posts read and write slots   *)
(* (buffers) and later acknowledges what the slots carried.  The driver    *)
(* pairs a pending request with a posted slot (the drain loop), fills the  *)
(* slot outside the lock and completes it to the App.  StorPort runs       *)
(* HwStartIo full duplex (adapter.c, StorSynchronizeFullDuplex), so every  *)
(* entry point may run on several processors at once: a processor is an    *)
(* element of Cpus and pc[c] is where it stands.  An action is what one    *)
(* processor does in one critical section, or in the code between two.     *)
(*                                                                         *)
(* A request's place in the PendingReads / PendingWrites list is its       *)
(* ticket; the requests on the lists are the ones whose phase is           *)
(* "pending".  One entry of the Disk[] array is modelled: the queues, the  *)
(* locks and the event slot of a target are its own.                       *)
(***************************************************************************)
EXTENDS Naturals, Sequences, FiniteSets, SequencesExt

CONSTANTS
    Reads, Writes,            \* the SRBs Windows may send, each once
    ReadSlots, WriteSlots,    \* the buffers the App may post, again and again
    EventSlots,               \* the event buffers the App may post
    Cpus,                     \* processors that may be inside the miniport
    Bytes,                    \* length of each write, a function on Writes
    Capacity,                 \* size of each write slot, a function on WriteSlots
    SectorSize, HeaderSize,   \* YUMEDISK_WRITE_SLOT_HEADER_BASE_SIZE
    MaxUlong,                 \* where the 32-bit list counters wrap
    Controls,                 \* the control operations this instance exercises
    MaxControls, MaxRanges,   \* bounds: control operations, ranges in one ack batch
    None

ASSUME ConstantsAssumption ==
    /\ Reads \cap Writes = {}
    /\ ReadSlots \cap WriteSlots = {} /\ EventSlots \cap (ReadSlots \cup WriteSlots) = {}
    /\ (Reads \cup Writes) \cap (ReadSlots \cup WriteSlots) = {}
    /\ SectorSize \in Nat \ {0} /\ HeaderSize \in Nat /\ MaxUlong \in Nat
    /\ Bytes \in [Writes -> Nat \ {0}]
    /\ \A w \in Writes : Bytes[w] % SectorSize = 0
    /\ Capacity \in [WriteSlots -> Nat]
    /\ Controls \subseteq {"create", "remove", "removeAll", "close", "reset", "cancel"}
    /\ MaxControls \in Nat /\ MaxRanges \in Nat \ {0}
    /\ None \notin Reads \cup Writes \cup ReadSlots \cup WriteSlots \cup EventSlots

Srbs == Reads \cup Writes
DataSlots == ReadSlots \cup WriteSlots
Slots == DataSlots \cup EventSlots
Kinds == {"read", "write"}
SrbsOf(kind) == IF kind = "read" THEN Reads ELSE Writes
SlotsOf(kind) == IF kind = "read" THEN ReadSlots ELSE WriteSlots
KindOf(x) == IF x \in Reads \cup ReadSlots THEN "read" ELSE "write"

VARIABLES
    present,      \* Disk.Present and Disk.Configured, always written together
    nextEventId,  \* NextEventId
    sessionOpen,  \* the KMDF driver admits App requests
    phase,        \* where each SRB's request is
    holder,       \* the processor whose local list holds a "taken" request
    ticket,       \* list position of each queued request
    nextTicket,
    eventId,      \* request EventId
    nextIssue,    \* NextIssueSeq; for a read 1 stands for SlotIssued
    payload,      \* request PayloadBytes, 0 until a write slot shape is known
    totalSeq,     \* request TotalSeq; 1 for a read
    ackedBits,    \* AckedBitmap
    ackedCount,   \* AckedCount
    failed,       \* FinalStatus is not a success
    srbStatus,    \* Srb->SrbStatus
    notified,     \* how many times RequestComplete was notified for the SRB
    posted,       \* PostedReadSlots and PostedWriteSlots
    shape,        \* WriteSlotPayloadBytes
    pendingCount, \* PendingWriteCount
    postedCount,  \* PostedWriteSlotCount
    eventSlot,    \* EventSlot.PendingSrb
    withApp,      \* slots that are not inside the driver
    delivered,    \* what the completed slots told the App
    pc, op,       \* per processor: its place and its local variables
    takenSlots,   \* per processor: its local list of stolen slots
    controls      \* control operations issued so far (bound)

diskVars    == <<present, nextEventId, sessionOpen>>
listVars    == <<phase, holder, ticket, nextTicket>>
fragVars    == <<eventId, nextIssue, payload, totalSeq, ackedBits, ackedCount, failed>>
srbVars     == <<srbStatus, notified>>
slotVars    == <<posted, shape, pendingCount, postedCount, eventSlot, withApp, delivered>>
cpuVars     == <<pc, op, takenSlots>>
vars == <<diskVars, listVars, fragVars, srbVars, slotVars, cpuVars, controls>>

Idle == [own |-> None, kind |-> "read", srb |-> None, slot |-> None,
         seq |-> 0, left |-> 0, cmd |-> "none"]

Init ==
    /\ present = TRUE /\ nextEventId = 0 /\ sessionOpen = TRUE
    /\ phase = [s \in Srbs |-> "idle"]
    /\ holder = [s \in Srbs |-> None]
    /\ ticket = [s \in Srbs |-> 0] /\ nextTicket = 1
    /\ eventId = [s \in Srbs |-> 0]
    /\ nextIssue = [s \in Srbs |-> 0]
    /\ payload = [s \in Srbs |-> 0]
    /\ totalSeq = [s \in Srbs |-> IF s \in Reads THEN 1 ELSE 0]
    /\ ackedBits = [s \in Srbs |-> {}] /\ ackedCount = [s \in Srbs |-> 0]
    /\ failed = [s \in Srbs |-> FALSE]
    /\ srbStatus = [s \in Srbs |-> "success"] /\ notified = [s \in Srbs |-> 0]
    /\ posted = [k \in Kinds |-> <<>>]
    /\ shape = 0 /\ pendingCount = 0 /\ postedCount = 0
    /\ eventSlot = None /\ withApp = Slots /\ delivered = {}
    /\ pc = [c \in Cpus |-> "idle"] /\ op = [c \in Cpus |-> Idle]
    /\ takenSlots = [c \in Cpus |-> {}]
    /\ controls = 0

Go(c, place) == pc' = [pc EXCEPT ![c] = place]
Finish(c) == Go(c, "idle") /\ op' = [op EXCEPT ![c] = Idle]

(***************************************************************************)
(* Slot geometry and write fragmentation.                                  *)
(***************************************************************************)
DiskComputeWritePayloadBytes(capacity) ==
    IF capacity <= HeaderSize THEN 0
    ELSE (capacity - HeaderSize) - ((capacity - HeaderSize) % SectorSize)

CeilDiv(n, d) == (n + d - 1) \div d

\* DiskInitializeWriteRequestLocked succeeds on s (a read needs no shape).
Shaped(s) ==
    s \in Writes =>
        \/ payload[s] # 0
        \/ shape # 0 /\ CeilDiv(Bytes[s], shape) \in 1 .. (Bytes[s] \div SectorSize)

\* TotalSeq once DiskInitializeWriteRequestLocked has run on a shaped request.
Fragments(s) ==
    IF s \in Reads \/ payload[s] # 0 THEN totalSeq[s] ELSE CeilDiv(Bytes[s], shape)

Pending(kind) == {s \in SrbsOf(kind) : phase[s] = "pending"}
Issuable(s) == phase[s] = "pending" /\ Shaped(s) /\ nextIssue[s] < Fragments(s)

\* Variant: the list is searched from its tail.
IsLastToIssue(kind, s) ==
    /\ s \in SrbsOf(kind) /\ Issuable(s)
    /\ \A t \in SrbsOf(kind) : Issuable(t) => ticket[s] >= ticket[t]

\* DiskFindNextPendingReadLocked, DiskFindNextWritableRequestLocked.
IsNextToIssue(kind, s) ==
    /\ s \in SrbsOf(kind) /\ Issuable(s)
    /\ \A t \in SrbsOf(kind) : Issuable(t) => ticket[s] <= ticket[t]

\* The writes DiskFindNextWritableRequestLocked walks over: up to the one it
\* returns.  Each of them gets its PayloadBytes and TotalSeq on the way.
Scanned(w) ==
    /\ w \in Writes /\ phase[w] = "pending" /\ Shaped(w)
    /\ \A t \in Writes : Issuable(t) => ticket[w] <= ticket[t]

InitializeScanned(kind) ==
    IF kind = "read" THEN UNCHANGED <<payload, totalSeq>>
    ELSE /\ payload' = [s \in Srbs |-> IF Scanned(s) /\ payload[s] = 0 THEN shape ELSE payload[s]]
         /\ totalSeq' = [s \in Srbs |-> IF Scanned(s) THEN Fragments(s) ELSE totalSeq[s]]

\* DiskResetWriteSlotShapeLocked: the shape is forgotten with the last user.
ShapeAfter(postedLeft, pendingLeft) ==
    IF postedLeft = 0 /\ pendingLeft = 0 THEN 0 ELSE shape

\* Variant: the counter is not maintained.
NoDecrement(n) == n

\* A list counter after one entry left: unsigned, without a test for zero.
Decrement(n) == IF n = 0 THEN MaxUlong ELSE n - 1

\* DiskWriteWriteSlotPayload: the bytes it copies, with the unsigned wrap of
\* remainingBytes when the offset lies beyond the request.
FragmentBytes(s, seq) ==
    LET offset == seq * payload[s] IN
    IF offset <= Bytes[s] /\ Bytes[s] - offset < payload[s] THEN Bytes[s] - offset
    ELSE payload[s]

\* Variant: a fragment that fills its slot exactly is refused.
SlotCanCarryLess(slot, s, seq) ==
    s \in Writes => HeaderSize + FragmentBytes(s, seq) < Capacity[slot]

\* DiskWriteReadSlotEvent / DiskWriteWriteSlotPayload succeed.
SlotCanCarry(slot, s, seq) ==
    s \in Writes =>
        /\ payload[s] # 0 /\ totalSeq[s] # 0
        /\ HeaderSize + FragmentBytes(s, seq) <= Capacity[slot]

(***************************************************************************)
(* Windows sends a READ or WRITE SRB (DiskHandleExecuteScsi, then          *)
(* DiskHandleScsiCdb, then DiskQueueReadSrb / DiskQueueWriteSrb).          *)
(***************************************************************************)

\* DiskCompleteScsiSrb: the request leaves the driver and is freed.
CompleteSrbs(done, ok) ==
    /\ phase' = [s \in Srbs |-> IF s \in done THEN "done" ELSE phase[s]]
    /\ srbStatus' = [s \in Srbs |-> IF s \notin done THEN srbStatus[s]
                                    ELSE IF ok THEN "success" ELSE "error"]
    /\ notified' = [s \in Srbs |-> IF s \in done THEN notified[s] + 1 ELSE notified[s]]

\* The unlocked check of Present and Configured.
QueueSrb(c, s) ==
    /\ pc[c] = "idle" /\ phase[s] = "idle"
    /\ IF present
         THEN /\ phase' = [phase EXCEPT ![s] = "checked"]
              /\ Go(c, "alloc")
              /\ op' = [op EXCEPT ![c] = [Idle EXCEPT !.own = s, !.kind = KindOf(s)]]
              /\ UNCHANGED srbVars
         ELSE CompleteSrbs({s}, FALSE) /\ UNCHANGED <<pc, op>>
    /\ UNCHANGED <<diskVars, holder, ticket, nextTicket, fragVars, slotVars, takenSlots, controls>>

\* DiskNextEventId and DiskAllocReadRequest / DiskAllocWriteRequest, which may
\* find no memory.
AllocRequest(c) ==
    /\ pc[c] = "alloc"
    /\ nextEventId' = nextEventId + 1
    /\ \/ /\ eventId' = [eventId EXCEPT ![op[c].own] = nextEventId + 1]
          /\ phase' = [phase EXCEPT ![op[c].own] = "allocated"]
          /\ Go(c, "insert") /\ UNCHANGED <<op, srbVars>>
       \/ /\ CompleteSrbs({op[c].own}, FALSE)
          /\ Finish(c) /\ UNCHANGED eventId
    /\ UNCHANGED <<present, sessionOpen, holder, ticket, nextTicket, nextIssue, payload, totalSeq,
                   ackedBits, ackedCount, failed, slotVars, takenSlots, controls>>

\* InsertTailList under the queue lock; Present is not looked at again.
InsertRequest(c) ==
    /\ pc[c] = "insert"
    /\ phase' = [phase EXCEPT ![op[c].own] = "pending"]
    /\ ticket' = [ticket EXCEPT ![op[c].own] = nextTicket]
    /\ nextTicket' = nextTicket + 1
    /\ pendingCount' = IF op[c].kind = "write" THEN pendingCount + 1 ELSE pendingCount
    /\ Go(c, "drain")
    /\ UNCHANGED <<diskVars, holder, fragVars, srbVars, posted, shape, postedCount, eventSlot,
                   withApp, delivered, op, takenSlots, controls>>

\* Variant: the status DiskHandleScsiCdb starts with is left in place.
StatusLeft == "success"

\* What DiskHandleScsiCdb stores for a queued request: SRB_STATUS_PENDING.
StatusOfQueued == "pending"

\* DiskHandleScsiCdb stores SRB_STATUS_PENDING only after the request was
\* queued and drained: another processor may have completed the SRB by now.
SetPending(c) ==
    /\ pc[c] = "setPending"
    /\ srbStatus' = [srbStatus EXCEPT ![op[c].own] = StatusOfQueued]
    /\ Go(c, "checkStatus")
    /\ UNCHANGED <<diskVars, listVars, fragVars, notified, slotVars, op, takenSlots, controls>>

\* DiskHandleExecuteScsi reads SrbStatus back and completes the SRB when it is
\* anything else.
CheckStatus(c) ==
    /\ pc[c] = "checkStatus"
    /\ notified' = IF srbStatus[op[c].own] = "pending" THEN notified
                   ELSE [notified EXCEPT ![op[c].own] = @ + 1]
    /\ Finish(c)
    /\ UNCHANGED <<diskVars, listVars, fragVars, srbStatus, slotVars, takenSlots, controls>>

(***************************************************************************)
(* DiskDrainReadSlots / DiskDrainWriteSlots.                               *)
(***************************************************************************)

\* One turn of the loop under the lock: the head slot goes to the first
\* request that still has something to issue.
DrainPick(c) ==
    LET kind == op[c].kind IN
    /\ pc[c] = "drain" /\ posted[kind] # <<>>
    /\ \E s \in SrbsOf(kind) :
         /\ IsNextToIssue(kind, s)
         /\ nextIssue' = [nextIssue EXCEPT ![s] = @ + 1]
         /\ op' = [op EXCEPT ![c].srb = s, ![c].slot = Head(posted[kind]), ![c].seq = nextIssue[s]]
    /\ InitializeScanned(kind)
    /\ posted' = [posted EXCEPT ![kind] = Tail(@)]
    /\ postedCount' = IF kind = "write" THEN Decrement(postedCount) ELSE postedCount
    /\ Go(c, "publish")
    /\ UNCHANGED <<diskVars, listVars, eventId, ackedBits, ackedCount, failed, srbVars,
                   shape, pendingCount, eventSlot, withApp, delivered, takenSlots, controls>>

\* Variant: the last posted slot is held back.
KeepsOneSlot(kind) == Len(posted[kind]) <= 1

\* The loop's exit: nothing to issue, or no slot.
NothingToDrain(kind) == posted[kind] = <<>> \/ ~ \E s \in SrbsOf(kind) : Issuable(s)

DrainDone(c) ==
    LET kind == op[c].kind IN
    /\ pc[c] = "drain"
    /\ NothingToDrain(kind)
    /\ InitializeScanned(kind)
    /\ IF op[c].own = None THEN Finish(c) ELSE Go(c, "setPending") /\ UNCHANGED op
    /\ UNCHANGED <<diskVars, listVars, eventId, nextIssue, ackedBits, ackedCount, failed, srbVars,
                   slotVars, takenSlots, controls>>

\* What the fields of request s hold when they are read outside the lock: its
\* own while it is allocated; once it was freed, what it last held or whatever
\* request now lives in the recycled memory.
ReadAs(s) ==
    IF phase[s] # "done" THEN {s}
    ELSE {s} \cup {t \in SrbsOf(KindOf(s)) : phase[t] \in {"allocated", "pending", "taken"}}

\* The slot is filled and completed outside the lock.
Publish(c) ==
    /\ pc[c] = "publish"
    /\ \E s \in ReadAs(op[c].srb) :
         delivered' = IF SlotCanCarry(op[c].slot, s, op[c].seq)
                        THEN delivered \cup {[srb |-> s, ev |-> eventId[s], seq |-> op[c].seq]}
                        ELSE delivered
    /\ withApp' = withApp \cup {op[c].slot}
    /\ Go(c, "drain")
    /\ op' = [op EXCEPT ![c].srb = None, ![c].slot = None, ![c].seq = 0]
    /\ UNCHANGED <<diskVars, listVars, fragVars, srbVars, posted, shape, pendingCount, postedCount,
                   eventSlot, takenSlots, controls>>

(***************************************************************************)
(* The App's requests.  A request that is refused changes nothing.         *)
(***************************************************************************)

\* DiskHandleSubmitSlotIoctl up to the lock.
SubmitSlot(c, slot) ==
    /\ pc[c] = "idle" /\ sessionOpen /\ present /\ slot \in withApp
    /\ slot \in WriteSlots => DiskComputeWritePayloadBytes(Capacity[slot]) # 0
    /\ withApp' = withApp \ {slot}
    /\ Go(c, "post")
    /\ op' = [op EXCEPT ![c] = [Idle EXCEPT !.slot = slot, !.kind = KindOf(slot)]]
    /\ UNCHANGED <<diskVars, listVars, fragVars, srbVars, posted, shape, pendingCount, postedCount,
                   eventSlot, delivered, takenSlots, controls>>

\* Variant: a slot of any shape is taken.
AnySlotFits(bytes) == TRUE

\* The first write slot sets the shape, a slot of another shape is refused.
SlotFits(bytes) == shape \in {0, bytes}

\* The critical section of the submission.
PostSlot(c) ==
    LET slot == op[c].slot
        bytes == DiskComputeWritePayloadBytes(Capacity[slot])
    IN
    /\ pc[c] = "post"
    /\ \/ /\ op[c].kind = "write" => SlotFits(bytes)
          /\ posted' = [posted EXCEPT ![op[c].kind] = Append(@, slot)]
          /\ IF op[c].kind = "read" THEN UNCHANGED <<shape, postedCount>>
             ELSE shape' = bytes /\ postedCount' = postedCount + 1
          /\ Go(c, "drain") /\ op' = [op EXCEPT ![c].slot = None]
          /\ UNCHANGED withApp
       \/ /\ op[c].kind = "write" /\ ~SlotFits(bytes)
          /\ withApp' = withApp \cup {slot}
          /\ Finish(c) /\ UNCHANGED <<posted, shape, postedCount>>
    /\ UNCHANGED <<diskVars, listVars, fragVars, srbVars, pendingCount, eventSlot, delivered,
                   takenSlots, controls>>

\* Variant: a completed request is still on the list.
FoundAmongCompleted(kind, ev, s) ==
    s \in SrbsOf(kind) /\ phase[s] \in {"pending", "done"} /\ eventId[s] = ev

\* DiskFindReadRequestByEventIdLocked, DiskFindWriteRequestByEventIdLocked.
FoundByEventId(kind, ev, s) ==
    /\ s \in Pending(kind) /\ eventId[s] = ev
    /\ \A t \in Pending(kind) : eventId[t] = ev => ticket[s] <= ticket[t]

\* DiskHandleReadAckIoctl: found and removed under the lock, then completed by
\* the same processor, which alone holds it.  "ok" covers the status, the
\* length and the buffer address.  The test of SlotIssued changes a counter only.
ReadAck(c, ev, ok) ==
    /\ pc[c] = "idle" /\ sessionOpen
    /\ \E s \in Reads : FoundByEventId("read", ev, s) /\ CompleteSrbs({s}, ok)
    /\ UNCHANGED <<diskVars, holder, ticket, nextTicket, fragVars, slotVars, cpuVars, controls>>

\* The fragments the two loops over a range visit.
RangeSeqs(base, count) == base .. (base + count - 1)

\* Variant: a fragment may be acknowledged twice.
RangeValidOrDuplicate(w, base, count) ==
    Shaped(w) /\ base + count <= Fragments(w) /\ base + count <= nextIssue[w]

\* Variant: the fragment issued last is refused.
RangeValidBelowIssue(w, base, count) ==
    /\ Shaped(w) /\ base + count <= Fragments(w) /\ base + count < nextIssue[w]
    /\ RangeSeqs(base, count) \cap ackedBits[w] = {}

\* The checks DiskHandleWriteAckBatchIoctl makes on a range before it applies it.
RangeValid(w, base, count) ==
    /\ Shaped(w)
    /\ base + count <= Fragments(w) /\ base + count <= nextIssue[w]
    /\ RangeSeqs(base, count) \cap ackedBits[w] = {}

\* Variant: complete once everything issued so far is acknowledged.
IssuedCompletes(w, count, ok) == ~ok \/ ackedCount[w] + count = nextIssue[w]

\* The request is complete and leaves PendingWrites.
RangeCompletes(w, count, ok) == ~ok \/ ackedCount[w] + count = Fragments(w)

\* The valid range of one turn of the loop: bitmap, count, and the removal
\* of the request to the batch's deferred list.
ApplyRange(c, w, base, count, ok) ==
    /\ payload' = [payload EXCEPT ![w] = IF @ = 0 THEN shape ELSE @]
    /\ totalSeq' = [totalSeq EXCEPT ![w] = Fragments(w)]
    /\ ackedBits' = [ackedBits EXCEPT ![w] = @ \cup RangeSeqs(base, count)]
    /\ ackedCount' = [ackedCount EXCEPT ![w] = @ + count]
    /\ failed' = [failed EXCEPT ![w] = ~ok]
    /\ IF RangeCompletes(w, count, ok)
         THEN /\ phase' = [phase EXCEPT ![w] = "taken"]
              /\ holder' = [holder EXCEPT ![w] = c]
              /\ pendingCount' = Decrement(pendingCount)
              /\ shape' = ShapeAfter(postedCount, Decrement(pendingCount))
         ELSE UNCHANGED <<phase, holder, pendingCount, shape>>

\* One range of a batch.  A range that is not found or not valid is reported
\* in the batch's failure list and changes nothing but the shape of a request
\* that DiskInitializeWriteRequestLocked saw for the first time.
AckRange(c, ev, base, count, ok) ==
    /\ \/ pc[c] = "idle" /\ sessionOpen
       \/ pc[c] = "batch" /\ op[c].left > 0
    /\ \E w \in Writes :
         /\ FoundByEventId("write", ev, w)
         /\ IF RangeValid(w, base, count) THEN ApplyRange(c, w, base, count, ok)
            ELSE /\ Shaped(w)
                 /\ payload' = [payload EXCEPT ![w] = IF @ = 0 THEN shape ELSE @]
                 /\ totalSeq' = [totalSeq EXCEPT ![w] = Fragments(w)]
                 /\ UNCHANGED <<ackedBits, ackedCount, failed, phase, holder, pendingCount, shape>>
    /\ Go(c, "batch")
    /\ op' = [op EXCEPT ![c].kind = "write",
                        ![c].left = IF pc[c] = "idle" THEN MaxRanges - 1 ELSE @ - 1]
    /\ UNCHANGED <<diskVars, ticket, nextTicket, eventId, nextIssue, srbVars, posted, postedCount,
                   eventSlot, withApp, delivered, takenSlots, controls>>

HeldBy(c) == {s \in Srbs : phase[s] = "taken" /\ holder[s] = c}

\* DiskCompleteWriteRequest on the requests processor c holds.
CompleteHeld(c) ==
    /\ phase' = [s \in Srbs |-> IF s \in HeldBy(c) THEN "done" ELSE phase[s]]
    /\ srbStatus' = [s \in Srbs |-> IF s \notin HeldBy(c) THEN srbStatus[s]
                                    ELSE IF failed[s] THEN "error" ELSE "success"]
    /\ notified' = [s \in Srbs |-> IF s \in HeldBy(c) THEN notified[s] + 1 ELSE notified[s]]
    /\ holder' = [s \in Srbs |-> IF s \in HeldBy(c) THEN None ELSE holder[s]]

\* DiskCompleteDeferredWriteCompletions, after the batch itself was answered.
FinishBatch(c) ==
    /\ pc[c] = "batch"
    /\ CompleteHeld(c)
    /\ Finish(c)
    /\ UNCHANGED <<diskVars, ticket, nextTicket, fragVars, slotVars, takenSlots, controls>>

\* DiskHandleSubmitEventSlotIoctl: the unlocked check, then the locked one.
SubmitEventSlot(c, slot) ==
    /\ pc[c] = "idle" /\ sessionOpen /\ present /\ slot \in withApp
    /\ withApp' = withApp \ {slot}
    /\ Go(c, "postEvent")
    /\ op' = [op EXCEPT ![c] = [Idle EXCEPT !.slot = slot]]
    /\ UNCHANGED <<diskVars, listVars, fragVars, srbVars, posted, shape, pendingCount, postedCount,
                   eventSlot, delivered, takenSlots, controls>>

PostEventSlot(c) ==
    /\ pc[c] = "postEvent"
    /\ IF eventSlot = None THEN eventSlot' = op[c].slot /\ UNCHANGED withApp
       ELSE withApp' = withApp \cup {op[c].slot} /\ UNCHANGED eventSlot
    /\ Finish(c)
    /\ UNCHANGED <<diskVars, listVars, fragVars, srbVars, posted, shape, pendingCount, postedCount,
                   delivered, takenSlots, controls>>

(***************************************************************************)
(* Control operations.                                                     *)
(***************************************************************************)
Allowed(c, cmd) == pc[c] = "idle" /\ cmd \in Controls /\ controls < MaxControls

\* DiskHandleCancelSlotIoctl.
CancelSlot(c, slot) ==
    LET kind == KindOf(slot) IN
    /\ Allowed(c, "cancel") /\ sessionOpen
    /\ \E i \in 1 .. Len(posted[kind]) :
         posted[kind][i] = slot /\ posted' = [posted EXCEPT ![kind] = RemoveAt(@, i)]
    /\ IF kind = "read" THEN UNCHANGED <<postedCount, shape>>
       ELSE /\ postedCount' = Decrement(postedCount)
            /\ shape' = ShapeAfter(Decrement(postedCount), pendingCount)
    /\ withApp' = withApp \cup {slot}
    /\ controls' = controls + 1
    /\ UNCHANGED <<diskVars, listVars, fragVars, srbVars, pendingCount, eventSlot, delivered, cpuVars>>

\* DiskHandleCreateDisk: the queues are left as they are.
CreateDisk(c) ==
    /\ Allowed(c, "create") /\ sessionOpen /\ ~present
    /\ present' = TRUE
    /\ controls' = controls + 1
    /\ UNCHANGED <<nextEventId, sessionOpen, listVars, fragVars, srbVars, slotVars, cpuVars>>

\* DiskDeactivateTarget, by DiskHandleRemoveDisk (which refuses an absent disk)
\* and DiskHandleRemoveAllDisks (which does not), or no deactivation at all:
\* ABORT, RESET and HwResetBus.
BeginTakeAll(c, cmd) ==
    /\ Allowed(c, cmd)
    /\ cmd # "reset" => sessionOpen
    /\ cmd = "remove" => present
    /\ present' = IF cmd = "reset" THEN present ELSE FALSE
    /\ controls' = controls + 1
    /\ Go(c, "takeReads")
    /\ op' = [op EXCEPT ![c] = [Idle EXCEPT !.cmd = cmd]]
    /\ UNCHANGED <<nextEventId, sessionOpen, listVars, fragVars, srbVars, slotVars, takenSlots>>

\* DiskCompleteTargetPendingInternal moves the lists of one kind to local ones.
TakePending(c, kind) ==
    /\ phase' = [s \in Srbs |-> IF s \in Pending(kind) THEN "taken" ELSE phase[s]]
    /\ holder' = [s \in Srbs |-> IF s \in Pending(kind) THEN c ELSE holder[s]]
    /\ failed' = [s \in Srbs |-> IF s \in Pending(kind) THEN TRUE ELSE failed[s]]
    /\ takenSlots' = [takenSlots EXCEPT ![c] = @ \cup ToSet(posted[kind])]
    /\ posted' = [posted EXCEPT ![kind] = <<>>]

TakeReads(c) ==
    /\ pc[c] = "takeReads"
    /\ TakePending(c, "read")
    /\ Go(c, "takeWrites")
    /\ UNCHANGED <<diskVars, ticket, nextTicket, eventId, nextIssue, payload, totalSeq, ackedBits,
                   ackedCount, srbVars, shape, pendingCount, postedCount, eventSlot, withApp,
                   delivered, op, controls>>

TakeWrites(c) ==
    /\ pc[c] = "takeWrites"
    /\ TakePending(c, "write")
    /\ shape' = 0 /\ pendingCount' = 0 /\ postedCount' = 0
    /\ Go(c, "completeTaken")
    /\ UNCHANGED <<diskVars, ticket, nextTicket, eventId, nextIssue, payload, totalSeq, ackedBits,
                   ackedCount, srbVars, eventSlot, withApp, delivered, op, controls>>

\* The local lists are completed outside the locks.
CompleteTaken(c) ==
    /\ pc[c] = "completeTaken"
    /\ CompleteHeld(c)
    /\ withApp' = withApp \cup takenSlots[c]
    /\ takenSlots' = [takenSlots EXCEPT ![c] = {}]
    /\ Go(c, "completeEvent")
    /\ UNCHANGED <<diskVars, ticket, nextTicket, fragVars, posted, shape, pendingCount,
                   postedCount, eventSlot, delivered, op, controls>>

\* Variant: PendingSrb is completed without a test for NULL.
DetachedUnchecked == {eventSlot}

\* The event slot DiskCompletePendingEventSlot detaches, if there is one.
DetachedEventSlot == {eventSlot} \ {None}

\* DiskCompletePendingEventSlot.
CompleteEvent(c) ==
    /\ pc[c] = "completeEvent"
    /\ eventSlot' = None
    /\ withApp' = withApp \cup DetachedEventSlot
    /\ IF op[c].cmd \in {"removeAll", "close"} THEN Go(c, "freeLists") /\ UNCHANGED op ELSE Finish(c)
    /\ UNCHANGED <<diskVars, listVars, fragVars, srbVars, posted, shape, pendingCount, postedCount,
                   delivered, takenSlots, controls>>

\* DiskFreeQueuedState re-initialises the queues without their locks: first the
\* list heads, then the counters, the shape and the event slot.  Whatever was
\* on a list is forgotten.
FreeLists(c) ==
    /\ pc[c] = "freeLists"
    /\ phase' = [s \in Srbs |-> IF phase[s] = "pending" THEN "lost" ELSE phase[s]]
    /\ posted' = [k \in Kinds |-> <<>>]
    /\ Go(c, "freeCounts")
    /\ UNCHANGED <<diskVars, holder, ticket, nextTicket, fragVars, srbVars, shape, pendingCount,
                   postedCount, eventSlot, withApp, delivered, op, takenSlots, controls>>

FreeCounts(c) ==
    /\ pc[c] = "freeCounts"
    /\ shape' = 0 /\ pendingCount' = 0 /\ postedCount' = 0 /\ eventSlot' = None
    /\ IF op[c].cmd = "close" THEN Go(c, "closeSession") /\ UNCHANGED op ELSE Finish(c)
    /\ UNCHANGED <<diskVars, listVars, fragVars, srbVars, posted, withApp, delivered, takenSlots,
                   controls>>

\* YUMEDISK_SESSION_CLOSE_FLAG: CurrentSessionId and NextEventId restart.
CloseSession(c) ==
    /\ pc[c] = "closeSession"
    /\ nextEventId' = 0
    /\ sessionOpen' = FALSE
    /\ delivered' = {}
    /\ Finish(c)
    /\ UNCHANGED <<present, listVars, fragVars, srbVars, posted, shape, pendingCount, postedCount,
                   eventSlot, withApp, takenSlots, controls>>

\* The KMDF driver lets another App in once no request and no slot of the
\* closed session is outstanding (PendingSlotCount and InFlightRequestCount).
OpenSession ==
    /\ ~sessionOpen /\ withApp = Slots
    /\ \A c \in Cpus : pc[c] \in {"idle", "alloc", "insert", "setPending", "checkStatus"}
                       \/ op[c].own # None
    /\ sessionOpen' = TRUE
    /\ UNCHANGED <<present, nextEventId, listVars, fragVars, srbVars, slotVars, cpuVars, controls>>

(***************************************************************************)
(* The next-state relation.                                                *)
(***************************************************************************)
EventIds == 1 .. Cardinality(Srbs)
Seqs == UNION {0 .. (Bytes[w] \div SectorSize) : w \in Writes}

Windows(c) == \E s \in Srbs : QueueSrb(c, s)

App(c) ==
    \/ \E slot \in DataSlots : SubmitSlot(c, slot)
    \/ \E slot \in EventSlots : SubmitEventSlot(c, slot)
    \/ \E ev \in EventIds, ok \in BOOLEAN : ReadAck(c, ev, ok)
    \/ \E ev \in EventIds, base \in Seqs, count \in Seqs \ {0}, ok \in BOOLEAN :
         AckRange(c, ev, base, count, ok)

Control(c) ==
    \/ CreateDisk(c)
    \/ \E slot \in DataSlots : CancelSlot(c, slot)
    \/ \E cmd \in Controls \ {"create", "cancel"} : BeginTakeAll(c, cmd)

\* What a processor inside the miniport does next, whatever the App does.
Continue(c) ==
    \/ AllocRequest(c) \/ InsertRequest(c) \/ SetPending(c) \/ CheckStatus(c)
    \/ DrainPick(c) \/ DrainDone(c) \/ Publish(c)
    \/ PostSlot(c) \/ PostEventSlot(c) \/ FinishBatch(c)
    \/ TakeReads(c) \/ TakeWrites(c) \/ CompleteTaken(c) \/ CompleteEvent(c)
    \/ FreeLists(c) \/ FreeCounts(c) \/ CloseSession(c)

Next == OpenSession \/ \E c \in Cpus : Windows(c) \/ App(c) \/ Control(c) \/ Continue(c)

Spec == Init /\ [][Next]_vars

(***************************************************************************)
(* Type correctness.                                                       *)
(***************************************************************************)
Phases == {"idle", "checked", "allocated", "pending", "taken", "done", "lost"}
Places == {"idle", "alloc", "insert", "setPending", "checkStatus", "drain", "publish", "post",
           "postEvent", "batch", "takeReads", "takeWrites", "completeTaken", "completeEvent",
           "freeLists", "freeCounts", "closeSession"}
Commands == {"none", "remove", "removeAll", "close", "reset"}
Ops == [own : Srbs \cup {None}, kind : Kinds, srb : Srbs \cup {None}, slot : Slots \cup {None},
        seq : Nat, left : Nat, cmd : Commands]

DiskTypeOK == present \in BOOLEAN /\ nextEventId \in Nat /\ sessionOpen \in BOOLEAN

ListTypeOK ==
    /\ phase \in [Srbs -> Phases] /\ holder \in [Srbs -> Cpus \cup {None}]
    /\ ticket \in [Srbs -> Nat] /\ nextTicket \in Nat \ {0}

FragTypeOK ==
    /\ eventId \in [Srbs -> Nat] /\ nextIssue \in [Srbs -> Nat]
    /\ payload \in [Srbs -> Nat] /\ totalSeq \in [Srbs -> Nat]
    /\ ackedBits \in [Srbs -> SUBSET Nat] /\ ackedCount \in [Srbs -> Nat]
    /\ failed \in [Srbs -> BOOLEAN]

SrbTypeOK == srbStatus \in [Srbs -> {"success", "error", "pending"}] /\ notified \in [Srbs -> Nat]

SlotTypeOK ==
    /\ posted \in [Kinds -> Seq(DataSlots)]
    /\ shape \in Nat /\ pendingCount \in Nat /\ postedCount \in Nat
    /\ eventSlot \in EventSlots \cup {None} /\ withApp \subseteq Slots
    /\ delivered \subseteq [srb : Srbs, ev : Nat, seq : Nat]

CpuTypeOK ==
    pc \in [Cpus -> Places] /\ op \in [Cpus -> Ops] /\ takenSlots \in [Cpus -> SUBSET Slots]

\* The values the driver's structures can hold (defs.h).
TypeOK == DiskTypeOK /\ ListTypeOK /\ FragTypeOK /\ SrbTypeOK /\ SlotTypeOK /\ CpuTypeOK /\ controls \in Nat

(***************************************************************************)
(* Safety.                                                                 *)
(***************************************************************************)

\* A queued write that finished without a failure had every one of its
\* fragments issued and acknowledged, and the fragments cover its bytes: the
\* count comparison of DiskHandleWriteAckBatchIoctl stands for the bitmap,
\* however batches, duplicates, cancels and resets interleave.
Succeeded(w) == phase[w] = "done" /\ ticket[w] # 0 /\ ~failed[w]
SuccessMeansEveryFragmentAcked ==
    \A w \in Writes : Succeeded(w) =>
        /\ ackedBits[w] = 0 .. (totalSeq[w] - 1)
        /\ nextIssue[w] = totalSeq[w]
        /\ totalSeq[w] * payload[w] >= Bytes[w]

\* The App was given fragment seq of s, or will be.
Reached(s, seq) ==
    \/ [srb |-> s, ev |-> eventId[s], seq |-> seq] \in delivered
    \/ \E c \in Cpus : pc[c] = "publish" /\ op[c].srb = s /\ op[c].seq = seq

\* A sequence number the drain loop handed out is with the App or on its way:
\* NextIssueSeq never runs past a fragment that no slot could carry, which
\* would leave the write waiting for an acknowledgement nobody can send.
IssuedReachesApp ==
    \A s \in Srbs : phase[s] = "pending" => \A seq \in 0 .. (nextIssue[s] - 1) : Reached(s, seq)

\* No missed pairing: whenever a posted slot and a request that could use it
\* are both queued, some processor is still inside the drain loop for them.
PairingInProgress ==
    \A kind \in Kinds :
        posted[kind] # <<>> /\ (\E s \in SrbsOf(kind) : Issuable(s)) =>
            \E c \in Cpus : pc[c] \in {"drain", "publish"} /\ op[c].kind = kind

\* Requests of a kind are issued strictly in arrival order, a write with all
\* its fragments before the next one begins.
InOrder(kind) ==
    \A s, t \in Pending(kind) :
        ticket[s] < ticket[t] /\ nextIssue[t] > 0 => nextIssue[s] = totalSeq[s]
IssuedInArrivalOrder == \A kind \in Kinds : InOrder(kind)

\* Everything queued agrees on one slot shape: no pending write was split for
\* another fragment size and no posted slot is of another size.
OneShape ==
    /\ \A w \in Writes : phase[w] = "pending" => payload[w] \in {0, shape}
    /\ \A i \in 1 .. Len(posted["write"]) :
         DiskComputeWritePayloadBytes(Capacity[posted["write"][i]]) = shape

\* The counters DiskResetWriteSlotShapeLocked trusts are the list lengths.
CountsMatchLists ==
    pendingCount = Cardinality(Pending("write")) /\ postedCount = Len(posted["write"])

\* StorPort is told that an SRB is complete only when the driver has let go of
\* its request: nothing on a list or in a local list belongs to StorPort again.
NotifiedMeansFreed == \A s \in Srbs : notified[s] # 0 => phase[s] = "done"

\* A completed request is freed: no later acknowledgement, cancel or reset
\* reaches it again.
FreedStaysFreed ==
    [][\A s \in Srbs : phase[s] = "done" =>
         phase'[s] = "done" /\ ackedBits'[s] = ackedBits[s] /\ failed'[s] = failed[s]]_vars

(***************************************************************************)
(* The inductive invariant behind SuccessMeansEveryFragmentAcked.          *)
(***************************************************************************)

\* What a processor holds in its local variables at each place.
LocalsOK ==
    \A c \in Cpus :
        /\ pc[c] = "publish" => op[c].srb \in Srbs /\ op[c].slot \in DataSlots
        /\ pc[c] = "post" => op[c].slot \in SlotsOf(op[c].kind)
        /\ pc[c] = "postEvent" => op[c].slot \in EventSlots

\* A request that is not queued yet belongs to one processor and has no place
\* on a list.
FreshOK ==
    /\ \A s \in Srbs : phase[s] \in {"idle", "checked", "allocated"} => ticket[s] = 0
    /\ \A c \in Cpus : pc[c] = "alloc" => op[c].own \in Srbs /\ phase[op[c].own] = "checked"
    /\ \A c \in Cpus : pc[c] = "insert" => op[c].own \in Srbs /\ phase[op[c].own] = "allocated"
    /\ \A c, d \in Cpus :
         c # d /\ pc[c] \in {"alloc", "insert"} /\ pc[d] \in {"alloc", "insert"}
         => op[c].own # op[d].own

\* The counters of a write agree with its bitmap, and its fragments cover it.
FragmentsOK ==
    \A w \in Writes :
        /\ ackedBits[w] \subseteq 0 .. (nextIssue[w] - 1)
        /\ ackedCount[w] = Cardinality(ackedBits[w])
        /\ payload[w] # 0 => nextIssue[w] <= totalSeq[w] /\ totalSeq[w] * payload[w] >= Bytes[w]
        /\ payload[w] = 0 => nextIssue[w] = 0

\* A write that left the list without a failure has all its fragments counted.
CompletedOK ==
    \A w \in Writes :
        phase[w] \in {"taken", "done"} /\ ticket[w] # 0 /\ ~failed[w]
        => payload[w] # 0 /\ ackedCount[w] = totalSeq[w]

\* Together they are preserved by every step of every processor.
IndInv == TypeOK /\ LocalsOK /\ FreshOK /\ FragmentsOK /\ CompletedOK

(***************************************************************************)
(* The inductive invariant of the queues, whatever the control operations. *)
(***************************************************************************)

\* The processor of an SRB that is still queueing knows its kind, and its
\* SrbStatus is anything but pending only if the SRB was completed meanwhile.
OwnersOK ==
    \A c \in Cpus :
        /\ pc[c] \in {"alloc", "insert"} => op[c].kind = KindOf(op[c].own)
        /\ pc[c] \in {"setPending", "checkStatus"} => op[c].own \in Srbs
        /\ pc[c] = "checkStatus" /\ srbStatus[op[c].own] # "pending" => phase[op[c].own] = "done"

\* A list grows at its tail, with requests nothing was issued of.
TailOK ==
    \A s \in Srbs :
        /\ ticket[s] < nextTicket
        /\ phase[s] \in {"idle", "checked", "allocated"} => nextIssue[s] = 0 /\ payload[s] = 0
        /\ s \in Reads => nextIssue[s] <= totalSeq[s]

QueueInv == IndInv /\ OwnersOK /\ TailOK /\ NotifiedMeansFreed /\ PairingInProgress /\ InOrder("read")

(***************************************************************************)
(* The invariant of the lists of writes.  Removal of all disks and the end *)
(* of a session empty the lists without their locks, and with them go the  *)
(* counters, the shape and what was delivered: it holds where no processor *)
(* runs them.                                                              *)
(***************************************************************************)
ListsKept == Controls \cap {"removeAll", "close"} = {}

NoneFrees ==
    \A c \in Cpus : pc[c] \notin {"freeLists", "freeCounts", "closeSession"}
                   /\ op[c].cmd \notin {"removeAll", "close"}

\* A shape carries at least a sector and lasts as long as a slot is posted.
ShapeOK ==
    /\ shape # 0 => shape >= SectorSize
    /\ shape = 0 => posted["write"] = <<>>
    /\ \A i \in 1 .. Len(posted["write"]) : posted["write"][i] \in WriteSlots
    /\ \A c \in Cpus : pc[c] = "post" /\ op[c].kind = "write" =>
         DiskComputeWritePayloadBytes(Capacity[op[c].slot]) # 0

\* A fragment on its way belongs to a request that was queued, and the slot it
\* was given has the size the write was split for.
CarriedOK ==
    \A c \in Cpus : pc[c] = "publish" =>
        /\ phase[op[c].srb] \notin {"idle", "checked", "allocated"}
        /\ op[c].srb \in Pending("write") =>
             /\ op[c].slot \in WriteSlots /\ payload[op[c].srb] # 0
             /\ DiskComputeWritePayloadBytes(Capacity[op[c].slot]) = payload[op[c].srb]

\* A write is split before any later one, and issued to its end.
WritesInOrder ==
    \A s, t \in Pending("write") :
        ticket[s] < ticket[t] /\ nextIssue[t] > 0 => payload[s] # 0 /\ nextIssue[s] = totalSeq[s]

\* The counters count finite lists.
ListsCounted == IsFiniteSet(Pending("write")) /\ CountsMatchLists

ListsInv ==
    /\ QueueInv /\ NoneFrees /\ ListsCounted
    /\ OneShape /\ ShapeOK /\ CarriedOK /\ IssuedReachesApp /\ WritesInOrder

(***************************************************************************)
(* What the documentation says and the code does not keep (docs/           *)
(* architecture, section 6.3: no pending SRB and no dead slot is left).    *)
(***************************************************************************)

\* Once every processor has left the driver, a removed target keeps no posted
\* slot and no SRB that still waits for its completion.
RemovedTargetIsEmpty ==
    (~present /\ \A c \in Cpus : pc[c] = "idle") =>
        /\ \A s \in Srbs : phase[s] \notin {"pending", "lost"}
        /\ \A k \in Kinds : posted[k] = <<>>

(***************************************************************************)
(* Liveness: a live App posts slots and acknowledges what it was given; a  *)
(* processor inside the driver goes on.                                    *)
(***************************************************************************)
AppPosts(kind) == \E c \in Cpus, slot \in SlotsOf(kind) : SubmitSlot(c, slot)
AppAcksRead(r) == \E c \in Cpus : phase[r] = "pending" /\ ReadAck(c, eventId[r], TRUE)
AppAcksFragment(w, seq) ==
    \E c \in Cpus : /\ pc[c] = "idle" /\ phase[w] = "pending"
                    /\ RangeValid(w, seq, 1) /\ AckRange(c, eventId[w], seq, 1, TRUE)

Fairness ==
    /\ \A c \in Cpus : WF_vars(Continue(c))
    /\ \A kind \in Kinds : SF_vars(AppPosts(kind))
    /\ \A r \in Reads : SF_vars(AppAcksRead(r))
    /\ \A w \in Writes, seq \in Seqs : SF_vars(AppAcksFragment(w, seq))

FairSpec == Spec /\ Fairness

\* A request that entered its queue is completed, whatever slots are cancelled
\* and whichever acknowledgements are repeated.
QueuedIsCompleted == \A s \in Srbs : phase[s] = "pending" ~> phase[s] = "done"
=============================================================================
