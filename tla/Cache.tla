------------------------------- MODULE Cache -------------------------------
(***************************************************************************)
(* The block cache of the crate cache: foreground threads read and write   *)
(* blocks that are held resident in two queues (FIFO, LRU), dirty blocks   *)
(* leave memory through one temp file per block, and a worker thread       *)
(* sends temp files to the right side (the remote disk).                   *)
(*                                                                         *)
(* One mutex guards the state and one condition variable announces its     *)
(* changes.  A step of the model is what happens between a lock and the    *)
(* next unlock or wait, or one I/O call made without the lock.  pc[t] is   *)
(* where thread t stands in read_touched_block or write_touched_block:     *)
(*   plan      about to take the lock and decide                           *)
(*   asleep    in state_changed.wait                                       *)
(*   load      about to read the block from the right side                 *)
(*   rehydrate about to read the block from its temp file                  *)
(*   loaded, rehydrated   that read is back, the lock not yet taken        *)
(*   done      the call has its answer                                     *)
(* A block is a function from cells to values, so that a write of a part   *)
(* of a block is a write of one cell.  Of dirty_ranges only the emptiness  *)
(* is consulted: dirty is a Boolean.                                       *)
(***************************************************************************)
EXTENDS Integers, FiniteSets, FiniteSetsExt, Sequences, SequencesExt

CONSTANTS
    Threads, Blocks, Cells, Value0, Calls, None, Done, Failed,   \* as in BlockStore
    FifoCapacity, LruCapacity, TempMaxFiles,                     \* CacheConfig
    Faults,       \* which I/O may fail
    MaxFaults,    \* bound: failures of I/O
    MayDrop       \* whether the cache is dropped at some time

AnyCall == UNION {Calls[t] : t \in Threads}
Writes == {c \in AnyCall : c.kind = "write"}
Data == [Cells -> {Value0} \cup {w.value : w \in Writes}]
Data0 == [c \in Cells |-> Value0]
Missing == Failed   \* the content of a temp file that does not exist

\* BlockEntry: load_state, the data, dirty_ranges, has_active_snapshot_temp and
\* the write that waits for the data.
Entry == [load : {"loadingRemote", "rehydrating", "ready"}, data : Data, dirty : BOOLEAN,
          snapshot : BOOLEAN, patch : Writes \cup {None}]

FaultKinds == {"rightRead", "rightWrite", "tempRead", "tempWrite", "tempLost", "tempDelete"}

ASSUME ConstantsAssumption ==
    /\ Blocks \subseteq Nat /\ IsFiniteSet(Blocks) /\ IsFiniteSet(Threads)
    /\ FifoCapacity \in Nat \ {0} /\ LruCapacity \in Nat \ {0} /\ TempMaxFiles \in Nat \ {0}
    /\ Faults \subseteq FaultKinds /\ MaxFaults \in Nat /\ MayDrop \in BOOLEAN
    /\ \A c \in AnyCall : c.kind \in {"read", "write"} /\ c.block \in Blocks
    /\ \A w \in Writes : w.cell \in Cells
    /\ {None, Failed} \cap Data = {} /\ {Done, None} \cap Data = {}
    /\ None \notin AnyCall /\ None \notin Entry
    /\ None # Done /\ None # Failed /\ Done # Failed

VARIABLES
    entries,      \* resident.blocks: None or the entry of the block
    fifo, lru,    \* the two queues, oldest first
    spilled,      \* keys of spilled_dirty
    activeTemp,   \* active_temp_blocks
    waiters,      \* foreground_dirty_eviction_waiters
    stopped,      \* stop_requested
    temp,         \* content of each temp file, or Missing
    right,        \* content of the right side
    worker,       \* the worker: pc, the block it flushes and its buffer
    faults,       \* failures so far (bound)
    pc, call, reply,
    forTemp,      \* waiting_for_temp_slot
    fetched       \* loaded_block with read_result, None before the read

residentVars == <<entries, fifo, lru>>
tempVars     == <<spilled, activeTemp, temp>>
threadVars   == <<pc, call, reply, forTemp, fetched>>
vars == <<residentVars, tempVars, waiters, stopped, right, worker, faults, threadVars>>

Resident(b) == entries[b] # None
IsReady(b)  == Resident(b) /\ entries[b].load = "ready"
TempCount   == Cardinality(spilled) + Cardinality({b \in Blocks : Resident(b) /\ entries[b].snapshot})
Clean(e)    == ~e.dirty /\ ~e.snapshot
Block(t)    == call[t].block

\* The entry of a block whose data has just arrived.
ReadyEntry(data, dirty, snapshot) ==
    [load |-> "ready", data |-> data, dirty |-> dirty, snapshot |-> snapshot, patch |-> None]

Placeholder(t) ==
    [load |-> IF Block(t) \in spilled THEN "rehydrating" ELSE "loadingRemote",
     data |-> Data0, dirty |-> FALSE, snapshot |-> FALSE,
     patch |-> IF call[t].kind = "write" THEN call[t] ELSE None]

Patched(data, w) == [data EXCEPT ![w.cell] = w.value]
Applied(data, patch) == IF patch = None THEN data ELSE Patched(data, patch)

Init ==
    /\ entries = [b \in Blocks |-> None] /\ fifo = <<>> /\ lru = <<>>
    /\ spilled = {} /\ activeTemp = {} /\ waiters = 0 /\ stopped = FALSE
    /\ temp = [b \in Blocks |-> Missing] /\ right = [b \in Blocks |-> Data0]
    /\ worker = [pc |-> "waiting", block |-> None, data |-> None]
    /\ faults = 0
    /\ pc = [t \in Threads |-> "idle"] /\ call = [t \in Threads |-> None]
    /\ reply = [t \in Threads |-> None] /\ forTemp = [t \in Threads |-> FALSE]
    /\ fetched = [t \in Threads |-> None]

\* One of the failures that are left happens.
Fault(kind) == kind \in Faults /\ faults < MaxFaults /\ faults' = faults + 1
NoFault == UNCHANGED faults

(***************************************************************************)
(* The condition variable, and the count of the foreground calls that wait *)
(* for a temp slot.                                                        *)
(***************************************************************************)
Go(t, place) == pc' = [pc EXCEPT ![t] = place]

\* Variant: notify_all is forgotten.
StillAsleep == pc
\* notify_all: whoever sleeps decides again.
Woken == [u \in Threads |-> IF pc[u] = "asleep" THEN "plan" ELSE pc[u]]

GoAndNotify(t, place) ==
    /\ pc' = [Woken EXCEPT ![t] = place]
    /\ worker' = IF worker.pc = "waiting" THEN [worker EXCEPT !.pc = "woken"] ELSE worker
Answer(t, r) == reply' = [reply EXCEPT ![t] = r]

\* Variants: the call keeps its place in the count; it gives back a place it
\* does not have.
ReleaseNever(t) == UNCHANGED <<waiters, forTemp>>
ReleaseAlways(t) == waiters' = waiters - 1 /\ forTemp' = [forTemp EXCEPT ![t] = FALSE]
ReleaseWaiter(t) ==
    /\ waiters' = IF forTemp[t] THEN waiters - 1 ELSE waiters
    /\ forTemp' = [forTemp EXCEPT ![t] = FALSE]

SleepGeneric(t) == ReleaseWaiter(t) /\ Go(t, "asleep")
SleepForTemp(t) ==
    /\ waiters' = IF forTemp[t] THEN waiters ELSE waiters + 1
    /\ forTemp' = [forTemp EXCEPT ![t] = TRUE]
    /\ Go(t, "asleep")

Begin(t) ==
    /\ pc[t] = "idle" /\ ~stopped
    /\ \E c \in Calls[t] : call' = [call EXCEPT ![t] = c]
    /\ Go(t, "plan")
    /\ UNCHANGED <<residentVars, tempVars, waiters, stopped, right, worker, faults, reply, forTemp,
                   fetched>>

Return(t) ==
    /\ pc[t] = "done"
    /\ Go(t, "idle")
    /\ call' = [call EXCEPT ![t] = None] /\ reply' = [reply EXCEPT ![t] = None]
    /\ UNCHANGED <<residentVars, tempVars, waiters, stopped, right, worker, faults, forTemp, fetched>>

(***************************************************************************)
(* A hit (plan_read_touched_block, plan_write_touched_block on a Ready     *)
(* block): copy or patch, then record_hit moves the block in the queues.   *)
(***************************************************************************)
LruHeadEvictable == IsReady(Head(lru)) /\ Clean(entries[Head(lru)])

PatchedEntry(e, w) == [e EXCEPT !.data = Patched(e.data, w), !.dirty = TRUE]

\* The queue q without the node of block b.
Unlinked(q, b) == RemoveAt(q, CHOOSE i \in DOMAIN q : q[i] = b)

\* record_hit(b), on the resident table es: a block of the FIFO goes to the
\* LRU when the head of a full LRU can be evicted.
RecordHit(b, es) ==
    LET full == Len(lru) = LruCapacity
    IN  \/ /\ b \in ToSet(lru)
           /\ lru' = Append(Unlinked(lru, b), b) /\ entries' = es /\ UNCHANGED fifo
        \/ /\ b \in ToSet(fifo) /\ ~full
           /\ fifo' = Unlinked(fifo, b) /\ lru' = Append(lru, b) /\ entries' = es
        \/ /\ b \in ToSet(fifo) /\ full /\ LruHeadEvictable
           /\ fifo' = Unlinked(fifo, b) /\ lru' = Append(Tail(lru), b)
           /\ entries' = [es EXCEPT ![Head(lru)] = None]
        \/ /\ b \in ToSet(fifo) /\ full /\ ~LruHeadEvictable
           /\ entries' = es /\ UNCHANGED <<fifo, lru>>

Hit(t) ==
    LET b == Block(t) IN
    /\ pc[t] = "plan" /\ IsReady(b)
    /\ \/ /\ call[t].kind = "read"
          /\ RecordHit(b, entries)
          /\ Answer(t, entries[b].data)
       \/ /\ call[t].kind = "write"
          /\ RecordHit(b, [entries EXCEPT ![b] = PatchedEntry(@, call[t])])
          /\ Answer(t, Done)
    /\ ReleaseWaiter(t) /\ Go(t, "done")
    /\ UNCHANGED <<tempVars, stopped, right, worker, faults, call, fetched>>

\* Variant: only the placeholder in the resident table is respected.
NeverInUse(b) == FALSE
\* The temp file that stands for the block is being sent or read.
TempInUse(b) == b \in spilled \cap activeTemp

\* Someone else is loading the block, or its temp file is in use.
WaitForBlock(t) ==
    LET b == Block(t) IN
    /\ pc[t] = "plan"
    /\ \/ Resident(b) /\ ~IsReady(b)
       \/ ~Resident(b) /\ TempInUse(b)
    /\ SleepGeneric(t)
    /\ UNCHANGED <<residentVars, tempVars, stopped, right, worker, faults, call, reply, fetched>>

(***************************************************************************)
(* A miss: prepare_resident_slot_for_insert makes room in the FIFO, then a *)
(* placeholder is inserted and the load starts without the lock.           *)
(***************************************************************************)
Missed(t) == pc[t] = "plan" /\ ~Resident(Block(t)) /\ ~TempInUse(Block(t))
FifoFull == Len(fifo) >= FifoCapacity
Victim == Head(fifo)

\* Variant: the victim's temp file may be in use.
VictimLoading == ~IsReady(Victim)
VictimBusy == Victim \in activeTemp \/ ~IsReady(Victim)

\* Variant: one temp file more than the limit.
NoTempSlotBeyond == ~entries[Victim].snapshot /\ TempCount > TempMaxFiles
NoTempSlot == ~entries[Victim].snapshot /\ TempCount >= TempMaxFiles

\* The call's placeholder enters the resident table es and the queue q.
Insert(t, es, q) ==
    LET b == Block(t) IN
    /\ entries' = [es EXCEPT ![b] = Placeholder(t)]
    /\ fifo' = Append(q, b)
    /\ activeTemp' = IF b \in spilled THEN activeTemp \cup {b} ELSE activeTemp
    /\ Go(t, IF b \in spilled THEN "rehydrate" ELSE "load")
    /\ ReleaseWaiter(t)
    /\ UNCHANGED <<lru, stopped, right, worker, call, reply, fetched>>

Evicted == [entries EXCEPT ![Victim] = None]

EnterFree(t) ==
    /\ Missed(t) /\ ~FifoFull
    /\ Insert(t, entries, fifo)
    /\ UNCHANGED <<spilled, temp, faults>>

EvictClean(t) ==
    /\ Missed(t) /\ FifoFull /\ ~VictimBusy /\ Clean(entries[Victim])
    /\ Insert(t, Evicted, Tail(fifo))
    /\ UNCHANGED <<spilled, temp, faults>>

\* A dirty victim goes to its temp file; one that has a snapshot and no
\* dirty range is in its temp file already.
SpillReady(t) ==
    /\ Missed(t) /\ FifoFull /\ ~VictimBusy /\ ~Clean(entries[Victim]) /\ ~NoTempSlot
SpilledTemp == IF entries[Victim].dirty THEN [temp EXCEPT ![Victim] = entries[Victim].data] ELSE temp

Spill(t) ==
    /\ SpillReady(t)
    /\ temp' = SpilledTemp /\ spilled' = spilled \cup {Victim}
    /\ Insert(t, Evicted, Tail(fifo))
    /\ NoFault

\* The temp file cannot be written: the old one is kept, or, when the rename
\* that should bring it back fails too, lost.  The error is the caller's.
SpillFails(t) ==
    /\ SpillReady(t) /\ entries[Victim].dirty
    /\ \/ Fault("tempWrite") /\ UNCHANGED temp
       \/ /\ temp[Victim] # Missing /\ Fault("tempLost")
          /\ temp' = [temp EXCEPT ![Victim] = Missing]
    /\ ReleaseWaiter(t) /\ Answer(t, Failed) /\ Go(t, "done")
    /\ UNCHANGED <<residentVars, spilled, activeTemp, stopped, right, worker, call, fetched>>

WaitForVictim(t) ==
    /\ Missed(t) /\ FifoFull
    /\ \/ VictimBusy /\ SleepGeneric(t)
       \/ ~VictimBusy /\ ~Clean(entries[Victim]) /\ NoTempSlot /\ SleepForTemp(t)
    /\ UNCHANGED <<residentVars, tempVars, stopped, right, worker, faults, call, reply, fetched>>

(***************************************************************************)
(* The load: one I/O call without the lock, then its outcome under it.     *)
(***************************************************************************)
Fetched(t, data) == fetched' = [fetched EXCEPT ![t] = data]

ReadRight(t) ==
    /\ pc[t] = "load"
    /\ \/ Fetched(t, right[Block(t)]) /\ NoFault
       \/ Fetched(t, Failed) /\ Fault("rightRead")
    /\ Go(t, "loaded")
    /\ UNCHANGED <<residentVars, tempVars, waiters, stopped, right, worker, call, reply, forTemp>>

ReadTemp(t) ==
    /\ pc[t] = "rehydrate"
    /\ \/ Fetched(t, temp[Block(t)]) /\ NoFault
       \/ Fetched(t, Failed) /\ Fault("tempRead")
    /\ Go(t, "rehydrated")
    /\ UNCHANGED <<residentVars, tempVars, waiters, stopped, right, worker, call, reply, forTemp>>

Loads(t) == pc[t] \in {"loaded", "rehydrated"}

FinishLoad(t) ==
    LET b == Block(t)
        e == entries[b]
        data == Applied(fetched[t], e.patch)
    IN  /\ Loads(t) /\ fetched[t] # Failed
        /\ entries' = [entries EXCEPT ![b] = ReadyEntry(data, e.patch # None, pc[t] = "rehydrated")]
        /\ spilled' = spilled \ (IF pc[t] = "rehydrated" THEN {b} ELSE {})
        /\ activeTemp' = activeTemp \ (IF pc[t] = "rehydrated" THEN {b} ELSE {})
        /\ Answer(t, IF call[t].kind = "read" THEN data ELSE Done)
        /\ fetched' = [fetched EXCEPT ![t] = None]
        /\ GoAndNotify(t, "done")
        /\ UNCHANGED <<fifo, lru, temp, waiters, stopped, right, faults, call, forTemp>>

\* Variant: the rollback forgets the queue.
QueueUntouched(b) == fifo
QueueWithout(b) == Unlinked(fifo, b)

\* abort_remote_load: the placeholder goes, with the patch it carried.
AbortLoad(t) ==
    LET b == Block(t) IN
    /\ Loads(t) /\ fetched[t] = Failed
    /\ entries' = [entries EXCEPT ![b] = None] /\ fifo' = QueueWithout(b)
    /\ activeTemp' = activeTemp \ (IF pc[t] = "rehydrated" THEN {b} ELSE {})
    /\ Answer(t, Failed)
    /\ fetched' = [fetched EXCEPT ![t] = None]
    /\ GoAndNotify(t, "done")
    /\ UNCHANGED <<lru, spilled, temp, waiters, stopped, right, faults, call, forTemp>>

(***************************************************************************)
(* The worker.  waiting: in wait_timeout, with scan_due false; woken:      *)
(* notified before the timeout, so that it waits a whole interval again;   *)
(* scanning: scan_due is true and the lock is about to be taken; read,     *)
(* write, remove, finish, giveUp: the places of flush_active_temp.         *)
(***************************************************************************)
WorkerAt(place) == worker.pc = place
WorkerGoes(place) == worker' = [worker EXCEPT !.pc = place]

\* wait_timeout returns because the interval is over.
TimerFires ==
    /\ WorkerAt("waiting") /\ ~stopped
    /\ WorkerGoes("scanning")
    /\ UNCHANGED <<residentVars, tempVars, waiters, stopped, right, faults, threadVars>>

\* It returns because of a notification: scan_due stays false.
RearmTimer ==
    /\ WorkerAt("woken") /\ ~stopped
    /\ WorkerGoes("waiting")
    /\ UNCHANGED <<residentVars, tempVars, waiters, stopped, right, faults, threadVars>>

SpilledIdle == spilled \ activeTemp
SnapshotIdle == {b \in Blocks \ activeTemp : IsReady(b) /\ entries[b].snapshot}
Dirty == {b \in Blocks : IsReady(b) /\ entries[b].dirty /\ ~entries[b].snapshot /\ entries[b].patch = None}

\* select_existing_temp_flush: a spilled block first, then a resident one.
PickTemp ==
    LET b == Min(IF SpilledIdle # {} THEN SpilledIdle ELSE SnapshotIdle) IN
    /\ WorkerAt("scanning") /\ ~stopped /\ SpilledIdle \cup SnapshotIdle # {}
    /\ activeTemp' = activeTemp \cup {b}
    /\ worker' = [pc |-> "read", block |-> b, data |-> None]
    /\ UNCHANGED <<residentVars, spilled, temp, waiters, stopped, right, faults, threadVars>>

MaySnapshot == waiters = 0 /\ TempCount < TempMaxFiles

\* create_snapshot_temp_locked for the first dirty block without a snapshot.
CreateSnapshot ==
    LET b == Min(Dirty) IN
    /\ WorkerAt("scanning") /\ ~stopped /\ SpilledIdle \cup SnapshotIdle = {}
    /\ MaySnapshot /\ Dirty # {}
    /\ \/ /\ temp' = [temp EXCEPT ![b] = entries[b].data] /\ NoFault
          /\ entries' = [entries EXCEPT ![b].snapshot = TRUE, ![b].dirty = FALSE]
          /\ pc' = Woken
          /\ UNCHANGED worker
       \/ /\ Fault("tempWrite")
          /\ WorkerGoes("waiting")
          /\ UNCHANGED <<temp, entries, pc>>
    /\ UNCHANGED <<fifo, lru, spilled, activeTemp, waiters, stopped, right, call, reply, forTemp,
                   fetched>>

NothingDue ==
    /\ WorkerAt("scanning") /\ ~stopped /\ SpilledIdle \cup SnapshotIdle = {}
    /\ ~(MaySnapshot /\ Dirty # {})
    /\ WorkerGoes("waiting")
    /\ UNCHANGED <<residentVars, tempVars, waiters, stopped, right, faults, threadVars>>

FlushReadsTemp ==
    /\ WorkerAt("read")
    /\ \/ /\ temp[worker.block] # Missing /\ NoFault
          /\ worker' = [worker EXCEPT !.pc = "write", !.data = temp[worker.block]]
       \/ temp[worker.block] = Missing /\ NoFault /\ WorkerGoes("giveUp")
       \/ Fault("tempRead") /\ WorkerGoes("giveUp")
    /\ UNCHANGED <<residentVars, tempVars, waiters, stopped, right, threadVars>>

\* A write that fails may have written any part of the block: the right side
\* writes it in chunks.
FlushWritesRight ==
    /\ WorkerAt("write")
    /\ \/ /\ right' = [right EXCEPT ![worker.block] = worker.data]
          /\ WorkerGoes("remove") /\ NoFault
       \/ /\ \E written \in SUBSET DOMAIN worker.data :
                right' = [right EXCEPT ![worker.block] =
                            [c \in DOMAIN @ |-> IF c \in written THEN worker.data[c] ELSE @[c]]]
          /\ WorkerGoes("giveUp") /\ Fault("rightWrite")
    /\ UNCHANGED <<residentVars, tempVars, waiters, stopped, threadVars>>

FlushRemovesTemp ==
    /\ WorkerAt("remove")
    /\ \/ /\ temp' = [temp EXCEPT ![worker.block] = Missing]
          /\ WorkerGoes("finish") /\ NoFault
       \/ WorkerGoes("giveUp") /\ Fault("tempDelete") /\ UNCHANGED temp
    /\ UNCHANGED <<residentVars, spilled, activeTemp, waiters, stopped, right, threadVars>>

\* Variant: the block that was flushed is clean, whatever was written meanwhile.
Settled(e) == [e EXCEPT !.snapshot = FALSE, !.dirty = FALSE]
Unsnapshot(e) == [e EXCEPT !.snapshot = FALSE]

EndFlush ==
    /\ activeTemp' = activeTemp \ {worker.block}
    /\ worker' = [pc |-> "scanning", block |-> None, data |-> None]
    /\ pc' = Woken

\* finish_flush_success: anything but the two cases is an InvariantViolation
\* that ends the worker.
FinishFlush ==
    LET b == worker.block IN
    /\ WorkerAt("finish")
    /\ \/ /\ b \in spilled
          /\ spilled' = spilled \ {b} /\ UNCHANGED entries
       \/ /\ b \notin spilled /\ IsReady(b) /\ entries[b].snapshot
          /\ entries' = [entries EXCEPT ![b] = Unsnapshot(@)] /\ UNCHANGED spilled
    /\ EndFlush
    /\ UNCHANGED <<fifo, lru, temp, waiters, stopped, right, faults, call, reply, forTemp, fetched>>

GiveUpFlush ==
    /\ WorkerAt("giveUp")
    /\ EndFlush
    /\ UNCHANGED <<residentVars, spilled, temp, waiters, stopped, right, faults, call, reply, forTemp,
                   fetched>>

(***************************************************************************)
(* Drop: nobody can be in a call, because it needs the only reference.     *)
(* The worker ends when it next takes the lock.                            *)
(***************************************************************************)
Drop ==
    /\ MayDrop /\ ~stopped /\ \A t \in Threads : pc[t] = "idle"
    /\ stopped' = TRUE
    /\ UNCHANGED <<residentVars, tempVars, waiters, right, worker, faults, threadVars>>

WorkerEnds ==
    /\ stopped /\ worker.pc \in {"waiting", "woken", "scanning"}
    /\ WorkerGoes("ended")
    /\ UNCHANGED <<residentVars, tempVars, waiters, stopped, right, faults, threadVars>>

ThreadStep(t) ==
    \/ Return(t) \/ Hit(t) \/ WaitForBlock(t)
    \/ EnterFree(t) \/ EvictClean(t) \/ Spill(t) \/ SpillFails(t) \/ WaitForVictim(t)
    \/ ReadRight(t) \/ ReadTemp(t) \/ FinishLoad(t) \/ AbortLoad(t)

FlushStep ==
    \/ PickTemp \/ CreateSnapshot \/ NothingDue
    \/ FlushReadsTemp \/ FlushWritesRight \/ FlushRemovesTemp \/ FinishFlush \/ GiveUpFlush

Next ==
    \/ \E t \in Threads : Begin(t) \/ ThreadStep(t)
    \/ TimerFires \/ RearmTimer \/ FlushStep \/ Drop \/ WorkerEnds

Spec == Init /\ [][Next]_vars

\* The scheduler runs every thread; wait_timeout returns when its interval
\* passes without a notification.  Nobody has to call the cache.
FairSpec ==
    /\ Spec
    /\ \A t \in Threads : WF_vars(ThreadStep(t))
    /\ WF_vars(TimerFires) /\ WF_vars(RearmTimer) /\ WF_vars(FlushStep) /\ WF_vars(WorkerEnds)

(***************************************************************************)
(* Properties                                                              *)
(***************************************************************************)
\* Type invariant of the cache's state.
TypeOK ==
    /\ entries \in [Blocks -> Entry \cup {None}]
    /\ fifo \in Seq(Blocks) /\ lru \in Seq(Blocks)
    /\ spilled \subseteq Blocks /\ activeTemp \subseteq Blocks
    /\ waiters \in Nat /\ stopped \in BOOLEAN /\ faults \in Nat
    /\ temp \in [Blocks -> Data \cup {Missing}] /\ right \in [Blocks -> Data]
    /\ worker \in [pc : {"waiting", "woken", "scanning", "read", "write", "remove", "finish",
                         "giveUp", "ended"},
                   block : Blocks \cup {None}, data : Data \cup {None}]
    /\ pc \in [Threads -> {"idle", "plan", "asleep", "load", "rehydrate", "loaded", "rehydrated",
                           "done"}]
    /\ call \in [Threads -> AnyCall \cup {None}]
    /\ reply \in [Threads -> Data \cup {None, Done, Failed}]
    /\ forTemp \in [Threads -> BOOLEAN] /\ fetched \in [Threads -> Data \cup {None, Failed}]

\* The content of a block: the resident copy, else the temp file that took
\* its place, else the right side.  When the worker has sent and removed the
\* temp file of a spilled block the right side has it.
Content(b) ==
    IF IsReady(b) THEN entries[b].data
    ELSE IF b \in spilled /\ temp[b] # Missing THEN temp[b]
    ELSE right[b]

Store == INSTANCE BlockStore WITH mem <- [b \in Blocks |-> Content(b)]

\* The cache implements the block store: whatever is evicted, spilled,
\* rehydrated or flushed, at whatever moment and with whatever failure, a
\* read returns the last accepted write and a failed call changes nothing.
ImplementsStore == Store!Spec

\* The queues hold exactly the resident blocks, each once, within capacity;
\* what is loading is in the FIFO (resident/mod.rs looks a block's node up
\* and calls a mismatch an InvariantViolation).
QueuesHoldResident ==
    /\ Len(fifo) <= FifoCapacity /\ Len(lru) <= LruCapacity
    /\ IsInjective(fifo) /\ IsInjective(lru) /\ ToSet(fifo) \cap ToSet(lru) = {}
    /\ ToSet(fifo) \cup ToSet(lru) = {b \in Blocks : Resident(b)}
    /\ \A b \in ToSet(lru) : IsReady(b)

Loading(t) == pc[t] \in {"load", "loaded", "rehydrate", "rehydrated"}
Flushing == worker.pc \in {"read", "write", "remove", "finish", "giveUp"}

FlushFindsBlock ==
    Flushing =>
        LET b == worker.block IN
        /\ b \in activeTemp
        /\ (b \in spilled /\ ~Resident(b)) \/ (b \notin spilled /\ IsReady(b) /\ entries[b].snapshot)
LoadFindsBlock ==
    \A t \in Threads :
        /\ pc[t] \in {"rehydrate", "rehydrated"} =>
             /\ Block(t) \in spilled \cap activeTemp
             /\ Resident(Block(t)) /\ entries[Block(t)].load = "rehydrating"
        /\ pc[t] \in {"load", "loaded"} =>
             Resident(Block(t)) /\ entries[Block(t)].load = "loadingRemote"

\* When the worker, or a rehydrating call, comes back from the temp file it
\* uses, the block is still where finish_flush_success, clear_active_snapshot
\* and finish_rehydrate look for it: else the worker's expect ends the thread.
TempUserFindsBlock == FlushFindsBlock /\ LoadFindsBlock

\* There are never more temp files than temp_max_files, not even files that
\* nobody counts.
TempFilesWithinLimit ==
    /\ TempCount <= TempMaxFiles
    /\ {b \in Blocks : temp[b] # Missing} \subseteq
         spilled \cup {b \in Blocks : IsReady(b) /\ entries[b].snapshot}
           \cup {b \in Blocks : Resident(b) /\ entries[b].load = "rehydrating"}

\* A block the cache holds clean is what the right side holds, so that what
\* wait_for_quiesce waits for, and what is evicted without a trace, is safe.
CleanIsOnRight ==
    \A b \in Blocks :
        IsReady(b) /\ Clean(entries[b]) => right[b] = entries[b].data

\* foreground_dirty_eviction_waiters counts the calls that wait for a temp
\* slot: while it is too high the worker makes no snapshot.
WaitersCounted ==
    waiters = Cardinality({t \in Threads : forTemp[t] /\ pc[t] \in {"asleep", "plan"}})

(***************************************************************************)
(* The inductive invariant: what the steps rely on about each other.       *)
(***************************************************************************)
\* A call has a reply when it is done, and data when its read came back: what
\* the file or the right side still holds.
CallsOK ==
    \A t \in Threads :
        /\ (call[t] = None) = (pc[t] = "idle")
        /\ (reply[t] # None) = (pc[t] = "done")
        /\ pc[t] \notin {"loaded", "rehydrated"} => fetched[t] = None
        /\ pc[t] = "loaded" => fetched[t] \in {right[Block(t)], Failed}
        /\ pc[t] = "rehydrated" => fetched[t] \in {temp[Block(t)], Failed}

\* Each placeholder is the one of the call that loads it.
LoadersOK ==
    /\ \A t \in Threads : Loading(t) =>
         /\ Resident(Block(t))
         /\ entries[Block(t)].patch = IF call[t].kind = "write" THEN call[t] ELSE None
    /\ \A t, u \in Threads : Loading(t) /\ Loading(u) /\ Block(t) = Block(u) => t = u

\* A block is spilled or resident, unless it is coming back, with its temp file
\* in use; while it loads it is neither dirty nor a snapshot.
BlocksOK ==
    \A b \in Blocks : Resident(b) =>
        /\ (b \in spilled) = (entries[b].load = "rehydrating")
        /\ b \in spilled => b \in activeTemp
        /\ ~IsReady(b) => ~entries[b].dirty /\ ~entries[b].snapshot
        /\ IsReady(b) => entries[b].patch = None

\* What the worker knows of the block it flushes.
FlushOK ==
    LET b == worker.block IN
    /\ Flushing => b \in Blocks
    /\ WorkerAt("write") => worker.data \in Data /\ temp[b] = worker.data
    /\ WorkerAt("remove") => temp[b] # Missing /\ right[b] = temp[b]
    /\ WorkerAt("finish") =>
         temp[b] = Missing /\ (IsReady(b) /\ ~entries[b].dirty => right[b] = entries[b].data)

\* A snapshot that was not written since is what its temp file holds, until
\* the worker removed the file.
SnapshotsOK ==
    \A b \in Blocks :
        IsReady(b) /\ entries[b].snapshot /\ ~entries[b].dirty =>
            temp[b] = entries[b].data \/ (WorkerAt("finish") /\ worker.block = b)

WaitersOK == \A t \in Threads : forTemp[t] => pc[t] \in {"asleep", "plan"}

\* The parts about the cached blocks and those about the calls.
CachedOK ==
    /\ BlocksOK /\ FlushOK /\ SnapshotsOK /\ QueuesHoldResident /\ TempFilesWithinLimit /\ CleanIsOnRight
ThreadsOK == CallsOK /\ LoadersOK /\ WaitersOK /\ WaitersCounted

IndInv == TypeOK /\ CachedOK /\ ThreadsOK /\ TempUserFindsBlock

\* A snapshot whose temp file was lost by write_block: the worker tries to
\* send it again and again, without a pause.
SnapshotLost ==
    \E b \in Blocks : IsReady(b) /\ entries[b].snapshot /\ temp[b] = Missing /\ ~WorkerAt("finish")

\* While calls are in progress one of them comes to its end: nobody waits for
\* a notification that does not come, or for a temp slot that nobody frees,
\* as long as failures are not for ever.
SomeCallReturns ==
    (\E t \in Threads : pc[t] # "idle") ~> (\E t \in Threads : pc[t] = "done") \/ SnapshotLost

\* docs/cache/components.md:119: the worker makes a round every
\* dirty_scan_interval; so a dirty block is sent after some time.
DirtyIsSent == \A b \in Blocks : b \in Dirty ~> b \notin Dirty
=============================================================================
