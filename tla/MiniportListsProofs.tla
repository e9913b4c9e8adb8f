------------------------ MODULE MiniportListsProofs ------------------------
(***************************************************************************)
(* Proofs about the queues of MiniportQueue: who is told of an SRB, in     *)
(* which order requests meet slots, and, as long as the lists are not      *)
(* freed without their locks, that counters, shape and what was issued     *)
(* agree with the lists.                                                   *)
(***************************************************************************)
EXTENDS MiniportQueueProofs

\* What a processor knows of the SRB it brought stays true, whoever completes it.
LEMMA OwnersStep == ASSUME IndInv, OwnersOK, [Next]_vars PROVE OwnersOK'
<1> USE DEF IndInv, TypeOK, ListTypeOK, CpuTypeOK, SrbTypeOK, Ops, OwnersOK, FreshOK
<1>1. CASE UNCHANGED vars
  BY <1>1 DEF vars, diskVars, listVars, fragVars, srbVars, slotVars, cpuVars
<1>2. CASE OpenSession
  BY <1>2 DEF OpenSession, diskVars, listVars, fragVars, srbVars, slotVars, cpuVars
<1>3. ASSUME NEW c \in Cpus, NEW s \in Srbs, QueueSrb(c, s) PROVE OwnersOK'
  <2>1. CASE present
    <3>1. [Idle EXCEPT !.own = s, !.kind = KindOf(s)].own = s /\ [Idle EXCEPT !.own = s,
              !.kind = KindOf(s)].kind = KindOf(s)
      BY DEF Idle
    <3>2. /\ pc'[c] = "alloc" /\ op'[c].own = s /\ op'[c].kind = KindOf(s)
          /\ \A d \in Cpus \ {c} : op'[d] = op[d] /\ pc'[d] = pc[d]
      BY <1>3, <2>1, <3>1 DEF QueueSrb, Go
    <3>3. UNCHANGED srbStatus /\ \A r \in Srbs : phase[r] = "done" => phase'[r] = "done"
      BY <1>3, <2>1 DEF QueueSrb, srbVars
    <3>4. KindOf(s)' = KindOf(s) /\ \A d \in Cpus : KindOf(op[d].own)' = KindOf(op'[d].own)
      BY DEF KindOf
    <3> QED
      BY <3>2, <3>3, <3>4
  <2>2. CASE ~present
    BY <1>3, <2>2 DEF QueueSrb, CompleteSrbs
  <2> QED
    BY <2>1, <2>2
<1>4. ASSUME NEW c \in Cpus, NEW slot \in DataSlots, SubmitSlot(c, slot) PROVE OwnersOK'
  BY <1>4 DEF SubmitSlot, Go, diskVars, listVars, fragVars, srbVars, slotVars, cpuVars
<1>5. ASSUME NEW c \in Cpus, NEW slot \in EventSlots, SubmitEventSlot(c, slot) PROVE OwnersOK'
  BY <1>5 DEF SubmitEventSlot, Go, diskVars, listVars, fragVars, srbVars, slotVars, cpuVars
<1>6. ASSUME NEW c \in Cpus, NEW ev \in EventIds, NEW ok \in BOOLEAN, ReadAck(c, ev, ok) PROVE OwnersOK'
  BY <1>6 DEF ReadAck, CompleteSrbs, FoundByEventId, Pending, SrbsOf, diskVars, listVars, fragVars, srbVars,
       slotVars, cpuVars
<1>7. ASSUME NEW c \in Cpus, NEW ev \in EventIds, NEW base \in Seqs, NEW count \in Seqs \ {0}, NEW ok \in BOOLEAN,
              AckRange(c, ev, base, count, ok) PROVE OwnersOK'
  BY <1>7 DEF AckRange, ApplyRange, FoundByEventId, Pending, SrbsOf, Go, diskVars, listVars, fragVars, srbVars,
       slotVars, cpuVars
<1>8. ASSUME NEW c \in Cpus, CreateDisk(c) PROVE OwnersOK'
  BY <1>8 DEF CreateDisk, diskVars, listVars, fragVars, srbVars, slotVars, cpuVars
<1>9. ASSUME NEW c \in Cpus, NEW slot \in DataSlots, CancelSlot(c, slot) PROVE OwnersOK'
  BY <1>9 DEF CancelSlot, diskVars, listVars, fragVars, srbVars, slotVars, cpuVars
<1>10. ASSUME NEW c \in Cpus, NEW cmd \in Controls \ {"create", "cancel"}, BeginTakeAll(c, cmd) PROVE OwnersOK'
  BY <1>10 DEF BeginTakeAll, Go, diskVars, listVars, fragVars, srbVars, slotVars, cpuVars
<1>11. ASSUME NEW c \in Cpus, AllocRequest(c) PROVE OwnersOK'
  BY <1>11 DEF AllocRequest, CompleteSrbs, Finish, Go, diskVars, listVars, fragVars, srbVars, slotVars, cpuVars
<1>12. ASSUME NEW c \in Cpus, InsertRequest(c) PROVE OwnersOK'
  BY <1>12 DEF InsertRequest, Go, diskVars, listVars, fragVars, srbVars, slotVars, cpuVars
<1>13. ASSUME NEW c \in Cpus, SetPending(c) PROVE OwnersOK'
  BY <1>13 DEF SetPending, StatusOfQueued, Go, diskVars, listVars, fragVars, srbVars, slotVars, cpuVars
<1>14. ASSUME NEW c \in Cpus, CheckStatus(c) PROVE OwnersOK'
  BY <1>14 DEF CheckStatus, Finish, Go, diskVars, listVars, fragVars, srbVars, slotVars, cpuVars
<1>15. ASSUME NEW c \in Cpus, DrainPick(c) PROVE OwnersOK'
  BY <1>15 DEF DrainPick, InitializeScanned, Go, diskVars, listVars, fragVars, srbVars, slotVars, cpuVars
<1>16. ASSUME NEW c \in Cpus, DrainDone(c) PROVE OwnersOK'
  BY <1>16 DEF DrainDone, InitializeScanned, Finish, Go, diskVars, listVars, fragVars, srbVars, slotVars, cpuVars
<1>17. ASSUME NEW c \in Cpus, Publish(c) PROVE OwnersOK'
  BY <1>17 DEF Publish, Go, diskVars, listVars, fragVars, srbVars, slotVars, cpuVars
<1>18. ASSUME NEW c \in Cpus, PostSlot(c) PROVE OwnersOK'
  <2>1. /\ pc'[c] \in {"idle", "drain"} /\ UNCHANGED <<phase, srbStatus>>
        /\ \A d \in Cpus \ {c} : op'[d] = op[d] /\ pc'[d] = pc[d]
    BY <1>18 DEF PostSlot, Finish, Go, listVars, srbVars
  <2> QED
    BY <2>1
<1>19. ASSUME NEW c \in Cpus, PostEventSlot(c) PROVE OwnersOK'
  BY <1>19 DEF PostEventSlot, Finish, Go, diskVars, listVars, fragVars, srbVars, slotVars, cpuVars
<1>20. ASSUME NEW c \in Cpus, FinishBatch(c) PROVE OwnersOK'
  BY <1>20 DEF FinishBatch, CompleteHeld, HeldBy, Finish, Go, diskVars, listVars, fragVars, srbVars, slotVars, cpuVars
<1>21. ASSUME NEW c \in Cpus, TakeReads(c) PROVE OwnersOK'
  BY <1>21 DEF TakeReads, TakePending, Pending, SrbsOf, Go, diskVars, listVars, fragVars, srbVars, slotVars, cpuVars
<1>22. ASSUME NEW c \in Cpus, TakeWrites(c) PROVE OwnersOK'
  BY <1>22 DEF TakeWrites, TakePending, Pending, SrbsOf, Go, diskVars, listVars, fragVars, srbVars, slotVars, cpuVars
<1>23. ASSUME NEW c \in Cpus, CompleteTaken(c) PROVE OwnersOK'
  BY <1>23 DEF CompleteTaken, CompleteHeld, HeldBy, Go, diskVars, listVars, fragVars, srbVars, slotVars, cpuVars
<1>24. ASSUME NEW c \in Cpus, CompleteEvent(c) PROVE OwnersOK'
  BY <1>24 DEF CompleteEvent, Finish, Go, diskVars, listVars, fragVars, srbVars, slotVars, cpuVars
<1>25. ASSUME NEW c \in Cpus, FreeLists(c) PROVE OwnersOK'
  BY <1>25 DEF FreeLists, Go, diskVars, listVars, fragVars, srbVars, slotVars, cpuVars
<1>26. ASSUME NEW c \in Cpus, FreeCounts(c) PROVE OwnersOK'
  BY <1>26 DEF FreeCounts, Finish, Go, diskVars, listVars, fragVars, srbVars, slotVars, cpuVars
<1>27. ASSUME NEW c \in Cpus, CloseSession(c) PROVE OwnersOK'
  BY <1>27 DEF CloseSession, Finish, Go, diskVars, listVars, fragVars, srbVars, slotVars, cpuVars
<1> HIDE DEF IndInv, TypeOK, ListTypeOK, CpuTypeOK, SrbTypeOK, Ops, OwnersOK, FreshOK
<1> QED
  BY <1>1, <1>2, <1>3, <1>4, <1>5, <1>6, <1>7, <1>8, <1>9, <1>10, <1>11, <1>12, <1>13, <1>14, <1>15, <1>16,
       <1>17, <1>18, <1>19, <1>20, <1>21, <1>22, <1>23, <1>24, <1>25, <1>26, <1>27
     DEF Next, Windows, App, Control, Continue

\* StorPort is told of an SRB in the step that frees it, or of one that was freed.
LEMMA NotifiedStep == ASSUME IndInv, OwnersOK, NotifiedMeansFreed, [Next]_vars PROVE NotifiedMeansFreed'
<1> USE DEF IndInv, TypeOK, ListTypeOK, CpuTypeOK, SrbTypeOK, Ops, OwnersOK, FreshOK, NotifiedMeansFreed
<1>1. CASE UNCHANGED vars
  BY <1>1 DEF vars, diskVars, listVars, fragVars, srbVars, slotVars, cpuVars
<1>2. CASE OpenSession
  BY <1>2 DEF OpenSession, diskVars, listVars, fragVars, srbVars, slotVars, cpuVars
<1>3. ASSUME NEW c \in Cpus, NEW s \in Srbs, QueueSrb(c, s) PROVE NotifiedMeansFreed'
  BY <1>3 DEF QueueSrb, CompleteSrbs, Go, diskVars, listVars, fragVars, srbVars, slotVars, cpuVars
<1>4. ASSUME NEW c \in Cpus, NEW slot \in DataSlots, SubmitSlot(c, slot) PROVE NotifiedMeansFreed'
  BY <1>4 DEF SubmitSlot, Go, diskVars, listVars, fragVars, srbVars, slotVars, cpuVars
<1>5. ASSUME NEW c \in Cpus, NEW slot \in EventSlots, SubmitEventSlot(c, slot) PROVE NotifiedMeansFreed'
  BY <1>5 DEF SubmitEventSlot, Go, diskVars, listVars, fragVars, srbVars, slotVars, cpuVars
<1>6. ASSUME NEW c \in Cpus, NEW ev \in EventIds, NEW ok \in BOOLEAN, ReadAck(c, ev, ok) PROVE NotifiedMeansFreed'
  BY <1>6 DEF ReadAck, CompleteSrbs, FoundByEventId, Pending, SrbsOf, diskVars, listVars, fragVars, srbVars,
       slotVars, cpuVars
<1>7. ASSUME NEW c \in Cpus, NEW ev \in EventIds, NEW base \in Seqs, NEW count \in Seqs \ {0}, NEW ok \in BOOLEAN,
              AckRange(c, ev, base, count, ok) PROVE NotifiedMeansFreed'
  BY <1>7 DEF AckRange, ApplyRange, FoundByEventId, Pending, SrbsOf, Go, diskVars, listVars, fragVars, srbVars,
       slotVars, cpuVars
<1>8. ASSUME NEW c \in Cpus, CreateDisk(c) PROVE NotifiedMeansFreed'
  BY <1>8 DEF CreateDisk, diskVars, listVars, fragVars, srbVars, slotVars, cpuVars
<1>9. ASSUME NEW c \in Cpus, NEW slot \in DataSlots, CancelSlot(c, slot) PROVE NotifiedMeansFreed'
  BY <1>9 DEF CancelSlot, diskVars, listVars, fragVars, srbVars, slotVars, cpuVars
<1>10. ASSUME NEW c \in Cpus, NEW cmd \in Controls \ {"create", "cancel"}, BeginTakeAll(c,
              cmd) PROVE NotifiedMeansFreed'
  BY <1>10 DEF BeginTakeAll, Go, diskVars, listVars, fragVars, srbVars, slotVars, cpuVars
<1>11. ASSUME NEW c \in Cpus, AllocRequest(c) PROVE NotifiedMeansFreed'
  BY <1>11 DEF AllocRequest, CompleteSrbs, Finish, Go, diskVars, listVars, fragVars, srbVars, slotVars, cpuVars
<1>12. ASSUME NEW c \in Cpus, InsertRequest(c) PROVE NotifiedMeansFreed'
  BY <1>12 DEF InsertRequest, Go, diskVars, listVars, fragVars, srbVars, slotVars, cpuVars
<1>13. ASSUME NEW c \in Cpus, SetPending(c) PROVE NotifiedMeansFreed'
  BY <1>13 DEF SetPending, StatusOfQueued, Go, diskVars, listVars, fragVars, srbVars, slotVars, cpuVars
<1>14. ASSUME NEW c \in Cpus, CheckStatus(c) PROVE NotifiedMeansFreed'
  BY <1>14 DEF CheckStatus, Finish, Go, diskVars, listVars, fragVars, srbVars, slotVars, cpuVars
<1>15. ASSUME NEW c \in Cpus, DrainPick(c) PROVE NotifiedMeansFreed'
  BY <1>15 DEF DrainPick, InitializeScanned, Go, diskVars, listVars, fragVars, srbVars, slotVars, cpuVars
<1>16. ASSUME NEW c \in Cpus, DrainDone(c) PROVE NotifiedMeansFreed'
  BY <1>16 DEF DrainDone, InitializeScanned, Finish, Go, diskVars, listVars, fragVars, srbVars, slotVars, cpuVars
<1>17. ASSUME NEW c \in Cpus, Publish(c) PROVE NotifiedMeansFreed'
  BY <1>17 DEF Publish, Go, diskVars, listVars, fragVars, srbVars, slotVars, cpuVars
<1>18. ASSUME NEW c \in Cpus, PostSlot(c) PROVE NotifiedMeansFreed'
  BY <1>18 DEF PostSlot, Finish, Go, diskVars, listVars, fragVars, srbVars, slotVars, cpuVars
<1>19. ASSUME NEW c \in Cpus, PostEventSlot(c) PROVE NotifiedMeansFreed'
  BY <1>19 DEF PostEventSlot, Finish, Go, diskVars, listVars, fragVars, srbVars, slotVars, cpuVars
<1>20. ASSUME NEW c \in Cpus, FinishBatch(c) PROVE NotifiedMeansFreed'
  BY <1>20 DEF FinishBatch, CompleteHeld, HeldBy, Finish, Go, diskVars, listVars, fragVars, srbVars, slotVars, cpuVars
<1>21. ASSUME NEW c \in Cpus, TakeReads(c) PROVE NotifiedMeansFreed'
  BY <1>21 DEF TakeReads, TakePending, Pending, SrbsOf, Go, diskVars, listVars, fragVars, srbVars, slotVars, cpuVars
<1>22. ASSUME NEW c \in Cpus, TakeWrites(c) PROVE NotifiedMeansFreed'
  BY <1>22 DEF TakeWrites, TakePending, Pending, SrbsOf, Go, diskVars, listVars, fragVars, srbVars, slotVars, cpuVars
<1>23. ASSUME NEW c \in Cpus, CompleteTaken(c) PROVE NotifiedMeansFreed'
  BY <1>23 DEF CompleteTaken, CompleteHeld, HeldBy, Go, diskVars, listVars, fragVars, srbVars, slotVars, cpuVars
<1>24. ASSUME NEW c \in Cpus, CompleteEvent(c) PROVE NotifiedMeansFreed'
  BY <1>24 DEF CompleteEvent, Finish, Go, diskVars, listVars, fragVars, srbVars, slotVars, cpuVars
<1>25. ASSUME NEW c \in Cpus, FreeLists(c) PROVE NotifiedMeansFreed'
  BY <1>25 DEF FreeLists, Go, diskVars, listVars, fragVars, srbVars, slotVars, cpuVars
<1>26. ASSUME NEW c \in Cpus, FreeCounts(c) PROVE NotifiedMeansFreed'
  BY <1>26 DEF FreeCounts, Finish, Go, diskVars, listVars, fragVars, srbVars, slotVars, cpuVars
<1>27. ASSUME NEW c \in Cpus, CloseSession(c) PROVE NotifiedMeansFreed'
  BY <1>27 DEF CloseSession, Finish, Go, diskVars, listVars, fragVars, srbVars, slotVars, cpuVars
<1> QED
  BY <1>1, <1>2, <1>3, <1>4, <1>5, <1>6, <1>7, <1>8, <1>9, <1>10, <1>11, <1>12, <1>13, <1>14, <1>15, <1>16, <1>17,
       <1>18, <1>19, <1>20, <1>21, <1>22, <1>23, <1>24, <1>25, <1>26, <1>27
     DEF Next, Windows, App, Control, Continue

\* One step of the scan, or none, on request s (DiskInitializeWriteRequestLocked).
Splits(s) ==
    \/ payload'[s] = payload[s] /\ totalSeq'[s] = totalSeq[s]
    \/ /\ s \in Writes /\ phase[s] = "pending" /\ Shaped(s)
       /\ payload'[s] = (IF payload[s] = 0 THEN shape ELSE payload[s]) /\ totalSeq'[s] = Fragments(s)

\* The drain loop scans, and touches no request that is not on the list.
LEMMA ScanSplits ==
    ASSUME TypeOK, NEW kind \in Kinds, InitializeScanned(kind)
    PROVE  \A s \in Srbs : Splits(s)
<1>1. CASE kind = "read"
  BY <1>1 DEF InitializeScanned, Splits
<1>2. CASE kind = "write"
  <2> SUFFICES ASSUME NEW s \in Srbs PROVE Splits(s)
    OBVIOUS
  <2>1. payload'[s] = (IF Scanned(s) /\ payload[s] = 0 THEN shape ELSE payload[s])
        /\ totalSeq'[s] = (IF Scanned(s) THEN Fragments(s) ELSE totalSeq[s])
    BY <1>2 DEF InitializeScanned
  <2>2. Scanned(s) => s \in Writes /\ phase[s] = "pending" /\ Shaped(s)
    BY DEF Scanned
  <2> QED
    BY <2>1, <2>2, ConstantsAssumption DEF Splits
<1> QED
  BY <1>1, <1>2 DEF Kinds

\* So does an acknowledgement, on the write it found.
LEMMA AckSplits ==
    ASSUME TypeOK, NEW c \in Cpus, NEW ev, NEW base, NEW count, NEW ok, AckRange(c, ev, base, count, ok)
    PROVE  \A s \in Srbs : Splits(s)
<1> USE DEF TypeOK, FragTypeOK
<1>1. PICK w \in Writes :
        /\ phase[w] = "pending" /\ Shaped(w)
        /\ payload' = [payload EXCEPT ![w] = IF @ = 0 THEN shape ELSE @]
        /\ totalSeq' = [totalSeq EXCEPT ![w] = Fragments(w)]
  BY DEF AckRange, ApplyRange, FoundByEventId, RangeValid, Pending
<1> QED
  BY <1>1, ConstantsAssumption DEF Splits, Srbs

\* A request that is still on its list and could be issued could be before,
\* when all that happened to it is a scan, a turn of the drain loop, or the
\* loss of the shape.
LEMMA IssuableBefore ==
    ASSUME TypeOK, NEW s \in Srbs, Splits(s), phase'[s] = "pending" => phase[s] = "pending",
           nextIssue'[s] \in Nat, nextIssue'[s] >= nextIssue[s], shape' = shape \/ shape' = 0, Issuable(s)'
    PROVE  Issuable(s)
<1> USE DEF TypeOK, FragTypeOK, SlotTypeOK
<1>1. phase[s] = "pending" /\ nextIssue[s] \in Nat /\ payload[s] \in Nat /\ totalSeq[s] \in Nat
  BY DEF Issuable
<1>2. CASE payload'[s] = payload[s] /\ totalSeq'[s] = totalSeq[s]
  <2>1. Shaped(s)
    <3>1. payload[s] = 0 /\ s \in Writes
          => shape' # 0 /\ CeilDiv(Bytes[s], shape') \in 1 .. (Bytes[s] \div SectorSize)
      BY <1>2 DEF Issuable, Shaped
    <3> QED
      BY <3>1 DEF Shaped
  <2>4. Fragments(s)' = Fragments(s)
    <3>1. s \in Reads \/ payload[s] # 0 \/ shape' = shape
      BY <1>2 DEF Issuable, Shaped, Srbs
    <3> QED
      BY <1>2, <3>1 DEF Fragments
  <2>2. Fragments(s) \in Nat
    BY <2>1, ShapedFragments
  <2> QED
    BY <1>1, <2>1, <2>2, <2>4 DEF Issuable
<1>3. CASE /\ s \in Writes /\ Shaped(s)
           /\ payload'[s] = (IF payload[s] = 0 THEN shape ELSE payload[s]) /\ totalSeq'[s] = Fragments(s)
  <2>1. payload'[s] # 0
    BY <1>3 DEF Shaped
  <2>2. Fragments(s)' = Fragments(s)
    BY <1>3, <2>1 DEF Fragments
  <2>3. Fragments(s) \in Nat
    BY <1>3, ShapedFragments
  <2> QED
    BY <1>1, <1>3, <2>2, <2>3 DEF Issuable
<1> QED
  BY <1>2, <1>3 DEF Splits

\* New requests keep going to the tail.
LEMMA TailStep == ASSUME IndInv, TailOK, [Next]_vars PROVE TailOK'
<1> USE DEF IndInv, TypeOK, ListTypeOK, CpuTypeOK, FragTypeOK, Ops, TailOK, FreshOK
<1>1. CASE UNCHANGED vars
  BY <1>1 DEF vars, diskVars, listVars, fragVars, srbVars, slotVars, cpuVars
<1>2. CASE OpenSession
  BY <1>2 DEF OpenSession, diskVars, listVars, fragVars, srbVars, slotVars, cpuVars
<1>3. ASSUME NEW c \in Cpus, NEW s \in Srbs, QueueSrb(c, s) PROVE TailOK'
  BY <1>3 DEF QueueSrb, CompleteSrbs, Go, diskVars, listVars, fragVars, srbVars, slotVars, cpuVars
<1>4. ASSUME NEW c \in Cpus, NEW slot \in DataSlots, SubmitSlot(c, slot) PROVE TailOK'
  BY <1>4 DEF SubmitSlot, Go, diskVars, listVars, fragVars, srbVars, slotVars, cpuVars
<1>5. ASSUME NEW c \in Cpus, NEW slot \in EventSlots, SubmitEventSlot(c, slot) PROVE TailOK'
  BY <1>5 DEF SubmitEventSlot, Go, diskVars, listVars, fragVars, srbVars, slotVars, cpuVars
<1>6. ASSUME NEW c \in Cpus, NEW ev \in EventIds, NEW ok \in BOOLEAN, ReadAck(c, ev, ok) PROVE TailOK'
  BY <1>6 DEF ReadAck, CompleteSrbs, FoundByEventId, Pending, SrbsOf, diskVars, listVars, fragVars, srbVars,
       slotVars, cpuVars
<1>7. ASSUME NEW c \in Cpus, NEW ev \in EventIds, NEW base \in Seqs, NEW count \in Seqs \ {0}, NEW ok \in BOOLEAN,
              AckRange(c, ev, base, count, ok) PROVE TailOK'
  <2>1. \A s \in Srbs : phase[s] # "pending" \/ s \in Reads => payload'[s] = payload[s] /\ totalSeq'[s] = totalSeq[s]
    BY <1>7, AckSplits, ConstantsAssumption DEF Splits
  <2>2. UNCHANGED <<ticket, nextTicket, nextIssue>>
        /\ \A s \in Srbs : phase'[s] = phase[s] \/ phase'[s] = "taken"
    BY <1>7 DEF AckRange, ApplyRange
  <2>3. \A s \in Srbs : phase[s] \in {"idle", "checked", "allocated"} => phase[s] # "pending"
    OBVIOUS
  <2> QED
    BY <2>1, <2>2, <2>3
<1>8. ASSUME NEW c \in Cpus, CreateDisk(c) PROVE TailOK'
  BY <1>8 DEF CreateDisk, diskVars, listVars, fragVars, srbVars, slotVars, cpuVars
<1>9. ASSUME NEW c \in Cpus, NEW slot \in DataSlots, CancelSlot(c, slot) PROVE TailOK'
  BY <1>9 DEF CancelSlot, diskVars, listVars, fragVars, srbVars, slotVars, cpuVars
<1>10. ASSUME NEW c \in Cpus, NEW cmd \in Controls \ {"create", "cancel"}, BeginTakeAll(c, cmd) PROVE TailOK'
  BY <1>10 DEF BeginTakeAll, Go, diskVars, listVars, fragVars, srbVars, slotVars, cpuVars
<1>11. ASSUME NEW c \in Cpus, AllocRequest(c) PROVE TailOK'
  BY <1>11 DEF AllocRequest, CompleteSrbs, Finish, Go, diskVars, listVars, fragVars, srbVars, slotVars, cpuVars
<1>12. ASSUME NEW c \in Cpus, InsertRequest(c) PROVE TailOK'
  BY <1>12 DEF InsertRequest, Go, diskVars, listVars, fragVars, srbVars, slotVars, cpuVars
<1>13. ASSUME NEW c \in Cpus, SetPending(c) PROVE TailOK'
  BY <1>13 DEF SetPending, StatusOfQueued, Go, diskVars, listVars, fragVars, srbVars, slotVars, cpuVars
<1>14. ASSUME NEW c \in Cpus, CheckStatus(c) PROVE TailOK'
  BY <1>14 DEF CheckStatus, Finish, Go, diskVars, listVars, fragVars, srbVars, slotVars, cpuVars
<1>15. ASSUME NEW c \in Cpus, DrainPick(c) PROVE TailOK'
  <2>1. op[c].kind \in Kinds
    OBVIOUS
  <2>2. \A s \in Srbs : phase[s] # "pending" \/ s \in Reads => payload'[s] = payload[s] /\ totalSeq'[s] = totalSeq[s]
    BY <1>15, <2>1, ScanSplits, ConstantsAssumption DEF DrainPick, Splits
  <2>3. PICK s \in SrbsOf(op[c].kind) : Issuable(s) /\ nextIssue' = [nextIssue EXCEPT ![s] = @ + 1]
    BY <1>15 DEF DrainPick, IsNextToIssue
  <2>4. s \in Srbs /\ phase[s] = "pending" /\ (s \in Reads => nextIssue[s] < totalSeq[s])
    BY <2>3 DEF Issuable, Fragments, SrbsOf, Srbs
  <2>5. UNCHANGED <<phase, ticket, nextTicket>>
    BY <1>15 DEF DrainPick, listVars
  <2> QED
    BY <2>2, <2>3, <2>4, <2>5
<1>16. ASSUME NEW c \in Cpus, DrainDone(c) PROVE TailOK'
  <2>1. \A s \in Srbs : phase[s] # "pending" \/ s \in Reads => payload'[s] = payload[s] /\ totalSeq'[s] = totalSeq[s]
    BY <1>16, ScanSplits, ConstantsAssumption DEF DrainDone, Splits
  <2>2. UNCHANGED <<phase, ticket, nextTicket, nextIssue>>
    BY <1>16 DEF DrainDone, listVars
  <2> QED
    BY <2>1, <2>2
<1>17. ASSUME NEW c \in Cpus, Publish(c) PROVE TailOK'
  BY <1>17 DEF Publish, Go, diskVars, listVars, fragVars, srbVars, slotVars, cpuVars
<1>18. ASSUME NEW c \in Cpus, PostSlot(c) PROVE TailOK'
  BY <1>18 DEF PostSlot, Finish, Go, diskVars, listVars, fragVars, srbVars, slotVars, cpuVars
<1>19. ASSUME NEW c \in Cpus, PostEventSlot(c) PROVE TailOK'
  BY <1>19 DEF PostEventSlot, Finish, Go, diskVars, listVars, fragVars, srbVars, slotVars, cpuVars
<1>20. ASSUME NEW c \in Cpus, FinishBatch(c) PROVE TailOK'
  BY <1>20 DEF FinishBatch, CompleteHeld, HeldBy, Finish, Go, diskVars, listVars, fragVars, srbVars, slotVars, cpuVars
<1>21. ASSUME NEW c \in Cpus, TakeReads(c) PROVE TailOK'
  BY <1>21 DEF TakeReads, TakePending, Pending, SrbsOf, Go, diskVars, listVars, fragVars, srbVars, slotVars, cpuVars
<1>22. ASSUME NEW c \in Cpus, TakeWrites(c) PROVE TailOK'
  BY <1>22 DEF TakeWrites, TakePending, Pending, SrbsOf, Go, diskVars, listVars, fragVars, srbVars, slotVars, cpuVars
<1>23. ASSUME NEW c \in Cpus, CompleteTaken(c) PROVE TailOK'
  BY <1>23 DEF CompleteTaken, CompleteHeld, HeldBy, Go, diskVars, listVars, fragVars, srbVars, slotVars, cpuVars
<1>24. ASSUME NEW c \in Cpus, CompleteEvent(c) PROVE TailOK'
  BY <1>24 DEF CompleteEvent, Finish, Go, diskVars, listVars, fragVars, srbVars, slotVars, cpuVars
<1>25. ASSUME NEW c \in Cpus, FreeLists(c) PROVE TailOK'
  BY <1>25 DEF FreeLists, Go, diskVars, listVars, fragVars, srbVars, slotVars, cpuVars
<1>26. ASSUME NEW c \in Cpus, FreeCounts(c) PROVE TailOK'
  BY <1>26 DEF FreeCounts, Finish, Go, diskVars, listVars, fragVars, srbVars, slotVars, cpuVars
<1>27. ASSUME NEW c \in Cpus, CloseSession(c) PROVE TailOK'
  BY <1>27 DEF CloseSession, Finish, Go, diskVars, listVars, fragVars, srbVars, slotVars, cpuVars
<1> QED
  BY <1>1, <1>2, <1>3, <1>4, <1>5, <1>6, <1>7, <1>8, <1>9, <1>10, <1>11, <1>12, <1>13, <1>14, <1>15, <1>16, <1>17,
       <1>18, <1>19, <1>20, <1>21, <1>22, <1>23, <1>24, <1>25, <1>26, <1>27
     DEF Next, Windows, App, Control, Continue

\* Nobody needs to look at a kind when nothing became issuable and no slot was
\* posted, as long as whoever is in the drain loop stays there.
LEMMA PairingKept ==
    ASSUME PairingInProgress, NEW kind \in Kinds,
           posted'[kind] # <<>> => posted[kind] # <<>>,
           \A s \in SrbsOf(kind) : Issuable(s)' => Issuable(s),
           \A d \in Cpus : pc[d] \in {"drain", "publish"} /\ op[d].kind = kind
                           => pc'[d] \in {"drain", "publish"} /\ op'[d].kind = kind
    PROVE  posted'[kind] # <<>> /\ (\E s \in SrbsOf(kind) : Issuable(s)')
           => \E d \in Cpus : pc'[d] \in {"drain", "publish"} /\ op'[d].kind = kind
BY DEF PairingInProgress

\* The same for both kinds.
LEMMA PairingSame ==
    ASSUME TypeOK, PairingInProgress,
           \A kind \in Kinds : posted'[kind] # <<>> => posted[kind] # <<>>,
           \A s \in Srbs : /\ Splits(s) /\ (phase'[s] = "pending" => phase[s] = "pending")
                           /\ nextIssue'[s] \in Nat /\ nextIssue'[s] >= nextIssue[s],
           shape' = shape \/ shape' = 0,
           \A d \in Cpus : pc[d] \in {"drain", "publish"}
                           => pc'[d] \in {"drain", "publish"} /\ op'[d].kind = op[d].kind
    PROVE  PairingInProgress'
<1>1. \A s \in Srbs : Issuable(s)' => Issuable(s)
  <2> SUFFICES ASSUME NEW s \in Srbs, Issuable(s)' PROVE Issuable(s)
    OBVIOUS
  <2> QED
    BY IssuableBefore
<1>2. \A kind \in Kinds : SrbsOf(kind) \subseteq Srbs
  BY DEF SrbsOf, Srbs
<1> QED
  BY <1>1, <1>2 DEF PairingInProgress, SrbsOf

\* Steps that leave the lists of slots, the shape and the processors' loops alone.
LEMMA PairingFrame ==
    ASSUME TypeOK, PairingInProgress, UNCHANGED <<nextIssue, payload, totalSeq>>,
           \A s \in Srbs : phase'[s] = "pending" => phase[s] = "pending",
           \A kind \in Kinds : posted'[kind] # <<>> => posted[kind] # <<>>,
           shape' = shape \/ shape' = 0,
           \A d \in Cpus : pc[d] \in {"drain", "publish"} => pc'[d] = pc[d] /\ op'[d] = op[d]
    PROVE  PairingInProgress'
<1>1. \A s \in Srbs : /\ Splits(s) /\ (phase'[s] = "pending" => phase[s] = "pending")
                      /\ nextIssue'[s] \in Nat /\ nextIssue'[s] >= nextIssue[s]
  BY DEF Splits, TypeOK, FragTypeOK
<1>2. \A d \in Cpus : pc[d] \in {"drain", "publish"} => pc'[d] \in {"drain", "publish"} /\ op'[d].kind = op[d].kind
  OBVIOUS
<1> QED
  BY <1>1, <1>2, PairingSame

\* Whoever queues a request or a slot goes through the drain loop, and it ends
\* only when nothing is left to pair.
LEMMA PairingStep == ASSUME IndInv, OwnersOK, PairingInProgress, [Next]_vars PROVE PairingInProgress'
<1> USE DEF IndInv, TypeOK, ListTypeOK, CpuTypeOK
<1>1. CASE UNCHANGED vars
  <2>1. /\ UNCHANGED <<nextIssue, payload, totalSeq>>
        /\ \A s \in Srbs : phase'[s] = "pending" => phase[s] = "pending"
        /\ \A d \in Cpus : pc[d] \in {"drain", "publish"} => pc'[d] = pc[d] /\ op'[d] = op[d]
    BY <1>1 DEF vars, diskVars, listVars, fragVars, srbVars, slotVars, cpuVars
  <2>2. (\A kind \in Kinds : posted'[kind] # <<>> => posted[kind] # <<>>) /\ (shape' = shape \/ shape' = 0)
    BY <1>1 DEF vars, diskVars, listVars, fragVars, srbVars, slotVars, cpuVars, SlotTypeOK
  <2> QED
    BY <2>1, <2>2, PairingFrame
<1>2. CASE OpenSession
  <2>1. /\ UNCHANGED <<nextIssue, payload, totalSeq>>
        /\ \A s \in Srbs : phase'[s] = "pending" => phase[s] = "pending"
        /\ \A d \in Cpus : pc[d] \in {"drain", "publish"} => pc'[d] = pc[d] /\ op'[d] = op[d]
    BY <1>2 DEF OpenSession, diskVars, listVars, fragVars, srbVars, slotVars, cpuVars
  <2>2. (\A kind \in Kinds : posted'[kind] # <<>> => posted[kind] # <<>>) /\ (shape' = shape \/ shape' = 0)
    BY <1>2 DEF OpenSession, diskVars, listVars, fragVars, srbVars, slotVars, cpuVars, SlotTypeOK
  <2> QED
    BY <2>1, <2>2, PairingFrame
<1>3. ASSUME NEW c \in Cpus, NEW srb \in Srbs, QueueSrb(c, srb) PROVE PairingInProgress'
  <2>1. /\ UNCHANGED <<nextIssue, payload, totalSeq>>
        /\ \A s \in Srbs : phase'[s] = "pending" => phase[s] = "pending"
        /\ \A d \in Cpus : pc[d] \in {"drain", "publish"} => pc'[d] = pc[d] /\ op'[d] = op[d]
    BY <1>3 DEF QueueSrb, CompleteSrbs, Go, diskVars, listVars, fragVars, srbVars, slotVars, cpuVars
  <2>2. (\A kind \in Kinds : posted'[kind] # <<>> => posted[kind] # <<>>) /\ (shape' = shape \/ shape' = 0)
    BY <1>3 DEF QueueSrb, CompleteSrbs, Go, diskVars, listVars, fragVars, srbVars, slotVars, cpuVars, SlotTypeOK
  <2> QED
    BY <2>1, <2>2, PairingFrame
<1>4. ASSUME NEW c \in Cpus, NEW slot \in DataSlots, SubmitSlot(c, slot) PROVE PairingInProgress'
  <2>1. /\ UNCHANGED <<nextIssue, payload, totalSeq>>
        /\ \A s \in Srbs : phase'[s] = "pending" => phase[s] = "pending"
        /\ \A d \in Cpus : pc[d] \in {"drain", "publish"} => pc'[d] = pc[d] /\ op'[d] = op[d]
    BY <1>4 DEF SubmitSlot, Go, diskVars, listVars, fragVars, srbVars, slotVars, cpuVars
  <2>2. (\A kind \in Kinds : posted'[kind] # <<>> => posted[kind] # <<>>) /\ (shape' = shape \/ shape' = 0)
    BY <1>4 DEF SubmitSlot, Go, diskVars, listVars, fragVars, srbVars, slotVars, cpuVars, SlotTypeOK
  <2> QED
    BY <2>1, <2>2, PairingFrame
<1>5. ASSUME NEW c \in Cpus, NEW slot \in EventSlots, SubmitEventSlot(c, slot) PROVE PairingInProgress'
  <2>1. /\ UNCHANGED <<nextIssue, payload, totalSeq>>
        /\ \A s \in Srbs : phase'[s] = "pending" => phase[s] = "pending"
        /\ \A d \in Cpus : pc[d] \in {"drain", "publish"} => pc'[d] = pc[d] /\ op'[d] = op[d]
    BY <1>5 DEF SubmitEventSlot, Go, diskVars, listVars, fragVars, srbVars, slotVars, cpuVars
  <2>2. (\A kind \in Kinds : posted'[kind] # <<>> => posted[kind] # <<>>) /\ (shape' = shape \/ shape' = 0)
    BY <1>5 DEF SubmitEventSlot, Go, diskVars, listVars, fragVars, srbVars, slotVars, cpuVars, SlotTypeOK
  <2> QED
    BY <2>1, <2>2, PairingFrame
<1>6. ASSUME NEW c \in Cpus, NEW ev \in EventIds, NEW ok \in BOOLEAN, ReadAck(c, ev, ok) PROVE PairingInProgress'
  <2>1. /\ UNCHANGED <<nextIssue, payload, totalSeq>>
        /\ \A s \in Srbs : phase'[s] = "pending" => phase[s] = "pending"
        /\ \A d \in Cpus : pc[d] \in {"drain", "publish"} => pc'[d] = pc[d] /\ op'[d] = op[d]
    BY <1>6 DEF ReadAck, CompleteSrbs, FoundByEventId, Pending, SrbsOf, diskVars, listVars, fragVars, srbVars,
              slotVars, cpuVars
  <2>2. (\A kind \in Kinds : posted'[kind] # <<>> => posted[kind] # <<>>) /\ (shape' = shape \/ shape' = 0)
    BY <1>6 DEF ReadAck, CompleteSrbs, FoundByEventId, Pending, SrbsOf, diskVars, listVars, fragVars, srbVars,
              slotVars, cpuVars, SlotTypeOK
  <2> QED
    BY <2>1, <2>2, PairingFrame
<1>7. ASSUME NEW c \in Cpus, NEW ev \in EventIds, NEW base \in Seqs, NEW count \in Seqs \ {0}, NEW ok \in BOOLEAN,
              AckRange(c, ev, base, count, ok) PROVE PairingInProgress'
  <2>1. \A s \in Srbs : Splits(s)
    BY <1>7, AckSplits
  <2>2. /\ UNCHANGED <<nextIssue, posted>> /\ (shape' = shape \/ shape' = 0)
        /\ \A s \in Srbs : phase'[s] = "pending" => phase[s] = "pending"
    BY <1>7 DEF AckRange, ApplyRange, ShapeAfter
  <2>3. \A s \in Srbs : nextIssue'[s] \in Nat /\ nextIssue'[s] >= nextIssue[s]
    BY <2>2 DEF FragTypeOK
  <2>4. \A d \in Cpus : pc[d] \in {"drain", "publish"} => pc'[d] \in {"drain", "publish"} /\ op'[d].kind = op[d].kind
    BY <1>7 DEF AckRange, Go
  <2> QED
    BY <2>1, <2>2, <2>3, <2>4, PairingSame
<1>8. ASSUME NEW c \in Cpus, CreateDisk(c) PROVE PairingInProgress'
  <2>1. /\ UNCHANGED <<nextIssue, payload, totalSeq>>
        /\ \A s \in Srbs : phase'[s] = "pending" => phase[s] = "pending"
        /\ \A d \in Cpus : pc[d] \in {"drain", "publish"} => pc'[d] = pc[d] /\ op'[d] = op[d]
    BY <1>8 DEF CreateDisk, diskVars, listVars, fragVars, srbVars, slotVars, cpuVars
  <2>2. (\A kind \in Kinds : posted'[kind] # <<>> => posted[kind] # <<>>) /\ (shape' = shape \/ shape' = 0)
    BY <1>8 DEF CreateDisk, diskVars, listVars, fragVars, srbVars, slotVars, cpuVars, SlotTypeOK
  <2> QED
    BY <2>1, <2>2, PairingFrame
<1>9. ASSUME NEW c \in Cpus, NEW slot \in DataSlots, CancelSlot(c, slot) PROVE PairingInProgress'
  <2>1. /\ UNCHANGED <<nextIssue, payload, totalSeq, phase, pc, op>> /\ (shape' = shape \/ shape' = 0)
    BY <1>9 DEF CancelSlot, listVars, fragVars, cpuVars, ShapeAfter
  <2>2. PICK i \in 1 .. Len(posted[KindOf(slot)]) :
          posted' = [posted EXCEPT ![KindOf(slot)] = RemoveAt(@, i)]
    BY <1>9 DEF CancelSlot
  <2>3. posted[KindOf(slot)] \in Seq(DataSlots) /\ Len(posted[KindOf(slot)]) \in Nat \ {0}
    BY <2>2 DEF SlotTypeOK, KindOf, Kinds
  <2>4. \A kind \in Kinds : posted'[kind] # <<>> => posted[kind] # <<>>
    BY <2>2, <2>3 DEF SlotTypeOK
  <2> QED
    BY <2>1, <2>4, PairingFrame
<1>10. ASSUME NEW c \in Cpus, NEW cmd \in Controls \ {"create", "cancel"}, BeginTakeAll(c,
              cmd) PROVE PairingInProgress'
  <2>1. /\ UNCHANGED <<nextIssue, payload, totalSeq>>
        /\ \A s \in Srbs : phase'[s] = "pending" => phase[s] = "pending"
        /\ \A d \in Cpus : pc[d] \in {"drain", "publish"} => pc'[d] = pc[d] /\ op'[d] = op[d]
    BY <1>10 DEF BeginTakeAll, Allowed, Go, diskVars, listVars, fragVars, srbVars, slotVars, cpuVars
  <2>2. (\A kind \in Kinds : posted'[kind] # <<>> => posted[kind] # <<>>) /\ (shape' = shape \/ shape' = 0)
    BY <1>10 DEF BeginTakeAll, Allowed, Go, diskVars, listVars, fragVars, srbVars, slotVars, cpuVars, SlotTypeOK
  <2> QED
    BY <2>1, <2>2, PairingFrame
<1>11. ASSUME NEW c \in Cpus, AllocRequest(c) PROVE PairingInProgress'
  <2>1. /\ UNCHANGED <<nextIssue, payload, totalSeq>>
        /\ \A s \in Srbs : phase'[s] = "pending" => phase[s] = "pending"
        /\ \A d \in Cpus : pc[d] \in {"drain", "publish"} => pc'[d] = pc[d] /\ op'[d] = op[d]
    BY <1>11 DEF AllocRequest, CompleteSrbs, Finish, Go, diskVars, listVars, fragVars, srbVars, slotVars, cpuVars
  <2>2. (\A kind \in Kinds : posted'[kind] # <<>> => posted[kind] # <<>>) /\ (shape' = shape \/ shape' = 0)
    BY <1>11 DEF AllocRequest, CompleteSrbs, Finish, Go, diskVars, listVars, fragVars, srbVars, slotVars, cpuVars,
              SlotTypeOK
  <2> QED
    BY <2>1, <2>2, PairingFrame
<1>12. ASSUME NEW c \in Cpus, InsertRequest(c) PROVE PairingInProgress'
  <2> SUFFICES ASSUME NEW kind \in Kinds
               PROVE  posted'[kind] # <<>> /\ (\E s \in SrbsOf(kind) : Issuable(s)')
                      => \E d \in Cpus : pc'[d] \in {"drain", "publish"} /\ op'[d].kind = kind
    BY DEF PairingInProgress, SrbsOf
  <2>1. /\ pc' = [pc EXCEPT ![c] = "drain"] /\ pc[c] = "insert" /\ phase' = [phase EXCEPT ![op[c].own] = "pending"]
        /\ UNCHANGED <<op, posted, shape, nextIssue, payload, totalSeq>>
    BY <1>12 DEF InsertRequest, Go, fragVars
  <2>2. op[c].kind = KindOf(op[c].own)
    BY <2>1 DEF OwnersOK
  <2>3. CASE kind = op[c].kind
    BY <2>1, <2>3
  <2>4. CASE kind # op[c].kind
    <3>1. op[c].own \notin SrbsOf(kind)
      BY <2>2, <2>4, ConstantsAssumption DEF SrbsOf, KindOf, Kinds
    <3>2. ASSUME NEW s \in SrbsOf(kind), Issuable(s)' PROVE Issuable(s)
      <4>1. phase'[s] = phase[s]
        BY <2>1, <3>1
      <4> QED
        BY <2>1, <3>2, <4>1 DEF Issuable, Shaped, Fragments
    <3>3. \A d \in Cpus : pc[d] \in {"drain", "publish"} => pc'[d] = pc[d] /\ op'[d] = op[d]
      BY <2>1
    <3> QED
      BY <2>1, <3>2, <3>3, PairingKept
  <2> QED
    BY <2>3, <2>4
<1>13. ASSUME NEW c \in Cpus, SetPending(c) PROVE PairingInProgress'
  <2>1. /\ UNCHANGED <<nextIssue, payload, totalSeq>>
        /\ \A s \in Srbs : phase'[s] = "pending" => phase[s] = "pending"
        /\ \A d \in Cpus : pc[d] \in {"drain", "publish"} => pc'[d] = pc[d] /\ op'[d] = op[d]
    BY <1>13 DEF SetPending, StatusOfQueued, Go, diskVars, listVars, fragVars, srbVars, slotVars, cpuVars
  <2>2. (\A kind \in Kinds : posted'[kind] # <<>> => posted[kind] # <<>>) /\ (shape' = shape \/ shape' = 0)
    BY <1>13 DEF SetPending, StatusOfQueued, Go, diskVars, listVars, fragVars, srbVars, slotVars, cpuVars, SlotTypeOK
  <2> QED
    BY <2>1, <2>2, PairingFrame
<1>14. ASSUME NEW c \in Cpus, CheckStatus(c) PROVE PairingInProgress'
  <2>1. /\ UNCHANGED <<nextIssue, payload, totalSeq>>
        /\ \A s \in Srbs : phase'[s] = "pending" => phase[s] = "pending"
        /\ \A d \in Cpus : pc[d] \in {"drain", "publish"} => pc'[d] = pc[d] /\ op'[d] = op[d]
    BY <1>14 DEF CheckStatus, Finish, Go, diskVars, listVars, fragVars, srbVars, slotVars, cpuVars
  <2>2. (\A kind \in Kinds : posted'[kind] # <<>> => posted[kind] # <<>>) /\ (shape' = shape \/ shape' = 0)
    BY <1>14 DEF CheckStatus, Finish, Go, diskVars, listVars, fragVars, srbVars, slotVars, cpuVars, SlotTypeOK
  <2> QED
    BY <2>1, <2>2, PairingFrame
<1>15. ASSUME NEW c \in Cpus, DrainPick(c) PROVE PairingInProgress'
  <2>1. op[c].kind \in Kinds
    BY DEF Ops
  <2>2. \A s \in Srbs : Splits(s)
    BY <1>15, <2>1, ScanSplits DEF DrainPick
  <2>3. PICK s \in SrbsOf(op[c].kind) : nextIssue' = [nextIssue EXCEPT ![s] = @ + 1]
    BY <1>15 DEF DrainPick
  <2>4. \A r \in Srbs : nextIssue'[r] \in Nat /\ nextIssue'[r] >= nextIssue[r]
    BY <2>3 DEF FragTypeOK
  <2>5. UNCHANGED <<phase, shape>> /\ posted' = [posted EXCEPT ![op[c].kind] = Tail(@)] /\ posted[op[c].kind] # <<>>
    BY <1>15 DEF DrainPick, listVars
  <2>6. \A kind \in Kinds : posted'[kind] # <<>> => posted[kind] # <<>>
    BY <2>1, <2>5 DEF SlotTypeOK
  <2>7. \A d \in Cpus : pc[d] \in {"drain", "publish"} => pc'[d] \in {"drain", "publish"} /\ op'[d].kind = op[d].kind
    BY <1>15 DEF DrainPick, Go, Ops
  <2> QED
    BY <2>2, <2>4, <2>5, <2>6, <2>7, PairingSame
<1>16. ASSUME NEW c \in Cpus, DrainDone(c) PROVE PairingInProgress'
  <2> SUFFICES ASSUME NEW kind \in Kinds
               PROVE  posted'[kind] # <<>> /\ (\E s \in SrbsOf(kind) : Issuable(s)')
                      => \E d \in Cpus : pc'[d] \in {"drain", "publish"} /\ op'[d].kind = kind
    BY DEF PairingInProgress, SrbsOf
  <2>1. \A s \in Srbs : Splits(s)
    BY <1>16, ScanSplits DEF DrainDone, Ops
  <2>2. UNCHANGED <<phase, shape, nextIssue, posted>> /\ NothingToDrain(op[c].kind)
    BY <1>16 DEF DrainDone, listVars, slotVars
  <2>3. ASSUME NEW s \in SrbsOf(kind), Issuable(s)' PROVE Issuable(s)
    <3>1. s \in Srbs
      BY DEF SrbsOf, Srbs
    <3>2. nextIssue'[s] \in Nat /\ nextIssue'[s] >= nextIssue[s]
      BY <2>2, <3>1 DEF FragTypeOK
    <3> QED
      BY <2>1, <2>2, <2>3, <3>1, <3>2, IssuableBefore
  <2>4. CASE kind = op[c].kind
    BY <2>2, <2>3, <2>4 DEF NothingToDrain
  <2>5. CASE kind # op[c].kind
    <3>1. \A d \in Cpus : pc[d] \in {"drain", "publish"} /\ op[d].kind = kind
                          => pc'[d] \in {"drain", "publish"} /\ op'[d].kind = kind
      BY <1>16, <2>5 DEF DrainDone, Finish, Go
    <3> QED
      BY <2>2, <2>3, <3>1, PairingKept
  <2> QED
    BY <2>4, <2>5
<1>17. ASSUME NEW c \in Cpus, Publish(c) PROVE PairingInProgress'
  <2>1. UNCHANGED <<phase, shape, nextIssue, payload, totalSeq, posted>>
    BY <1>17 DEF Publish, listVars, fragVars
  <2>2. \A s \in Srbs : Splits(s) /\ nextIssue'[s] \in Nat /\ nextIssue'[s] >= nextIssue[s]
    BY <2>1 DEF Splits, FragTypeOK
  <2>3. \A d \in Cpus : pc[d] \in {"drain", "publish"} => pc'[d] \in {"drain", "publish"} /\ op'[d].kind = op[d].kind
    BY <1>17 DEF Publish, Go, Ops
  <2> QED
    BY <2>1, <2>2, <2>3, PairingSame
<1>18. ASSUME NEW c \in Cpus, PostSlot(c) PROVE PairingInProgress'
  <2> SUFFICES ASSUME NEW kind \in Kinds
               PROVE  posted'[kind] # <<>> /\ (\E s \in SrbsOf(kind) : Issuable(s)')
                      => \E d \in Cpus : pc'[d] \in {"drain", "publish"} /\ op'[d].kind = kind
    BY DEF PairingInProgress, SrbsOf
  <2>1. pc[c] = "post" /\ op[c] \in Ops /\ UNCHANGED <<phase, nextIssue, payload, totalSeq>>
    BY <1>18 DEF PostSlot, listVars, fragVars
  <2>2. \A d \in Cpus : pc[d] \in {"drain", "publish"} => pc'[d] = pc[d] /\ op'[d] = op[d]
    BY <1>18 DEF PostSlot, Finish, Go
  <2>3. CASE pc'[c] = "drain" /\ op'[c].kind = op[c].kind /\ kind = op[c].kind
    BY <2>3
  <2>4. CASE posted'[kind] = posted[kind] /\ (kind = "read" \/ shape' = shape)
    <3>1. ASSUME NEW s \in SrbsOf(kind), Issuable(s)' PROVE Issuable(s)
      <4>1. CASE kind = "read"
        BY <2>1, <3>1, <4>1, ConstantsAssumption DEF Issuable, Shaped, Fragments, SrbsOf
      <4>2. CASE shape' = shape
        BY <2>1, <3>1, <4>2 DEF Issuable, Shaped, Fragments
      <4> QED
        BY <2>4, <4>1, <4>2
    <3> QED
      BY <2>2, <2>4, <3>1, PairingKept
  <2>5. \/ UNCHANGED <<posted, shape>>
        \/ /\ pc'[c] = "drain" /\ op'[c].kind = op[c].kind
           /\ \A k \in Kinds : k # op[c].kind => posted'[k] = posted[k] /\ (k = "read" \/ shape' = shape)
    <3>1. CASE op[c].kind = "read"
      BY <1>18, <2>1, <3>1 DEF PostSlot, Go, Ops, Kinds, SlotTypeOK
    <3>2. CASE op[c].kind = "write"
      BY SMTT(30), <1>18, <2>1, <3>2 DEF PostSlot, Go, Ops, Kinds, SlotTypeOK
    <3> QED
      BY <2>1, <3>1, <3>2 DEF Ops, Kinds
  <2> QED
    BY <2>3, <2>4, <2>5
<1>19. ASSUME NEW c \in Cpus, PostEventSlot(c) PROVE PairingInProgress'
  <2>1. /\ UNCHANGED <<nextIssue, payload, totalSeq>>
        /\ \A s \in Srbs : phase'[s] = "pending" => phase[s] = "pending"
        /\ \A d \in Cpus : pc[d] \in {"drain", "publish"} => pc'[d] = pc[d] /\ op'[d] = op[d]
    BY <1>19 DEF PostEventSlot, Finish, Go, diskVars, listVars, fragVars, srbVars, slotVars, cpuVars
  <2>2. (\A kind \in Kinds : posted'[kind] # <<>> => posted[kind] # <<>>) /\ (shape' = shape \/ shape' = 0)
    BY <1>19 DEF PostEventSlot, Finish, Go, diskVars, listVars, fragVars, srbVars, slotVars, cpuVars, SlotTypeOK
  <2> QED
    BY <2>1, <2>2, PairingFrame
<1>20. ASSUME NEW c \in Cpus, FinishBatch(c) PROVE PairingInProgress'
  <2>1. /\ UNCHANGED <<nextIssue, payload, totalSeq>>
        /\ \A s \in Srbs : phase'[s] = "pending" => phase[s] = "pending"
        /\ \A d \in Cpus : pc[d] \in {"drain", "publish"} => pc'[d] = pc[d] /\ op'[d] = op[d]
    BY <1>20 DEF FinishBatch, CompleteHeld, HeldBy, Finish, Go, diskVars, listVars, fragVars, srbVars, slotVars,
              cpuVars
  <2>2. (\A kind \in Kinds : posted'[kind] # <<>> => posted[kind] # <<>>) /\ (shape' = shape \/ shape' = 0)
    BY <1>20 DEF FinishBatch, CompleteHeld, HeldBy, Finish, Go, diskVars, listVars, fragVars, srbVars, slotVars,
              cpuVars, SlotTypeOK
  <2> QED
    BY <2>1, <2>2, PairingFrame
<1>21. ASSUME NEW c \in Cpus, TakeReads(c) PROVE PairingInProgress'
  <2>1. /\ UNCHANGED <<nextIssue, payload, totalSeq>>
        /\ \A s \in Srbs : phase'[s] = "pending" => phase[s] = "pending"
        /\ \A d \in Cpus : pc[d] \in {"drain", "publish"} => pc'[d] = pc[d] /\ op'[d] = op[d]
    BY <1>21 DEF TakeReads, TakePending, Pending, SrbsOf, Go, diskVars, listVars, fragVars, srbVars, slotVars, cpuVars
  <2>2. (\A kind \in Kinds : posted'[kind] # <<>> => posted[kind] # <<>>) /\ (shape' = shape \/ shape' = 0)
    BY <1>21 DEF TakeReads, TakePending, Pending, SrbsOf, Go, diskVars, listVars, fragVars, srbVars, slotVars,
              cpuVars, SlotTypeOK
  <2> QED
    BY <2>1, <2>2, PairingFrame
<1>22. ASSUME NEW c \in Cpus, TakeWrites(c) PROVE PairingInProgress'
  <2>1. /\ UNCHANGED <<nextIssue, payload, totalSeq>>
        /\ \A s \in Srbs : phase'[s] = "pending" => phase[s] = "pending"
        /\ \A d \in Cpus : pc[d] \in {"drain", "publish"} => pc'[d] = pc[d] /\ op'[d] = op[d]
    BY <1>22 DEF TakeWrites, TakePending, Pending, SrbsOf, Go, diskVars, listVars, fragVars, srbVars, slotVars,
              cpuVars
  <2>2. (\A kind \in Kinds : posted'[kind] # <<>> => posted[kind] # <<>>) /\ (shape' = shape \/ shape' = 0)
    BY <1>22 DEF TakeWrites, TakePending, Pending, SrbsOf, Go, diskVars, listVars, fragVars, srbVars, slotVars,
              cpuVars, SlotTypeOK
  <2> QED
    BY <2>1, <2>2, PairingFrame
<1>23. ASSUME NEW c \in Cpus, CompleteTaken(c) PROVE PairingInProgress'
  <2>1. /\ UNCHANGED <<nextIssue, payload, totalSeq>>
        /\ \A s \in Srbs : phase'[s] = "pending" => phase[s] = "pending"
        /\ \A d \in Cpus : pc[d] \in {"drain", "publish"} => pc'[d] = pc[d] /\ op'[d] = op[d]
    BY <1>23 DEF CompleteTaken, CompleteHeld, HeldBy, Go, diskVars, listVars, fragVars, srbVars, slotVars, cpuVars
  <2>2. (\A kind \in Kinds : posted'[kind] # <<>> => posted[kind] # <<>>) /\ (shape' = shape \/ shape' = 0)
    BY <1>23 DEF CompleteTaken, CompleteHeld, HeldBy, Go, diskVars, listVars, fragVars, srbVars, slotVars, cpuVars,
              SlotTypeOK
  <2> QED
    BY <2>1, <2>2, PairingFrame
<1>24. ASSUME NEW c \in Cpus, CompleteEvent(c) PROVE PairingInProgress'
  <2>1. /\ UNCHANGED <<nextIssue, payload, totalSeq>>
        /\ \A s \in Srbs : phase'[s] = "pending" => phase[s] = "pending"
        /\ \A d \in Cpus : pc[d] \in {"drain", "publish"} => pc'[d] = pc[d] /\ op'[d] = op[d]
    BY <1>24 DEF CompleteEvent, Finish, Go, diskVars, listVars, fragVars, srbVars, slotVars, cpuVars
  <2>2. (\A kind \in Kinds : posted'[kind] # <<>> => posted[kind] # <<>>) /\ (shape' = shape \/ shape' = 0)
    BY <1>24 DEF CompleteEvent, Finish, Go, diskVars, listVars, fragVars, srbVars, slotVars, cpuVars, SlotTypeOK
  <2> QED
    BY <2>1, <2>2, PairingFrame
<1>25. ASSUME NEW c \in Cpus, FreeLists(c) PROVE PairingInProgress'
  <2>1. /\ UNCHANGED <<nextIssue, payload, totalSeq>>
        /\ \A s \in Srbs : phase'[s] = "pending" => phase[s] = "pending"
        /\ \A d \in Cpus : pc[d] \in {"drain", "publish"} => pc'[d] = pc[d] /\ op'[d] = op[d]
    BY <1>25 DEF FreeLists, Go, diskVars, listVars, fragVars, srbVars, slotVars, cpuVars
  <2>2. (\A kind \in Kinds : posted'[kind] # <<>> => posted[kind] # <<>>) /\ (shape' = shape \/ shape' = 0)
    BY <1>25 DEF FreeLists, Go, diskVars, listVars, fragVars, srbVars, slotVars, cpuVars, SlotTypeOK
  <2> QED
    BY <2>1, <2>2, PairingFrame
<1>26. ASSUME NEW c \in Cpus, FreeCounts(c) PROVE PairingInProgress'
  <2>1. /\ UNCHANGED <<nextIssue, payload, totalSeq>>
        /\ \A s \in Srbs : phase'[s] = "pending" => phase[s] = "pending"
        /\ \A d \in Cpus : pc[d] \in {"drain", "publish"} => pc'[d] = pc[d] /\ op'[d] = op[d]
    BY <1>26 DEF FreeCounts, Finish, Go, diskVars, listVars, fragVars, srbVars, slotVars, cpuVars
  <2>2. (\A kind \in Kinds : posted'[kind] # <<>> => posted[kind] # <<>>) /\ (shape' = shape \/ shape' = 0)
    BY <1>26 DEF FreeCounts, Finish, Go, diskVars, listVars, fragVars, srbVars, slotVars, cpuVars, SlotTypeOK
  <2> QED
    BY <2>1, <2>2, PairingFrame
<1>27. ASSUME NEW c \in Cpus, CloseSession(c) PROVE PairingInProgress'
  <2>1. /\ UNCHANGED <<nextIssue, payload, totalSeq>>
        /\ \A s \in Srbs : phase'[s] = "pending" => phase[s] = "pending"
        /\ \A d \in Cpus : pc[d] \in {"drain", "publish"} => pc'[d] = pc[d] /\ op'[d] = op[d]
    BY <1>27 DEF CloseSession, Finish, Go, diskVars, listVars, fragVars, srbVars, slotVars, cpuVars
  <2>2. (\A kind \in Kinds : posted'[kind] # <<>> => posted[kind] # <<>>) /\ (shape' = shape \/ shape' = 0)
    BY <1>27 DEF CloseSession, Finish, Go, diskVars, listVars, fragVars, srbVars, slotVars, cpuVars, SlotTypeOK
  <2> QED
    BY <2>1, <2>2, PairingFrame
<1> QED
  BY <1>1, <1>2, <1>3, <1>4, <1>5, <1>6, <1>7, <1>8, <1>9, <1>10, <1>11, <1>12, <1>13, <1>14, <1>15, <1>16, <1>17,
       <1>18, <1>19, <1>20, <1>21, <1>22, <1>23, <1>24, <1>25, <1>26, <1>27
     DEF Next, Windows, App, Control, Continue

\* Nothing joins a list and nothing is issued.
OrderKept ==
    /\ UNCHANGED <<ticket, nextIssue>>
    /\ \A s \in Srbs : Splits(s) /\ (phase'[s] = "pending" => phase[s] = "pending")

\* Only InsertTailList and the drain loop touch the order of a list.
LEMMA OrderTouched ==
    ASSUME IndInv, [Next]_vars
    PROVE  OrderKept \/ \E c \in Cpus : InsertRequest(c) \/ DrainPick(c)
<1> USE DEF IndInv, TypeOK, ListTypeOK, CpuTypeOK, FragTypeOK, SlotTypeOK, FreshOK
<1>1. CASE UNCHANGED vars
  <2>1. UNCHANGED <<ticket, nextIssue, payload, totalSeq>>
        /\ \A s \in Srbs : phase'[s] = "pending" => phase[s] = "pending"
    BY <1>1 DEF vars, diskVars, listVars, fragVars, srbVars, slotVars, cpuVars
  <2> QED
    BY <2>1 DEF OrderKept, Splits
<1>2. CASE OpenSession
  <2>1. UNCHANGED <<ticket, nextIssue, payload, totalSeq>>
        /\ \A s \in Srbs : phase'[s] = "pending" => phase[s] = "pending"
    BY <1>2 DEF OpenSession, diskVars, listVars, fragVars, srbVars, slotVars, cpuVars
  <2> QED
    BY <2>1 DEF OrderKept, Splits
<1>3. ASSUME NEW c \in Cpus, NEW srb \in Srbs, QueueSrb(c, srb) PROVE OrderKept
  <2>1. UNCHANGED <<ticket, nextIssue, payload, totalSeq>>
        /\ \A s \in Srbs : phase'[s] = "pending" => phase[s] = "pending"
    BY SMTT(30), <1>3 DEF QueueSrb, CompleteSrbs, Go, diskVars, listVars, fragVars, srbVars, slotVars, cpuVars
  <2> QED
    BY <2>1 DEF OrderKept, Splits
<1>4. ASSUME NEW c \in Cpus, NEW slot \in DataSlots, SubmitSlot(c, slot) PROVE OrderKept
  <2>1. UNCHANGED <<ticket, nextIssue, payload, totalSeq>>
        /\ \A s \in Srbs : phase'[s] = "pending" => phase[s] = "pending"
    BY <1>4 DEF SubmitSlot, Go, diskVars, listVars, fragVars, srbVars, slotVars, cpuVars
  <2> QED
    BY <2>1 DEF OrderKept, Splits
<1>5. ASSUME NEW c \in Cpus, NEW slot \in EventSlots, SubmitEventSlot(c, slot) PROVE OrderKept
  <2>1. UNCHANGED <<ticket, nextIssue, payload, totalSeq>>
        /\ \A s \in Srbs : phase'[s] = "pending" => phase[s] = "pending"
    BY <1>5 DEF SubmitEventSlot, Go, diskVars, listVars, fragVars, srbVars, slotVars, cpuVars
  <2> QED
    BY <2>1 DEF OrderKept, Splits
<1>6. ASSUME NEW c \in Cpus, NEW ev \in EventIds, NEW ok \in BOOLEAN, ReadAck(c, ev, ok) PROVE OrderKept
  <2>1. UNCHANGED <<ticket, nextIssue, payload, totalSeq>>
        /\ \A s \in Srbs : phase'[s] = "pending" => phase[s] = "pending"
    BY <1>6 DEF ReadAck, CompleteSrbs, FoundByEventId, Pending, SrbsOf, diskVars, listVars, fragVars, srbVars,
              slotVars, cpuVars
  <2> QED
    BY <2>1 DEF OrderKept, Splits
<1>7. ASSUME NEW c \in Cpus, NEW ev \in EventIds, NEW base \in Seqs, NEW count \in Seqs \ {0}, NEW ok \in BOOLEAN,
              AckRange(c, ev, base, count, ok) PROVE OrderKept
  <2>1. UNCHANGED <<nextIssue, ticket>>
        /\ \A s \in Srbs : phase'[s] = "pending" => phase[s] = "pending"
    BY SMTT(30), <1>7 DEF AckRange, ApplyRange
  <2> QED
    BY <1>7, <2>1, AckSplits DEF OrderKept
<1>8. ASSUME NEW c \in Cpus, CreateDisk(c) PROVE OrderKept
  <2>1. UNCHANGED <<ticket, nextIssue, payload, totalSeq>>
        /\ \A s \in Srbs : phase'[s] = "pending" => phase[s] = "pending"
    BY <1>8 DEF CreateDisk, diskVars, listVars, fragVars, srbVars, slotVars, cpuVars
  <2> QED
    BY <2>1 DEF OrderKept, Splits
<1>9. ASSUME NEW c \in Cpus, NEW slot \in DataSlots, CancelSlot(c, slot) PROVE OrderKept
  <2>1. UNCHANGED <<ticket, nextIssue, payload, totalSeq>>
        /\ \A s \in Srbs : phase'[s] = "pending" => phase[s] = "pending"
    BY <1>9 DEF CancelSlot, diskVars, listVars, fragVars, srbVars, slotVars, cpuVars
  <2> QED
    BY <2>1 DEF OrderKept, Splits
<1>10. ASSUME NEW c \in Cpus, NEW cmd \in Controls \ {"create", "cancel"}, BeginTakeAll(c, cmd) PROVE OrderKept
  <2>1. UNCHANGED <<ticket, nextIssue, payload, totalSeq>>
        /\ \A s \in Srbs : phase'[s] = "pending" => phase[s] = "pending"
    BY <1>10 DEF BeginTakeAll, Go, diskVars, listVars, fragVars, srbVars, slotVars, cpuVars
  <2> QED
    BY <2>1 DEF OrderKept, Splits
<1>11. ASSUME NEW c \in Cpus, AllocRequest(c) PROVE OrderKept
  <2>1. UNCHANGED <<ticket, nextIssue, payload, totalSeq>>
    BY <1>11 DEF AllocRequest
  <2>2. \A s \in Srbs : phase'[s] = "pending" => phase[s] = "pending"
    <3>1. \/ phase' = [phase EXCEPT ![op[c].own] = "allocated"]
          \/ phase' = [s \in Srbs |-> IF s \in {op[c].own} THEN "done" ELSE phase[s]]
      BY <1>11 DEF AllocRequest, CompleteSrbs
    <3> QED
      BY <3>1
  <2> QED
    BY <2>1, <2>2 DEF OrderKept, Splits
<1>12. ASSUME NEW c \in Cpus, SetPending(c) PROVE OrderKept
  <2>1. UNCHANGED <<ticket, nextIssue, payload, totalSeq>>
        /\ \A s \in Srbs : phase'[s] = "pending" => phase[s] = "pending"
    BY <1>12 DEF SetPending, StatusOfQueued, Go, diskVars, listVars, fragVars, srbVars, slotVars, cpuVars
  <2> QED
    BY <2>1 DEF OrderKept, Splits
<1>13. ASSUME NEW c \in Cpus, CheckStatus(c) PROVE OrderKept
  <2>1. UNCHANGED <<ticket, nextIssue, payload, totalSeq>>
        /\ \A s \in Srbs : phase'[s] = "pending" => phase[s] = "pending"
    BY <1>13 DEF CheckStatus, Finish, Go, diskVars, listVars, fragVars, srbVars, slotVars, cpuVars
  <2> QED
    BY <2>1 DEF OrderKept, Splits
<1>14. ASSUME NEW c \in Cpus, DrainDone(c) PROVE OrderKept
  <2>1. \A s \in Srbs : Splits(s)
    BY <1>14, ScanSplits DEF DrainDone, Ops
  <2>2. UNCHANGED <<phase, ticket, nextIssue>>
    BY <1>14 DEF DrainDone, listVars
  <2> QED
    BY <2>1, <2>2 DEF OrderKept
<1>15. ASSUME NEW c \in Cpus, Publish(c) PROVE OrderKept
  <2>1. UNCHANGED <<ticket, nextIssue, payload, totalSeq>>
        /\ \A s \in Srbs : phase'[s] = "pending" => phase[s] = "pending"
    BY <1>15 DEF Publish, Go, diskVars, listVars, fragVars, srbVars, slotVars, cpuVars
  <2> QED
    BY <2>1 DEF OrderKept, Splits
<1>16. ASSUME NEW c \in Cpus, PostSlot(c) PROVE OrderKept
  <2>1. UNCHANGED <<ticket, nextIssue, payload, totalSeq>>
        /\ \A s \in Srbs : phase'[s] = "pending" => phase[s] = "pending"
    BY <1>16 DEF PostSlot, Finish, Go, diskVars, listVars, fragVars, srbVars, slotVars, cpuVars
  <2> QED
    BY <2>1 DEF OrderKept, Splits
<1>17. ASSUME NEW c \in Cpus, PostEventSlot(c) PROVE OrderKept
  <2>1. UNCHANGED <<ticket, nextIssue, payload, totalSeq>>
        /\ \A s \in Srbs : phase'[s] = "pending" => phase[s] = "pending"
    BY <1>17 DEF PostEventSlot, Finish, Go, diskVars, listVars, fragVars, srbVars, slotVars, cpuVars
  <2> QED
    BY <2>1 DEF OrderKept, Splits
<1>18. ASSUME NEW c \in Cpus, FinishBatch(c) PROVE OrderKept
  <2>1. UNCHANGED <<ticket, nextIssue, payload, totalSeq>>
        /\ \A s \in Srbs : phase'[s] = "pending" => phase[s] = "pending"
    BY <1>18 DEF FinishBatch, CompleteHeld, HeldBy, Finish, Go, diskVars, listVars, fragVars, srbVars,
              slotVars, cpuVars
  <2> QED
    BY <2>1 DEF OrderKept, Splits
<1>19. ASSUME NEW c \in Cpus, TakeReads(c) PROVE OrderKept
  <2>1. UNCHANGED <<ticket, nextIssue, payload, totalSeq>>
        /\ \A s \in Srbs : phase'[s] = "pending" => phase[s] = "pending"
    BY <1>19 DEF TakeReads, TakePending, Pending, SrbsOf, Go, diskVars, listVars, fragVars, srbVars,
              slotVars, cpuVars
  <2> QED
    BY <2>1 DEF OrderKept, Splits
<1>20. ASSUME NEW c \in Cpus, TakeWrites(c) PROVE OrderKept
  <2>1. UNCHANGED <<ticket, nextIssue, payload, totalSeq>>
        /\ \A s \in Srbs : phase'[s] = "pending" => phase[s] = "pending"
    BY <1>20 DEF TakeWrites, TakePending, Pending, SrbsOf, Go, diskVars, listVars, fragVars, srbVars,
              slotVars, cpuVars
  <2> QED
    BY <2>1 DEF OrderKept, Splits
<1>21. ASSUME NEW c \in Cpus, CompleteTaken(c) PROVE OrderKept
  <2>1. UNCHANGED <<ticket, nextIssue, payload, totalSeq>>
        /\ \A s \in Srbs : phase'[s] = "pending" => phase[s] = "pending"
    BY <1>21 DEF CompleteTaken, CompleteHeld, HeldBy, Go, diskVars, listVars, fragVars, srbVars, slotVars, cpuVars
  <2> QED
    BY <2>1 DEF OrderKept, Splits
<1>22. ASSUME NEW c \in Cpus, CompleteEvent(c) PROVE OrderKept
  <2>1. UNCHANGED <<ticket, nextIssue, payload, totalSeq>>
        /\ \A s \in Srbs : phase'[s] = "pending" => phase[s] = "pending"
    BY <1>22 DEF CompleteEvent, Finish, Go, diskVars, listVars, fragVars, srbVars, slotVars, cpuVars
  <2> QED
    BY <2>1 DEF OrderKept, Splits
<1>23. ASSUME NEW c \in Cpus, FreeLists(c) PROVE OrderKept
  <2>1. UNCHANGED <<ticket, nextIssue, payload, totalSeq>>
        /\ \A s \in Srbs : phase'[s] = "pending" => phase[s] = "pending"
    BY <1>23 DEF FreeLists, Go, diskVars, listVars, fragVars, srbVars, slotVars, cpuVars
  <2> QED
    BY <2>1 DEF OrderKept, Splits
<1>24. ASSUME NEW c \in Cpus, FreeCounts(c) PROVE OrderKept
  <2>1. UNCHANGED <<ticket, nextIssue, payload, totalSeq>>
        /\ \A s \in Srbs : phase'[s] = "pending" => phase[s] = "pending"
    BY <1>24 DEF FreeCounts, Finish, Go, diskVars, listVars, fragVars, srbVars, slotVars, cpuVars
  <2> QED
    BY <2>1 DEF OrderKept, Splits
<1>25. ASSUME NEW c \in Cpus, CloseSession(c) PROVE OrderKept
  <2>1. UNCHANGED <<ticket, nextIssue, payload, totalSeq>>
        /\ \A s \in Srbs : phase'[s] = "pending" => phase[s] = "pending"
    BY <1>25 DEF CloseSession, Finish, Go, diskVars, listVars, fragVars, srbVars, slotVars, cpuVars
  <2> QED
    BY <2>1 DEF OrderKept, Splits
<1> QED
  BY <1>1, <1>2, <1>3, <1>4, <1>5, <1>6, <1>7, <1>8, <1>9, <1>10, <1>11, <1>12, <1>13, <1>14, <1>15, <1>16, <1>17,
       <1>18, <1>19, <1>20, <1>21, <1>22, <1>23, <1>24, <1>25
     DEF Next, Windows, App, Control, Continue

\* Reads meet slots in the order in which they were queued.
LEMMA ReadsStep == ASSUME IndInv, TailOK, InOrder("read"), [Next]_vars PROVE InOrder("read")'
<1> USE DEF IndInv, TypeOK, ListTypeOK, CpuTypeOK, FragTypeOK, FreshOK, InOrder, Pending, SrbsOf, Srbs
<1>1. CASE OrderKept
  <2>1. \A s \in Reads : totalSeq'[s] = totalSeq[s]
    BY <1>1, ConstantsAssumption DEF OrderKept, Splits
  <2> QED
    BY <1>1, <2>1 DEF OrderKept
<1>2. ASSUME NEW c \in Cpus, InsertRequest(c) PROVE InOrder("read")'
  <2>1. /\ phase' = [phase EXCEPT ![op[c].own] = "pending"] /\ ticket' = [ticket EXCEPT ![op[c].own] = nextTicket]
        /\ op[c].own \in Srbs /\ phase[op[c].own] = "allocated" /\ UNCHANGED <<nextIssue, totalSeq>>
    BY <1>2 DEF InsertRequest, fragVars
  <2>2. nextIssue[op[c].own] = 0 /\ (\A s \in Srbs : ticket[s] < nextTicket) /\ nextTicket \in Nat
    BY <2>1 DEF TailOK
  <2> QED
    BY <2>1, <2>2
<1>3. ASSUME NEW c \in Cpus, DrainPick(c) PROVE InOrder("read")'
  <2>1. UNCHANGED <<phase, ticket>> /\ op[c].kind \in Kinds
    BY <1>3 DEF DrainPick, listVars, Ops
  <2>2. \A s \in Reads : totalSeq'[s] = totalSeq[s]
    BY <1>3, <2>1, ScanSplits, ConstantsAssumption DEF DrainPick, Splits
  <2>3. PICK r \in SrbsOf(op[c].kind) : IsNextToIssue(op[c].kind, r) /\ nextIssue' = [nextIssue EXCEPT ![r] = @ + 1]
    BY <1>3 DEF DrainPick
  <2>4. r \in Srbs /\ phase[r] = "pending"
    BY <2>3 DEF IsNextToIssue, Issuable
  <2>5. CASE op[c].kind = "write"
    BY <2>1, <2>2, <2>3, <2>5, ConstantsAssumption
  <2>6. CASE op[c].kind = "read"
    <3>1. \A s \in Reads : phase[s] = "pending" /\ ticket[s] < ticket[r] => nextIssue[s] = totalSeq[s]
      <4> SUFFICES ASSUME NEW s \in Reads, phase[s] = "pending", ticket[s] < ticket[r]
                   PROVE  nextIssue[s] = totalSeq[s]
        OBVIOUS
      <4>1. ~Issuable(s)
        BY <2>3, <2>4, <2>6 DEF IsNextToIssue
      <4>2. nextIssue[s] >= totalSeq[s]
        BY <4>1, ConstantsAssumption DEF Issuable, Shaped, Fragments
      <4> QED
        BY <4>2 DEF TailOK
    <3>2. r \in Reads /\ nextIssue[r] < totalSeq[r]
      BY <2>3, <2>6 DEF IsNextToIssue, Issuable, Fragments
    <3> QED
      BY <2>1, <2>2, <2>3, <2>4, <3>1, <3>2
  <2> QED
    BY <2>1, <2>5, <2>6 DEF Kinds
<1> QED
  BY OrderTouched, <1>1, <1>2, <1>3

\* No processor frees the lists when no control operation does.
LEMMA NoneFreesStep == ASSUME ListsKept, IndInv, NoneFrees, [Next]_vars PROVE NoneFrees'
<1> USE DEF IndInv, TypeOK, CpuTypeOK, Ops, NoneFrees, ListsKept
<1>1. CASE UNCHANGED vars
  BY <1>1 DEF vars, diskVars, listVars, fragVars, srbVars, slotVars, cpuVars
<1>2. CASE OpenSession
  BY <1>2 DEF OpenSession, diskVars, listVars, fragVars, srbVars, slotVars, cpuVars, Idle
<1>3. ASSUME NEW c \in Cpus, NEW s \in Srbs, QueueSrb(c, s) PROVE NoneFrees'
  <2>1. [Idle EXCEPT !.own = s, !.kind = KindOf(s)].cmd = "none"
    BY DEF Idle
  <2>2. /\ pc'[c] \in {"idle", "alloc"} /\ op'[c].cmd \in {op[c].cmd, "none"}
        /\ \A d \in Cpus \ {c} : op'[d] = op[d] /\ pc'[d] = pc[d]
    BY <1>3, <2>1 DEF QueueSrb, Go
  <2> QED
    BY <2>2
<1>4. ASSUME NEW c \in Cpus, NEW slot \in DataSlots, SubmitSlot(c, slot) PROVE NoneFrees'
  BY <1>4 DEF SubmitSlot, Go, diskVars, listVars, fragVars, srbVars, slotVars, cpuVars, Idle
<1>5. ASSUME NEW c \in Cpus, NEW slot \in EventSlots, SubmitEventSlot(c, slot) PROVE NoneFrees'
  BY <1>5 DEF SubmitEventSlot, Go, diskVars, listVars, fragVars, srbVars, slotVars, cpuVars, Idle
<1>6. ASSUME NEW c \in Cpus, NEW ev \in EventIds, NEW ok \in BOOLEAN, ReadAck(c, ev, ok) PROVE NoneFrees'
  BY <1>6 DEF ReadAck, CompleteSrbs, FoundByEventId, Pending, SrbsOf, diskVars, listVars, fragVars, srbVars,
       slotVars, cpuVars, Idle
<1>7. ASSUME NEW c \in Cpus, NEW ev \in EventIds, NEW base \in Seqs, NEW count \in Seqs \ {0}, NEW ok \in BOOLEAN,
              AckRange(c, ev, base, count, ok) PROVE NoneFrees'
  BY <1>7 DEF AckRange, ApplyRange, FoundByEventId, Pending, SrbsOf, Go, diskVars, listVars, fragVars, srbVars,
       slotVars, cpuVars, Idle
<1>8. ASSUME NEW c \in Cpus, CreateDisk(c) PROVE NoneFrees'
  BY <1>8 DEF CreateDisk, diskVars, listVars, fragVars, srbVars, slotVars, cpuVars, Idle
<1>9. ASSUME NEW c \in Cpus, NEW slot \in DataSlots, CancelSlot(c, slot) PROVE NoneFrees'
  BY <1>9 DEF CancelSlot, diskVars, listVars, fragVars, srbVars, slotVars, cpuVars, Idle
<1>10. ASSUME NEW c \in Cpus, NEW cmd \in Controls \ {"create", "cancel"}, BeginTakeAll(c, cmd) PROVE NoneFrees'
  BY <1>10 DEF BeginTakeAll, Go, diskVars, listVars, fragVars, srbVars, slotVars, cpuVars, Idle
<1>11. ASSUME NEW c \in Cpus, AllocRequest(c) PROVE NoneFrees'
  BY <1>11 DEF AllocRequest, CompleteSrbs, Finish, Go, diskVars, listVars, fragVars, srbVars, slotVars, cpuVars, Idle
<1>12. ASSUME NEW c \in Cpus, InsertRequest(c) PROVE NoneFrees'
  BY <1>12 DEF InsertRequest, Go, diskVars, listVars, fragVars, srbVars, slotVars, cpuVars, Idle
<1>13. ASSUME NEW c \in Cpus, SetPending(c) PROVE NoneFrees'
  BY <1>13 DEF SetPending, StatusOfQueued, Go, diskVars, listVars, fragVars, srbVars, slotVars, cpuVars, Idle
<1>14. ASSUME NEW c \in Cpus, CheckStatus(c) PROVE NoneFrees'
  BY <1>14 DEF CheckStatus, Finish, Go, diskVars, listVars, fragVars, srbVars, slotVars, cpuVars, Idle
<1>15. ASSUME NEW c \in Cpus, DrainPick(c) PROVE NoneFrees'
  BY <1>15 DEF DrainPick, InitializeScanned, Go, diskVars, listVars, fragVars, srbVars, slotVars, cpuVars, Idle
<1>16. ASSUME NEW c \in Cpus, DrainDone(c) PROVE NoneFrees'
  <2>1. /\ pc'[c] \in {"idle", "setPending"} /\ op'[c].cmd \in {op[c].cmd, "none"}
        /\ \A d \in Cpus \ {c} : op'[d] = op[d] /\ pc'[d] = pc[d]
    BY <1>16 DEF DrainDone, Finish, Go, Idle
  <2> QED
    BY <2>1
<1>17. ASSUME NEW c \in Cpus, Publish(c) PROVE NoneFrees'
  BY <1>17 DEF Publish, Go, diskVars, listVars, fragVars, srbVars, slotVars, cpuVars, Idle
<1>18. ASSUME NEW c \in Cpus, PostSlot(c) PROVE NoneFrees'
  <2>1. /\ pc'[c] \in {"idle", "drain"} /\ op'[c].cmd \in {op[c].cmd, "none"}
        /\ \A d \in Cpus \ {c} : op'[d] = op[d] /\ pc'[d] = pc[d]
    BY <1>18 DEF PostSlot, Finish, Go, Idle
  <2> QED
    BY <2>1
<1>19. ASSUME NEW c \in Cpus, PostEventSlot(c) PROVE NoneFrees'
  BY <1>19 DEF PostEventSlot, Finish, Go, diskVars, listVars, fragVars, srbVars, slotVars, cpuVars, Idle
<1>20. ASSUME NEW c \in Cpus, FinishBatch(c) PROVE NoneFrees'
  BY <1>20 DEF FinishBatch, CompleteHeld, HeldBy, Finish, Go, diskVars, listVars, fragVars, srbVars, slotVars,
       cpuVars, Idle
<1>21. ASSUME NEW c \in Cpus, TakeReads(c) PROVE NoneFrees'
  BY <1>21 DEF TakeReads, TakePending, Pending, SrbsOf, Go, diskVars, listVars, fragVars, srbVars, slotVars, cpuVars,
       Idle
<1>22. ASSUME NEW c \in Cpus, TakeWrites(c) PROVE NoneFrees'
  BY <1>22 DEF TakeWrites, TakePending, Pending, SrbsOf, Go, diskVars, listVars, fragVars, srbVars, slotVars,
       cpuVars, Idle
<1>23. ASSUME NEW c \in Cpus, CompleteTaken(c) PROVE NoneFrees'
  BY <1>23 DEF CompleteTaken, CompleteHeld, HeldBy, Go, diskVars, listVars, fragVars, srbVars, slotVars, cpuVars, Idle
<1>24. ASSUME NEW c \in Cpus, CompleteEvent(c) PROVE NoneFrees'
  BY <1>24 DEF CompleteEvent, Finish, Go, diskVars, listVars, fragVars, srbVars, slotVars, cpuVars, Idle
<1>25. ASSUME NEW c \in Cpus, FreeLists(c) PROVE NoneFrees'
  BY <1>25 DEF FreeLists, Go, diskVars, listVars, fragVars, srbVars, slotVars, cpuVars, Idle
<1>26. ASSUME NEW c \in Cpus, FreeCounts(c) PROVE NoneFrees'
  BY <1>26 DEF FreeCounts, Finish, Go, diskVars, listVars, fragVars, srbVars, slotVars, cpuVars, Idle
<1>27. ASSUME NEW c \in Cpus, CloseSession(c) PROVE NoneFrees'
  BY <1>27 DEF CloseSession, Finish, Go, diskVars, listVars, fragVars, srbVars, slotVars, cpuVars, Idle
<1> QED
  BY <1>1, <1>2, <1>3, <1>4, <1>5, <1>6, <1>7, <1>8, <1>9, <1>10, <1>11, <1>12, <1>13, <1>14, <1>15, <1>16, <1>17,
       <1>18, <1>19, <1>20, <1>21, <1>22, <1>23, <1>24, <1>25, <1>26, <1>27
     DEF Next, Windows, App, Control, Continue

\* A list that did not change keeps its count.
LEMMA CountsFrame ==
    ASSUME ListsCounted, UNCHANGED <<pendingCount, postedCount>>,
           \A s \in Writes : (phase'[s] = "pending") = (phase[s] = "pending"), posted'["write"] = posted["write"]
    PROVE  ListsCounted'
<1>1. Pending("write")' = Pending("write")
  BY DEF Pending, SrbsOf
<1> QED
  BY <1>1 DEF ListsCounted, CountsMatchLists

\* One write leaves the list.
LEMMA PendingLeaves ==
    ASSUME IsFiniteSet(Pending("write")), pendingCount = Cardinality(Pending("write")), NEW w \in Pending("write"),
           \A s \in Writes : (phase'[s] = "pending") = (phase[s] = "pending" /\ s # w)
    PROVE  /\ Pending("write")' = Pending("write") \ {w} /\ IsFiniteSet(Pending("write"))'
           /\ Decrement(pendingCount) = Cardinality(Pending("write")')
<1>1. Pending("write")' = Pending("write") \ {w}
  BY DEF Pending, SrbsOf
<1>2. /\ IsFiniteSet(Pending("write") \ {w})
      /\ Cardinality(Pending("write") \ {w}) = Cardinality(Pending("write")) - 1
      /\ Cardinality(Pending("write")) \in Nat
  BY FS_RemoveElement, FS_CardinalityType
<1>3. Cardinality(Pending("write") \ {w}) \in Nat
  BY <1>2, FS_CardinalityType
<1>4. Decrement(pendingCount) = Cardinality(Pending("write")) - 1
  BY <1>2, <1>3 DEF Decrement
<1> QED
  BY <1>1, <1>2, <1>4

\* Taking one slot out of a list of slots.
LEMMA RemovedSlot ==
    ASSUME NEW S, NEW q \in Seq(S), NEW i \in 1 .. Len(q)
    PROVE  /\ RemoveAt(q, i) \in Seq(S) /\ Len(RemoveAt(q, i)) = Len(q) - 1
           /\ \A j \in 1 .. Len(RemoveAt(q, i)) : \E k \in 1 .. Len(q) : RemoveAt(q, i)[j] = q[k]
<1> DEFINE l == SubSeq(q, 1, i - 1)
           r == SubSeq(q, i + 1, Len(q))
<1>1. l \in Seq(S) /\ r \in Seq(S)
  OBVIOUS
<1>2. Len(l) = i - 1 /\ Len(r) = Len(q) - i
  OBVIOUS
<1>3. /\ \A j \in 1 .. (i - 1) : l[j] = q[j]
      /\ \A j \in 1 .. (Len(q) - i) : r[j] = q[i + j]
  OBVIOUS
<1>4. RemoveAt(q, i) = l \o r
  BY DEF RemoveAt
<1> HIDE DEF l, r
<1>5. l \o r \in Seq(S) /\ Len(l \o r) = Len(q) - 1
  BY <1>1, <1>2
<1>6. ASSUME NEW j \in 1 .. Len(l \o r) PROVE \E k \in 1 .. Len(q) : (l \o r)[j] = q[k]
  <2>1. CASE j <= i - 1
    <3>1. (l \o r)[j] = q[j] /\ j \in 1 .. Len(q)
      BY <1>1, <1>2, <1>3, <1>5, <2>1
    <3> QED
      BY <3>1
  <2>2. CASE j > i - 1
    <3>1. (l \o r)[j] = r[j - (i - 1)]
      BY <1>1, <1>2, <1>5, <2>2
    <3>2. j - (i - 1) \in 1 .. (Len(q) - i) /\ j + 1 \in 1 .. Len(q) /\ i + (j - (i - 1)) = j + 1
      BY <1>5, <2>2
    <3> QED
      BY <1>3, <3>1, <3>2
  <2> QED
    BY <1>5, <2>1, <2>2
<1> QED
  BY <1>4, <1>5, <1>6

\* Whoever changes a list of writes or of write slots counts it.
LEMMA CountsStep == ASSUME IndInv, OwnersOK, NoneFrees, ListsCounted, [Next]_vars PROVE ListsCounted'
<1> USE DEF IndInv, TypeOK, ListTypeOK, CpuTypeOK, SlotTypeOK
<1>1. CASE UNCHANGED vars
  <2>1. UNCHANGED <<pendingCount, postedCount, posted>>
    BY <1>1 DEF vars, diskVars, listVars, fragVars, srbVars, slotVars, cpuVars
  <2>2. \A s \in Srbs : (phase'[s] = "pending") = (phase[s] = "pending")
    BY <1>1 DEF vars, diskVars, listVars, fragVars, srbVars, slotVars, cpuVars, FreshOK
  <2> QED
    BY <2>1, <2>2, CountsFrame DEF Srbs
<1>2. CASE OpenSession
  <2>1. UNCHANGED <<pendingCount, postedCount, posted>>
    BY <1>2 DEF OpenSession, diskVars, listVars, fragVars, srbVars, slotVars, cpuVars
  <2>2. \A s \in Srbs : (phase'[s] = "pending") = (phase[s] = "pending")
    BY <1>2 DEF OpenSession, diskVars, listVars, fragVars, srbVars, slotVars, cpuVars, FreshOK
  <2> QED
    BY <2>1, <2>2, CountsFrame DEF Srbs
<1>3. ASSUME NEW c \in Cpus, NEW srb \in Srbs, QueueSrb(c, srb) PROVE ListsCounted'
  <2>1. UNCHANGED <<pendingCount, postedCount, posted>>
    BY <1>3 DEF QueueSrb, CompleteSrbs, Go, diskVars, listVars, fragVars, srbVars, slotVars, cpuVars
  <2>2. \A s \in Srbs : (phase'[s] = "pending") = (phase[s] = "pending")
    BY <1>3 DEF QueueSrb, CompleteSrbs, Go, diskVars, listVars, fragVars, srbVars, slotVars, cpuVars, FreshOK
  <2> QED
    BY <2>1, <2>2, CountsFrame DEF Srbs
<1>4. ASSUME NEW c \in Cpus, NEW slot \in DataSlots, SubmitSlot(c, slot) PROVE ListsCounted'
  <2>1. UNCHANGED <<pendingCount, postedCount, posted>>
    BY <1>4 DEF SubmitSlot, Go, diskVars, listVars, fragVars, srbVars, slotVars, cpuVars
  <2>2. \A s \in Srbs : (phase'[s] = "pending") = (phase[s] = "pending")
    BY <1>4 DEF SubmitSlot, Go, diskVars, listVars, fragVars, srbVars, slotVars, cpuVars, FreshOK
  <2> QED
    BY <2>1, <2>2, CountsFrame DEF Srbs
<1>5. ASSUME NEW c \in Cpus, NEW slot \in EventSlots, SubmitEventSlot(c, slot) PROVE ListsCounted'
  <2>1. UNCHANGED <<pendingCount, postedCount, posted>>
    BY <1>5 DEF SubmitEventSlot, Go, diskVars, listVars, fragVars, srbVars, slotVars, cpuVars
  <2>2. \A s \in Srbs : (phase'[s] = "pending") = (phase[s] = "pending")
    BY <1>5 DEF SubmitEventSlot, Go, diskVars, listVars, fragVars, srbVars, slotVars, cpuVars, FreshOK
  <2> QED
    BY <2>1, <2>2, CountsFrame DEF Srbs
<1>6. ASSUME NEW c \in Cpus, NEW ev \in EventIds, NEW ok \in BOOLEAN, ReadAck(c, ev, ok) PROVE ListsCounted'
  <2>1. UNCHANGED <<pendingCount, postedCount>> /\ posted'["write"] = posted["write"]
    BY <1>6 DEF ReadAck, CompleteSrbs, FoundByEventId, Pending, SrbsOf, diskVars, listVars, fragVars, srbVars,
              slotVars, cpuVars
  <2>2. \A s \in Writes : (phase'[s] = "pending") = (phase[s] = "pending")
    BY <1>6, ConstantsAssumption DEF ReadAck, CompleteSrbs, FoundByEventId, Pending, SrbsOf, diskVars, listVars,
              fragVars, srbVars, slotVars, cpuVars, Srbs
  <2> QED
    BY <2>1, <2>2, CountsFrame
<1>7. ASSUME NEW c \in Cpus, NEW ev \in EventIds, NEW base \in Seqs, NEW count \in Seqs \ {0}, NEW ok \in BOOLEAN,
              AckRange(c, ev, base, count, ok) PROVE ListsCounted'
  <2>1. UNCHANGED <<posted, postedCount>>
    BY <1>7 DEF AckRange
  <2>2. CASE UNCHANGED <<phase, pendingCount>>
    BY <2>1, <2>2, CountsFrame
  <2>3. CASE \E w \in Pending("write") : /\ phase' = [phase EXCEPT ![w] = "taken"]
                                         /\ pendingCount' = Decrement(pendingCount)
    <3>1. PICK w \in Pending("write") : phase' = [phase EXCEPT ![w] = "taken"]
      BY <2>3
    <3>2. \A s \in Writes : (phase'[s] = "pending") = (phase[s] = "pending" /\ s # w)
      BY <3>1 DEF Srbs
    <3> QED
      BY <2>1, <2>3, <3>2, PendingLeaves DEF ListsCounted, CountsMatchLists
  <2> QED
    BY <1>7, <2>2, <2>3 DEF AckRange, ApplyRange, FoundByEventId
<1>8. ASSUME NEW c \in Cpus, CreateDisk(c) PROVE ListsCounted'
  <2>1. UNCHANGED <<pendingCount, postedCount, posted>>
    BY <1>8 DEF CreateDisk, diskVars, listVars, fragVars, srbVars, slotVars, cpuVars
  <2>2. \A s \in Srbs : (phase'[s] = "pending") = (phase[s] = "pending")
    BY <1>8 DEF CreateDisk, diskVars, listVars, fragVars, srbVars, slotVars, cpuVars, FreshOK
  <2> QED
    BY <2>1, <2>2, CountsFrame DEF Srbs
<1>9. ASSUME NEW c \in Cpus, NEW slot \in DataSlots, CancelSlot(c, slot) PROVE ListsCounted'
  <2>1. UNCHANGED <<phase, pendingCount>>
    BY <1>9 DEF CancelSlot, listVars
  <2>2. CASE KindOf(slot) = "read"
    <3>1. UNCHANGED postedCount /\ posted'["write"] = posted["write"]
      BY <1>9, <2>2 DEF CancelSlot
    <3> QED
      BY <2>1, <3>1, CountsFrame
  <2>3. CASE KindOf(slot) = "write"
    <3>1. PICK i \in 1 .. Len(posted["write"]) : posted' = [posted EXCEPT !["write"] = RemoveAt(@, i)]
      BY <1>9, <2>3 DEF CancelSlot
    <3>2. posted["write"] \in Seq(DataSlots) /\ posted'["write"] = RemoveAt(posted["write"], i)
      BY <3>1 DEF Kinds
    <3>3. Len(posted'["write"]) = Len(posted["write"]) - 1 /\ Len(posted["write"]) > 0
      BY <3>1, <3>2, RemovedSlot
    <3>4. postedCount' = Decrement(postedCount)
      BY <1>9, <2>3 DEF CancelSlot
    <3>5. Pending("write")' = Pending("write")
      BY <2>1 DEF Pending
    <3> QED
      BY <2>1, <3>2, <3>3, <3>4, <3>5 DEF ListsCounted, CountsMatchLists, Decrement
  <2> QED
    BY <2>2, <2>3 DEF KindOf
<1>10. ASSUME NEW c \in Cpus, NEW cmd \in Controls \ {"create", "cancel"}, BeginTakeAll(c, cmd) PROVE ListsCounted'
  <2>1. UNCHANGED <<pendingCount, postedCount, posted>>
    BY <1>10 DEF BeginTakeAll, Go, Allowed, diskVars, listVars, fragVars, srbVars, slotVars, cpuVars
  <2>2. \A s \in Srbs : (phase'[s] = "pending") = (phase[s] = "pending")
    BY <1>10 DEF BeginTakeAll, Go, Allowed, diskVars, listVars, fragVars, srbVars, slotVars, cpuVars, FreshOK
  <2> QED
    BY <2>1, <2>2, CountsFrame DEF Srbs
<1>11. ASSUME NEW c \in Cpus, AllocRequest(c) PROVE ListsCounted'
  <2>1. UNCHANGED <<pendingCount, postedCount, posted>>
    BY <1>11 DEF AllocRequest, CompleteSrbs, Finish, Go, diskVars, listVars, fragVars, srbVars, slotVars, cpuVars
  <2>2. \A s \in Srbs : (phase'[s] = "pending") = (phase[s] = "pending")
    BY <1>11 DEF AllocRequest, CompleteSrbs, Finish, Go, diskVars, listVars, fragVars, srbVars, slotVars, cpuVars,
              FreshOK
  <2> QED
    BY <2>1, <2>2, CountsFrame DEF Srbs
<1>12. ASSUME NEW c \in Cpus, InsertRequest(c) PROVE ListsCounted'
  <2>1. /\ phase' = [phase EXCEPT ![op[c].own] = "pending"] /\ UNCHANGED <<posted, postedCount>>
        /\ pendingCount' = IF op[c].kind = "write" THEN pendingCount + 1 ELSE pendingCount
    BY <1>12 DEF InsertRequest
  <2>2. op[c].own \in Srbs /\ op[c].own \notin Pending("write") /\ op[c].kind = KindOf(op[c].own)
    BY <1>12 DEF InsertRequest, FreshOK, OwnersOK, Pending
  <2>3. CASE op[c].kind = "read"
    <3>1. op[c].own \notin Writes
      BY <2>2, <2>3, ConstantsAssumption DEF KindOf, Srbs
    <3>2. \A s \in Writes : (phase'[s] = "pending") = (phase[s] = "pending")
      BY <2>1, <3>1 DEF Srbs
    <3> QED
      BY <2>1, <2>3, <3>2, CountsFrame
  <2>4. CASE op[c].kind = "write"
    <3>1. op[c].own \in Writes
      BY <2>2, <2>4 DEF KindOf, Srbs
    <3>2. Pending("write")' = Pending("write") \cup {op[c].own}
      BY <2>1, <3>1 DEF Pending, SrbsOf, Srbs
    <3>3. IsFiniteSet(Pending("write")') /\ Cardinality(Pending("write")') = Cardinality(Pending("write")) + 1
      <4>1. /\ IsFiniteSet(Pending("write") \cup {op[c].own})
            /\ Cardinality(Pending("write") \cup {op[c].own}) = Cardinality(Pending("write")) + 1
        BY <2>2, FS_AddElement DEF ListsCounted
      <4> QED
        BY <3>2, <4>1
    <3> QED
      BY <2>1, <2>4, <3>3 DEF ListsCounted, CountsMatchLists
  <2> QED
    BY <2>2, <2>3, <2>4 DEF KindOf
<1>13. ASSUME NEW c \in Cpus, SetPending(c) PROVE ListsCounted'
  <2>1. UNCHANGED <<pendingCount, postedCount, posted>>
    BY <1>13 DEF SetPending, StatusOfQueued, Go, diskVars, listVars, fragVars, srbVars, slotVars, cpuVars
  <2>2. \A s \in Srbs : (phase'[s] = "pending") = (phase[s] = "pending")
    BY <1>13 DEF SetPending, StatusOfQueued, Go, diskVars, listVars, fragVars, srbVars, slotVars, cpuVars, FreshOK
  <2> QED
    BY <2>1, <2>2, CountsFrame DEF Srbs
<1>14. ASSUME NEW c \in Cpus, CheckStatus(c) PROVE ListsCounted'
  <2>1. UNCHANGED <<pendingCount, postedCount, posted>>
    BY <1>14 DEF CheckStatus, Finish, Go, diskVars, listVars, fragVars, srbVars, slotVars, cpuVars
  <2>2. \A s \in Srbs : (phase'[s] = "pending") = (phase[s] = "pending")
    BY <1>14 DEF CheckStatus, Finish, Go, diskVars, listVars, fragVars, srbVars, slotVars, cpuVars, FreshOK
  <2> QED
    BY <2>1, <2>2, CountsFrame DEF Srbs
<1>15. ASSUME NEW c \in Cpus, DrainPick(c) PROVE ListsCounted'
  <2>1. UNCHANGED <<phase,
              pendingCount>> /\ posted' = [posted EXCEPT ![op[c].kind] = Tail(@)] /\ posted[op[c].kind] # <<>>
        /\ postedCount' = (IF op[c].kind = "write" THEN Decrement(postedCount) ELSE postedCount)
    BY <1>15 DEF DrainPick, listVars
  <2>2. CASE op[c].kind = "read"
    BY <2>1, <2>2, CountsFrame
  <2>3. CASE op[c].kind = "write"
    <3>1. posted["write"] \in Seq(DataSlots) /\ posted["write"] # <<>> /\ posted'["write"] = Tail(posted["write"])
      BY <2>1, <2>3 DEF Kinds
    <3>2. Len(posted'["write"]) = Len(posted["write"]) - 1 /\ Len(posted["write"]) > 0
      BY <3>1
    <3>3. Pending("write")' = Pending("write")
      BY <2>1 DEF Pending
    <3> QED
      BY <2>1, <2>3, <3>2, <3>3 DEF ListsCounted, CountsMatchLists, Decrement
  <2> QED
    BY <2>2, <2>3 DEF Ops, Kinds
<1>16. ASSUME NEW c \in Cpus, DrainDone(c) PROVE ListsCounted'
  <2>1. UNCHANGED <<pendingCount, postedCount, posted>>
    BY <1>16 DEF DrainDone, InitializeScanned, Finish, Go, diskVars, listVars, fragVars, srbVars, slotVars, cpuVars
  <2>2. \A s \in Srbs : (phase'[s] = "pending") = (phase[s] = "pending")
    BY <1>16 DEF DrainDone, InitializeScanned, Finish, Go, diskVars, listVars, fragVars, srbVars, slotVars, cpuVars,
              FreshOK
  <2> QED
    BY <2>1, <2>2, CountsFrame DEF Srbs
<1>17. ASSUME NEW c \in Cpus, Publish(c) PROVE ListsCounted'
  <2>1. UNCHANGED <<pendingCount, postedCount, posted>>
    BY <1>17 DEF Publish, Go, diskVars, listVars, fragVars, srbVars, slotVars, cpuVars
  <2>2. \A s \in Srbs : (phase'[s] = "pending") = (phase[s] = "pending")
    BY <1>17 DEF Publish, Go, diskVars, listVars, fragVars, srbVars, slotVars, cpuVars, FreshOK
  <2> QED
    BY <2>1, <2>2, CountsFrame DEF Srbs
<1>18. ASSUME NEW c \in Cpus, PostSlot(c) PROVE ListsCounted'
  <2>1. UNCHANGED <<phase, pendingCount>> /\ Pending("write")' = Pending("write")
    BY <1>18 DEF PostSlot, listVars, Pending
  <2>2. \/ UNCHANGED <<posted, postedCount>>
        \/ op[c].kind = "read" /\ UNCHANGED postedCount /\ posted'["write"] = posted["write"]
        \/ posted'["write"] = Append(posted["write"], op[c].slot) /\ postedCount' = postedCount + 1
    BY <1>18 DEF PostSlot, Ops, Kinds
  <2>3. posted["write"] \in Seq(DataSlots) /\ op[c].slot \in DataSlots
    BY <1>18 DEF PostSlot, LocalsOK, SlotsOf, DataSlots, Kinds
  <2>4. Len(Append(posted["write"], op[c].slot)) = Len(posted["write"]) + 1
    BY <2>3
  <2> QED
    BY <2>1, <2>2, <2>4 DEF ListsCounted, CountsMatchLists
<1>19. ASSUME NEW c \in Cpus, PostEventSlot(c) PROVE ListsCounted'
  <2>1. UNCHANGED <<pendingCount, postedCount, posted>>
    BY <1>19 DEF PostEventSlot, Finish, Go, diskVars, listVars, fragVars, srbVars, slotVars, cpuVars
  <2>2. \A s \in Srbs : (phase'[s] = "pending") = (phase[s] = "pending")
    BY <1>19 DEF PostEventSlot, Finish, Go, diskVars, listVars, fragVars, srbVars, slotVars, cpuVars, FreshOK
  <2> QED
    BY <2>1, <2>2, CountsFrame DEF Srbs
<1>20. ASSUME NEW c \in Cpus, FinishBatch(c) PROVE ListsCounted'
  <2>1. UNCHANGED <<pendingCount, postedCount, posted>>
    BY <1>20 DEF FinishBatch, CompleteHeld, HeldBy, Finish, Go, diskVars, listVars, fragVars, srbVars, slotVars,
              cpuVars
  <2>2. \A s \in Srbs : (phase'[s] = "pending") = (phase[s] = "pending")
    BY <1>20 DEF FinishBatch, CompleteHeld, HeldBy, Finish, Go, diskVars, listVars, fragVars, srbVars, slotVars,
              cpuVars, FreshOK
  <2> QED
    BY <2>1, <2>2, CountsFrame DEF Srbs
<1>21. ASSUME NEW c \in Cpus, TakeReads(c) PROVE ListsCounted'
  <2>1. UNCHANGED <<pendingCount, postedCount>> /\ posted'["write"] = posted["write"]
    BY <1>21 DEF TakeReads, TakePending, Pending, SrbsOf, Go, diskVars, listVars, fragVars, srbVars, slotVars, cpuVars
  <2>2. \A s \in Writes : (phase'[s] = "pending") = (phase[s] = "pending")
    BY <1>21, ConstantsAssumption DEF TakeReads, TakePending, Pending, SrbsOf, Go, diskVars, listVars, fragVars,
              srbVars, slotVars, cpuVars, Srbs
  <2> QED
    BY <2>1, <2>2, CountsFrame
<1>22. ASSUME NEW c \in Cpus, TakeWrites(c) PROVE ListsCounted'
  <2>1. pendingCount' = 0 /\ postedCount' = 0 /\ posted'["write"] = <<>> /\ Pending("write")' = {}
    BY <1>22 DEF TakeWrites, TakePending, Pending, SrbsOf, Srbs, Kinds
  <2> QED
    BY <2>1, FS_EmptySet DEF ListsCounted, CountsMatchLists
<1>23. ASSUME NEW c \in Cpus, CompleteTaken(c) PROVE ListsCounted'
  <2>1. UNCHANGED <<pendingCount, postedCount, posted>>
    BY <1>23 DEF CompleteTaken, CompleteHeld, HeldBy, Go, diskVars, listVars, fragVars, srbVars, slotVars, cpuVars
  <2>2. \A s \in Srbs : (phase'[s] = "pending") = (phase[s] = "pending")
    BY <1>23 DEF CompleteTaken, CompleteHeld, HeldBy, Go, diskVars, listVars, fragVars, srbVars, slotVars, cpuVars,
              FreshOK
  <2> QED
    BY <2>1, <2>2, CountsFrame DEF Srbs
<1>24. ASSUME NEW c \in Cpus, CompleteEvent(c) PROVE ListsCounted'
  <2>1. UNCHANGED <<pendingCount, postedCount, posted>>
    BY <1>24 DEF CompleteEvent, Finish, Go, diskVars, listVars, fragVars, srbVars, slotVars, cpuVars
  <2>2. \A s \in Srbs : (phase'[s] = "pending") = (phase[s] = "pending")
    BY <1>24 DEF CompleteEvent, Finish, Go, diskVars, listVars, fragVars, srbVars, slotVars, cpuVars, FreshOK
  <2> QED
    BY <2>1, <2>2, CountsFrame DEF Srbs
<1>25. ASSUME NEW c \in Cpus, FreeLists(c) PROVE ListsCounted'
  BY <1>25 DEF FreeLists, NoneFrees
<1>26. ASSUME NEW c \in Cpus, FreeCounts(c) PROVE ListsCounted'
  BY <1>26 DEF FreeCounts, NoneFrees
<1>27. ASSUME NEW c \in Cpus, CloseSession(c) PROVE ListsCounted'
  BY <1>27 DEF CloseSession, NoneFrees
<1> QED
  BY <1>1, <1>2, <1>3, <1>4, <1>5, <1>6, <1>7, <1>8, <1>9, <1>10, <1>11, <1>12, <1>13, <1>14, <1>15, <1>16, <1>17,
       <1>18, <1>19, <1>20, <1>21, <1>22, <1>23, <1>24, <1>25, <1>26, <1>27
     DEF Next, Windows, App, Control, Continue

\* What the queues of writes share, as long as nothing new is put on them.
LEMMA ShapeKept ==
    ASSUME OneShape, ShapeOK,
           \/ shape' = shape
           \/ shape' = 0 /\ posted'["write"] = <<>> /\ Pending("write")' = {},
           posted["write"] = <<>> => posted'["write"] = <<>>,
           \A i \in 1 .. Len(posted'["write"]) :
             \E j \in 1 .. Len(posted["write"]) : posted'["write"][i] = posted["write"][j],
           \A w \in Pending("write")' : w \in Pending("write") /\ Splits(w),
           \A d \in Cpus : pc'[d] = "post" => pc[d] = "post" /\ op'[d] = op[d]
    PROVE  OneShape' /\ ShapeOK'
<1>1. ASSUME NEW d \in Cpus, pc'[d] = "post" /\ op'[d].kind = "write"
      PROVE  DiskComputeWritePayloadBytes(Capacity[op'[d].slot]) # 0
  BY <1>1 DEF ShapeOK
<1>2. ASSUME NEW i \in 1 .. Len(posted'["write"])
      PROVE  /\ posted'["write"][i] \in WriteSlots
             /\ shape' = shape => DiskComputeWritePayloadBytes(Capacity[posted'["write"][i]]) = shape
  BY <1>2 DEF OneShape, ShapeOK
<1>3. ASSUME NEW w \in Writes, phase'[w] = "pending", shape' = shape PROVE payload'[w] \in {0, shape}
  <2>1. w \in Pending("write")'
    BY <1>3 DEF Pending, SrbsOf
  <2>2. phase[w] = "pending" /\ Splits(w)
    BY <2>1 DEF Pending
  <2> QED
    BY <2>2 DEF OneShape, Splits
<1>4. CASE shape' = shape
  <2>1. OneShape'
    BY <1>2, <1>3, <1>4 DEF OneShape
  <2> QED
    BY <1>1, <1>2, <1>4, <2>1 DEF ShapeOK
<1>5. CASE shape' = 0 /\ posted'["write"] = <<>> /\ Pending("write")' = {}
  <2>1. \A w \in Writes : phase'[w] # "pending"
    BY <1>5 DEF Pending, SrbsOf
  <2>2. OneShape'
    BY <1>5, <2>1 DEF OneShape
  <2> QED
    BY <1>1, <1>2, <1>5, <2>2 DEF ShapeOK
<1> QED
  BY <1>4, <1>5

\* Steps that leave lists, shape and submissions alone.
LEMMA ShapeFrame ==
    ASSUME OneShape, ShapeOK, UNCHANGED <<shape, payload, totalSeq>>, posted'["write"] = posted["write"],
           \A s \in Writes : phase'[s] = "pending" => phase[s] = "pending",
           \A d \in Cpus : pc'[d] = "post" => pc[d] = "post" /\ op'[d] = op[d]
    PROVE  OneShape' /\ ShapeOK'
<1>1. \A w \in Pending("write")' : w \in Pending("write") /\ Splits(w)
  BY DEF Pending, SrbsOf, Splits
<1> QED
  BY <1>1, ShapeKept

\* A shape carries at least one sector.
LEMMA PayloadBytesBound ==
    ASSUME NEW capacity \in Nat, DiskComputeWritePayloadBytes(capacity) # 0
    PROVE  /\ DiskComputeWritePayloadBytes(capacity) \in Nat /\ DiskComputeWritePayloadBytes(capacity) >= SectorSize
           /\ HeaderSize + DiskComputeWritePayloadBytes(capacity) <= capacity
<1>1. SectorSize \in Nat \ {0} /\ HeaderSize \in Nat
  BY ConstantsAssumption
<1>2. ASSUME NEW x \in Nat,
              x - (x % SectorSize) # 0 PROVE x - (x % SectorSize) >= SectorSize /\ x - (x % SectorSize) <= x
  <2> DEFINE k == x \div SectorSize
  <2>1. k \in Int /\ x = SectorSize * k + (x % SectorSize) /\ x % SectorSize \in 0 .. (SectorSize - 1)
    BY <1>1
  <2> HIDE DEF k
  <2>2. SectorSize * k # 0
    BY <1>1, <1>2, <2>1
  <2>3. k # 0
    BY <1>1, <2>2
  <2>4. k >= 1
    <3>1. CASE k <= -1
      <4>1. SectorSize * k <= -SectorSize
        BY <1>1, <2>1, <3>1
      <4> QED
        BY <1>1, <1>2, <2>1, <4>1
    <3> QED
      BY <2>1, <2>3, <3>1
  <2>5. SectorSize * k >= SectorSize
    BY <1>1, <2>1, <2>4
  <2> QED
    BY <1>1, <2>1, <2>5
<1>3. capacity > HeaderSize /\ capacity - HeaderSize \in Nat
  BY <1>1 DEF DiskComputeWritePayloadBytes
<1>4. DiskComputeWritePayloadBytes(capacity) = (capacity - HeaderSize) - ((capacity - HeaderSize) % SectorSize)
  BY <1>1, <1>3 DEF DiskComputeWritePayloadBytes
<1>5. /\ DiskComputeWritePayloadBytes(capacity) >= SectorSize
      /\ DiskComputeWritePayloadBytes(capacity) <= capacity - HeaderSize
  BY <1>2, <1>3, <1>4
<1> QED
  BY <1>1, <1>3, <1>5, PayloadBytesType

\* Whatever is queued for writing agrees on one slot shape, and the shape is
\* forgotten with its last user.
LEMMA ShapeStep ==
    ASSUME IndInv, TailOK, NoneFrees, ListsCounted, OneShape, ShapeOK, [Next]_vars
    PROVE  OneShape' /\ ShapeOK'
<1> USE DEF IndInv, TypeOK, ListTypeOK, CpuTypeOK, FragTypeOK, SlotTypeOK
<1>1. CASE UNCHANGED vars
  <2>1. UNCHANGED <<shape, payload, totalSeq>> /\ posted'["write"] = posted["write"]
    BY <1>1 DEF vars, diskVars, listVars, fragVars, srbVars, slotVars, cpuVars
  <2>2. \A s \in Srbs : phase'[s] = "pending" => phase[s] = "pending"
    BY <1>1 DEF vars, diskVars, listVars, fragVars, srbVars, slotVars, cpuVars
  <2>3. \A d \in Cpus : pc'[d] = "post" => pc[d] = "post" /\ op'[d] = op[d]
    BY <1>1 DEF vars, diskVars, listVars, fragVars, srbVars, slotVars, cpuVars
  <2> QED
    BY <2>1, <2>2, <2>3, ShapeFrame DEF Srbs
<1>2. CASE OpenSession
  <2>1. UNCHANGED <<shape, payload, totalSeq>> /\ posted'["write"] = posted["write"]
    BY <1>2 DEF OpenSession, diskVars, listVars, fragVars, srbVars, slotVars, cpuVars
  <2>2. \A s \in Srbs : phase'[s] = "pending" => phase[s] = "pending"
    BY <1>2 DEF OpenSession, diskVars, listVars, fragVars, srbVars, slotVars, cpuVars
  <2>3. \A d \in Cpus : pc'[d] = "post" => pc[d] = "post" /\ op'[d] = op[d]
    BY <1>2 DEF OpenSession, diskVars, listVars, fragVars, srbVars, slotVars, cpuVars
  <2> QED
    BY <2>1, <2>2, <2>3, ShapeFrame DEF Srbs
<1>3. ASSUME NEW c \in Cpus, NEW srb \in Srbs, QueueSrb(c, srb) PROVE OneShape' /\ ShapeOK'
  <2>1. UNCHANGED <<shape, payload, totalSeq>> /\ posted'["write"] = posted["write"]
    BY <1>3 DEF QueueSrb, CompleteSrbs, Go, diskVars, listVars, fragVars, srbVars, slotVars, cpuVars
  <2>2. \A s \in Srbs : phase'[s] = "pending" => phase[s] = "pending"
    BY <1>3 DEF QueueSrb, CompleteSrbs, Go, diskVars, listVars, fragVars, srbVars, slotVars, cpuVars
  <2>3. \A d \in Cpus : pc'[d] = "post" => pc[d] = "post" /\ op'[d] = op[d]
    BY <1>3 DEF QueueSrb, CompleteSrbs, Go, diskVars, listVars, fragVars, srbVars, slotVars, cpuVars
  <2> QED
    BY <2>1, <2>2, <2>3, ShapeFrame DEF Srbs
<1>4. ASSUME NEW c \in Cpus, NEW slot \in DataSlots, SubmitSlot(c, slot) PROVE OneShape' /\ ShapeOK'
  <2>1. UNCHANGED <<shape, payload, totalSeq, phase, posted>>
    BY <1>4 DEF SubmitSlot, listVars, fragVars
  <2>2. op'[c].slot = slot /\ op'[c].kind = KindOf(slot) /\ \A d \in Cpus \ {c} : op'[d] = op[d] /\ pc'[d] = pc[d]
    BY <1>4 DEF SubmitSlot, Go, Idle
  <2>3. KindOf(slot) = "write" => DiskComputeWritePayloadBytes(Capacity[slot]) # 0
    BY <1>4 DEF SubmitSlot, KindOf, DataSlots
  <2> QED
    BY <2>1, <2>2, <2>3 DEF OneShape, ShapeOK
<1>5. ASSUME NEW c \in Cpus, NEW slot \in EventSlots, SubmitEventSlot(c, slot) PROVE OneShape' /\ ShapeOK'
  <2>1. UNCHANGED <<shape, payload, totalSeq>> /\ posted'["write"] = posted["write"]
    BY <1>5 DEF SubmitEventSlot, Go, diskVars, listVars, fragVars, srbVars, slotVars, cpuVars
  <2>2. \A s \in Srbs : phase'[s] = "pending" => phase[s] = "pending"
    BY <1>5 DEF SubmitEventSlot, Go, diskVars, listVars, fragVars, srbVars, slotVars, cpuVars
  <2>3. \A d \in Cpus : pc'[d] = "post" => pc[d] = "post" /\ op'[d] = op[d]
    BY <1>5 DEF SubmitEventSlot, Go, diskVars, listVars, fragVars, srbVars, slotVars, cpuVars
  <2> QED
    BY <2>1, <2>2, <2>3, ShapeFrame DEF Srbs
<1>6. ASSUME NEW c \in Cpus, NEW ev \in EventIds, NEW ok \in BOOLEAN, ReadAck(c, ev, ok) PROVE OneShape' /\ ShapeOK'
  <2>1. UNCHANGED <<shape, payload, totalSeq>> /\ posted'["write"] = posted["write"]
    BY <1>6 DEF ReadAck, CompleteSrbs, FoundByEventId, Pending, SrbsOf, diskVars, listVars, fragVars, srbVars,
              slotVars, cpuVars
  <2>2. \A s \in Srbs : phase'[s] = "pending" => phase[s] = "pending"
    BY <1>6 DEF ReadAck, CompleteSrbs, FoundByEventId, Pending, SrbsOf, diskVars, listVars, fragVars, srbVars,
              slotVars, cpuVars
  <2>3. \A d \in Cpus : pc'[d] = "post" => pc[d] = "post" /\ op'[d] = op[d]
    BY <1>6 DEF ReadAck, CompleteSrbs, FoundByEventId, Pending, SrbsOf, diskVars, listVars, fragVars, srbVars,
              slotVars, cpuVars
  <2> QED
    BY <2>1, <2>2, <2>3, ShapeFrame DEF Srbs
<1>7. ASSUME NEW c \in Cpus, NEW ev \in EventIds, NEW base \in Seqs, NEW count \in Seqs \ {0}, NEW ok \in BOOLEAN,
              AckRange(c, ev, base, count, ok) PROVE OneShape' /\ ShapeOK'
  <2>1. \A s \in Srbs : Splits(s)
    BY <1>7, AckSplits
  <2>2. UNCHANGED <<posted, postedCount>> /\ \A d \in Cpus : pc'[d] = "post" => pc[d] = "post" /\ op'[d] = op[d]
    BY <1>7 DEF AckRange, Go
  <2>3. \A s \in Srbs : phase'[s] = "pending" => phase[s] = "pending"
    BY SMTT(30), <1>7 DEF AckRange, ApplyRange
  <2>4. \A w \in Pending("write")' : w \in Pending("write") /\ Splits(w)
    BY <2>1, <2>3 DEF Pending, SrbsOf, Srbs
  <2>5. shape' = shape \/ (shape' = 0 /\ posted'["write"] = <<>> /\ Pending("write")' = {})
    <3> SUFFICES ASSUME shape' # shape PROVE shape' = 0 /\ posted'["write"] = <<>> /\ Pending("write")' = {}
      OBVIOUS
    <3>1. PICK w \in Pending("write") :
            /\ phase' = [phase EXCEPT ![w] = "taken"] /\ shape' = ShapeAfter(postedCount, Decrement(pendingCount))
      BY <1>7 DEF AckRange, ApplyRange, FoundByEventId
    <3>2. shape' = 0 /\ postedCount = 0 /\ Decrement(pendingCount) = 0
      BY <3>1 DEF ShapeAfter
    <3>3. \A s \in Writes : (phase'[s] = "pending") = (phase[s] = "pending" /\ s # w)
      BY <3>1 DEF Srbs
    <3>4. IsFiniteSet(Pending("write"))' /\ Cardinality(Pending("write")') = 0
      BY <3>2, <3>3, PendingLeaves DEF ListsCounted, CountsMatchLists
    <3>5. Pending("write")' = {}
      <4> DEFINE P == Pending("write")'
      <4>1. IsFiniteSet(P) /\ Cardinality(P) = 0
        BY <3>4
      <4> HIDE DEF P
      <4>2. P = {}
        BY <4>1, FS_EmptySet
      <4> QED
        BY <4>2 DEF P
    <3>6. Len(posted["write"]) = 0 /\ posted["write"] \in Seq(DataSlots)
      BY <3>2 DEF ListsCounted, CountsMatchLists, Kinds
    <3> QED
      BY <2>2, <3>2, <3>5, <3>6
  <2> QED
    BY <2>2, <2>4, <2>5, ShapeKept
<1>8. ASSUME NEW c \in Cpus, CreateDisk(c) PROVE OneShape' /\ ShapeOK'
  <2>1. UNCHANGED <<shape, payload, totalSeq>> /\ posted'["write"] = posted["write"]
    BY <1>8 DEF CreateDisk, diskVars, listVars, fragVars, srbVars, slotVars, cpuVars
  <2>2. \A s \in Srbs : phase'[s] = "pending" => phase[s] = "pending"
    BY <1>8 DEF CreateDisk, diskVars, listVars, fragVars, srbVars, slotVars, cpuVars
  <2>3. \A d \in Cpus : pc'[d] = "post" => pc[d] = "post" /\ op'[d] = op[d]
    BY <1>8 DEF CreateDisk, diskVars, listVars, fragVars, srbVars, slotVars, cpuVars
  <2> QED
    BY <2>1, <2>2, <2>3, ShapeFrame DEF Srbs
<1>9. ASSUME NEW c \in Cpus, NEW slot \in DataSlots, CancelSlot(c, slot) PROVE OneShape' /\ ShapeOK'
  <2>1. UNCHANGED <<phase, payload, totalSeq, pendingCount, pc, op>> /\ Pending("write")' = Pending("write")
    BY <1>9 DEF CancelSlot, listVars, fragVars, cpuVars, Pending
  <2>2. CASE KindOf(slot) = "read"
    <3>1. UNCHANGED shape /\ posted'["write"] = posted["write"]
      BY <1>9, <2>2 DEF CancelSlot
    <3> QED
      BY <2>1, <3>1, ShapeFrame
  <2>3. CASE KindOf(slot) = "write"
    <3>1. PICK i \in 1 .. Len(posted["write"]) : posted' = [posted EXCEPT !["write"] = RemoveAt(@, i)]
      BY <1>9, <2>3 DEF CancelSlot
    <3>2. posted["write"] \in Seq(DataSlots) /\ posted'["write"] = RemoveAt(posted["write"], i)
      BY <3>1 DEF Kinds
    <3>3. /\ posted'["write"] \in Seq(DataSlots) /\ Len(posted'["write"]) = Len(posted["write"]) - 1
          /\ Len(posted["write"]) > 0
          /\ \A j \in 1 .. Len(posted'["write"]) :
               \E k \in 1 .. Len(posted["write"]) : posted'["write"][j] = posted["write"][k]
      <4> DEFINE q == posted["write"]
      <4>1. q \in Seq(DataSlots) /\ i \in 1 .. Len(q) /\ posted'["write"] = RemoveAt(q, i)
        BY <3>2
      <4> HIDE DEF q
      <4>2. RemoveAt(q, i) \in Seq(DataSlots) /\ Len(RemoveAt(q, i)) = Len(q) - 1
        BY <4>1, RemovedSlot
      <4>3. \A j \in 1 .. Len(RemoveAt(q, i)) : \E k \in 1 .. Len(q) : RemoveAt(q, i)[j] = q[k]
        BY ONLY SMTT(30), <4>1, RemovedSlot
      <4>4. Len(q) > 0
        BY <4>1
      <4> QED
        BY <4>1, <4>2, <4>3, <4>4 DEF q
    <3>4. posted["write"] # <<>>
      BY <3>2, <3>3
    <3>5. shape' = ShapeAfter(Decrement(postedCount), pendingCount)
      BY <1>9, <2>3 DEF CancelSlot
    <3>6. shape' = shape \/ (shape' = 0 /\ posted'["write"] = <<>> /\ Pending("write")' = {})
      <4> SUFFICES ASSUME shape' # shape PROVE shape' = 0 /\ posted'["write"] = <<>> /\ Pending("write")' = {}
        OBVIOUS
      <4>1. shape' = 0 /\ Decrement(postedCount) = 0 /\ pendingCount = 0
        BY <3>5 DEF ShapeAfter
      <4>2. Len(posted'["write"]) = 0
        BY <3>3, <4>1 DEF ListsCounted, CountsMatchLists, Decrement
      <4>3. Pending("write") = {}
        BY <4>1, FS_EmptySet DEF ListsCounted, CountsMatchLists
      <4> QED
        BY <2>1, <3>3, <4>1, <4>2, <4>3
    <3>7. \A w \in Pending("write")' : w \in Pending("write") /\ Splits(w)
      BY <2>1 DEF Splits
    <3> QED
      BY <2>1, <3>3, <3>4, <3>6, <3>7, ShapeKept
  <2> QED
    BY <2>2, <2>3 DEF KindOf
<1>10. ASSUME NEW c \in Cpus, NEW cmd \in Controls \ {"create", "cancel"}, BeginTakeAll(c,
              cmd) PROVE OneShape' /\ ShapeOK'
  <2>1. UNCHANGED <<shape, payload, totalSeq>> /\ posted'["write"] = posted["write"]
    BY <1>10 DEF BeginTakeAll, Go, Allowed, diskVars, listVars, fragVars, srbVars, slotVars, cpuVars
  <2>2. \A s \in Srbs : phase'[s] = "pending" => phase[s] = "pending"
    BY <1>10 DEF BeginTakeAll, Go, Allowed, diskVars, listVars, fragVars, srbVars, slotVars, cpuVars
  <2>3. \A d \in Cpus : pc'[d] = "post" => pc[d] = "post" /\ op'[d] = op[d]
    BY <1>10 DEF BeginTakeAll, Go, Allowed, diskVars, listVars, fragVars, srbVars, slotVars, cpuVars
  <2> QED
    BY <2>1, <2>2, <2>3, ShapeFrame DEF Srbs
<1>11. ASSUME NEW c \in Cpus, AllocRequest(c) PROVE OneShape' /\ ShapeOK'
  <2>1. UNCHANGED <<shape, payload, totalSeq>> /\ posted'["write"] = posted["write"]
    BY <1>11 DEF AllocRequest, CompleteSrbs, Finish, Go, diskVars, listVars, fragVars, srbVars, slotVars, cpuVars
  <2>2. \A s \in Srbs : phase'[s] = "pending" => phase[s] = "pending"
    BY SMTT(30), <1>11 DEF AllocRequest, CompleteSrbs, Finish, Go, diskVars, listVars, fragVars, srbVars, slotVars,
              cpuVars
  <2>3. \A d \in Cpus : pc'[d] = "post" => pc[d] = "post" /\ op'[d] = op[d]
    BY <1>11 DEF AllocRequest, CompleteSrbs, Finish, Go, diskVars, listVars, fragVars, srbVars, slotVars, cpuVars
  <2> QED
    BY <2>1, <2>2, <2>3, ShapeFrame DEF Srbs
<1>12. ASSUME NEW c \in Cpus, InsertRequest(c) PROVE OneShape' /\ ShapeOK'
  <2>1. /\ phase' = [phase EXCEPT ![op[c].own] = "pending"] /\ UNCHANGED <<posted, shape, payload, totalSeq, op>>
        /\ pc' = [pc EXCEPT ![c] = "drain"]
    BY <1>12 DEF InsertRequest, fragVars, Go
  <2>2. op[c].own \in Srbs /\ payload[op[c].own] = 0
    BY <1>12 DEF InsertRequest, FreshOK, TailOK
  <2>3. \A w \in Writes : phase'[w] = "pending" => payload[w] \in {0, shape}
    BY <2>1, <2>2 DEF OneShape, Srbs
  <2> QED
    BY <2>1, <2>3 DEF OneShape, ShapeOK
<1>13. ASSUME NEW c \in Cpus, SetPending(c) PROVE OneShape' /\ ShapeOK'
  <2>1. UNCHANGED <<shape, payload, totalSeq>> /\ posted'["write"] = posted["write"]
    BY <1>13 DEF SetPending, StatusOfQueued, Go, diskVars, listVars, fragVars, srbVars, slotVars, cpuVars
  <2>2. \A s \in Srbs : phase'[s] = "pending" => phase[s] = "pending"
    BY <1>13 DEF SetPending, StatusOfQueued, Go, diskVars, listVars, fragVars, srbVars, slotVars, cpuVars
  <2>3. \A d \in Cpus : pc'[d] = "post" => pc[d] = "post" /\ op'[d] = op[d]
    BY <1>13 DEF SetPending, StatusOfQueued, Go, diskVars, listVars, fragVars, srbVars, slotVars, cpuVars
  <2> QED
    BY <2>1, <2>2, <2>3, ShapeFrame DEF Srbs
<1>14. ASSUME NEW c \in Cpus, CheckStatus(c) PROVE OneShape' /\ ShapeOK'
  <2>1. UNCHANGED <<shape, payload, totalSeq>> /\ posted'["write"] = posted["write"]
    BY <1>14 DEF CheckStatus, Finish, Go, diskVars, listVars, fragVars, srbVars, slotVars, cpuVars
  <2>2. \A s \in Srbs : phase'[s] = "pending" => phase[s] = "pending"
    BY <1>14 DEF CheckStatus, Finish, Go, diskVars, listVars, fragVars, srbVars, slotVars, cpuVars
  <2>3. \A d \in Cpus : pc'[d] = "post" => pc[d] = "post" /\ op'[d] = op[d]
    BY <1>14 DEF CheckStatus, Finish, Go, diskVars, listVars, fragVars, srbVars, slotVars, cpuVars
  <2> QED
    BY <2>1, <2>2, <2>3, ShapeFrame DEF Srbs
<1>15. ASSUME NEW c \in Cpus, DrainPick(c) PROVE OneShape' /\ ShapeOK'
  <2>1. UNCHANGED <<phase, shape>> /\ posted' = [posted EXCEPT ![op[c].kind] = Tail(@)] /\ posted[op[c].kind] # <<>>
    BY <1>15 DEF DrainPick, listVars
  <2>2. \A s \in Srbs : Splits(s)
    BY <1>15, ScanSplits DEF DrainPick, Ops
  <2>3. \A w \in Pending("write")' : w \in Pending("write") /\ Splits(w)
    BY <2>1, <2>2 DEF Pending, SrbsOf, Srbs
  <2>4. \A d \in Cpus : pc'[d] = "post" => pc[d] = "post" /\ op'[d] = op[d]
    BY <1>15 DEF DrainPick, Go
  <2>5. CASE op[c].kind # "write"
    <3>1. posted'["write"] = posted["write"]
      BY <2>1, <2>5
    <3> QED
      BY <2>1, <2>3, <2>4, <3>1, ShapeKept
  <2>6. CASE op[c].kind = "write"
    <3>1. posted["write"] \in Seq(DataSlots) /\ posted["write"] # <<>> /\ posted'["write"] = Tail(posted["write"])
      BY <2>1, <2>6 DEF Kinds
    <3>2. Len(posted'["write"]) = Len(posted["write"]) - 1
          /\ \A i \in 1 .. Len(posted'["write"]) : posted'["write"][i] = posted["write"][i + 1]
      BY <3>1
    <3>3. \A i \in 1 .. Len(posted'["write"]) :
            \E j \in 1 .. Len(posted["write"]) : posted'["write"][i] = posted["write"][j]
      BY <3>1, <3>2
    <3> QED
      BY <2>1, <2>3, <2>4, <3>1, <3>3, ShapeKept
  <2> QED
    BY <2>5, <2>6
<1>16. ASSUME NEW c \in Cpus, DrainDone(c) PROVE OneShape' /\ ShapeOK'
  <2>1. UNCHANGED <<phase, shape, posted>>
    BY <1>16 DEF DrainDone, listVars, slotVars
  <2>2. \A s \in Srbs : Splits(s)
    BY <1>16, ScanSplits DEF DrainDone, Ops
  <2>3. \A w \in Pending("write")' : w \in Pending("write") /\ Splits(w)
    BY <2>1, <2>2 DEF Pending, SrbsOf, Srbs
  <2>4. \A d \in Cpus : pc'[d] = "post" => pc[d] = "post" /\ op'[d] = op[d]
    BY <1>16 DEF DrainDone, Finish, Go
  <2> QED
    BY <2>1, <2>3, <2>4, ShapeKept
<1>17. ASSUME NEW c \in Cpus, Publish(c) PROVE OneShape' /\ ShapeOK'
  <2>1. UNCHANGED <<shape, payload, totalSeq>> /\ posted'["write"] = posted["write"]
    BY <1>17 DEF Publish, Go, diskVars, listVars, fragVars, srbVars, slotVars, cpuVars
  <2>2. \A s \in Srbs : phase'[s] = "pending" => phase[s] = "pending"
    BY <1>17 DEF Publish, Go, diskVars, listVars, fragVars, srbVars, slotVars, cpuVars
  <2>3. \A d \in Cpus : pc'[d] = "post" => pc[d] = "post" /\ op'[d] = op[d]
    BY <1>17 DEF Publish, Go, diskVars, listVars, fragVars, srbVars, slotVars, cpuVars
  <2> QED
    BY <2>1, <2>2, <2>3, ShapeFrame DEF Srbs
<1>18. ASSUME NEW c \in Cpus, PostSlot(c) PROVE OneShape' /\ ShapeOK'
  <2>1. pc[c] = "post" /\ UNCHANGED <<phase, payload, totalSeq>>
    BY <1>18 DEF PostSlot, listVars, fragVars
  <2>2. \A d \in Cpus : pc'[d] = "post" => pc[d] = "post" /\ op'[d] = op[d]
    BY <1>18 DEF PostSlot, Finish, Go
  <2>3. CASE posted'["write"] = posted["write"] /\ UNCHANGED shape
    BY <2>1, <2>2, <2>3, ShapeFrame
  <2>4. ASSUME op[c].kind = "write", SlotFits(DiskComputeWritePayloadBytes(Capacity[op[c].slot])),
               posted'["write"] = Append(posted["write"], op[c].slot),
               shape' = DiskComputeWritePayloadBytes(Capacity[op[c].slot])
        PROVE  OneShape' /\ ShapeOK'
    <3>1. /\ op[c].slot \in WriteSlots /\ posted["write"] \in Seq(DataSlots) /\ op[c].slot \in DataSlots
          /\ Capacity[op[c].slot] \in Nat
      BY <2>1, <2>4, ConstantsAssumption DEF LocalsOK, SlotsOf, DataSlots, Kinds
    <3>2. shape' # 0 /\ shape' >= SectorSize
      BY <2>1, <2>4, <3>1, PayloadBytesBound DEF ShapeOK
    <3>3. shape = shape' \/ (shape = 0 /\ posted["write"] = <<>>)
      BY <2>4 DEF SlotFits, ShapeOK
    <3>4. \A w \in Writes : phase'[w] = "pending" => payload'[w] \in {0, shape'}
      BY <2>1, <3>3 DEF OneShape
    <3>5. \A i \in 1 .. Len(posted'["write"]) :
             /\ posted'["write"][i] \in WriteSlots
             /\ DiskComputeWritePayloadBytes(Capacity[posted'["write"][i]]) = shape'
      <4> SUFFICES ASSUME NEW i \in 1 .. Len(posted'["write"])
                   PROVE  /\ posted'["write"][i] \in WriteSlots
                          /\ DiskComputeWritePayloadBytes(Capacity[posted'["write"][i]]) = shape'
        OBVIOUS
      <4>1. \/ i \in 1 .. Len(posted["write"]) /\ posted'["write"][i] = posted["write"][i]
            \/ posted'["write"][i] = op[c].slot
        BY <2>4, <3>1
      <4>2. posted["write"] = <<>> => ~(i \in 1 .. Len(posted["write"]))
        OBVIOUS
      <4> QED
        BY <2>4, <3>1, <3>3, <4>1, <4>2 DEF OneShape, ShapeOK
    <3>6. OneShape'
      BY <3>4, <3>5 DEF OneShape
    <3> QED
      BY <2>2, <3>2, <3>5, <3>6 DEF ShapeOK
  <2>5. \/ posted'["write"] = posted["write"] /\ UNCHANGED shape
        \/ /\ op[c].kind = "write" /\ SlotFits(DiskComputeWritePayloadBytes(Capacity[op[c].slot]))
           /\ posted'["write"] = Append(posted["write"], op[c].slot)
           /\ shape' = DiskComputeWritePayloadBytes(Capacity[op[c].slot])
    BY <1>18 DEF PostSlot, Ops, Kinds
  <2> QED
    BY <2>3, <2>4, <2>5
<1>19. ASSUME NEW c \in Cpus, PostEventSlot(c) PROVE OneShape' /\ ShapeOK'
  <2>1. UNCHANGED <<shape, payload, totalSeq>> /\ posted'["write"] = posted["write"]
    BY <1>19 DEF PostEventSlot, Finish, Go, diskVars, listVars, fragVars, srbVars, slotVars, cpuVars
  <2>2. \A s \in Srbs : phase'[s] = "pending" => phase[s] = "pending"
    BY <1>19 DEF PostEventSlot, Finish, Go, diskVars, listVars, fragVars, srbVars, slotVars, cpuVars
  <2>3. \A d \in Cpus : pc'[d] = "post" => pc[d] = "post" /\ op'[d] = op[d]
    BY <1>19 DEF PostEventSlot, Finish, Go, diskVars, listVars, fragVars, srbVars, slotVars, cpuVars
  <2> QED
    BY <2>1, <2>2, <2>3, ShapeFrame DEF Srbs
<1>20. ASSUME NEW c \in Cpus, FinishBatch(c) PROVE OneShape' /\ ShapeOK'
  <2>1. UNCHANGED <<shape, payload, totalSeq>> /\ posted'["write"] = posted["write"]
    BY <1>20 DEF FinishBatch, CompleteHeld, HeldBy, Finish, Go, diskVars, listVars, fragVars, srbVars, slotVars,
              cpuVars
  <2>2. \A s \in Srbs : phase'[s] = "pending" => phase[s] = "pending"
    BY <1>20 DEF FinishBatch, CompleteHeld, HeldBy, Finish, Go, diskVars, listVars, fragVars, srbVars, slotVars,
              cpuVars
  <2>3. \A d \in Cpus : pc'[d] = "post" => pc[d] = "post" /\ op'[d] = op[d]
    BY <1>20 DEF FinishBatch, CompleteHeld, HeldBy, Finish, Go, diskVars, listVars, fragVars, srbVars, slotVars,
              cpuVars
  <2> QED
    BY <2>1, <2>2, <2>3, ShapeFrame DEF Srbs
<1>21. ASSUME NEW c \in Cpus, TakeReads(c) PROVE OneShape' /\ ShapeOK'
  <2>1. UNCHANGED <<shape, payload, totalSeq>> /\ posted'["write"] = posted["write"]
    BY <1>21 DEF TakeReads, TakePending, Pending, SrbsOf, Go, diskVars, listVars, fragVars, srbVars, slotVars, cpuVars
  <2>2. \A s \in Srbs : phase'[s] = "pending" => phase[s] = "pending"
    BY <1>21 DEF TakeReads, TakePending, Pending, SrbsOf, Go, diskVars, listVars, fragVars, srbVars, slotVars, cpuVars
  <2>3. \A d \in Cpus : pc'[d] = "post" => pc[d] = "post" /\ op'[d] = op[d]
    BY <1>21 DEF TakeReads, TakePending, Pending, SrbsOf, Go, diskVars, listVars, fragVars, srbVars, slotVars, cpuVars
  <2> QED
    BY <2>1, <2>2, <2>3, ShapeFrame DEF Srbs
<1>22. ASSUME NEW c \in Cpus, TakeWrites(c) PROVE OneShape' /\ ShapeOK'
  <2>1. shape' = 0 /\ posted'["write"] = <<>> /\ Pending("write")' = {}
    BY <1>22 DEF TakeWrites, TakePending, Pending, SrbsOf, Srbs, Kinds
  <2>2. \A d \in Cpus : pc'[d] = "post" => pc[d] = "post" /\ op'[d] = op[d]
    BY <1>22 DEF TakeWrites, Go
  <2> QED
    BY <2>1, <2>2, ShapeKept
<1>23. ASSUME NEW c \in Cpus, CompleteTaken(c) PROVE OneShape' /\ ShapeOK'
  <2>1. UNCHANGED <<shape, payload, totalSeq>> /\ posted'["write"] = posted["write"]
    BY <1>23 DEF CompleteTaken, CompleteHeld, HeldBy, Go, diskVars, listVars, fragVars, srbVars, slotVars, cpuVars
  <2>2. \A s \in Srbs : phase'[s] = "pending" => phase[s] = "pending"
    BY <1>23 DEF CompleteTaken, CompleteHeld, HeldBy, Go, diskVars, listVars, fragVars, srbVars, slotVars, cpuVars
  <2>3. \A d \in Cpus : pc'[d] = "post" => pc[d] = "post" /\ op'[d] = op[d]
    BY <1>23 DEF CompleteTaken, CompleteHeld, HeldBy, Go, diskVars, listVars, fragVars, srbVars, slotVars, cpuVars
  <2> QED
    BY <2>1, <2>2, <2>3, ShapeFrame DEF Srbs
<1>24. ASSUME NEW c \in Cpus, CompleteEvent(c) PROVE OneShape' /\ ShapeOK'
  <2>1. UNCHANGED <<shape, payload, totalSeq>> /\ posted'["write"] = posted["write"]
    BY <1>24 DEF CompleteEvent, Finish, Go, diskVars, listVars, fragVars, srbVars, slotVars, cpuVars
  <2>2. \A s \in Srbs : phase'[s] = "pending" => phase[s] = "pending"
    BY <1>24 DEF CompleteEvent, Finish, Go, diskVars, listVars, fragVars, srbVars, slotVars, cpuVars
  <2>3. \A d \in Cpus : pc'[d] = "post" => pc[d] = "post" /\ op'[d] = op[d]
    BY <1>24 DEF CompleteEvent, Finish, Go, diskVars, listVars, fragVars, srbVars, slotVars, cpuVars
  <2> QED
    BY <2>1, <2>2, <2>3, ShapeFrame DEF Srbs
<1>25. ASSUME NEW c \in Cpus, FreeLists(c) PROVE OneShape' /\ ShapeOK'
  BY <1>25 DEF FreeLists, NoneFrees
<1>26. ASSUME NEW c \in Cpus, FreeCounts(c) PROVE OneShape' /\ ShapeOK'
  BY <1>26 DEF FreeCounts, NoneFrees
<1>27. ASSUME NEW c \in Cpus, CloseSession(c) PROVE OneShape' /\ ShapeOK'
  BY <1>27 DEF CloseSession, NoneFrees
<1> QED
  BY <1>1, <1>2, <1>3, <1>4, <1>5, <1>6, <1>7, <1>8, <1>9, <1>10, <1>11, <1>12, <1>13, <1>14, <1>15, <1>16, <1>17,
       <1>18, <1>19, <1>20, <1>21, <1>22, <1>23, <1>24, <1>25, <1>26, <1>27
     DEF Next, Windows, App, Control, Continue

\* A fragment on its way keeps the slot it was given and its write the size.
LEMMA CarriedKept ==
    ASSUME TypeOK, CarriedOK,
           \A s \in Srbs : Splits(s),
           \A s \in Srbs : phase'[s] = "pending" => phase[s] = "pending",
           \A s \in Srbs : phase'[s] \in {"idle", "checked", "allocated"}
                           => phase[s] \in {"idle", "checked", "allocated"},
           \A d \in Cpus : pc'[d] = "publish" => /\ pc[d] = "publish" /\ op[d].srb \in Srbs
                                                 /\ op'[d].srb = op[d].srb /\ op'[d].slot = op[d].slot
    PROVE  CarriedOK'
<1> SUFFICES ASSUME NEW d \in Cpus, pc'[d] = "publish"
             PROVE  /\ phase'[op'[d].srb] \notin {"idle", "checked", "allocated"}
                    /\ op'[d].srb \in Pending("write")' =>
                         /\ op'[d].slot \in WriteSlots /\ payload'[op'[d].srb] # 0
                         /\ DiskComputeWritePayloadBytes(Capacity[op'[d].slot]) = payload'[op'[d].srb]
  BY DEF CarriedOK
<1> PICK s \in Srbs : s = op[d].srb
  OBVIOUS
<1> PICK slot : slot = op[d].slot
  OBVIOUS
<1>1. pc[d] = "publish" /\ op'[d].srb = s /\ op'[d].slot = slot
  OBVIOUS
<1>2. phase'[s] \notin {"idle", "checked", "allocated"}
  BY <1>1 DEF CarriedOK
<1>3. ASSUME s \in Pending("write")'
      PROVE  slot \in WriteSlots /\ payload'[s] # 0 /\ DiskComputeWritePayloadBytes(Capacity[slot]) = payload'[s]
  <2>1. s \in Pending("write")
    BY <1>3 DEF Pending, SrbsOf
  <2>2. slot \in WriteSlots /\ payload[s] # 0 /\ DiskComputeWritePayloadBytes(Capacity[slot]) = payload[s]
    BY <1>1, <2>1 DEF CarriedOK
  <2>3. payload'[s] = payload[s]
    BY <2>2 DEF Splits
  <2> QED
    BY <2>2, <2>3
<1> QED
  BY <1>1, <1>2, <1>3

\* The drain loop gives a write the first slot of the list, which has its shape.
LEMMA CarriedStep == ASSUME IndInv, OneShape, ShapeOK, CarriedOK, [Next]_vars PROVE CarriedOK'
<1> USE DEF IndInv, TypeOK, ListTypeOK, CpuTypeOK, FragTypeOK, SlotTypeOK
<1>1. CASE UNCHANGED vars
  <2>1. \A s \in Srbs : Splits(s)
    BY <1>1 DEF vars, diskVars, listVars, fragVars, srbVars, slotVars, cpuVars, Splits
  <2>2. \A s \in Srbs : /\ phase'[s] = "pending" => phase[s] = "pending"
                        /\ phase'[s] \in {"idle", "checked", "allocated"}
                           => phase[s] \in {"idle", "checked", "allocated"}
    BY <1>1 DEF vars, diskVars, listVars, fragVars, srbVars, slotVars, cpuVars
  <2>3. \A d \in Cpus : pc'[d] = "publish" => pc[d] = "publish" /\ op'[d] = op[d]
    BY <1>1 DEF vars, diskVars, listVars, fragVars, srbVars, slotVars, cpuVars
  <2> QED
    BY <2>1, <2>2, <2>3, CarriedKept DEF LocalsOK
<1>2. CASE OpenSession
  <2>1. \A s \in Srbs : Splits(s)
    BY <1>2 DEF OpenSession, diskVars, listVars, fragVars, srbVars, slotVars, cpuVars, Splits
  <2>2. \A s \in Srbs : /\ phase'[s] = "pending" => phase[s] = "pending"
                        /\ phase'[s] \in {"idle", "checked", "allocated"}
                           => phase[s] \in {"idle", "checked", "allocated"}
    BY <1>2 DEF OpenSession, diskVars, listVars, fragVars, srbVars, slotVars, cpuVars
  <2>3. \A d \in Cpus : pc'[d] = "publish" => pc[d] = "publish" /\ op'[d] = op[d]
    BY <1>2 DEF OpenSession, diskVars, listVars, fragVars, srbVars, slotVars, cpuVars
  <2> QED
    BY <2>1, <2>2, <2>3, CarriedKept DEF LocalsOK
<1>3. ASSUME NEW c \in Cpus, NEW srb \in Srbs, QueueSrb(c, srb) PROVE CarriedOK'
  <2>1. \A s \in Srbs : Splits(s)
    BY <1>3 DEF QueueSrb, CompleteSrbs, Go, diskVars, listVars, fragVars, srbVars, slotVars, cpuVars, Splits
  <2>2. \A s \in Srbs : /\ phase'[s] = "pending" => phase[s] = "pending"
                        /\ phase'[s] \in {"idle", "checked", "allocated"}
                           => phase[s] \in {"idle", "checked", "allocated"}
    BY SMTT(30), <1>3 DEF QueueSrb, CompleteSrbs, Go, diskVars, listVars, fragVars, srbVars, slotVars, cpuVars
  <2>3. \A d \in Cpus : pc'[d] = "publish" => pc[d] = "publish" /\ op'[d] = op[d]
    BY <1>3 DEF QueueSrb, CompleteSrbs, Go, diskVars, listVars, fragVars, srbVars, slotVars, cpuVars
  <2> QED
    BY <2>1, <2>2, <2>3, CarriedKept DEF LocalsOK
<1>4. ASSUME NEW c \in Cpus, NEW slot \in DataSlots, SubmitSlot(c, slot) PROVE CarriedOK'
  <2>1. \A s \in Srbs : Splits(s)
    BY <1>4 DEF SubmitSlot, Go, diskVars, listVars, fragVars, srbVars, slotVars, cpuVars, Splits
  <2>2. \A s \in Srbs : /\ phase'[s] = "pending" => phase[s] = "pending"
                        /\ phase'[s] \in {"idle", "checked", "allocated"}
                           => phase[s] \in {"idle", "checked", "allocated"}
    BY <1>4 DEF SubmitSlot, Go, diskVars, listVars, fragVars, srbVars, slotVars, cpuVars
  <2>3. \A d \in Cpus : pc'[d] = "publish" => pc[d] = "publish" /\ op'[d] = op[d]
    BY <1>4 DEF SubmitSlot, Go, diskVars, listVars, fragVars, srbVars, slotVars, cpuVars
  <2> QED
    BY <2>1, <2>2, <2>3, CarriedKept DEF LocalsOK
<1>5. ASSUME NEW c \in Cpus, NEW slot \in EventSlots, SubmitEventSlot(c, slot) PROVE CarriedOK'
  <2>1. \A s \in Srbs : Splits(s)
    BY <1>5 DEF SubmitEventSlot, Go, diskVars, listVars, fragVars, srbVars, slotVars, cpuVars, Splits
  <2>2. \A s \in Srbs : /\ phase'[s] = "pending" => phase[s] = "pending"
                        /\ phase'[s] \in {"idle", "checked", "allocated"}
                           => phase[s] \in {"idle", "checked", "allocated"}
    BY <1>5 DEF SubmitEventSlot, Go, diskVars, listVars, fragVars, srbVars, slotVars, cpuVars
  <2>3. \A d \in Cpus : pc'[d] = "publish" => pc[d] = "publish" /\ op'[d] = op[d]
    BY <1>5 DEF SubmitEventSlot, Go, diskVars, listVars, fragVars, srbVars, slotVars, cpuVars
  <2> QED
    BY <2>1, <2>2, <2>3, CarriedKept DEF LocalsOK
<1>6. ASSUME NEW c \in Cpus, NEW ev \in EventIds, NEW ok \in BOOLEAN, ReadAck(c, ev, ok) PROVE CarriedOK'
  <2>1. \A s \in Srbs : Splits(s)
    BY <1>6 DEF ReadAck, CompleteSrbs, FoundByEventId, Pending, SrbsOf, diskVars, listVars, fragVars, srbVars,
              slotVars, cpuVars, Splits
  <2>2. \A s \in Srbs : /\ phase'[s] = "pending" => phase[s] = "pending"
                        /\ phase'[s] \in {"idle", "checked", "allocated"}
                           => phase[s] \in {"idle", "checked", "allocated"}
    BY <1>6 DEF ReadAck, CompleteSrbs, FoundByEventId, Pending, SrbsOf, diskVars, listVars, fragVars, srbVars,
              slotVars, cpuVars
  <2>3. \A d \in Cpus : pc'[d] = "publish" => pc[d] = "publish" /\ op'[d] = op[d]
    BY <1>6 DEF ReadAck, CompleteSrbs, FoundByEventId, Pending, SrbsOf, diskVars, listVars, fragVars, srbVars,
              slotVars, cpuVars
  <2> QED
    BY <2>1, <2>2, <2>3, CarriedKept DEF LocalsOK
<1>7. ASSUME NEW c \in Cpus, NEW ev \in EventIds, NEW base \in Seqs, NEW count \in Seqs \ {0}, NEW ok \in BOOLEAN,
              AckRange(c, ev, base, count, ok) PROVE CarriedOK'
  <2>1. \A s \in Srbs : Splits(s)
    BY <1>7, AckSplits
  <2>2. \A s \in Srbs : /\ phase'[s] = "pending" => phase[s] = "pending"
                        /\ phase'[s] \in {"idle", "checked", "allocated"}
                           => phase[s] \in {"idle", "checked", "allocated"}
    <3>1. \A s \in Srbs : phase'[s] = phase[s] \/ phase'[s] = "taken"
      BY SMTT(30), <1>7 DEF AckRange, ApplyRange
    <3> QED
      BY <3>1
  <2>3. \A d \in Cpus : pc'[d] = "publish" => pc[d] = "publish" /\ op'[d] = op[d]
    BY <1>7 DEF AckRange, Go
  <2> QED
    BY <2>1, <2>2, <2>3, CarriedKept DEF LocalsOK
<1>8. ASSUME NEW c \in Cpus, CreateDisk(c) PROVE CarriedOK'
  <2>1. \A s \in Srbs : Splits(s)
    BY <1>8 DEF CreateDisk, diskVars, listVars, fragVars, srbVars, slotVars, cpuVars, Splits
  <2>2. \A s \in Srbs : /\ phase'[s] = "pending" => phase[s] = "pending"
                        /\ phase'[s] \in {"idle", "checked", "allocated"}
                           => phase[s] \in {"idle", "checked", "allocated"}
    BY <1>8 DEF CreateDisk, diskVars, listVars, fragVars, srbVars, slotVars, cpuVars
  <2>3. \A d \in Cpus : pc'[d] = "publish" => pc[d] = "publish" /\ op'[d] = op[d]
    BY <1>8 DEF CreateDisk, diskVars, listVars, fragVars, srbVars, slotVars, cpuVars
  <2> QED
    BY <2>1, <2>2, <2>3, CarriedKept DEF LocalsOK
<1>9. ASSUME NEW c \in Cpus, NEW slot \in DataSlots, CancelSlot(c, slot) PROVE CarriedOK'
  <2>1. \A s \in Srbs : Splits(s)
    BY <1>9 DEF CancelSlot, Allowed, diskVars, listVars, fragVars, srbVars, slotVars, cpuVars, Splits
  <2>2. \A s \in Srbs : /\ phase'[s] = "pending" => phase[s] = "pending"
                        /\ phase'[s] \in {"idle", "checked", "allocated"}
                           => phase[s] \in {"idle", "checked", "allocated"}
    BY <1>9 DEF CancelSlot, Allowed, diskVars, listVars, fragVars, srbVars, slotVars, cpuVars
  <2>3. \A d \in Cpus : pc'[d] = "publish" => pc[d] = "publish" /\ op'[d] = op[d]
    BY <1>9 DEF CancelSlot, Allowed, diskVars, listVars, fragVars, srbVars, slotVars, cpuVars
  <2> QED
    BY <2>1, <2>2, <2>3, CarriedKept DEF LocalsOK
<1>10. ASSUME NEW c \in Cpus, NEW cmd \in Controls \ {"create", "cancel"}, BeginTakeAll(c, cmd) PROVE CarriedOK'
  <2>1. \A s \in Srbs : Splits(s)
    BY <1>10 DEF BeginTakeAll, Go, Allowed, diskVars, listVars, fragVars, srbVars, slotVars, cpuVars, Splits
  <2>2. \A s \in Srbs : /\ phase'[s] = "pending" => phase[s] = "pending"
                        /\ phase'[s] \in {"idle", "checked", "allocated"}
                           => phase[s] \in {"idle", "checked", "allocated"}
    BY <1>10 DEF BeginTakeAll, Go, Allowed, diskVars, listVars, fragVars, srbVars, slotVars, cpuVars
  <2>3. \A d \in Cpus : pc'[d] = "publish" => pc[d] = "publish" /\ op'[d] = op[d]
    BY <1>10 DEF BeginTakeAll, Go, Allowed, diskVars, listVars, fragVars, srbVars, slotVars, cpuVars
  <2> QED
    BY <2>1, <2>2, <2>3, CarriedKept DEF LocalsOK
<1>11. ASSUME NEW c \in Cpus, AllocRequest(c) PROVE CarriedOK'
  <2>1. op[c].own \in Srbs /\ phase[op[c].own] = "checked"
    BY <1>11 DEF AllocRequest, FreshOK
  <2>2. phase' = [phase EXCEPT ![op[c].own] = "allocated"] \/ phase' = [phase EXCEPT ![op[c].own] = "done"]
    BY <1>11, <2>1 DEF AllocRequest, CompleteSrbs
  <2>3. UNCHANGED <<payload, totalSeq>> /\ \A d \in Cpus : pc'[d] = "publish" => pc[d] = "publish" /\ op'[d] = op[d]
    BY <1>11 DEF AllocRequest, Finish, Go
  <2>4. \A s \in Srbs : Splits(s)
    BY <2>3 DEF Splits
  <2> QED
    BY <2>1, <2>2, <2>3, <2>4, CarriedKept DEF LocalsOK
<1>12. ASSUME NEW c \in Cpus, InsertRequest(c) PROVE CarriedOK'
  <2>1. /\ phase' = [phase EXCEPT ![op[c].own] = "pending"] /\ UNCHANGED <<payload,
              op>> /\ pc' = [pc EXCEPT ![c] = "drain"]
    BY <1>12 DEF InsertRequest, fragVars, Go
  <2>2. op[c].own \in Srbs /\ phase[op[c].own] = "allocated"
    BY <1>12 DEF InsertRequest, FreshOK
  <2> SUFFICES ASSUME NEW d \in Cpus, pc'[d] = "publish"
               PROVE  /\ phase'[op[d].srb] \notin {"idle", "checked", "allocated"}
                      /\ op[d].srb \in Pending("write")' =>
                           /\ op[d].slot \in WriteSlots /\ payload[op[d].srb] # 0
                           /\ DiskComputeWritePayloadBytes(Capacity[op[d].slot]) = payload[op[d].srb]
    BY <2>1 DEF CarriedOK
  <2>3. pc[d] = "publish"
    BY <2>1
  <2>4. op[d].srb \in Srbs /\ phase[op[d].srb] \notin {"idle", "checked", "allocated"}
    BY <2>3 DEF CarriedOK, LocalsOK
  <2>5. phase'[op[d].srb] = phase[op[d].srb]
    BY <2>1, <2>2, <2>4
  <2>6. op[d].srb \in Pending("write")' => op[d].srb \in Pending("write")
    BY <2>5 DEF Pending, SrbsOf
  <2> QED
    BY <2>3, <2>4, <2>5, <2>6 DEF CarriedOK
<1>13. ASSUME NEW c \in Cpus, SetPending(c) PROVE CarriedOK'
  <2>1. \A s \in Srbs : Splits(s)
    BY <1>13 DEF SetPending, StatusOfQueued, Go, diskVars, listVars, fragVars, srbVars, slotVars, cpuVars, Splits
  <2>2. \A s \in Srbs : /\ phase'[s] = "pending" => phase[s] = "pending"
                        /\ phase'[s] \in {"idle", "checked", "allocated"}
                           => phase[s] \in {"idle", "checked", "allocated"}
    BY <1>13 DEF SetPending, StatusOfQueued, Go, diskVars, listVars, fragVars, srbVars, slotVars, cpuVars
  <2>3. \A d \in Cpus : pc'[d] = "publish" => pc[d] = "publish" /\ op'[d] = op[d]
    BY <1>13 DEF SetPending, StatusOfQueued, Go, diskVars, listVars, fragVars, srbVars, slotVars, cpuVars
  <2> QED
    BY <2>1, <2>2, <2>3, CarriedKept DEF LocalsOK
<1>14. ASSUME NEW c \in Cpus, CheckStatus(c) PROVE CarriedOK'
  <2>1. \A s \in Srbs : Splits(s)
    BY <1>14 DEF CheckStatus, Finish, Go, diskVars, listVars, fragVars, srbVars, slotVars, cpuVars, Splits
  <2>2. \A s \in Srbs : /\ phase'[s] = "pending" => phase[s] = "pending"
                        /\ phase'[s] \in {"idle", "checked", "allocated"}
                           => phase[s] \in {"idle", "checked", "allocated"}
    BY <1>14 DEF CheckStatus, Finish, Go, diskVars, listVars, fragVars, srbVars, slotVars, cpuVars
  <2>3. \A d \in Cpus : pc'[d] = "publish" => pc[d] = "publish" /\ op'[d] = op[d]
    BY <1>14 DEF CheckStatus, Finish, Go, diskVars, listVars, fragVars, srbVars, slotVars, cpuVars
  <2> QED
    BY <2>1, <2>2, <2>3, CarriedKept DEF LocalsOK
<1>15. ASSUME NEW c \in Cpus, DrainPick(c) PROVE CarriedOK'
  <2>1. UNCHANGED phase /\ pc' = [pc EXCEPT ![c] = "publish"] /\ op[c].kind \in Kinds /\ posted[op[c].kind] # <<>>
        /\ InitializeScanned(op[c].kind) /\ \A d \in Cpus \ {c} : op'[d] = op[d]
    BY <1>15 DEF DrainPick, listVars, Go, Ops
  <2>2. PICK s \in SrbsOf(op[c].kind) : IsNextToIssue(op[c].kind,
              s) /\ op'[c].srb = s /\ op'[c].slot = Head(posted[op[c].kind])
    BY <1>15 DEF DrainPick
  <2>3. \A r \in Srbs : Splits(r)
    BY <2>1, ScanSplits
  <2>4. phase[s] = "pending"
    BY <2>2 DEF IsNextToIssue, Issuable
  <2>5. ASSUME s \in Writes
        PROVE  /\ op'[c].slot \in WriteSlots /\ payload'[s] # 0
               /\ DiskComputeWritePayloadBytes(Capacity[op'[c].slot]) = payload'[s]
    <3>1. op[c].kind = "write"
      BY <2>1, <2>2, <2>5, ConstantsAssumption DEF SrbsOf, Kinds
    <3>2. posted["write"] \in Seq(DataSlots) /\ posted["write"] # <<>> /\ op'[c].slot = posted["write"][1]
          /\ 1 \in 1 .. Len(posted["write"])
      BY <2>1, <2>2, <3>1
    <3>3. op'[c].slot \in WriteSlots /\ shape # 0 /\ DiskComputeWritePayloadBytes(Capacity[op'[c].slot]) = shape
      BY <3>2 DEF OneShape, ShapeOK
    <3>4. Scanned(s)
      BY <2>2, <2>4, <2>5, <3>1 DEF Scanned, IsNextToIssue, Issuable, SrbsOf
    <3>5. payload'[s] = IF payload[s] = 0 THEN shape ELSE payload[s]
      BY <2>1, <2>5, <3>1, <3>4 DEF InitializeScanned, Srbs
    <3>6. payload'[s] = shape
      BY <2>4, <2>5, <3>5 DEF OneShape
    <3> QED
      BY <3>3, <3>6
  <2> SUFFICES ASSUME NEW d \in Cpus, pc'[d] = "publish"
               PROVE  /\ phase'[op'[d].srb] \notin {"idle", "checked", "allocated"}
                      /\ op'[d].srb \in Pending("write")' =>
                           /\ op'[d].slot \in WriteSlots /\ payload'[op'[d].srb] # 0
                           /\ DiskComputeWritePayloadBytes(Capacity[op'[d].slot]) = payload'[op'[d].srb]
    BY DEF CarriedOK
  <2>6. CASE d = c
    <3>1. op'[d].srb = s /\ phase'[s] = "pending"
      BY <2>1, <2>2, <2>4, <2>6
    <3>2. s \in Pending("write")' => s \in Writes
      BY DEF Pending, SrbsOf
    <3> QED
      BY <2>5, <2>6, <3>1, <3>2
  <2>7. CASE d # c
    <3>1. pc[d] = "publish" /\ op'[d] = op[d] /\ op[d].srb \in Srbs
      BY <2>1, <2>7 DEF LocalsOK
    <3>2. op[d].srb \in Pending("write")' => op[d].srb \in Pending("write")
      BY <2>1 DEF Pending
    <3>3. phase[op[d].srb] \notin {"idle", "checked", "allocated"}
      BY <3>1 DEF CarriedOK
    <3>4. ASSUME op[d].srb \in Pending("write")
          PROVE  /\ op[d].slot \in WriteSlots /\ payload'[op[d].srb] # 0
                 /\ DiskComputeWritePayloadBytes(Capacity[op[d].slot]) = payload'[op[d].srb]
      BY <2>3, <3>1, <3>4 DEF CarriedOK, Splits
    <3> QED
      BY <2>1, <3>1, <3>2, <3>3, <3>4
  <2> QED
    BY <2>6, <2>7
<1>16. ASSUME NEW c \in Cpus, DrainDone(c) PROVE CarriedOK'
  <2>1. \A s \in Srbs : Splits(s)
    BY <1>16, ScanSplits DEF DrainDone, Ops
  <2>2. UNCHANGED phase
    BY <1>16 DEF DrainDone, listVars
  <2>3. \A d \in Cpus : pc'[d] = "publish" => pc[d] = "publish" /\ op'[d] = op[d]
    BY <1>16 DEF DrainDone, Finish, Go
  <2> QED
    BY <2>1, <2>2, <2>3, CarriedKept DEF LocalsOK
<1>17. ASSUME NEW c \in Cpus, Publish(c) PROVE CarriedOK'
  <2>1. \A s \in Srbs : Splits(s)
    BY <1>17 DEF Publish, Go, diskVars, listVars, fragVars, srbVars, slotVars, cpuVars, Splits
  <2>2. \A s \in Srbs : /\ phase'[s] = "pending" => phase[s] = "pending"
                        /\ phase'[s] \in {"idle", "checked", "allocated"}
                           => phase[s] \in {"idle", "checked", "allocated"}
    BY <1>17 DEF Publish, Go, diskVars, listVars, fragVars, srbVars, slotVars, cpuVars
  <2>3. \A d \in Cpus : pc'[d] = "publish" => pc[d] = "publish" /\ op'[d] = op[d]
    BY <1>17 DEF Publish, Go, diskVars, listVars, fragVars, srbVars, slotVars, cpuVars
  <2> QED
    BY <2>1, <2>2, <2>3, CarriedKept DEF LocalsOK
<1>18. ASSUME NEW c \in Cpus, PostSlot(c) PROVE CarriedOK'
  <2>1. \A s \in Srbs : Splits(s)
    BY <1>18 DEF PostSlot, Finish, Go, diskVars, listVars, fragVars, srbVars, slotVars, cpuVars, Splits
  <2>2. \A s \in Srbs : /\ phase'[s] = "pending" => phase[s] = "pending"
                        /\ phase'[s] \in {"idle", "checked", "allocated"}
                           => phase[s] \in {"idle", "checked", "allocated"}
    BY <1>18 DEF PostSlot, Finish, Go, diskVars, listVars, fragVars, srbVars, slotVars, cpuVars
  <2>3. \A d \in Cpus : pc'[d] = "publish" => pc[d] = "publish" /\ op'[d] = op[d]
    BY <1>18 DEF PostSlot, Finish, Go, diskVars, listVars, fragVars, srbVars, slotVars, cpuVars
  <2> QED
    BY <2>1, <2>2, <2>3, CarriedKept DEF LocalsOK
<1>19. ASSUME NEW c \in Cpus, PostEventSlot(c) PROVE CarriedOK'
  <2>1. \A s \in Srbs : Splits(s)
    BY <1>19 DEF PostEventSlot, Finish, Go, diskVars, listVars, fragVars, srbVars, slotVars, cpuVars, Splits
  <2>2. \A s \in Srbs : /\ phase'[s] = "pending" => phase[s] = "pending"
                        /\ phase'[s] \in {"idle", "checked", "allocated"}
                           => phase[s] \in {"idle", "checked", "allocated"}
    BY <1>19 DEF PostEventSlot, Finish, Go, diskVars, listVars, fragVars, srbVars, slotVars, cpuVars
  <2>3. \A d \in Cpus : pc'[d] = "publish" => pc[d] = "publish" /\ op'[d] = op[d]
    BY <1>19 DEF PostEventSlot, Finish, Go, diskVars, listVars, fragVars, srbVars, slotVars, cpuVars
  <2> QED
    BY <2>1, <2>2, <2>3, CarriedKept DEF LocalsOK
<1>20. ASSUME NEW c \in Cpus, FinishBatch(c) PROVE CarriedOK'
  <2>1. \A s \in Srbs : Splits(s)
    BY <1>20 DEF FinishBatch, CompleteHeld, HeldBy, Finish, Go, diskVars, listVars, fragVars, srbVars, slotVars,
              cpuVars, Splits
  <2>2. \A s \in Srbs : /\ phase'[s] = "pending" => phase[s] = "pending"
                        /\ phase'[s] \in {"idle", "checked", "allocated"}
                           => phase[s] \in {"idle", "checked", "allocated"}
    BY <1>20 DEF FinishBatch, CompleteHeld, HeldBy, Finish, Go, diskVars, listVars, fragVars, srbVars, slotVars,
              cpuVars
  <2>3. \A d \in Cpus : pc'[d] = "publish" => pc[d] = "publish" /\ op'[d] = op[d]
    BY <1>20 DEF FinishBatch, CompleteHeld, HeldBy, Finish, Go, diskVars, listVars, fragVars, srbVars, slotVars,
              cpuVars
  <2> QED
    BY <2>1, <2>2, <2>3, CarriedKept DEF LocalsOK
<1>21. ASSUME NEW c \in Cpus, TakeReads(c) PROVE CarriedOK'
  <2>1. \A s \in Srbs : Splits(s)
    BY <1>21 DEF TakeReads, TakePending, Pending, SrbsOf, Go, diskVars, listVars, fragVars, srbVars, slotVars,
              cpuVars, Splits
  <2>2. \A s \in Srbs : /\ phase'[s] = "pending" => phase[s] = "pending"
                        /\ phase'[s] \in {"idle", "checked", "allocated"}
                           => phase[s] \in {"idle", "checked", "allocated"}
    BY <1>21 DEF TakeReads, TakePending, Pending, SrbsOf, Go, diskVars, listVars, fragVars, srbVars, slotVars, cpuVars
  <2>3. \A d \in Cpus : pc'[d] = "publish" => pc[d] = "publish" /\ op'[d] = op[d]
    BY <1>21 DEF TakeReads, TakePending, Pending, SrbsOf, Go, diskVars, listVars, fragVars, srbVars, slotVars, cpuVars
  <2> QED
    BY <2>1, <2>2, <2>3, CarriedKept DEF LocalsOK
<1>22. ASSUME NEW c \in Cpus, TakeWrites(c) PROVE CarriedOK'
  <2>1. \A s \in Srbs : Splits(s)
    BY <1>22 DEF TakeWrites, TakePending, Pending, SrbsOf, Go, diskVars, listVars, fragVars, srbVars, slotVars,
              cpuVars, Splits
  <2>2. \A s \in Srbs : /\ phase'[s] = "pending" => phase[s] = "pending"
                        /\ phase'[s] \in {"idle", "checked", "allocated"}
                           => phase[s] \in {"idle", "checked", "allocated"}
    BY <1>22 DEF TakeWrites, TakePending, Pending, SrbsOf, Go, diskVars, listVars, fragVars, srbVars, slotVars,
              cpuVars
  <2>3. \A d \in Cpus : pc'[d] = "publish" => pc[d] = "publish" /\ op'[d] = op[d]
    BY <1>22 DEF TakeWrites, TakePending, Pending, SrbsOf, Go, diskVars, listVars, fragVars, srbVars, slotVars,
              cpuVars
  <2> QED
    BY <2>1, <2>2, <2>3, CarriedKept DEF LocalsOK
<1>23. ASSUME NEW c \in Cpus, CompleteTaken(c) PROVE CarriedOK'
  <2>1. \A s \in Srbs : Splits(s)
    BY <1>23 DEF CompleteTaken, CompleteHeld, HeldBy, Go, diskVars, listVars, fragVars, srbVars, slotVars, cpuVars,
              Splits
  <2>2. \A s \in Srbs : /\ phase'[s] = "pending" => phase[s] = "pending"
                        /\ phase'[s] \in {"idle", "checked", "allocated"}
                           => phase[s] \in {"idle", "checked", "allocated"}
    BY <1>23 DEF CompleteTaken, CompleteHeld, HeldBy, Go, diskVars, listVars, fragVars, srbVars, slotVars, cpuVars
  <2>3. \A d \in Cpus : pc'[d] = "publish" => pc[d] = "publish" /\ op'[d] = op[d]
    BY <1>23 DEF CompleteTaken, CompleteHeld, HeldBy, Go, diskVars, listVars, fragVars, srbVars, slotVars, cpuVars
  <2> QED
    BY <2>1, <2>2, <2>3, CarriedKept DEF LocalsOK
<1>24. ASSUME NEW c \in Cpus, CompleteEvent(c) PROVE CarriedOK'
  <2>1. \A s \in Srbs : Splits(s)
    BY <1>24 DEF CompleteEvent, Finish, Go, diskVars, listVars, fragVars, srbVars, slotVars, cpuVars, Splits
  <2>2. \A s \in Srbs : /\ phase'[s] = "pending" => phase[s] = "pending"
                        /\ phase'[s] \in {"idle", "checked", "allocated"}
                           => phase[s] \in {"idle", "checked", "allocated"}
    BY <1>24 DEF CompleteEvent, Finish, Go, diskVars, listVars, fragVars, srbVars, slotVars, cpuVars
  <2>3. \A d \in Cpus : pc'[d] = "publish" => pc[d] = "publish" /\ op'[d] = op[d]
    BY <1>24 DEF CompleteEvent, Finish, Go, diskVars, listVars, fragVars, srbVars, slotVars, cpuVars
  <2> QED
    BY <2>1, <2>2, <2>3, CarriedKept DEF LocalsOK
<1>25. ASSUME NEW c \in Cpus, FreeLists(c) PROVE CarriedOK'
  <2>1. \A s \in Srbs : Splits(s)
    BY <1>25 DEF FreeLists, Go, diskVars, listVars, fragVars, srbVars, slotVars, cpuVars, Splits
  <2>2. \A s \in Srbs : /\ phase'[s] = "pending" => phase[s] = "pending"
                        /\ phase'[s] \in {"idle", "checked", "allocated"}
                           => phase[s] \in {"idle", "checked", "allocated"}
    BY <1>25 DEF FreeLists, Go, diskVars, listVars, fragVars, srbVars, slotVars, cpuVars
  <2>3. \A d \in Cpus : pc'[d] = "publish" => pc[d] = "publish" /\ op'[d] = op[d]
    BY <1>25 DEF FreeLists, Go, diskVars, listVars, fragVars, srbVars, slotVars, cpuVars
  <2> QED
    BY <2>1, <2>2, <2>3, CarriedKept DEF LocalsOK
<1>26. ASSUME NEW c \in Cpus, FreeCounts(c) PROVE CarriedOK'
  <2>1. \A s \in Srbs : Splits(s)
    BY <1>26 DEF FreeCounts, Finish, Go, diskVars, listVars, fragVars, srbVars, slotVars, cpuVars, Splits
  <2>2. \A s \in Srbs : /\ phase'[s] = "pending" => phase[s] = "pending"
                        /\ phase'[s] \in {"idle", "checked", "allocated"}
                           => phase[s] \in {"idle", "checked", "allocated"}
    BY <1>26 DEF FreeCounts, Finish, Go, diskVars, listVars, fragVars, srbVars, slotVars, cpuVars
  <2>3. \A d \in Cpus : pc'[d] = "publish" => pc[d] = "publish" /\ op'[d] = op[d]
    BY <1>26 DEF FreeCounts, Finish, Go, diskVars, listVars, fragVars, srbVars, slotVars, cpuVars
  <2> QED
    BY <2>1, <2>2, <2>3, CarriedKept DEF LocalsOK
<1>27. ASSUME NEW c \in Cpus, CloseSession(c) PROVE CarriedOK'
  <2>1. \A s \in Srbs : Splits(s)
    BY <1>27 DEF CloseSession, Finish, Go, diskVars, listVars, fragVars, srbVars, slotVars, cpuVars, Splits
  <2>2. \A s \in Srbs : /\ phase'[s] = "pending" => phase[s] = "pending"
                        /\ phase'[s] \in {"idle", "checked", "allocated"}
                           => phase[s] \in {"idle", "checked", "allocated"}
    BY <1>27 DEF CloseSession, Finish, Go, diskVars, listVars, fragVars, srbVars, slotVars, cpuVars
  <2>3. \A d \in Cpus : pc'[d] = "publish" => pc[d] = "publish" /\ op'[d] = op[d]
    BY <1>27 DEF CloseSession, Finish, Go, diskVars, listVars, fragVars, srbVars, slotVars, cpuVars
  <2> QED
    BY <2>1, <2>2, <2>3, CarriedKept DEF LocalsOK
<1> QED
  BY <1>1, <1>2, <1>3, <1>4, <1>5, <1>6, <1>7, <1>8, <1>9, <1>10, <1>11, <1>12, <1>13, <1>14, <1>15, <1>16, <1>17,
       <1>18, <1>19, <1>20, <1>21, <1>22, <1>23, <1>24, <1>25, <1>26, <1>27
     DEF Next, Windows, App, Control, Continue

\* What was issued of a request that stays on its list is still delivered or on
\* its way.
LEMMA IssuedKept ==
    ASSUME IssuedReachesApp, delivered \subseteq delivered',
           \A s \in Srbs : phase'[s] = "pending" => /\ phase[s] = "pending"
                                                    /\ nextIssue'[s] = nextIssue[s] /\ eventId'[s] = eventId[s],
           \A d \in Cpus : pc[d] = "publish" => pc'[d] = "publish" /\ op'[d] = op[d]
    PROVE  IssuedReachesApp'
<1> SUFFICES ASSUME NEW s \in Srbs, phase'[s] = "pending", NEW seq \in 0 .. (nextIssue'[s] - 1)
             PROVE  Reached(s, seq)'
  BY DEF IssuedReachesApp
<1>1. Reached(s, seq)
  BY DEF IssuedReachesApp
<1> QED
  BY <1>1 DEF Reached

\* A slot can always carry the fragment the drain loop chose for it.
LEMMA IssuedStep == ASSUME IndInv, TailOK, NoneFrees, CarriedOK, IssuedReachesApp, [Next]_vars PROVE IssuedReachesApp'
<1> USE DEF IndInv, TypeOK, ListTypeOK, CpuTypeOK, FragTypeOK, SlotTypeOK
<1>1. CASE UNCHANGED vars
  <2>1. \A s \in Srbs : phase'[s] = "pending" =>
          phase[s] = "pending" /\ nextIssue'[s] = nextIssue[s] /\ eventId'[s] = eventId[s]
    BY <1>1 DEF vars, diskVars, listVars, fragVars, srbVars, slotVars, cpuVars, FreshOK
  <2>2. UNCHANGED delivered /\ \A d \in Cpus : pc[d] = "publish" => pc'[d] = "publish" /\ op'[d] = op[d]
    BY <1>1 DEF vars, diskVars, listVars, fragVars, srbVars, slotVars, cpuVars
  <2> QED
    BY <2>1, <2>2, IssuedKept
<1>2. CASE OpenSession
  <2>1. \A s \in Srbs : phase'[s] = "pending" =>
          phase[s] = "pending" /\ nextIssue'[s] = nextIssue[s] /\ eventId'[s] = eventId[s]
    BY <1>2 DEF OpenSession, diskVars, listVars, fragVars, srbVars, slotVars, cpuVars, FreshOK
  <2>2. UNCHANGED delivered /\ \A d \in Cpus : pc[d] = "publish" => pc'[d] = "publish" /\ op'[d] = op[d]
    BY <1>2 DEF OpenSession, diskVars, listVars, fragVars, srbVars, slotVars, cpuVars
  <2> QED
    BY <2>1, <2>2, IssuedKept
<1>3. ASSUME NEW c \in Cpus, NEW srb \in Srbs, QueueSrb(c, srb) PROVE IssuedReachesApp'
  <2>1. \A s \in Srbs : phase'[s] = "pending" =>
          phase[s] = "pending" /\ nextIssue'[s] = nextIssue[s] /\ eventId'[s] = eventId[s]
    BY SMTT(30), <1>3 DEF QueueSrb, CompleteSrbs, Go, diskVars, listVars, fragVars, srbVars, slotVars, cpuVars, FreshOK
  <2>2. UNCHANGED delivered /\ \A d \in Cpus : pc[d] = "publish" => pc'[d] = "publish" /\ op'[d] = op[d]
    BY <1>3 DEF QueueSrb, CompleteSrbs, Go, diskVars, listVars, fragVars, srbVars, slotVars, cpuVars
  <2> QED
    BY <2>1, <2>2, IssuedKept
<1>4. ASSUME NEW c \in Cpus, NEW slot \in DataSlots, SubmitSlot(c, slot) PROVE IssuedReachesApp'
  <2>1. \A s \in Srbs : phase'[s] = "pending" =>
          phase[s] = "pending" /\ nextIssue'[s] = nextIssue[s] /\ eventId'[s] = eventId[s]
    BY <1>4 DEF SubmitSlot, Go, diskVars, listVars, fragVars, srbVars, slotVars, cpuVars, FreshOK
  <2>2. UNCHANGED delivered /\ \A d \in Cpus : pc[d] = "publish" => pc'[d] = "publish" /\ op'[d] = op[d]
    BY <1>4 DEF SubmitSlot, Go, diskVars, listVars, fragVars, srbVars, slotVars, cpuVars
  <2> QED
    BY <2>1, <2>2, IssuedKept
<1>5. ASSUME NEW c \in Cpus, NEW slot \in EventSlots, SubmitEventSlot(c, slot) PROVE IssuedReachesApp'
  <2>1. \A s \in Srbs : phase'[s] = "pending" =>
          phase[s] = "pending" /\ nextIssue'[s] = nextIssue[s] /\ eventId'[s] = eventId[s]
    BY <1>5 DEF SubmitEventSlot, Go, diskVars, listVars, fragVars, srbVars, slotVars, cpuVars, FreshOK
  <2>2. UNCHANGED delivered /\ \A d \in Cpus : pc[d] = "publish" => pc'[d] = "publish" /\ op'[d] = op[d]
    BY <1>5 DEF SubmitEventSlot, Go, diskVars, listVars, fragVars, srbVars, slotVars, cpuVars
  <2> QED
    BY <2>1, <2>2, IssuedKept
<1>6. ASSUME NEW c \in Cpus, NEW ev \in EventIds, NEW ok \in BOOLEAN, ReadAck(c, ev, ok) PROVE IssuedReachesApp'
  <2>1. \A s \in Srbs : phase'[s] = "pending" =>
          phase[s] = "pending" /\ nextIssue'[s] = nextIssue[s] /\ eventId'[s] = eventId[s]
    BY <1>6 DEF ReadAck, CompleteSrbs, FoundByEventId, Pending, SrbsOf, diskVars, listVars, fragVars, srbVars,
              slotVars, cpuVars, FreshOK
  <2>2. UNCHANGED delivered /\ \A d \in Cpus : pc[d] = "publish" => pc'[d] = "publish" /\ op'[d] = op[d]
    BY <1>6 DEF ReadAck, CompleteSrbs, FoundByEventId, Pending, SrbsOf, diskVars, listVars, fragVars, srbVars,
              slotVars, cpuVars
  <2> QED
    BY <2>1, <2>2, IssuedKept
<1>7. ASSUME NEW c \in Cpus, NEW ev \in EventIds, NEW base \in Seqs, NEW count \in Seqs \ {0}, NEW ok \in BOOLEAN,
              AckRange(c, ev, base, count, ok) PROVE IssuedReachesApp'
  <2>1. \A s \in Srbs : phase'[s] = "pending" =>
          phase[s] = "pending" /\ nextIssue'[s] = nextIssue[s] /\ eventId'[s] = eventId[s]
    BY SMTT(30), <1>7 DEF AckRange, ApplyRange, FoundByEventId, Pending, SrbsOf, Go, diskVars, listVars, fragVars,
              srbVars, slotVars, cpuVars, FreshOK
  <2>2. UNCHANGED delivered /\ \A d \in Cpus : pc[d] = "publish" => pc'[d] = "publish" /\ op'[d] = op[d]
    BY <1>7 DEF AckRange, ApplyRange, FoundByEventId, Pending, SrbsOf, Go, diskVars, listVars, fragVars, srbVars,
              slotVars, cpuVars
  <2> QED
    BY <2>1, <2>2, IssuedKept
<1>8. ASSUME NEW c \in Cpus, CreateDisk(c) PROVE IssuedReachesApp'
  <2>1. \A s \in Srbs : phase'[s] = "pending" =>
          phase[s] = "pending" /\ nextIssue'[s] = nextIssue[s] /\ eventId'[s] = eventId[s]
    BY <1>8 DEF CreateDisk, diskVars, listVars, fragVars, srbVars, slotVars, cpuVars, FreshOK
  <2>2. UNCHANGED delivered /\ \A d \in Cpus : pc[d] = "publish" => pc'[d] = "publish" /\ op'[d] = op[d]
    BY <1>8 DEF CreateDisk, diskVars, listVars, fragVars, srbVars, slotVars, cpuVars
  <2> QED
    BY <2>1, <2>2, IssuedKept
<1>9. ASSUME NEW c \in Cpus, NEW slot \in DataSlots, CancelSlot(c, slot) PROVE IssuedReachesApp'
  <2>1. \A s \in Srbs : phase'[s] = "pending" =>
          phase[s] = "pending" /\ nextIssue'[s] = nextIssue[s] /\ eventId'[s] = eventId[s]
    BY <1>9 DEF CancelSlot, Allowed, diskVars, listVars, fragVars, srbVars, slotVars, cpuVars, FreshOK
  <2>2. UNCHANGED delivered /\ \A d \in Cpus : pc[d] = "publish" => pc'[d] = "publish" /\ op'[d] = op[d]
    BY <1>9 DEF CancelSlot, Allowed, diskVars, listVars, fragVars, srbVars, slotVars, cpuVars
  <2> QED
    BY <2>1, <2>2, IssuedKept
<1>10. ASSUME NEW c \in Cpus, NEW cmd \in Controls \ {"create", "cancel"}, BeginTakeAll(c,
              cmd) PROVE IssuedReachesApp'
  <2>1. \A s \in Srbs : phase'[s] = "pending" =>
          phase[s] = "pending" /\ nextIssue'[s] = nextIssue[s] /\ eventId'[s] = eventId[s]
    BY <1>10 DEF BeginTakeAll, Go, Allowed, diskVars, listVars, fragVars, srbVars, slotVars, cpuVars, FreshOK
  <2>2. UNCHANGED delivered /\ \A d \in Cpus : pc[d] = "publish" => pc'[d] = "publish" /\ op'[d] = op[d]
    BY <1>10 DEF BeginTakeAll, Go, Allowed, diskVars, listVars, fragVars, srbVars, slotVars, cpuVars
  <2> QED
    BY <2>1, <2>2, IssuedKept
<1>11. ASSUME NEW c \in Cpus, AllocRequest(c) PROVE IssuedReachesApp'
  <2>1. op[c].own \in Srbs /\ phase[op[c].own] = "checked"
    BY <1>11 DEF AllocRequest, FreshOK
  <2>2. /\ phase' = [phase EXCEPT ![op[c].own] = "allocated"] \/ phase' = [phase EXCEPT ![op[c].own] = "done"]
        /\ \A s \in Srbs : s # op[c].own => eventId'[s] = eventId[s]
    BY <1>11, <2>1 DEF AllocRequest, CompleteSrbs
  <2>3. UNCHANGED <<nextIssue,
              delivered>> /\ \A d \in Cpus : pc[d] = "publish" => pc'[d] = "publish" /\ op'[d] = op[d]
    BY <1>11 DEF AllocRequest, Finish, Go, slotVars
  <2> QED
    BY <2>1, <2>2, <2>3, IssuedKept
<1>12. ASSUME NEW c \in Cpus, InsertRequest(c) PROVE IssuedReachesApp'
  <2>1. /\ phase' = [phase EXCEPT ![op[c].own] = "pending"] /\ UNCHANGED <<nextIssue, eventId, op, delivered>>
        /\ pc' = [pc EXCEPT ![c] = "drain"] /\ pc[c] = "insert"
    BY <1>12 DEF InsertRequest, fragVars, Go
  <2>2. op[c].own \in Srbs /\ nextIssue[op[c].own] = 0
    BY <1>12 DEF InsertRequest, FreshOK, TailOK
  <2> SUFFICES ASSUME NEW s \in Srbs, phase'[s] = "pending", NEW seq \in 0 .. (nextIssue'[s] - 1)
               PROVE  Reached(s, seq)'
    BY DEF IssuedReachesApp
  <2>3. s # op[c].own
    BY <2>1, <2>2
  <2>4. phase[s] = "pending" /\ seq \in 0 .. (nextIssue[s] - 1)
    BY <2>1, <2>3
  <2>5. Reached(s, seq)
    BY <2>4 DEF IssuedReachesApp
  <2>6. \A d \in Cpus : pc[d] = "publish" => pc'[d] = "publish"
    BY <2>1
  <2> QED
    BY <2>1, <2>5, <2>6 DEF Reached
<1>13. ASSUME NEW c \in Cpus, SetPending(c) PROVE IssuedReachesApp'
  <2>1. \A s \in Srbs : phase'[s] = "pending" =>
          phase[s] = "pending" /\ nextIssue'[s] = nextIssue[s] /\ eventId'[s] = eventId[s]
    BY <1>13 DEF SetPending, StatusOfQueued, Go, diskVars, listVars, fragVars, srbVars, slotVars, cpuVars, FreshOK
  <2>2. UNCHANGED delivered /\ \A d \in Cpus : pc[d] = "publish" => pc'[d] = "publish" /\ op'[d] = op[d]
    BY <1>13 DEF SetPending, StatusOfQueued, Go, diskVars, listVars, fragVars, srbVars, slotVars, cpuVars
  <2> QED
    BY <2>1, <2>2, IssuedKept
<1>14. ASSUME NEW c \in Cpus, CheckStatus(c) PROVE IssuedReachesApp'
  <2>1. \A s \in Srbs : phase'[s] = "pending" =>
          phase[s] = "pending" /\ nextIssue'[s] = nextIssue[s] /\ eventId'[s] = eventId[s]
    BY <1>14 DEF CheckStatus, Finish, Go, diskVars, listVars, fragVars, srbVars, slotVars, cpuVars, FreshOK
  <2>2. UNCHANGED delivered /\ \A d \in Cpus : pc[d] = "publish" => pc'[d] = "publish" /\ op'[d] = op[d]
    BY <1>14 DEF CheckStatus, Finish, Go, diskVars, listVars, fragVars, srbVars, slotVars, cpuVars
  <2> QED
    BY <2>1, <2>2, IssuedKept
<1>15. ASSUME NEW c \in Cpus, DrainPick(c) PROVE IssuedReachesApp'
  <2>1. UNCHANGED <<phase, eventId, delivered>> /\ pc' = [pc EXCEPT ![c] = "publish"] /\ pc[c] = "drain"
        /\ \A d \in Cpus \ {c} : op'[d] = op[d]
    BY <1>15 DEF DrainPick, listVars, Go
  <2>2. PICK r \in SrbsOf(op[c].kind) :
          nextIssue' = [nextIssue EXCEPT ![r] = @ + 1] /\ op'[c].srb = r /\ op'[c].seq = nextIssue[r]
    <3>1. PICK r \in SrbsOf(op[c].kind) :
            /\ nextIssue' = [nextIssue EXCEPT ![r] = @ + 1]
            /\ op' = [op EXCEPT ![c].srb = r, ![c].slot = Head(posted[op[c].kind]), ![c].seq = nextIssue[r]]
      BY <1>15 DEF DrainPick
    <3>2. op'[c].srb = r /\ op'[c].seq = nextIssue[r]
      BY <3>1 DEF Ops
    <3> QED
      BY <3>1, <3>2
  <2>3. r \in Srbs
    BY DEF SrbsOf, Srbs
  <2> SUFFICES ASSUME NEW s \in Srbs, phase'[s] = "pending", NEW seq \in 0 .. (nextIssue'[s] - 1)
               PROVE  Reached(s, seq)'
    BY DEF IssuedReachesApp
  <2>4. CASE s = r /\ seq = nextIssue[r]
    BY <2>1, <2>2, <2>4 DEF Reached
  <2>5. CASE seq \in 0 .. (nextIssue[s] - 1)
    <3>1. Reached(s, seq)
      BY <2>1, <2>5 DEF IssuedReachesApp
    <3>2. \A d \in Cpus : pc[d] = "publish" => pc'[d] = "publish" /\ op'[d] = op[d]
      BY <2>1
    <3> QED
      BY <2>1, <3>1, <3>2 DEF Reached
  <2> QED
    BY <2>2, <2>3, <2>4, <2>5
<1>16. ASSUME NEW c \in Cpus, DrainDone(c) PROVE IssuedReachesApp'
  <2>1. \A s \in Srbs : phase'[s] = "pending" =>
          phase[s] = "pending" /\ nextIssue'[s] = nextIssue[s] /\ eventId'[s] = eventId[s]
    BY <1>16 DEF DrainDone, Finish, Go, diskVars, listVars, fragVars, srbVars, slotVars, cpuVars, FreshOK
  <2>2. UNCHANGED delivered /\ \A d \in Cpus : pc[d] = "publish" => pc'[d] = "publish" /\ op'[d] = op[d]
    BY <1>16 DEF DrainDone, Finish, Go, diskVars, listVars, fragVars, srbVars, slotVars, cpuVars
  <2> QED
    BY <2>1, <2>2, IssuedKept
<1>17. ASSUME NEW c \in Cpus, Publish(c) PROVE IssuedReachesApp'
  <2>1. UNCHANGED <<phase, eventId, nextIssue>> /\ pc' = [pc EXCEPT ![c] = "drain"] /\ pc[c] = "publish"
        /\ \A d \in Cpus \ {c} : op'[d] = op[d]
    BY <1>17 DEF Publish, listVars, fragVars, Go
  <2>2. delivered \subseteq delivered'
    BY <1>17 DEF Publish
  <2> PICK r \in Srbs : r = op[c].srb
    BY <2>1 DEF LocalsOK
  <2>3. ASSUME phase[r] = "pending", r \in Writes PROVE SlotCanCarry(op[c].slot, r, op[c].seq)
    <3>1. /\ op[c].slot \in WriteSlots /\ payload[r] # 0
          /\ DiskComputeWritePayloadBytes(Capacity[op[c].slot]) = payload[r]
      BY <2>1, <2>3 DEF CarriedOK, Pending, SrbsOf
    <3>2. Capacity[op[c].slot] \in Nat /\ Bytes[r] \in Nat \ {0} /\ HeaderSize \in Nat
      BY <2>3, <3>1, ConstantsAssumption
    <3>3. payload[r] \in Nat /\ HeaderSize + payload[r] <= Capacity[op[c].slot]
      BY <3>1, <3>2, PayloadBytesBound
    <3>4. totalSeq[r] # 0
      <4>1. totalSeq[r] * payload[r] >= Bytes[r] /\ totalSeq[r] \in Nat
        BY <2>3, <3>1 DEF FragmentsOK
      <4>2. ~(0 * payload[r] >= Bytes[r])
        BY <3>2, <3>3
      <4> QED
        BY <4>1, <4>2
    <3>5. FragmentBytes(r, op[c].seq) <= payload[r]
      <4> DEFINE offset == op[c].seq * payload[r]
      <4>1. op[c].seq \in Nat
        BY DEF Ops
      <4>2. offset \in Nat
        BY <3>3, <4>1
      <4> HIDE DEF offset
      <4>3. (IF offset <= Bytes[r] /\ Bytes[r] - offset < payload[r] THEN Bytes[r] - offset ELSE payload[r])
            <= payload[r]
        BY SMTT(30), <3>2, <3>3, <4>2
      <4> QED
        BY <4>3 DEF offset, FragmentBytes
    <3>6. FragmentBytes(r, op[c].seq) \in Int
      <4> DEFINE offset == op[c].seq * payload[r]
      <4>1. offset \in Nat
        BY <3>3 DEF Ops
      <4> HIDE DEF offset
      <4>2. (IF offset <= Bytes[r] /\ Bytes[r] - offset < payload[r] THEN Bytes[r] - offset ELSE payload[r]) \in Int
        BY <3>2, <3>3, <4>1
      <4> QED
        BY <4>2 DEF offset, FragmentBytes
    <3>7. HeaderSize + FragmentBytes(r, op[c].seq) <= Capacity[op[c].slot]
      BY <3>2, <3>3, <3>5, <3>6
    <3> QED
      BY <3>1, <3>4, <3>7 DEF SlotCanCarry
  <2>4. phase[r] = "pending" => [srb |-> r, ev |-> eventId[r], seq |-> op[c].seq] \in delivered'
    <3> SUFFICES ASSUME phase[r] = "pending" PROVE [srb |-> r, ev |-> eventId[r], seq |-> op[c].seq] \in delivered'
      OBVIOUS
    <3>1. ReadAs(op[c].srb) = {r}
      BY DEF ReadAs
    <3>2. SlotCanCarry(op[c].slot, r, op[c].seq)
      BY <2>3 DEF SlotCanCarry
    <3> QED
      BY <1>17, <3>1, <3>2 DEF Publish
  <2> SUFFICES ASSUME NEW s \in Srbs, phase'[s] = "pending", NEW seq \in 0 .. (nextIssue'[s] - 1)
               PROVE  Reached(s, seq)'
    BY DEF IssuedReachesApp
  <2>5. Reached(s, seq)
    BY <2>1 DEF IssuedReachesApp
  <2>6. CASE op[c].srb = s /\ op[c].seq = seq
    BY <2>1, <2>4, <2>6 DEF Reached
  <2>7. ASSUME NEW d \in Cpus, d # c, pc[d] = "publish" PROVE pc'[d] = "publish" /\ op'[d] = op[d]
    BY <2>1, <2>7
  <2> QED
    BY <2>1, <2>2, <2>5, <2>6, <2>7 DEF Reached
<1>18. ASSUME NEW c \in Cpus, PostSlot(c) PROVE IssuedReachesApp'
  <2>1. \A s \in Srbs : phase'[s] = "pending" =>
          phase[s] = "pending" /\ nextIssue'[s] = nextIssue[s] /\ eventId'[s] = eventId[s]
    BY <1>18 DEF PostSlot, Finish, Go, diskVars, listVars, fragVars, srbVars, slotVars, cpuVars, FreshOK
  <2>2. UNCHANGED delivered /\ \A d \in Cpus : pc[d] = "publish" => pc'[d] = "publish" /\ op'[d] = op[d]
    BY <1>18 DEF PostSlot, Finish, Go, diskVars, listVars, fragVars, srbVars, slotVars, cpuVars
  <2> QED
    BY <2>1, <2>2, IssuedKept
<1>19. ASSUME NEW c \in Cpus, PostEventSlot(c) PROVE IssuedReachesApp'
  <2>1. \A s \in Srbs : phase'[s] = "pending" =>
          phase[s] = "pending" /\ nextIssue'[s] = nextIssue[s] /\ eventId'[s] = eventId[s]
    BY <1>19 DEF PostEventSlot, Finish, Go, diskVars, listVars, fragVars, srbVars, slotVars, cpuVars, FreshOK
  <2>2. UNCHANGED delivered /\ \A d \in Cpus : pc[d] = "publish" => pc'[d] = "publish" /\ op'[d] = op[d]
    BY <1>19 DEF PostEventSlot, Finish, Go, diskVars, listVars, fragVars, srbVars, slotVars, cpuVars
  <2> QED
    BY <2>1, <2>2, IssuedKept
<1>20. ASSUME NEW c \in Cpus, FinishBatch(c) PROVE IssuedReachesApp'
  <2>1. \A s \in Srbs : phase'[s] = "pending" =>
          phase[s] = "pending" /\ nextIssue'[s] = nextIssue[s] /\ eventId'[s] = eventId[s]
    BY <1>20 DEF FinishBatch, CompleteHeld, HeldBy, Finish, Go, diskVars, listVars, fragVars, srbVars, slotVars,
              cpuVars, FreshOK
  <2>2. UNCHANGED delivered /\ \A d \in Cpus : pc[d] = "publish" => pc'[d] = "publish" /\ op'[d] = op[d]
    BY <1>20 DEF FinishBatch, CompleteHeld, HeldBy, Finish, Go, diskVars, listVars, fragVars, srbVars, slotVars,
              cpuVars
  <2> QED
    BY <2>1, <2>2, IssuedKept
<1>21. ASSUME NEW c \in Cpus, TakeReads(c) PROVE IssuedReachesApp'
  <2>1. \A s \in Srbs : phase'[s] = "pending" =>
          phase[s] = "pending" /\ nextIssue'[s] = nextIssue[s] /\ eventId'[s] = eventId[s]
    BY <1>21 DEF TakeReads, TakePending, Pending, SrbsOf, Go, diskVars, listVars, fragVars, srbVars, slotVars,
              cpuVars, FreshOK
  <2>2. UNCHANGED delivered /\ \A d \in Cpus : pc[d] = "publish" => pc'[d] = "publish" /\ op'[d] = op[d]
    BY <1>21 DEF TakeReads, TakePending, Pending, SrbsOf, Go, diskVars, listVars, fragVars, srbVars, slotVars, cpuVars
  <2> QED
    BY <2>1, <2>2, IssuedKept
<1>22. ASSUME NEW c \in Cpus, TakeWrites(c) PROVE IssuedReachesApp'
  <2>1. \A s \in Srbs : phase'[s] = "pending" =>
          phase[s] = "pending" /\ nextIssue'[s] = nextIssue[s] /\ eventId'[s] = eventId[s]
    BY <1>22 DEF TakeWrites, TakePending, Pending, SrbsOf, Go, diskVars, listVars, fragVars, srbVars, slotVars,
              cpuVars, FreshOK
  <2>2. UNCHANGED delivered /\ \A d \in Cpus : pc[d] = "publish" => pc'[d] = "publish" /\ op'[d] = op[d]
    BY <1>22 DEF TakeWrites, TakePending, Pending, SrbsOf, Go, diskVars, listVars, fragVars, srbVars, slotVars,
              cpuVars
  <2> QED
    BY <2>1, <2>2, IssuedKept
<1>23. ASSUME NEW c \in Cpus, CompleteTaken(c) PROVE IssuedReachesApp'
  <2>1. \A s \in Srbs : phase'[s] = "pending" =>
          phase[s] = "pending" /\ nextIssue'[s] = nextIssue[s] /\ eventId'[s] = eventId[s]
    BY <1>23 DEF CompleteTaken, CompleteHeld, HeldBy, Go, diskVars, listVars, fragVars, srbVars, slotVars, cpuVars,
              FreshOK
  <2>2. UNCHANGED delivered /\ \A d \in Cpus : pc[d] = "publish" => pc'[d] = "publish" /\ op'[d] = op[d]
    BY <1>23 DEF CompleteTaken, CompleteHeld, HeldBy, Go, diskVars, listVars, fragVars, srbVars, slotVars, cpuVars
  <2> QED
    BY <2>1, <2>2, IssuedKept
<1>24. ASSUME NEW c \in Cpus, CompleteEvent(c) PROVE IssuedReachesApp'
  <2>1. \A s \in Srbs : phase'[s] = "pending" =>
          phase[s] = "pending" /\ nextIssue'[s] = nextIssue[s] /\ eventId'[s] = eventId[s]
    BY <1>24 DEF CompleteEvent, Finish, Go, diskVars, listVars, fragVars, srbVars, slotVars, cpuVars, FreshOK
  <2>2. UNCHANGED delivered /\ \A d \in Cpus : pc[d] = "publish" => pc'[d] = "publish" /\ op'[d] = op[d]
    BY <1>24 DEF CompleteEvent, Finish, Go, diskVars, listVars, fragVars, srbVars, slotVars, cpuVars
  <2> QED
    BY <2>1, <2>2, IssuedKept
<1>25. ASSUME NEW c \in Cpus, FreeLists(c) PROVE IssuedReachesApp'
  BY <1>25 DEF FreeLists, NoneFrees
<1>26. ASSUME NEW c \in Cpus, FreeCounts(c) PROVE IssuedReachesApp'
  BY <1>26 DEF FreeCounts, NoneFrees
<1>27. ASSUME NEW c \in Cpus, CloseSession(c) PROVE IssuedReachesApp'
  BY <1>27 DEF CloseSession, NoneFrees
<1> QED
  BY <1>1, <1>2, <1>3, <1>4, <1>5, <1>6, <1>7, <1>8, <1>9, <1>10, <1>11, <1>12, <1>13, <1>14, <1>15, <1>16, <1>17,
       <1>18, <1>19, <1>20, <1>21, <1>22, <1>23, <1>24, <1>25, <1>26, <1>27
     DEF Next, Windows, App, Control, Continue

\* A write of whole sectors can be split for any shape of at least a sector.
LEMMA SectorsFit ==
    ASSUME NEW w \in Writes, payload[w] = 0, shape \in Nat, shape >= SectorSize
    PROVE  Shaped(w) /\ Fragments(w) >= 1
<1>1. SectorSize \in Nat \ {0} /\ Bytes[w] \in Nat \ {0} /\ Bytes[w] % SectorSize = 0 /\ w \notin Reads
  BY ConstantsAssumption
<1>2. ASSUME NEW b \in Nat \ {0}, NEW size \in Nat \ {0}, NEW d \in Nat, b % size = 0, d >= size
      PROVE  (b + d - 1) \div d \in 1 .. (b \div size)
  <2> DEFINE m == b \div size
             q == (b + d - 1) \div d
             r == (b + d - 1) % d
  <2>1. m \in Int /\ b = size * m + (b % size)
    BY <1>2
  <2>2. q \in Int /\ b + d - 1 = d * q + r /\ r \in 0 .. (d - 1)
    BY <1>2
  <2> HIDE DEF m, q, r
  <2>3. b = size * m
    <3>1. size * m \in Int
      BY <2>1
    <3> QED
      BY <1>2, <2>1, <3>1
  <2>4. m >= 0
    <3>1. CASE m <= -1
      <4>1. size * m <= -size
        BY <2>1, <3>1
      <4> QED
        BY <2>3, <4>1
    <3> QED
      BY <2>1, <3>1
  <2>5. q >= 1
    <3>1. CASE q <= 0
      <4>1. d * q <= 0
        BY <1>2, <2>2, <3>1
      <4> QED
        BY <1>2, <2>2, <4>1
    <3> QED
      BY <2>2, <3>1
  <2>6. q <= m
    <3>1. CASE q >= m + 1
      <4>1. d * q >= d * (m + 1)
        BY <1>2, <2>1, <2>2, <3>1
      <4>2. d * (m + 1) = d * m + d
        BY <2>1
      <4>3. d * m >= size * m
        BY <1>2, <2>1, <2>4
      <4> QED
        BY <2>1, <2>2, <2>3, <4>1, <4>2, <4>3
    <3> QED
      BY <2>1, <2>2, <3>1
  <2> QED
    BY <2>1, <2>2, <2>5, <2>6 DEF m, q
<1>3. CeilDiv(Bytes[w], shape) \in 1 .. (Bytes[w] \div SectorSize)
  BY <1>1, <1>2 DEF CeilDiv
<1>4. Fragments(w) = CeilDiv(Bytes[w], shape)
  BY <1>1 DEF Fragments
<1>5. Bytes[w] \div SectorSize \in Int
  BY <1>1
<1> QED
  BY <1>1, <1>3, <1>4, <1>5 DEF Shaped

\* The order of the writes when nothing joins the list and nothing is issued.
LEMMA WritesKept ==
    ASSUME WritesInOrder, UNCHANGED <<ticket, nextIssue>>,
           \A s \in Writes : Splits(s) /\ (phase'[s] = "pending" => phase[s] = "pending")
    PROVE  WritesInOrder'
<1> SUFFICES ASSUME NEW s \in Writes, NEW t \in Writes, phase'[s] = "pending", phase'[t] = "pending",
                    ticket[s] < ticket[t], nextIssue[t] > 0
             PROVE  payload'[s] # 0 /\ nextIssue[s] = totalSeq'[s]
  BY DEF WritesInOrder, Pending, SrbsOf
<1>1. payload[s] # 0 /\ nextIssue[s] = totalSeq[s]
  BY DEF WritesInOrder, Pending, SrbsOf
<1> QED
  BY <1>1 DEF Splits, Fragments

\* A write is issued to its end before any that was queued after it.
LEMMA WritesStep == ASSUME IndInv, TailOK, ShapeOK, WritesInOrder, [Next]_vars PROVE WritesInOrder'
<1> USE DEF IndInv, TypeOK, ListTypeOK, CpuTypeOK, FragTypeOK, SlotTypeOK, FreshOK
<1>1. CASE OrderKept
  BY <1>1, WritesKept DEF OrderKept, Srbs
<1>2. ASSUME NEW c \in Cpus, InsertRequest(c) PROVE WritesInOrder'
  <2>1. /\ phase' = [phase EXCEPT ![op[c].own] = "pending"] /\ ticket' = [ticket EXCEPT ![op[c].own] = nextTicket]
        /\ op[c].own \in Srbs /\ phase[op[c].own] = "allocated" /\ UNCHANGED <<nextIssue, payload, totalSeq>>
    BY <1>2 DEF InsertRequest, fragVars
  <2>2. nextIssue[op[c].own] = 0 /\ (\A s \in Srbs : ticket[s] < nextTicket) /\ nextTicket \in Nat
    BY <2>1 DEF TailOK
  <2> QED
    BY <2>1, <2>2 DEF WritesInOrder, Pending, SrbsOf, Srbs
<1>3. ASSUME NEW c \in Cpus, DrainPick(c) PROVE WritesInOrder'
  <2>1. UNCHANGED <<phase, ticket>> /\ op[c].kind \in Kinds
    BY <1>3 DEF DrainPick, listVars, Ops
  <2>2. \A s \in Srbs : Splits(s)
    BY <1>3, <2>1, ScanSplits DEF DrainPick
  <2>3. PICK w \in SrbsOf(op[c].kind) : IsNextToIssue(op[c].kind, w) /\ nextIssue' = [nextIssue EXCEPT ![w] = @ + 1]
    BY <1>3 DEF DrainPick
  <2>4. w \in Srbs /\ phase[w] = "pending" /\ Shaped(w) /\ nextIssue[w] < Fragments(w)
    BY <2>3 DEF IsNextToIssue, Issuable, SrbsOf, Srbs
  <2>5. ASSUME NEW s \in Writes, NEW t \in Writes, phase[s] = "pending", phase[t] = "pending",
               ticket[s] < ticket[t], nextIssue'[t] > 0
        PROVE  payload[s] # 0 /\ nextIssue[s] = totalSeq[s]
    <3>1. CASE nextIssue[t] > 0
      BY <2>5, <3>1 DEF WritesInOrder, Pending, SrbsOf
    <3>2. CASE t = w
      <4>1. op[c].kind = "write"
        BY <2>1, <2>3, <3>2, ConstantsAssumption DEF SrbsOf, Kinds
      <4>2. ticket[s] \in Nat /\ ticket[w] \in Nat /\ s \in Srbs
        BY <2>4 DEF Srbs
      <4>3. ~Issuable(s)
        BY <2>3, <2>5, <3>2, <4>1, <4>2 DEF IsNextToIssue, SrbsOf
      <4>4. posted["write"] # <<>>
        BY <1>3, <4>1 DEF DrainPick
      <4>5. shape \in Nat /\ shape >= SectorSize
        BY <4>4 DEF ShapeOK
      <4>6. payload[s] # 0
        <5>1. CASE payload[s] = 0
          <6>1. nextIssue[s] = 0
            BY <5>1 DEF FragmentsOK
          <6>2. Shaped(s) /\ Fragments(s) >= 1
            BY <4>5, <5>1, SectorsFit
          <6>3. Fragments(s) \in Nat
            BY <4>2, <6>2, ShapedFragments
          <6> QED
            BY <2>5, <4>3, <6>1, <6>2, <6>3 DEF Issuable
        <5> QED
          BY <5>1
      <4>7. ~(nextIssue[s] < totalSeq[s])
        BY <2>5, <4>3, <4>6 DEF Issuable, Shaped, Fragments
      <4> QED
        BY <4>2, <4>6, <4>7 DEF FragmentsOK
    <3> QED
      BY <2>3, <2>5, <3>1, <3>2, <2>4 DEF Srbs
  <2>6. ASSUME NEW s \in Writes, payload[s] # 0, nextIssue[s] = totalSeq[s]
        PROVE  payload'[s] # 0 /\ nextIssue'[s] = totalSeq'[s]
    <3>1. s \in Srbs /\ Fragments(s) = totalSeq[s]
      BY <2>6 DEF Fragments, Srbs
    <3>2. payload'[s] = payload[s] /\ totalSeq'[s] = totalSeq[s]
      BY <2>2, <2>6, <3>1 DEF Splits
    <3>3. s # w
      BY <2>4, <2>6, <3>1
    <3> QED
      BY <2>3, <2>6, <3>1, <3>2, <3>3
  <2> QED
    BY <2>1, <2>5, <2>6 DEF WritesInOrder, Pending, SrbsOf
<1> QED
  BY OrderTouched, <1>1, <1>2, <1>3

(***************************************************************************)
(* The initial state, and one step of every kind.                          *)
(***************************************************************************)
LEMMA InitQueue == Init => QueueInv
<1> SUFFICES ASSUME Init PROVE QueueInv
  OBVIOUS
<1>1. IndInv
  BY InitInd
<1>2. OwnersOK /\ NotifiedMeansFreed
  BY DEF Init, OwnersOK, NotifiedMeansFreed
<1>3. TailOK
  BY ConstantsAssumption DEF Init, TailOK, Srbs
<1>4. PairingInProgress
  BY DEF Init, PairingInProgress
<1>5. InOrder("read")
  BY DEF Init, InOrder, Pending, SrbsOf, Srbs
<1> QED
  BY <1>1, <1>2, <1>3, <1>4, <1>5 DEF QueueInv

LEMMA NextQueue == QueueInv /\ [Next]_vars => QueueInv'
<1> SUFFICES ASSUME QueueInv, [Next]_vars PROVE QueueInv'
  OBVIOUS
<1>1. IndInv'
  BY TypeStep, LocalsStep, FreshStep, FragmentsStep, CompletedStep DEF QueueInv, IndInv
<1>2. OwnersOK' /\ TailOK' /\ NotifiedMeansFreed'
  BY OwnersStep, TailStep, NotifiedStep DEF QueueInv
<1>3. PairingInProgress' /\ InOrder("read")'
  BY PairingStep, ReadsStep DEF QueueInv
<1> QED
  BY <1>1, <1>2, <1>3 DEF QueueInv

LEMMA InitLists == ASSUME Init PROVE ListsInv
<1>1. QueueInv
  BY InitQueue
<1>2. NoneFrees
  BY DEF Init, NoneFrees, Idle
<1>3. \A s \in Srbs : phase[s] = "idle"
  BY DEF Init
<1>4. Pending("write") = {}
  BY <1>3 DEF Pending, SrbsOf, Srbs
<1>5. posted["write"] = <<>> /\ Len(posted["write"]) = 0 /\ shape = 0 /\ pendingCount = 0 /\ postedCount = 0
  BY DEF Init, Kinds
<1>6. ListsCounted
  BY <1>4, <1>5, FS_EmptySet DEF ListsCounted, CountsMatchLists
<1>7. OneShape
  BY <1>3, <1>5 DEF OneShape, Srbs
<1>8. ShapeOK /\ CarriedOK
  BY <1>5 DEF Init, ShapeOK, CarriedOK
<1>9. IssuedReachesApp /\ WritesInOrder
  BY <1>3, <1>4 DEF IssuedReachesApp, WritesInOrder
<1> QED
  BY <1>1, <1>2, <1>6, <1>7, <1>8, <1>9 DEF ListsInv

LEMMA NextLists == ASSUME ListsKept, ListsInv, [Next]_vars PROVE ListsInv'
<1>1. QueueInv'
  BY NextQueue DEF ListsInv
<1>2. IndInv /\ OwnersOK /\ TailOK
  BY DEF ListsInv, QueueInv
<1>3. NoneFrees' /\ ListsCounted'
  BY <1>2, NoneFreesStep, CountsStep DEF ListsInv
<1>4. OneShape' /\ ShapeOK'
  BY <1>2, ShapeStep DEF ListsInv
<1>5. CarriedOK' /\ IssuedReachesApp'
  BY <1>2, CarriedStep, IssuedStep DEF ListsInv
<1>6. WritesInOrder'
  BY <1>2, WritesStep DEF ListsInv
<1> QED
  BY <1>1, <1>3, <1>4, <1>5, <1>6 DEF ListsInv

\* What FreedStaysFreed says of one step.
Freed == \A s \in Srbs : phase[s] = "done" =>
           phase'[s] = "done" /\ ackedBits'[s] = ackedBits[s] /\ failed'[s] = failed[s]

LEMMA FreedStep == ASSUME IndInv, [Next]_vars PROVE Freed
<1> USE DEF IndInv, TypeOK, ListTypeOK, FragTypeOK
<1>1. CASE UNCHANGED vars
  BY <1>1 DEF Freed, vars, fragVars, listVars
<1>2. CASE OpenSession
  BY <1>2 DEF Freed, OpenSession, listVars, fragVars
<1>3. ASSUME NEW c \in Cpus, NEW s \in Srbs, QueueSrb(c, s) PROVE Freed
  BY <1>3 DEF Freed, QueueSrb, CompleteSrbs, listVars, fragVars
<1>4. ASSUME NEW c \in Cpus, NEW slot \in DataSlots, SubmitSlot(c, slot) PROVE Freed
  BY <1>4 DEF Freed, SubmitSlot, listVars, fragVars
<1>5. ASSUME NEW c \in Cpus, NEW slot \in EventSlots, SubmitEventSlot(c, slot) PROVE Freed
  BY <1>5 DEF Freed, SubmitEventSlot, listVars, fragVars
<1>6. ASSUME NEW c \in Cpus, NEW ev \in EventIds, NEW ok \in BOOLEAN, ReadAck(c, ev, ok) PROVE Freed
  BY <1>6 DEF Freed, ReadAck, CompleteSrbs, listVars, fragVars
<1>7. ASSUME NEW c \in Cpus, NEW ev \in EventIds, NEW base \in Seqs, NEW count \in Seqs \ {0}, NEW ok \in BOOLEAN,
              AckRange(c, ev, base, count, ok) PROVE Freed
  <2>1. PICK w \in Writes :
          /\ phase[w] = "pending"
          /\ \A s \in Srbs : s # w => /\ phase'[s] = phase[s] /\ ackedBits'[s] = ackedBits[s]
                                      /\ failed'[s] = failed[s]
    BY <1>7 DEF AckRange, ApplyRange, FoundByEventId, Pending
  <2> QED
    BY <2>1 DEF Freed
<1>8. ASSUME NEW c \in Cpus, CreateDisk(c) PROVE Freed
  BY <1>8 DEF Freed, CreateDisk, listVars, fragVars
<1>9. ASSUME NEW c \in Cpus, NEW slot \in DataSlots, CancelSlot(c, slot) PROVE Freed
  BY <1>9 DEF Freed, CancelSlot, listVars, fragVars
<1>10. ASSUME NEW c \in Cpus, NEW cmd \in Controls \ {"create", "cancel"}, BeginTakeAll(c, cmd) PROVE Freed
  BY <1>10 DEF Freed, BeginTakeAll, listVars, fragVars
<1>11. ASSUME NEW c \in Cpus, AllocRequest(c) PROVE Freed
  <2>1. /\ phase[op[c].own] = "checked" /\ UNCHANGED <<ackedBits, failed>>
        /\ \A s \in Srbs : s # op[c].own => phase'[s] \in {phase[s], "done"}
    BY <1>11 DEF AllocRequest, CompleteSrbs, FreshOK
  <2> QED
    BY <2>1 DEF Freed
<1>12. ASSUME NEW c \in Cpus, InsertRequest(c) PROVE Freed
  <2>1. /\ phase[op[c].own] = "allocated" /\ UNCHANGED <<ackedBits, failed>>
        /\ \A s \in Srbs : s # op[c].own => phase'[s] = phase[s]
    BY <1>12 DEF InsertRequest, fragVars, FreshOK
  <2> QED
    BY <2>1 DEF Freed
<1>13. ASSUME NEW c \in Cpus, SetPending(c) PROVE Freed
  BY <1>13 DEF Freed, SetPending, listVars, fragVars
<1>14. ASSUME NEW c \in Cpus, CheckStatus(c) PROVE Freed
  BY <1>14 DEF Freed, CheckStatus, listVars, fragVars
<1>15. ASSUME NEW c \in Cpus, DrainPick(c) PROVE Freed
  BY <1>15 DEF Freed, DrainPick, listVars, fragVars
<1>16. ASSUME NEW c \in Cpus, DrainDone(c) PROVE Freed
  BY <1>16 DEF Freed, DrainDone, listVars, fragVars
<1>17. ASSUME NEW c \in Cpus, Publish(c) PROVE Freed
  BY <1>17 DEF Freed, Publish, listVars, fragVars
<1>18. ASSUME NEW c \in Cpus, PostSlot(c) PROVE Freed
  BY <1>18 DEF Freed, PostSlot, listVars, fragVars
<1>19. ASSUME NEW c \in Cpus, PostEventSlot(c) PROVE Freed
  BY <1>19 DEF Freed, PostEventSlot, listVars, fragVars
<1>20. ASSUME NEW c \in Cpus, FinishBatch(c) PROVE Freed
  BY <1>20 DEF Freed, FinishBatch, CompleteHeld, HeldBy, listVars, fragVars
<1>21. ASSUME NEW c \in Cpus, TakeReads(c) PROVE Freed
  BY <1>21 DEF Freed, TakeReads, TakePending, Pending, listVars, fragVars
<1>22. ASSUME NEW c \in Cpus, TakeWrites(c) PROVE Freed
  BY <1>22 DEF Freed, TakeWrites, TakePending, Pending, listVars, fragVars
<1>23. ASSUME NEW c \in Cpus, CompleteTaken(c) PROVE Freed
  BY <1>23 DEF Freed, CompleteTaken, CompleteHeld, HeldBy, listVars, fragVars
<1>24. ASSUME NEW c \in Cpus, CompleteEvent(c) PROVE Freed
  BY <1>24 DEF Freed, CompleteEvent, listVars, fragVars
<1>25. ASSUME NEW c \in Cpus, FreeLists(c) PROVE Freed
  BY <1>25 DEF Freed, FreeLists, listVars, fragVars
<1>26. ASSUME NEW c \in Cpus, FreeCounts(c) PROVE Freed
  BY <1>26 DEF Freed, FreeCounts, listVars, fragVars
<1>27. ASSUME NEW c \in Cpus, CloseSession(c) PROVE Freed
  BY <1>27 DEF Freed, CloseSession, listVars, fragVars
<1> QED
  BY <1>1, <1>2, <1>3, <1>4, <1>5, <1>6, <1>7, <1>8, <1>9, <1>10, <1>11, <1>12, <1>13, <1>14, <1>15, <1>16, <1>17,
       <1>18, <1>19, <1>20, <1>21, <1>22, <1>23, <1>24, <1>25, <1>26, <1>27
     DEF Next, Windows, App, Control, Continue

(***************************************************************************)
(* What holds of the queues whatever the control operations.               *)
(***************************************************************************)

\* The invariant of the queues: every entry point of the miniport preserves it,
\* the removal of all disks and the end of a session included.
THEOREM QueueInvariance == Spec => []QueueInv
<1> QED
  BY InitQueue, NextQueue, PTL DEF Spec

\* StorPort is told of a completion only once the driver let go of the request
\* (DiskCompleteScsiSrb, DiskHandleExecuteScsi).
THEOREM NotifiedIsFreed == Spec => []NotifiedMeansFreed
<1>1. QueueInv => NotifiedMeansFreed
  BY DEF QueueInv
<1> QED
  BY <1>1, QueueInvariance, PTL

\* The drain loops miss no pairing: whoever queues a request or posts a slot
\* drains afterwards (DiskQueueReadSrb, DiskQueueWriteSrb, the submit handlers).
THEOREM NoMissedPairing == Spec => []PairingInProgress
<1>1. QueueInv => PairingInProgress
  BY DEF QueueInv
<1> QED
  BY <1>1, QueueInvariance, PTL

\* DiskFindNextPendingReadLocked hands slots to the reads in arrival order.
THEOREM ReadsInArrivalOrder == Spec => []InOrder("read")
<1>1. QueueInv => InOrder("read")
  BY DEF QueueInv
<1> QED
  BY <1>1, QueueInvariance, PTL

\* No acknowledgement, cancel or reset changes a request that was completed
\* and freed.
THEOREM FreedIsFinal == Spec => FreedStaysFreed
<1>1. IndInv /\ [Next]_vars => [Freed]_vars
  BY FreedStep
<1>2. [][Freed]_vars => FreedStaysFreed
  BY PTL DEF Freed, FreedStaysFreed
<1> QED
  BY <1>1, <1>2, Invariance, PTL DEF Spec

(***************************************************************************)
(* What holds of the lists of writes as long as no control operation frees *)
(* them without their locks (DiskFreeQueuedState).                         *)
(***************************************************************************)

\* The invariant of the lists of writes.
THEOREM ListsInvariance == ASSUME ListsKept PROVE Spec => []ListsInv
<1>1. Init => ListsInv
  BY InitLists
<1>2. ListsInv /\ [Next]_vars => ListsInv'
  BY NextLists
<1> QED
  BY <1>1, <1>2, PTL DEF Spec

\* PendingWriteCount and PostedWriteSlotCount, which decide when the slot shape
\* is forgotten, are the lengths of the lists and never wrap.
THEOREM CountersAreLengths == ASSUME ListsKept PROVE Spec => []CountsMatchLists
<1>1. ListsInv => CountsMatchLists
  BY DEF ListsInv, ListsCounted
<1> QED
  BY <1>1, ListsInvariance, PTL

\* All queued writes and all posted write slots agree on WriteSlotPayloadBytes.
THEOREM ShapeIsShared == ASSUME ListsKept PROVE Spec => []OneShape
<1>1. ListsInv => OneShape
  BY DEF ListsInv
<1> QED
  BY <1>1, ListsInvariance, PTL

\* The drain loop never advances NextIssueSeq past a fragment that the slot it
\* picked cannot carry: whatever was issued can be acknowledged.
THEOREM IssuedIsDelivered == ASSUME ListsKept PROVE Spec => []IssuedReachesApp
<1>1. ListsInv => IssuedReachesApp
  BY DEF ListsInv
<1> QED
  BY <1>1, ListsInvariance, PTL

\* Reads and writes are issued in arrival order, a write with all its
\* fragments before the next one (DiskFindNextWritableRequestLocked).
THEOREM ArrivalOrder == ASSUME ListsKept PROVE Spec => []IssuedInArrivalOrder
<1>1. ListsInv => IssuedInArrivalOrder
  <2> SUFFICES ASSUME ListsInv PROVE IssuedInArrivalOrder
    OBVIOUS
  <2>1. InOrder("read")
    BY DEF ListsInv, QueueInv
  <2>2. InOrder("write")
    BY DEF ListsInv, WritesInOrder, InOrder
  <2> QED
    BY <2>1, <2>2 DEF IssuedInArrivalOrder, Kinds
<1> QED
  BY <1>1, ListsInvariance, PTL
=============================================================================
