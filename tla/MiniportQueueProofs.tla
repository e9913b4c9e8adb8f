------------------------ MODULE MiniportQueueProofs ------------------------
(***************************************************************************)
(* Proofs about MiniportQueue for every number of SRBs, slots, processors  *)
(* and control operations.                                                 *)
(***************************************************************************)
EXTENDS MiniportQueue, FiniteSetTheorems, TLAPS

\* Rounding up covers the whole length (DiskInitializeWriteRequestLocked).
LEMMA CeilDivCovers ==
    ASSUME NEW n \in Nat, NEW d \in Nat \ {0}
    PROVE  CeilDiv(n, d) \in Nat /\ CeilDiv(n, d) * d >= n
<1> DEFINE q == (n + d - 1) \div d
<1>1. q \in Int /\ n + d - 1 = d * q + ((n + d - 1) % d) /\ (n + d - 1) % d \in 0 .. (d - 1)
  OBVIOUS
<1>2. q >= 0
  BY <1>1
<1> QED
  BY <1>1, <1>2 DEF CeilDiv

\* A slot never carries a negative number of payload bytes.
LEMMA PayloadBytesType ==
    ASSUME NEW capacity \in Nat
    PROVE  DiskComputeWritePayloadBytes(capacity) \in Nat
<1>1. SectorSize \in Nat \ {0} /\ HeaderSize \in Nat
  BY ConstantsAssumption
<1>2. ASSUME NEW x \in Nat PROVE x - (x % SectorSize) \in Nat
  BY <1>1
<1> QED
  BY <1>1, <1>2 DEF DiskComputeWritePayloadBytes

\* A processor that is not inside the driver has well-formed locals.
LEMMA IdleType == Idle \in Ops
BY DEF Idle, Ops, Kinds, Commands

\* Updating one entry keeps the type of a function.
LEMMA ExceptType ==
    ASSUME NEW S, NEW T, NEW f \in [S -> T], NEW x, NEW v \in T
    PROVE  [f EXCEPT ![x] = v] \in [S -> T]
OBVIOUS

\* A list counter stays a number, even when it wraps.
LEMMA DecrementType == \A n \in Nat : Decrement(n) \in Nat
BY ConstantsAssumption DEF Decrement

\* Sequence numbers an acknowledgement can name.
LEMMA SeqsType == Seqs \subseteq Nat
BY DEF Seqs

\* The number of fragments of a shaped write, and what they carry.
LEMMA ShapedFragments ==
    ASSUME TypeOK, NEW w \in Srbs, Shaped(w)
    PROVE  /\ Fragments(w) \in Nat
           /\ w \in Writes /\ payload[w] = 0 => shape # 0 /\ Fragments(w) * shape >= Bytes[w]
<1> USE DEF TypeOK, FragTypeOK, SlotTypeOK
<1>1. CASE w \in Reads \/ payload[w] # 0
  BY <1>1, ConstantsAssumption DEF Fragments
<1>2. CASE ~(w \in Reads \/ payload[w] # 0)
  <2>1. w \in Writes /\ shape \in Nat \ {0} /\ Bytes[w] \in Nat
    BY <1>2, ConstantsAssumption DEF Shaped, Srbs
  <2> QED
    BY <1>2, <2>1, CeilDivCovers DEF Fragments
<1> QED
  BY <1>1, <1>2

\* The scan of the pending writes keeps the types.
LEMMA InitializeScannedType ==
    ASSUME TypeOK, NEW kind \in Kinds, InitializeScanned(kind)
    PROVE  payload' \in [Srbs -> Nat] /\ totalSeq' \in [Srbs -> Nat]
<1>1. \A s \in Srbs : Scanned(s) => Fragments(s) \in Nat
  BY ShapedFragments DEF Scanned
<1> QED
  BY <1>1 DEF InitializeScanned, TypeOK, FragTypeOK, SlotTypeOK

\* Every step keeps the types.
LEMMA TypeStep == TypeOK /\ LocalsOK /\ [Next]_vars => TypeOK'
<1> SUFFICES ASSUME TypeOK, LocalsOK, [Next]_vars PROVE TypeOK'
  OBVIOUS
<1> USE DEF TypeOK
<1>1. CASE UNCHANGED vars
  BY <1>1 DEF vars, diskVars, listVars, fragVars, srbVars, slotVars, cpuVars, DiskTypeOK, ListTypeOK,
              FragTypeOK, SrbTypeOK, SlotTypeOK, CpuTypeOK
<1>2. CASE OpenSession
  BY <1>2 DEF OpenSession, diskVars, listVars, fragVars, srbVars, slotVars, cpuVars, DiskTypeOK, ListTypeOK,
              FragTypeOK, SrbTypeOK, SlotTypeOK, CpuTypeOK
<1>3. ASSUME NEW c \in Cpus, NEW s \in Srbs, QueueSrb(c, s) PROVE TypeOK'
  <2>1. ListTypeOK'
    BY <1>3 DEF QueueSrb, CompleteSrbs, Go, KindOf, ListTypeOK, listVars, Phases
  <2>2. SrbTypeOK'
    BY <1>3 DEF QueueSrb, CompleteSrbs, Go, KindOf, SrbTypeOK, srbVars
  <2>3. CpuTypeOK'
    <3>1. [Idle EXCEPT !.own = s, !.kind = KindOf(s)] \in Ops
      BY DEF Idle, Ops, KindOf, Kinds, Commands
    <3> QED
      BY <1>3, <3>1 DEF QueueSrb, Go, CpuTypeOK, cpuVars, Places
  <2> QED
    BY <1>3, <2>1, <2>2, <2>3 DEF QueueSrb, diskVars, DiskTypeOK, fragVars, FragTypeOK, slotVars, SlotTypeOK
<1>4. ASSUME NEW c \in Cpus, NEW slot \in DataSlots, SubmitSlot(c, slot) PROVE TypeOK'
  <2>1. SlotTypeOK'
    BY <1>4 DEF SubmitSlot, Go, KindOf, SlotTypeOK, slotVars, Kinds, Slots
  <2>2. CpuTypeOK'
    BY <1>4 DEF SubmitSlot, Go, KindOf, CpuTypeOK, cpuVars, Places, Ops, Idle, Commands, Kinds, Slots, DataSlots
  <2> QED
    BY <1>4, <2>1, <2>2 DEF SubmitSlot, diskVars, DiskTypeOK, listVars, ListTypeOK, fragVars, FragTypeOK, srbVars, SrbTypeOK
<1>5. ASSUME NEW c \in Cpus, NEW slot \in EventSlots, SubmitEventSlot(c, slot) PROVE TypeOK'
  <2>1. SlotTypeOK'
    BY <1>5 DEF SubmitEventSlot, Go, SlotTypeOK, slotVars, Kinds, Slots
  <2>2. CpuTypeOK'
    BY <1>5 DEF SubmitEventSlot, Go, CpuTypeOK, cpuVars, Places, Ops, Idle, Commands, Kinds, Slots
  <2> QED
    BY <1>5, <2>1, <2>2 DEF SubmitEventSlot, diskVars, DiskTypeOK, listVars, ListTypeOK, fragVars, FragTypeOK, srbVars, SrbTypeOK
<1>6. ASSUME NEW c \in Cpus, NEW ev \in EventIds, NEW ok \in BOOLEAN, ReadAck(c, ev, ok) PROVE TypeOK'
  <2>1. ListTypeOK'
    BY <1>6 DEF ReadAck, CompleteSrbs, ListTypeOK, listVars, Phases
  <2>2. SrbTypeOK'
    BY <1>6 DEF ReadAck, CompleteSrbs, SrbTypeOK, srbVars
  <2> QED
    BY <1>6, <2>1, <2>2 DEF ReadAck, diskVars, DiskTypeOK, fragVars, FragTypeOK, slotVars, SlotTypeOK, cpuVars, CpuTypeOK
<1>7. ASSUME NEW c \in Cpus, NEW ev \in EventIds, NEW base \in Seqs, NEW count \in Seqs \ {0}, NEW ok \in BOOLEAN,
              AckRange(c, ev, base, count, ok) PROVE TypeOK'
  <2>1. ListTypeOK'
    BY <1>7 DEF AckRange, ApplyRange, Go, ListTypeOK, listVars, Phases
  <2>2. FragTypeOK'
    <3> PICK w \in Writes :
          /\ Shaped(w)
          /\ payload' = [payload EXCEPT ![w] = IF @ = 0 THEN shape ELSE @]
          /\ totalSeq' = [totalSeq EXCEPT ![w] = Fragments(w)]
          /\ \/ UNCHANGED <<ackedBits, ackedCount, failed>>
             \/ /\ ackedBits' = [ackedBits EXCEPT ![w] = @ \cup RangeSeqs(base, count)]
                /\ ackedCount' = [ackedCount EXCEPT ![w] = @ + count]
                /\ failed' = [failed EXCEPT ![w] = ~ok]
      BY <1>7 DEF AckRange, ApplyRange, RangeValid
    <3>1. Fragments(w) \in Nat
      BY ShapedFragments DEF Srbs
    <3>2. base \in Nat /\ count \in Nat /\ RangeSeqs(base, count) \subseteq Nat
      BY SeqsType DEF RangeSeqs
    <3>3. payload' \in [Srbs -> Nat] /\ totalSeq' \in [Srbs -> Nat]
      BY <3>1 DEF FragTypeOK, SlotTypeOK
    <3>4. ackedBits' \in [Srbs -> SUBSET Nat]
      BY <3>2 DEF FragTypeOK
    <3>5. ackedCount' \in [Srbs -> Nat]
      BY <3>2 DEF FragTypeOK
    <3>6. failed' \in [Srbs -> BOOLEAN]
      BY <1>7, ExceptType DEF FragTypeOK
    <3> QED
      BY <1>7, <3>3, <3>4, <3>5, <3>6 DEF AckRange, FragTypeOK
  <2>3. SlotTypeOK'
    <3>1. shape' \in Nat /\ pendingCount' \in Nat
      BY <1>7, DecrementType DEF AckRange, ApplyRange, ShapeAfter, SlotTypeOK
    <3> QED
      BY <1>7, <3>1 DEF AckRange, SlotTypeOK
  <2>4. CpuTypeOK'
    <3>1. (IF pc[c] = "idle" THEN MaxRanges - 1 ELSE op[c].left - 1) \in Nat
      BY <1>7, ConstantsAssumption DEF AckRange, CpuTypeOK, Ops
    <3> DEFINE left == IF pc[c] = "idle" THEN MaxRanges - 1 ELSE op[c].left - 1
               r == [op[c] EXCEPT !.kind = "write", !.left = left]
    <3>2. r \in Ops
      BY <3>1 DEF CpuTypeOK, Ops, Kinds
    <3>3. op' = [op EXCEPT ![c] = r]
      BY <1>7 DEF AckRange, CpuTypeOK, Ops
    <3> QED
      BY <1>7, <3>2, <3>3 DEF AckRange, Go, CpuTypeOK, Places
  <2> QED
    BY <1>7, <2>1, <2>2, <2>3, <2>4 DEF AckRange, diskVars, DiskTypeOK, srbVars, SrbTypeOK
<1>8. ASSUME NEW c \in Cpus, CreateDisk(c) PROVE TypeOK'
  <2>1. DiskTypeOK'
    BY <1>8 DEF CreateDisk, DiskTypeOK, diskVars
  <2> QED
    BY SMTT(30), <1>8, <2>1 DEF CreateDisk, listVars, ListTypeOK, fragVars, FragTypeOK, srbVars, SrbTypeOK, slotVars, SlotTypeOK, cpuVars, CpuTypeOK
<1>9. ASSUME NEW c \in Cpus, NEW slot \in DataSlots, CancelSlot(c, slot) PROVE TypeOK'
  <2>1. SlotTypeOK'
    <3>1. KindOf(slot) \in Kinds /\ posted[KindOf(slot)] \in Seq(DataSlots)
      BY DEF KindOf, Kinds, SlotTypeOK
    <3>2. ASSUME NEW i \in 1 .. Len(posted[KindOf(slot)])
          PROVE  RemoveAt(posted[KindOf(slot)], i) \in Seq(DataSlots)
      BY <3>1 DEF RemoveAt
    <3>3. posted' \in [Kinds -> Seq(DataSlots)]
      BY <1>9, <3>2 DEF CancelSlot, SlotTypeOK
    <3>4. shape' \in Nat /\ postedCount' \in Nat
      BY <1>9, DecrementType DEF CancelSlot, ShapeAfter, SlotTypeOK
    <3>5. withApp' \subseteq Slots
      BY <1>9 DEF CancelSlot, SlotTypeOK, Slots
    <3> QED
      BY <1>9, <3>3, <3>4, <3>5 DEF CancelSlot, SlotTypeOK
  <2> QED
    BY <1>9, <2>1 DEF CancelSlot, diskVars, DiskTypeOK, listVars, ListTypeOK, fragVars, FragTypeOK, srbVars, SrbTypeOK, cpuVars, CpuTypeOK
<1>10. ASSUME NEW c \in Cpus, NEW cmd \in Controls \ {"create", "cancel"}, BeginTakeAll(c, cmd) PROVE TypeOK'
  <2>1. DiskTypeOK'
    BY <1>10 DEF BeginTakeAll, Go, DiskTypeOK, diskVars
  <2>2. CpuTypeOK'
    BY <1>10, ConstantsAssumption DEF BeginTakeAll, Go, CpuTypeOK, cpuVars, Places, Ops, Idle, Commands, Kinds, Allowed
  <2>3. controls' \in Nat
    BY <1>10 DEF BeginTakeAll
  <2> QED
    BY <1>10, <2>3, <2>1, <2>2 DEF BeginTakeAll, listVars, ListTypeOK, fragVars, FragTypeOK, srbVars, SrbTypeOK, slotVars, SlotTypeOK
<1>11. ASSUME NEW c \in Cpus, AllocRequest(c) PROVE TypeOK'
  <2>1. DiskTypeOK'
    BY <1>11 DEF AllocRequest, CompleteSrbs, Finish, Go, DiskTypeOK, diskVars
  <2>2. ListTypeOK'
    BY <1>11 DEF AllocRequest, CompleteSrbs, Finish, Go, ListTypeOK, listVars, Phases
  <2>3. FragTypeOK'
    <3>1. nextEventId + 1 \in Nat
      BY DEF DiskTypeOK
    <3>2. eventId' \in [Srbs -> Nat]
      BY <1>11, <3>1, ExceptType DEF AllocRequest, FragTypeOK
    <3> QED
      BY <1>11, <3>2 DEF AllocRequest, FragTypeOK
  <2>4. SrbTypeOK'
    BY <1>11 DEF AllocRequest, CompleteSrbs, Finish, Go, SrbTypeOK, srbVars
  <2>5. CpuTypeOK'
    BY <1>11, IdleType DEF AllocRequest, Finish, Go, CpuTypeOK, Places
  <2> QED
    BY <1>11, <2>1, <2>2, <2>3, <2>4, <2>5 DEF AllocRequest, slotVars, SlotTypeOK
<1>12. ASSUME NEW c \in Cpus, InsertRequest(c) PROVE TypeOK'
  <2>1. ListTypeOK'
    <3>1. nextTicket \in Nat /\ nextTicket' \in Nat \ {0}
      BY <1>12 DEF InsertRequest, ListTypeOK
    <3>3. ticket' \in [Srbs -> Nat]
      BY <1>12, <3>1, ExceptType DEF InsertRequest, ListTypeOK
    <3>2. phase' \in [Srbs -> Phases]
      BY <1>12 DEF InsertRequest, ListTypeOK, Phases
    <3> QED
      BY <1>12, <3>1, <3>2, <3>3 DEF InsertRequest, ListTypeOK
  <2>2. SlotTypeOK'
    BY <1>12 DEF InsertRequest, Go, SlotTypeOK, slotVars, Kinds, Slots
  <2>3. CpuTypeOK'
    BY <1>12 DEF InsertRequest, Go, CpuTypeOK, cpuVars, Places, Ops, Idle, Commands, Kinds
  <2> QED
    BY <1>12, <2>1, <2>2, <2>3 DEF InsertRequest, diskVars, DiskTypeOK, fragVars, FragTypeOK, srbVars, SrbTypeOK
<1>13. ASSUME NEW c \in Cpus, SetPending(c) PROVE TypeOK'
  <2>1. SrbTypeOK'
    BY <1>13 DEF SetPending, StatusOfQueued, Go, SrbTypeOK, srbVars
  <2>2. CpuTypeOK'
    BY <1>13 DEF SetPending, StatusOfQueued, Go, CpuTypeOK, cpuVars, Places, Ops, Idle, Commands, Kinds
  <2> QED
    BY <1>13, <2>1, <2>2 DEF SetPending, diskVars, DiskTypeOK, listVars, ListTypeOK, fragVars, FragTypeOK, slotVars, SlotTypeOK
<1>14. ASSUME NEW c \in Cpus, CheckStatus(c) PROVE TypeOK'
  <2>1. SrbTypeOK'
    <3>1. CASE srbStatus[op[c].own] = "pending"
      BY <1>14, <3>1 DEF CheckStatus, SrbTypeOK
    <3>2. CASE srbStatus[op[c].own] # "pending"
      <4>1. notified' = [notified EXCEPT ![op[c].own] = @ + 1] /\ UNCHANGED srbStatus
        BY <1>14, <3>2 DEF CheckStatus
      <4>2. \A s \in Srbs : notified[s] + 1 \in Nat
        BY DEF SrbTypeOK
      <4> QED
        BY <4>1, <4>2 DEF SrbTypeOK
    <3> QED
      BY <3>1, <3>2
  <2>2. CpuTypeOK'
    BY <1>14 DEF CheckStatus, Finish, Go, CpuTypeOK, cpuVars, Places, Ops, Idle, Commands, Kinds
  <2> QED
    BY <1>14, <2>1, <2>2 DEF CheckStatus, diskVars, DiskTypeOK, listVars, ListTypeOK, fragVars, FragTypeOK, slotVars, SlotTypeOK
<1>15. ASSUME NEW c \in Cpus, DrainPick(c) PROVE TypeOK'
  <2>1. FragTypeOK'
    <3>1. nextIssue' \in [Srbs -> Nat]
      <4>1. PICK s \in SrbsOf(op[c].kind) : nextIssue' = [nextIssue EXCEPT ![s] = @ + 1]
        BY <1>15 DEF DrainPick
      <4>2. s \in Srbs /\ nextIssue[s] + 1 \in Nat
        BY DEF SrbsOf, Srbs, FragTypeOK
      <4> QED
        BY <4>1, <4>2, ExceptType DEF FragTypeOK
    <3>2. payload' \in [Srbs -> Nat] /\ totalSeq' \in [Srbs -> Nat]
      BY <1>15, InitializeScannedType DEF DrainPick, CpuTypeOK, Ops
    <3> QED
      BY <1>15, <3>1, <3>2 DEF DrainPick, FragTypeOK
  <2>2. SlotTypeOK'
    <3>1. Tail(posted[op[c].kind]) \in Seq(DataSlots)
      BY <1>15 DEF DrainPick, SlotTypeOK, CpuTypeOK, Ops
    <3>2. posted' \in [Kinds -> Seq(DataSlots)]
      BY <1>15, <3>1 DEF DrainPick, SlotTypeOK
    <3>3. postedCount' \in Nat
      BY <1>15, DecrementType DEF DrainPick, SlotTypeOK
    <3> QED
      BY <1>15, <3>2, <3>3 DEF DrainPick, SlotTypeOK
  <2>3. CpuTypeOK'
    <3>1. PICK s \in SrbsOf(op[c].kind) :
            op' = [op EXCEPT ![c].srb = s, ![c].slot = Head(posted[op[c].kind]), ![c].seq = nextIssue[s]]
      BY <1>15 DEF DrainPick
    <3>2. s \in Srbs /\ nextIssue[s] \in Nat
      BY DEF SrbsOf, Srbs, FragTypeOK
    <3>3. Head(posted[op[c].kind]) \in Slots
      BY <1>15 DEF DrainPick, SlotTypeOK, CpuTypeOK, Ops, Slots
    <3>4. op[c] \in Ops
      BY DEF CpuTypeOK
    <3>5. [op[c] EXCEPT !.srb = s, !.slot = Head(posted[op[c].kind]), !.seq = nextIssue[s]] \in Ops
      BY <3>2, <3>3, <3>4 DEF Ops
    <3>6. op' \in [Cpus -> Ops]
      BY <3>1, <3>5, ExceptType DEF CpuTypeOK
    <3> QED
      BY <1>15, <3>6 DEF DrainPick, Go, CpuTypeOK, Places
  <2> QED
    BY <1>15, <2>1, <2>2, <2>3 DEF DrainPick, diskVars, DiskTypeOK, listVars, ListTypeOK, srbVars, SrbTypeOK
<1>16. ASSUME NEW c \in Cpus, DrainDone(c) PROVE TypeOK'
  <2>1. FragTypeOK'
    <3>1. payload' \in [Srbs -> Nat] /\ totalSeq' \in [Srbs -> Nat]
      BY <1>16, InitializeScannedType DEF DrainDone, CpuTypeOK, Ops
    <3> QED
      BY <1>16, <3>1 DEF DrainDone, FragTypeOK
  <2>2. CpuTypeOK'
    BY <1>16 DEF DrainDone, InitializeScanned, Finish, Go, CpuTypeOK, cpuVars, Places, Ops, Idle, Commands, Kinds
  <2> QED
    BY <1>16, <2>1, <2>2 DEF DrainDone, diskVars, DiskTypeOK, listVars, ListTypeOK, srbVars, SrbTypeOK, slotVars, SlotTypeOK
<1>17. ASSUME NEW c \in Cpus, Publish(c) PROVE TypeOK'
  <2>1. SlotTypeOK'
    <3>1. op[c].srb \in Srbs /\ op[c].slot \in Slots /\ op[c].seq \in Nat
      BY <1>17 DEF Publish, LocalsOK, CpuTypeOK, Ops, Slots
    <3>2. PICK s \in ReadAs(op[c].srb) :
            delivered' = IF SlotCanCarry(op[c].slot, s, op[c].seq)
                           THEN delivered \cup {[srb |-> s, ev |-> eventId[s], seq |-> op[c].seq]}
                           ELSE delivered
      BY <1>17 DEF Publish
    <3>3. s \in Srbs /\ eventId[s] \in Nat
      BY <3>1 DEF ReadAs, SrbsOf, Srbs, FragTypeOK
    <3>4. delivered' \subseteq [srb : Srbs, ev : Nat, seq : Nat]
      BY <3>1, <3>2, <3>3 DEF SlotTypeOK
    <3> QED
      BY <1>17, <3>1, <3>4 DEF Publish, SlotTypeOK
  <2>2. CpuTypeOK'
    <3>1. op' = [op EXCEPT ![c] = [@ EXCEPT !.srb = None, !.slot = None, !.seq = 0]]
      BY <1>17 DEF Publish
    <3>2. op[c] \in Ops
      BY DEF CpuTypeOK
    <3>3. [op[c] EXCEPT !.srb = None, !.slot = None, !.seq = 0] \in Ops
      BY <3>2 DEF Ops
    <3> QED
      BY <1>17, <3>1, <3>3, ExceptType DEF Publish, Go, CpuTypeOK, Places
  <2> QED
    BY <1>17, <2>1, <2>2 DEF Publish, diskVars, DiskTypeOK, listVars, ListTypeOK, fragVars, FragTypeOK, srbVars, SrbTypeOK
<1>18. ASSUME NEW c \in Cpus, PostSlot(c) PROVE TypeOK'
  <2>1. SlotTypeOK'
    <3>1. op[c].kind \in Kinds /\ op[c].slot \in DataSlots /\ posted[op[c].kind] \in Seq(DataSlots)
      BY <1>18 DEF PostSlot, LocalsOK, SlotsOf, DataSlots, CpuTypeOK, Ops, SlotTypeOK
    <3>2. op[c].kind # "read" => DiskComputeWritePayloadBytes(Capacity[op[c].slot]) \in Nat
      BY <1>18, <3>1, PayloadBytesType, ConstantsAssumption DEF PostSlot, LocalsOK, SlotsOf, Kinds
    <3>3. posted' \in [Kinds -> Seq(DataSlots)]
      <4>1. Append(posted[op[c].kind], op[c].slot) \in Seq(DataSlots)
        BY <3>1
      <4> QED
        BY <1>18, <4>1, ExceptType DEF PostSlot, SlotTypeOK
    <3>4. shape' \in Nat /\ postedCount' \in Nat
      BY <1>18, <3>2 DEF PostSlot, SlotTypeOK
    <3>5. withApp' \subseteq Slots
      BY <1>18, <3>1 DEF PostSlot, SlotTypeOK, Slots
    <3> QED
      BY <1>18, <3>3, <3>4, <3>5 DEF PostSlot, SlotTypeOK
  <2>2. CpuTypeOK'
    <3>1. \E r \in Ops : op' = [op EXCEPT ![c] = r]
      BY <1>18, IdleType DEF PostSlot, Finish, CpuTypeOK, Ops
    <3> QED
      BY <1>18, <3>1 DEF PostSlot, Finish, Go, CpuTypeOK, Places
  <2> QED
    BY <1>18, <2>1, <2>2 DEF PostSlot, diskVars, DiskTypeOK, listVars, ListTypeOK, fragVars, FragTypeOK, srbVars, SrbTypeOK
<1>19. ASSUME NEW c \in Cpus, PostEventSlot(c) PROVE TypeOK'
  <2>1. SlotTypeOK'
    BY <1>19 DEF PostEventSlot, LocalsOK, SlotTypeOK, Slots
  <2>2. CpuTypeOK'
    BY <1>19 DEF PostEventSlot, Finish, Go, CpuTypeOK, cpuVars, Places, Ops, Idle, Commands, Kinds
  <2> QED
    BY <1>19, <2>1, <2>2 DEF PostEventSlot, diskVars, DiskTypeOK, listVars, ListTypeOK, fragVars, FragTypeOK, srbVars, SrbTypeOK
<1>20. ASSUME NEW c \in Cpus, FinishBatch(c) PROVE TypeOK'
  <2>1. ListTypeOK'
    BY <1>20 DEF FinishBatch, CompleteHeld, Finish, Go, ListTypeOK, listVars, Phases
  <2>2. SrbTypeOK'
    BY <1>20 DEF FinishBatch, CompleteHeld, Finish, Go, SrbTypeOK, srbVars
  <2>3. CpuTypeOK'
    BY <1>20 DEF FinishBatch, CompleteHeld, Finish, Go, CpuTypeOK, cpuVars, Places, Ops, Idle, Commands, Kinds
  <2> QED
    BY <1>20, <2>1, <2>2, <2>3 DEF FinishBatch, diskVars, DiskTypeOK, fragVars, FragTypeOK, slotVars, SlotTypeOK
<1>21. ASSUME NEW c \in Cpus, TakeReads(c) PROVE TypeOK'
  <2>1. ListTypeOK'
    BY <1>21 DEF TakeReads, TakePending, Go, ListTypeOK, listVars, Phases
  <2>2. FragTypeOK'
    BY <1>21 DEF TakeReads, TakePending, Go, FragTypeOK, fragVars
  <2>3. SlotTypeOK'
    BY <1>21 DEF TakeReads, TakePending, Go, SlotTypeOK, slotVars, Kinds, Slots
  <2>4. CpuTypeOK'
    <3>1. ToSet(posted["read"]) \subseteq Slots
      BY DEF SlotTypeOK, Kinds, Slots, ToSet
    <3>2. takenSlots' \in [Cpus -> SUBSET Slots]
      BY <1>21, <3>1 DEF TakeReads, TakePending, CpuTypeOK
    <3> QED
      BY <1>21, <3>2 DEF TakeReads, Go, CpuTypeOK, Places
  <2> QED
    BY <1>21, <2>1, <2>2, <2>3, <2>4 DEF TakeReads, diskVars, DiskTypeOK, srbVars, SrbTypeOK
<1>22. ASSUME NEW c \in Cpus, TakeWrites(c) PROVE TypeOK'
  <2>1. ListTypeOK'
    BY <1>22 DEF TakeWrites, TakePending, Go, ListTypeOK, listVars, Phases
  <2>2. FragTypeOK'
    BY <1>22 DEF TakeWrites, TakePending, Go, FragTypeOK, fragVars
  <2>3. SlotTypeOK'
    BY <1>22 DEF TakeWrites, TakePending, Go, SlotTypeOK, slotVars, Kinds, Slots
  <2>4. CpuTypeOK'
    <3>1. ToSet(posted["write"]) \subseteq Slots
      BY DEF SlotTypeOK, Kinds, Slots, ToSet
    <3>2. takenSlots' \in [Cpus -> SUBSET Slots]
      BY <1>22, <3>1 DEF TakeWrites, TakePending, CpuTypeOK
    <3> QED
      BY <1>22, <3>2 DEF TakeWrites, Go, CpuTypeOK, Places
  <2> QED
    BY <1>22, <2>1, <2>2, <2>3, <2>4 DEF TakeWrites, diskVars, DiskTypeOK, srbVars, SrbTypeOK
<1>23. ASSUME NEW c \in Cpus, CompleteTaken(c) PROVE TypeOK'
  <2>1. ListTypeOK'
    BY <1>23 DEF CompleteTaken, CompleteHeld, Go, ListTypeOK, listVars, Phases
  <2>2. SrbTypeOK'
    BY <1>23 DEF CompleteTaken, CompleteHeld, Go, SrbTypeOK, srbVars
  <2>3. SlotTypeOK'
    BY <1>23 DEF CompleteTaken, SlotTypeOK, CpuTypeOK
  <2>4. CpuTypeOK'
    BY <1>23 DEF CompleteTaken, CompleteHeld, Go, CpuTypeOK, cpuVars, Places, Ops, Idle, Commands, Kinds
  <2> QED
    BY <1>23, <2>1, <2>2, <2>3, <2>4 DEF CompleteTaken, diskVars, DiskTypeOK, fragVars, FragTypeOK
<1>24. ASSUME NEW c \in Cpus, CompleteEvent(c) PROVE TypeOK'
  <2>1. SlotTypeOK'
    BY <1>24 DEF CompleteEvent, DetachedEventSlot, Finish, Go, SlotTypeOK, slotVars, Kinds, Slots
  <2>2. CpuTypeOK'
    BY <1>24 DEF CompleteEvent, DetachedEventSlot, Finish, Go, CpuTypeOK, cpuVars, Places, Ops, Idle, Commands, Kinds
  <2> QED
    BY <1>24, <2>1, <2>2 DEF CompleteEvent, diskVars, DiskTypeOK, listVars, ListTypeOK, fragVars, FragTypeOK, srbVars, SrbTypeOK
<1>25. ASSUME NEW c \in Cpus, FreeLists(c) PROVE TypeOK'
  <2>1. ListTypeOK'
    BY <1>25 DEF FreeLists, Go, ListTypeOK, listVars, Phases
  <2>2. SlotTypeOK'
    BY <1>25 DEF FreeLists, Go, SlotTypeOK, slotVars, Kinds, Slots
  <2>3. CpuTypeOK'
    BY <1>25 DEF FreeLists, Go, CpuTypeOK, cpuVars, Places, Ops, Idle, Commands, Kinds
  <2> QED
    BY <1>25, <2>1, <2>2, <2>3 DEF FreeLists, diskVars, DiskTypeOK, fragVars, FragTypeOK, srbVars, SrbTypeOK
<1>26. ASSUME NEW c \in Cpus, FreeCounts(c) PROVE TypeOK'
  <2>1. SlotTypeOK'
    BY <1>26 DEF FreeCounts, Finish, Go, SlotTypeOK, slotVars, Kinds, Slots
  <2>2. CpuTypeOK'
    BY <1>26 DEF FreeCounts, Finish, Go, CpuTypeOK, cpuVars, Places, Ops, Idle, Commands, Kinds
  <2> QED
    BY <1>26, <2>1, <2>2 DEF FreeCounts, diskVars, DiskTypeOK, listVars, ListTypeOK, fragVars, FragTypeOK, srbVars, SrbTypeOK
<1>27. ASSUME NEW c \in Cpus, CloseSession(c) PROVE TypeOK'
  <2>1. DiskTypeOK'
    BY <1>27 DEF CloseSession, Finish, Go, DiskTypeOK, diskVars
  <2>2. SlotTypeOK'
    BY <1>27 DEF CloseSession, Finish, Go, SlotTypeOK, slotVars, Kinds, Slots
  <2>3. CpuTypeOK'
    BY <1>27 DEF CloseSession, Finish, Go, CpuTypeOK, cpuVars, Places, Ops, Idle, Commands, Kinds
  <2> QED
    BY <1>27, <2>1, <2>2, <2>3 DEF CloseSession, listVars, ListTypeOK, fragVars, FragTypeOK, srbVars, SrbTypeOK
<1> QED
  BY <1>1, <1>2, <1>3, <1>4, <1>5, <1>6, <1>7, <1>8, <1>9, <1>10, <1>11, <1>12, <1>13, <1>14, <1>15, <1>16, <1>17, <1>18, <1>19, <1>20, <1>21, <1>22, <1>23, <1>24, <1>25, <1>26, <1>27
     DEF Next, Windows, App, Control, Continue

\* Every step keeps the locals of every processor well-formed.
LEMMA LocalsStep ==
    TypeOK /\ LocalsOK /\ [Next]_vars => LocalsOK'
<1> SUFFICES ASSUME TypeOK, LocalsOK, [Next]_vars PROVE LocalsOK'
  OBVIOUS
<1> USE DEF TypeOK, CpuTypeOK, LocalsOK, Ops
<1>1. CASE UNCHANGED vars
  BY <1>1 DEF vars, cpuVars
<1>2. CASE OpenSession
  BY <1>2 DEF OpenSession, cpuVars
<1>3. ASSUME NEW c \in Cpus, NEW s \in Srbs, QueueSrb(c, s) PROVE LocalsOK'
  BY <1>3 DEF QueueSrb, CompleteSrbs, Go, KindOf, cpuVars, Idle
<1>4. ASSUME NEW c \in Cpus, NEW slot \in DataSlots, SubmitSlot(c, slot) PROVE LocalsOK'
  <2>1. slot \in SlotsOf(KindOf(slot))
    BY ConstantsAssumption DEF SlotsOf, KindOf, DataSlots
  <2>2. op'[c].slot = slot /\ op'[c].kind = KindOf(slot) /\ pc'[c] = "post"
    BY <1>4 DEF SubmitSlot, Go, Idle
  <2>3. \A d \in Cpus \ {c} : op'[d] = op[d] /\ pc'[d] = pc[d]
    BY <1>4 DEF SubmitSlot, Go
  <2> QED
    BY <2>1, <2>2, <2>3 DEF SlotsOf
<1>5. ASSUME NEW c \in Cpus, NEW slot \in EventSlots, SubmitEventSlot(c, slot) PROVE LocalsOK'
  BY <1>5 DEF SubmitEventSlot, Go, cpuVars, Idle
<1>6. ASSUME NEW c \in Cpus, NEW ev \in EventIds, NEW ok \in BOOLEAN, ReadAck(c, ev, ok) PROVE LocalsOK'
  BY <1>6 DEF ReadAck, CompleteSrbs, cpuVars, Idle
<1>7. ASSUME NEW c \in Cpus, NEW ev \in EventIds, NEW base \in Seqs, NEW count \in Seqs \ {0}, NEW ok \in BOOLEAN,
              AckRange(c, ev, base, count, ok) PROVE LocalsOK'
  BY <1>7 DEF AckRange, ApplyRange, Go, cpuVars, Idle
<1>8. ASSUME NEW c \in Cpus, CreateDisk(c) PROVE LocalsOK'
  BY <1>8 DEF CreateDisk, cpuVars, Idle
<1>9. ASSUME NEW c \in Cpus, NEW slot \in DataSlots, CancelSlot(c, slot) PROVE LocalsOK'
  BY <1>9 DEF CancelSlot, cpuVars, Idle
<1>10. ASSUME NEW c \in Cpus, NEW cmd \in Controls \ {"create", "cancel"}, BeginTakeAll(c, cmd) PROVE LocalsOK'
  BY <1>10 DEF BeginTakeAll, Go, cpuVars, Idle
<1>11. ASSUME NEW c \in Cpus, AllocRequest(c) PROVE LocalsOK'
  BY <1>11 DEF AllocRequest, CompleteSrbs, Finish, Go, cpuVars, Idle
<1>12. ASSUME NEW c \in Cpus, InsertRequest(c) PROVE LocalsOK'
  BY <1>12 DEF InsertRequest, Go, cpuVars, Idle
<1>13. ASSUME NEW c \in Cpus, SetPending(c) PROVE LocalsOK'
  BY <1>13 DEF SetPending, StatusOfQueued, Go, cpuVars, Idle
<1>14. ASSUME NEW c \in Cpus, CheckStatus(c) PROVE LocalsOK'
  BY <1>14 DEF CheckStatus, Finish, Go, cpuVars, Idle
<1>15. ASSUME NEW c \in Cpus, DrainPick(c) PROVE LocalsOK'
  BY <1>15 DEF DrainPick, InitializeScanned, Go, cpuVars, Idle, SlotTypeOK, SrbsOf, Srbs
<1>16. ASSUME NEW c \in Cpus, DrainDone(c) PROVE LocalsOK'
  BY <1>16 DEF DrainDone, InitializeScanned, Finish, Go, cpuVars, Idle
<1>17. ASSUME NEW c \in Cpus, Publish(c) PROVE LocalsOK'
  BY <1>17 DEF Publish, ReadAs, Go, cpuVars, Idle
<1>18. ASSUME NEW c \in Cpus, PostSlot(c) PROVE LocalsOK'
  BY <1>18 DEF PostSlot, Finish, Go, cpuVars, Idle
<1>19. ASSUME NEW c \in Cpus, PostEventSlot(c) PROVE LocalsOK'
  BY <1>19 DEF PostEventSlot, Finish, Go, cpuVars, Idle
<1>20. ASSUME NEW c \in Cpus, FinishBatch(c) PROVE LocalsOK'
  BY <1>20 DEF FinishBatch, CompleteHeld, Finish, Go, cpuVars, Idle
<1>21. ASSUME NEW c \in Cpus, TakeReads(c) PROVE LocalsOK'
  BY <1>21 DEF TakeReads, TakePending, Go, cpuVars, Idle
<1>22. ASSUME NEW c \in Cpus, TakeWrites(c) PROVE LocalsOK'
  BY <1>22 DEF TakeWrites, TakePending, Go, cpuVars, Idle
<1>23. ASSUME NEW c \in Cpus, CompleteTaken(c) PROVE LocalsOK'
  BY <1>23 DEF CompleteTaken, CompleteHeld, Go, cpuVars, Idle
<1>24. ASSUME NEW c \in Cpus, CompleteEvent(c) PROVE LocalsOK'
  BY <1>24 DEF CompleteEvent, DetachedEventSlot, Finish, Go, cpuVars, Idle
<1>25. ASSUME NEW c \in Cpus, FreeLists(c) PROVE LocalsOK'
  BY <1>25 DEF FreeLists, Go, cpuVars, Idle
<1>26. ASSUME NEW c \in Cpus, FreeCounts(c) PROVE LocalsOK'
  BY <1>26 DEF FreeCounts, Finish, Go, cpuVars, Idle
<1>27. ASSUME NEW c \in Cpus, CloseSession(c) PROVE LocalsOK'
  BY <1>27 DEF CloseSession, Finish, Go, cpuVars, Idle
<1> QED
  BY <1>1, <1>2, <1>3, <1>4, <1>5, <1>6, <1>7, <1>8, <1>9, <1>10, <1>11, <1>12, <1>13, <1>14, <1>15, <1>16, <1>17, <1>18, <1>19, <1>20, <1>21, <1>22, <1>23, <1>24, <1>25, <1>26, <1>27
     DEF Next, Windows, App, Control, Continue

\* Every step keeps the requests that are not queued yet apart.
LEMMA FreshStep ==
    TypeOK /\ FreshOK /\ [Next]_vars => FreshOK'
<1> SUFFICES ASSUME TypeOK, FreshOK, [Next]_vars PROVE FreshOK'
  OBVIOUS
<1> USE DEF TypeOK, ListTypeOK, CpuTypeOK, FreshOK
<1>1. CASE UNCHANGED vars
  BY <1>1 DEF vars, listVars, cpuVars
<1>2. CASE OpenSession
  BY <1>2 DEF OpenSession, listVars, cpuVars
<1>3. ASSUME NEW c \in Cpus, NEW s \in Srbs, QueueSrb(c, s) PROVE FreshOK'
  <2>1. CASE present
    <3>1. /\ pc'[c] = "alloc" /\ op'[c].own = s /\ phase' = [phase EXCEPT ![s] = "checked"]
          /\ \A d \in Cpus \ {c} : op'[d] = op[d] /\ pc'[d] = pc[d]
      <4>1. /\ pc' = [pc EXCEPT ![c] = "alloc"] /\ phase' = [phase EXCEPT ![s] = "checked"]
            /\ op' = [op EXCEPT ![c] = [Idle EXCEPT !.own = s, !.kind = KindOf(s)]]
        BY <1>3, <2>1 DEF QueueSrb, Go
      <4>2. [Idle EXCEPT !.own = s, !.kind = KindOf(s)].own = s
        BY DEF Idle
      <4> QED
        BY <4>1, <4>2
    <3>2. phase[s] = "idle" /\ UNCHANGED ticket
      BY <1>3 DEF QueueSrb
    <3>3. \A d \in Cpus \ {c} : pc[d] \in {"alloc", "insert"} => op[d].own # s
      BY <3>2
    <3> QED
      BY <3>1, <3>2, <3>3
  <2>2. CASE ~present
    <3>1. phase' = [phase EXCEPT ![s] = "done"] /\ phase[s] = "idle" /\ UNCHANGED <<ticket, pc, op>>
      BY <1>3, <2>2 DEF QueueSrb, CompleteSrbs
    <3> QED
      BY <3>1
  <2> QED
    BY <2>1, <2>2
<1>4. ASSUME NEW c \in Cpus, NEW slot \in DataSlots, SubmitSlot(c, slot) PROVE FreshOK'
  BY <1>4 DEF SubmitSlot, Go, KindOf, listVars, cpuVars, Idle
<1>5. ASSUME NEW c \in Cpus, NEW slot \in EventSlots, SubmitEventSlot(c, slot) PROVE FreshOK'
  BY <1>5 DEF SubmitEventSlot, Go, listVars, cpuVars, Idle
<1>6. ASSUME NEW c \in Cpus, NEW ev \in EventIds, NEW ok \in BOOLEAN, ReadAck(c, ev, ok) PROVE FreshOK'
  BY <1>6 DEF ReadAck, CompleteSrbs, listVars, cpuVars, Idle, FoundByEventId, Pending
<1>7. ASSUME NEW c \in Cpus, NEW ev \in EventIds, NEW base \in Seqs, NEW count \in Seqs \ {0}, NEW ok \in BOOLEAN,
              AckRange(c, ev, base, count, ok) PROVE FreshOK'
  BY <1>7 DEF AckRange, ApplyRange, Go, listVars, cpuVars, Idle, FoundByEventId, Pending
<1>8. ASSUME NEW c \in Cpus, CreateDisk(c) PROVE FreshOK'
  BY <1>8 DEF CreateDisk, listVars, cpuVars, Idle
<1>9. ASSUME NEW c \in Cpus, NEW slot \in DataSlots, CancelSlot(c, slot) PROVE FreshOK'
  BY <1>9 DEF CancelSlot, listVars, cpuVars, Idle
<1>10. ASSUME NEW c \in Cpus, NEW cmd \in Controls \ {"create", "cancel"}, BeginTakeAll(c, cmd) PROVE FreshOK'
  BY <1>10 DEF BeginTakeAll, Go, listVars, cpuVars, Idle
<1>11. ASSUME NEW c \in Cpus, AllocRequest(c) PROVE FreshOK'
  BY <1>11 DEF AllocRequest, CompleteSrbs, Finish, Go, listVars, cpuVars, Idle
<1>12. ASSUME NEW c \in Cpus, InsertRequest(c) PROVE FreshOK'
  BY <1>12 DEF InsertRequest, Go, listVars, cpuVars, Idle
<1>13. ASSUME NEW c \in Cpus, SetPending(c) PROVE FreshOK'
  BY <1>13 DEF SetPending, StatusOfQueued, Go, listVars, cpuVars, Idle
<1>14. ASSUME NEW c \in Cpus, CheckStatus(c) PROVE FreshOK'
  BY <1>14 DEF CheckStatus, Finish, Go, listVars, cpuVars, Idle
<1>15. ASSUME NEW c \in Cpus, DrainPick(c) PROVE FreshOK'
  <2>1. /\ pc'[c] \notin {"alloc", "insert"}
        /\ \A d \in Cpus \ {c} : op'[d] = op[d] /\ pc'[d] = pc[d]
    BY <1>15 DEF DrainPick, Go
  <2>2. UNCHANGED <<phase, ticket>>
    BY <1>15 DEF DrainPick, listVars
  <2> QED
    BY <2>1, <2>2
<1>16. ASSUME NEW c \in Cpus, DrainDone(c) PROVE FreshOK'
  BY <1>16 DEF DrainDone, InitializeScanned, Finish, Go, listVars, cpuVars, Idle
<1>17. ASSUME NEW c \in Cpus, Publish(c) PROVE FreshOK'
  BY <1>17 DEF Publish, ReadAs, Go, listVars, cpuVars, Idle
<1>18. ASSUME NEW c \in Cpus, PostSlot(c) PROVE FreshOK'
  <2>1. pc'[c] \notin {"alloc", "insert"} /\ \A d \in Cpus \ {c} : op'[d] = op[d] /\ pc'[d] = pc[d]
    BY <1>18 DEF PostSlot, Finish, Go
  <2>2. UNCHANGED <<phase, ticket>>
    BY <1>18 DEF PostSlot, listVars
  <2> QED
    BY <2>1, <2>2
<1>19. ASSUME NEW c \in Cpus, PostEventSlot(c) PROVE FreshOK'
  BY <1>19 DEF PostEventSlot, Finish, Go, listVars, cpuVars, Idle
<1>20. ASSUME NEW c \in Cpus, FinishBatch(c) PROVE FreshOK'
  BY <1>20 DEF FinishBatch, CompleteHeld, Finish, Go, listVars, cpuVars, Idle, HeldBy
<1>21. ASSUME NEW c \in Cpus, TakeReads(c) PROVE FreshOK'
  BY <1>21 DEF TakeReads, TakePending, Go, listVars, cpuVars, Idle, Pending
<1>22. ASSUME NEW c \in Cpus, TakeWrites(c) PROVE FreshOK'
  BY <1>22 DEF TakeWrites, TakePending, Go, listVars, cpuVars, Idle, Pending
<1>23. ASSUME NEW c \in Cpus, CompleteTaken(c) PROVE FreshOK'
  BY <1>23 DEF CompleteTaken, CompleteHeld, Go, listVars, cpuVars, Idle, HeldBy
<1>24. ASSUME NEW c \in Cpus, CompleteEvent(c) PROVE FreshOK'
  BY <1>24 DEF CompleteEvent, DetachedEventSlot, Finish, Go, listVars, cpuVars, Idle
<1>25. ASSUME NEW c \in Cpus, FreeLists(c) PROVE FreshOK'
  BY <1>25 DEF FreeLists, Go, listVars, cpuVars, Idle
<1>26. ASSUME NEW c \in Cpus, FreeCounts(c) PROVE FreshOK'
  BY <1>26 DEF FreeCounts, Finish, Go, listVars, cpuVars, Idle
<1>27. ASSUME NEW c \in Cpus, CloseSession(c) PROVE FreshOK'
  BY <1>27 DEF CloseSession, Finish, Go, listVars, cpuVars, Idle
<1> QED
  BY SMTT(100), <1>1, <1>2, <1>3, <1>4, <1>5, <1>6, <1>7, <1>8, <1>9, <1>10, <1>11, <1>12, <1>13, <1>14, <1>15, <1>16, <1>17, <1>18, <1>19, <1>20, <1>21, <1>22, <1>23, <1>24, <1>25, <1>26, <1>27
     DEF Next, Windows, App, Control, Continue

\* What DiskInitializeWriteRequestLocked leaves behind in a shaped write.
LEMMA ShapedBounds ==
    ASSUME TypeOK, FragmentsOK, NEW w \in Writes, Shaped(w)
    PROVE  LET bytes == IF payload[w] = 0 THEN shape ELSE payload[w] IN
           /\ bytes # 0 /\ Fragments(w) \in Nat /\ nextIssue[w] <= Fragments(w)
           /\ Fragments(w) * bytes >= Bytes[w]
<1>1. w \in Srbs /\ w \notin Reads
  BY ConstantsAssumption DEF Srbs
<1>2. CASE payload[w] = 0
  BY <1>1, <1>2, ShapedFragments DEF FragmentsOK
<1>3. CASE payload[w] # 0
  BY <1>1, <1>3, ShapedFragments DEF FragmentsOK, Fragments
<1> QED
  BY <1>2, <1>3

\* The scan of the pending writes gives each write it visits its fragments.
LEMMA ScanBounds ==
    ASSUME TypeOK, FragmentsOK, InitializeScanned("write"), NEW w \in Writes
    PROVE  IF Scanned(w)
             THEN /\ payload'[w] # 0 /\ totalSeq'[w] = Fragments(w)
                  /\ totalSeq'[w] * payload'[w] >= Bytes[w] /\ nextIssue[w] <= totalSeq'[w]
             ELSE payload'[w] = payload[w] /\ totalSeq'[w] = totalSeq[w]
<1>1. w \in Srbs
  BY DEF Srbs
<1>2. CASE Scanned(w)
  <2>1. payload'[w] = (IF payload[w] = 0 THEN shape ELSE payload[w]) /\ totalSeq'[w] = Fragments(w)
    BY <1>1, <1>2 DEF InitializeScanned
  <2> QED
    BY <1>2, <2>1, ShapedBounds DEF Scanned
<1>3. CASE ~Scanned(w)
  BY <1>1, <1>3 DEF InitializeScanned
<1> QED
  BY <1>2, <1>3

\* The fragments issued so far are finite in number.
LEMMA IssuedFinite == \A n \in Nat : IsFiniteSet(0 .. (n - 1))
BY FS_Interval

\* New acknowledgements of a range add up in the bitmap.
LEMMA AckedCardinality ==
    ASSUME NEW bits, IsFiniteSet(bits), NEW base \in Nat, NEW count \in Nat,
           RangeSeqs(base, count) \cap bits = {}
    PROVE  Cardinality(bits \cup RangeSeqs(base, count)) = Cardinality(bits) + count
<1>1. IsFiniteSet(RangeSeqs(base, count)) /\ Cardinality(RangeSeqs(base, count)) = count
  BY FS_Interval DEF RangeSeqs
<1>2. Cardinality(bits \cap RangeSeqs(base, count)) = 0
  BY FS_EmptySet
<1>3. Cardinality(bits) \in Nat
  BY FS_CardinalityType
<1>4. Cardinality(bits \cup RangeSeqs(base, count))
        = Cardinality(bits) + Cardinality(RangeSeqs(base, count)) - Cardinality(bits \cap RangeSeqs(base, count))
  BY <1>1, FS_Union
<1> QED
  BY <1>1, <1>2, <1>3, <1>4

\* Every step keeps the counters of every write in agreement with its bitmap.
LEMMA FragmentsStep ==
    TypeOK /\ FragmentsOK /\ [Next]_vars => FragmentsOK'
<1> SUFFICES ASSUME TypeOK, FragmentsOK, [Next]_vars PROVE FragmentsOK'
  OBVIOUS
<1> USE DEF FragmentsOK
<1>1. CASE UNCHANGED vars
  BY <1>1 DEF vars, fragVars
<1>2. CASE OpenSession
  BY <1>2 DEF OpenSession, fragVars
<1>3. ASSUME NEW c \in Cpus, NEW s \in Srbs, QueueSrb(c, s) PROVE FragmentsOK'
  BY <1>3 DEF QueueSrb, CompleteSrbs, Go, KindOf, fragVars
<1>4. ASSUME NEW c \in Cpus, NEW slot \in DataSlots, SubmitSlot(c, slot) PROVE FragmentsOK'
  BY <1>4 DEF SubmitSlot, Go, KindOf, fragVars
<1>5. ASSUME NEW c \in Cpus, NEW slot \in EventSlots, SubmitEventSlot(c, slot) PROVE FragmentsOK'
  BY <1>5 DEF SubmitEventSlot, Go, fragVars
<1>6. ASSUME NEW c \in Cpus, NEW ev \in EventIds, NEW ok \in BOOLEAN, ReadAck(c, ev, ok) PROVE FragmentsOK'
  BY <1>6 DEF ReadAck, CompleteSrbs, fragVars
<1>7. ASSUME NEW c \in Cpus, NEW ev \in EventIds, NEW base \in Seqs, NEW count \in Seqs \ {0}, NEW ok \in BOOLEAN,
              AckRange(c, ev, base, count, ok) PROVE FragmentsOK'
  <2>0. PICK w \in Writes :
        IF RangeValid(w, base, count) THEN ApplyRange(c, w, base, count, ok)
        ELSE /\ Shaped(w)
             /\ payload' = [payload EXCEPT ![w] = IF @ = 0 THEN shape ELSE @]
             /\ totalSeq' = [totalSeq EXCEPT ![w] = Fragments(w)]
             /\ UNCHANGED <<ackedBits, ackedCount>>
    BY <1>7 DEF AckRange
  <2>1. UNCHANGED nextIssue
    BY <1>7 DEF AckRange
  <2>2. /\ Shaped(w)
        /\ payload' = [payload EXCEPT ![w] = IF @ = 0 THEN shape ELSE @]
        /\ totalSeq' = [totalSeq EXCEPT ![w] = Fragments(w)]
    BY <2>0 DEF ApplyRange, RangeValid
  <2>3. w \in Srbs /\ nextIssue[w] \in Nat
    BY DEF TypeOK, FragTypeOK, Srbs
  <2>4. /\ payload'[w] # 0 /\ nextIssue[w] <= totalSeq'[w]
        /\ totalSeq'[w] * payload'[w] >= Bytes[w]
    BY <2>2, <2>3, ShapedBounds DEF TypeOK, FragTypeOK
  <2>5. /\ ackedBits'[w] \subseteq 0 .. (nextIssue[w] - 1)
        /\ ackedCount'[w] = Cardinality(ackedBits'[w])
    <3>1. CASE RangeValid(w, base, count)
      <4>1. base \in Nat /\ count \in Nat \ {0}
        BY SeqsType
      <4>2. /\ ackedBits'[w] = ackedBits[w] \cup RangeSeqs(base, count)
            /\ ackedCount'[w] = ackedCount[w] + count
        BY <3>1, <2>0, <2>3 DEF ApplyRange, TypeOK, FragTypeOK
      <4>3. /\ base + count <= nextIssue[w] /\ RangeSeqs(base, count) \cap ackedBits[w] = {}
            /\ ackedBits[w] \subseteq 0 .. (nextIssue[w] - 1)
            /\ ackedCount[w] = Cardinality(ackedBits[w])
        BY <3>1 DEF RangeValid
      <4>4. ackedBits[w] \cup RangeSeqs(base, count) \subseteq 0 .. (nextIssue[w] - 1)
        BY <2>3, <4>1, <4>3 DEF RangeSeqs
      <4>5. IsFiniteSet(ackedBits[w])
        BY <2>3, <4>3, IssuedFinite, FS_Subset
      <4>6. Cardinality(ackedBits[w] \cup RangeSeqs(base, count))
              = Cardinality(ackedBits[w]) + count
        BY <4>1, <4>3, <4>5, AckedCardinality
      <4> QED
        BY <4>2, <4>3, <4>4, <4>6
    <3>2. CASE ~RangeValid(w, base, count)
      BY <2>0, <3>2
    <3> QED
      BY <3>1, <3>2
  <2>6. \A v \in Writes \ {w} :
          /\ payload'[v] = payload[v] /\ totalSeq'[v] = totalSeq[v]
          /\ ackedBits'[v] = ackedBits[v] /\ ackedCount'[v] = ackedCount[v]
    BY <2>0, <2>2 DEF ApplyRange, TypeOK, FragTypeOK, Srbs
  <2> QED
    BY <2>1, <2>4, <2>5, <2>6
<1>8. ASSUME NEW c \in Cpus, CreateDisk(c) PROVE FragmentsOK'
  BY <1>8 DEF CreateDisk, fragVars
<1>9. ASSUME NEW c \in Cpus, NEW slot \in DataSlots, CancelSlot(c, slot) PROVE FragmentsOK'
  BY <1>9 DEF CancelSlot, fragVars
<1>10. ASSUME NEW c \in Cpus, NEW cmd \in Controls \ {"create", "cancel"}, BeginTakeAll(c, cmd) PROVE FragmentsOK'
  BY <1>10 DEF BeginTakeAll, Go, fragVars
<1>11. ASSUME NEW c \in Cpus, AllocRequest(c) PROVE FragmentsOK'
  BY <1>11 DEF AllocRequest, CompleteSrbs, Finish, Go, fragVars
<1>12. ASSUME NEW c \in Cpus, InsertRequest(c) PROVE FragmentsOK'
  BY <1>12 DEF InsertRequest, Go, fragVars
<1>13. ASSUME NEW c \in Cpus, SetPending(c) PROVE FragmentsOK'
  BY <1>13 DEF SetPending, StatusOfQueued, Go, fragVars
<1>14. ASSUME NEW c \in Cpus, CheckStatus(c) PROVE FragmentsOK'
  BY <1>14 DEF CheckStatus, Finish, Go, fragVars
<1>15. ASSUME NEW c \in Cpus, DrainPick(c) PROVE FragmentsOK'
  <2>1. PICK s \in SrbsOf(op[c].kind) :
          IsNextToIssue(op[c].kind, s) /\ nextIssue' = [nextIssue EXCEPT ![s] = @ + 1]
    BY <1>15 DEF DrainPick
  <2>2. UNCHANGED <<ackedBits, ackedCount>> /\ InitializeScanned(op[c].kind)
    BY <1>15 DEF DrainPick
  <2>3. s \in Srbs /\ nextIssue \in [Srbs -> Nat] /\ totalSeq' \in [Srbs -> Nat]
    BY <2>2, InitializeScannedType DEF SrbsOf, Srbs, TypeOK, FragTypeOK, CpuTypeOK, Ops
  <2>4. CASE op[c].kind = "read"
    <3>1. \A w \in Writes : nextIssue'[w] = nextIssue[w]
      BY <2>1, <2>3, <2>4, ConstantsAssumption DEF SrbsOf, Srbs
    <3> QED
      BY <2>2, <2>4, <3>1 DEF InitializeScanned
  <2>5. CASE op[c].kind = "write"
    <3> SUFFICES ASSUME NEW w \in Writes
                 PROVE  /\ ackedBits'[w] \subseteq 0 .. (nextIssue'[w] - 1)
                        /\ ackedCount'[w] = Cardinality(ackedBits'[w])
                        /\ payload'[w] # 0 => /\ nextIssue'[w] <= totalSeq'[w]
                                             /\ totalSeq'[w] * payload'[w] >= Bytes[w]
                        /\ payload'[w] = 0 => nextIssue'[w] = 0
      OBVIOUS
    <3>1. w \in Srbs /\ nextIssue[w] \in Nat /\ nextIssue'[w] = IF w = s THEN nextIssue[w] + 1 ELSE nextIssue[w]
      BY <2>1, <2>3 DEF Srbs
    <3>2. CASE w = s
      <4>1. Scanned(w) /\ nextIssue[w] < Fragments(w)
        BY <2>1, <2>5, <3>2 DEF IsNextToIssue, Issuable, Scanned, SrbsOf
      <4>2. /\ payload'[w] # 0 /\ totalSeq'[w] = Fragments(w)
            /\ totalSeq'[w] * payload'[w] >= Bytes[w]
        BY <2>2, <2>5, <4>1, ScanBounds
      <4> QED
        BY <2>2, <2>3, <3>1, <3>2, <4>1, <4>2
    <3>3. CASE w # s
      BY <2>2, <2>5, <3>1, <3>3, ScanBounds
    <3> QED
      BY <3>2, <3>3
  <2> QED
    BY <2>4, <2>5 DEF TypeOK, CpuTypeOK, Ops, Kinds
<1>16. ASSUME NEW c \in Cpus, DrainDone(c) PROVE FragmentsOK'
  <2>1. UNCHANGED <<nextIssue, ackedBits, ackedCount>> /\ InitializeScanned(op[c].kind)
    BY <1>16 DEF DrainDone
  <2>2. CASE op[c].kind = "read"
    BY <2>1, <2>2 DEF InitializeScanned
  <2>3. CASE op[c].kind = "write"
    BY <2>1, <2>3, ScanBounds
  <2> QED
    BY <2>2, <2>3 DEF TypeOK, CpuTypeOK, Ops, Kinds
<1>17. ASSUME NEW c \in Cpus, Publish(c) PROVE FragmentsOK'
  BY <1>17 DEF Publish, ReadAs, Go, fragVars
<1>18. ASSUME NEW c \in Cpus, PostSlot(c) PROVE FragmentsOK'
  BY <1>18 DEF PostSlot, Finish, Go, fragVars
<1>19. ASSUME NEW c \in Cpus, PostEventSlot(c) PROVE FragmentsOK'
  BY <1>19 DEF PostEventSlot, Finish, Go, fragVars
<1>20. ASSUME NEW c \in Cpus, FinishBatch(c) PROVE FragmentsOK'
  BY <1>20 DEF FinishBatch, CompleteHeld, Finish, Go, fragVars
<1>21. ASSUME NEW c \in Cpus, TakeReads(c) PROVE FragmentsOK'
  BY <1>21 DEF TakeReads, TakePending, Go, fragVars
<1>22. ASSUME NEW c \in Cpus, TakeWrites(c) PROVE FragmentsOK'
  BY <1>22 DEF TakeWrites, TakePending, Go, fragVars
<1>23. ASSUME NEW c \in Cpus, CompleteTaken(c) PROVE FragmentsOK'
  BY <1>23 DEF CompleteTaken, CompleteHeld, Go, fragVars
<1>24. ASSUME NEW c \in Cpus, CompleteEvent(c) PROVE FragmentsOK'
  BY <1>24 DEF CompleteEvent, DetachedEventSlot, Finish, Go, fragVars
<1>25. ASSUME NEW c \in Cpus, FreeLists(c) PROVE FragmentsOK'
  BY <1>25 DEF FreeLists, Go, fragVars
<1>26. ASSUME NEW c \in Cpus, FreeCounts(c) PROVE FragmentsOK'
  BY <1>26 DEF FreeCounts, Finish, Go, fragVars
<1>27. ASSUME NEW c \in Cpus, CloseSession(c) PROVE FragmentsOK'
  BY <1>27 DEF CloseSession, Finish, Go, fragVars
<1> QED
  BY <1>1, <1>2, <1>3, <1>4, <1>5, <1>6, <1>7, <1>8, <1>9, <1>10, <1>11, <1>12, <1>13, <1>14, <1>15, <1>16, <1>17, <1>18, <1>19, <1>20, <1>21, <1>22, <1>23, <1>24, <1>25, <1>26, <1>27
     DEF Next, Windows, App, Control, Continue

\* No step completes a write without its fragments.
LEMMA CompletedStep ==
    TypeOK /\ FreshOK /\ FragmentsOK /\ CompletedOK /\ [Next]_vars => CompletedOK'
<1> SUFFICES ASSUME TypeOK, FreshOK, FragmentsOK, CompletedOK, [Next]_vars,
                    NEW w \in Writes, phase'[w] \in {"taken", "done"}, ticket'[w] # 0, ~failed'[w]
             PROVE  payload'[w] # 0 /\ ackedCount'[w] = totalSeq'[w]
  BY DEF CompletedOK
<1> DEFINE Counted == payload'[w] # 0 /\ ackedCount'[w] = totalSeq'[w]
<1>a. w \in Srbs /\ w \notin Reads
  BY ConstantsAssumption DEF Srbs
<1>b. phase[w] \in {"taken", "done"} /\ ticket[w] # 0 /\ ~failed[w] => payload[w] # 0 /\ ackedCount[w] = totalSeq[w]
  BY DEF CompletedOK
<1> USE <1>a, <1>b DEF TypeOK, ListTypeOK, FragTypeOK
<1>1. CASE UNCHANGED vars
  BY <1>1 DEF vars, listVars, fragVars
<1>2. CASE OpenSession
  BY <1>2 DEF OpenSession, listVars, fragVars
<1>3. ASSUME NEW c \in Cpus, NEW s \in Srbs, QueueSrb(c, s) PROVE Counted
  BY <1>3 DEF QueueSrb, CompleteSrbs, Go, KindOf, listVars, fragVars, FreshOK
<1>4. ASSUME NEW c \in Cpus, NEW slot \in DataSlots, SubmitSlot(c, slot) PROVE Counted
  BY <1>4 DEF SubmitSlot, Go, KindOf, listVars, fragVars
<1>5. ASSUME NEW c \in Cpus, NEW slot \in EventSlots, SubmitEventSlot(c, slot) PROVE Counted
  BY <1>5 DEF SubmitEventSlot, Go, listVars, fragVars
<1>6. ASSUME NEW c \in Cpus, NEW ev \in EventIds, NEW ok \in BOOLEAN, ReadAck(c, ev, ok) PROVE Counted
  BY <1>6 DEF ReadAck, CompleteSrbs, listVars, fragVars, FoundByEventId, Pending, SrbsOf
<1>7. ASSUME NEW c \in Cpus, NEW ev \in EventIds, NEW base \in Seqs, NEW count \in Seqs \ {0}, NEW ok \in BOOLEAN,
              AckRange(c, ev, base, count, ok) PROVE Counted
  <2> PICK v \in Writes :
        /\ v \in Pending("write")
        /\ IF RangeValid(v, base, count) THEN ApplyRange(c, v, base, count, ok)
           ELSE /\ payload' = [payload EXCEPT ![v] = IF @ = 0 THEN shape ELSE @]
                /\ totalSeq' = [totalSeq EXCEPT ![v] = Fragments(v)]
                /\ UNCHANGED <<phase, ackedCount, failed>>
    BY <1>7 DEF AckRange, FoundByEventId
  <2>1. UNCHANGED ticket /\ v \in Srbs /\ phase[v] = "pending"
    BY <1>7 DEF AckRange, Pending, Srbs
  <2>2. CASE w # v
    BY <2>1, <2>2 DEF ApplyRange
  <2>3. CASE w = v
    <3>1. RangeValid(w, base, count) /\ ApplyRange(c, w, base, count, ok)
      BY <2>1, <2>3
    <3>2. failed'[w] = ~ok
      BY <3>1 DEF ApplyRange
    <3>3. RangeCompletes(w, count, ok) /\ ok
      BY <2>1, <2>3, <3>1, <3>2 DEF ApplyRange
    <3>4. ackedCount'[w] = ackedCount[w] + count /\ totalSeq'[w] = Fragments(w)
      BY <3>1 DEF ApplyRange
    <3>5. payload'[w] # 0
      BY <3>1, ShapedBounds DEF ApplyRange, RangeValid
    <3> QED
      BY <3>3, <3>4, <3>5 DEF RangeCompletes
  <2> QED
    BY <2>2, <2>3
<1>8. ASSUME NEW c \in Cpus, CreateDisk(c) PROVE Counted
  BY <1>8 DEF CreateDisk, listVars, fragVars
<1>9. ASSUME NEW c \in Cpus, NEW slot \in DataSlots, CancelSlot(c, slot) PROVE Counted
  BY <1>9 DEF CancelSlot, listVars, fragVars
<1>10. ASSUME NEW c \in Cpus, NEW cmd \in Controls \ {"create", "cancel"}, BeginTakeAll(c, cmd) PROVE Counted
  BY <1>10 DEF BeginTakeAll, Go, listVars, fragVars
<1>11. ASSUME NEW c \in Cpus, AllocRequest(c) PROVE Counted
  BY <1>11 DEF AllocRequest, CompleteSrbs, Finish, Go, listVars, fragVars, FreshOK
<1>12. ASSUME NEW c \in Cpus, InsertRequest(c) PROVE Counted
  BY <1>12 DEF InsertRequest, Go, listVars, fragVars
<1>13. ASSUME NEW c \in Cpus, SetPending(c) PROVE Counted
  BY <1>13 DEF SetPending, StatusOfQueued, Go, listVars, fragVars
<1>14. ASSUME NEW c \in Cpus, CheckStatus(c) PROVE Counted
  BY <1>14 DEF CheckStatus, Finish, Go, listVars, fragVars
<1>15. ASSUME NEW c \in Cpus, DrainPick(c) PROVE Counted
  <2>1. UNCHANGED <<phase, ticket, failed, ackedCount>> /\ InitializeScanned(op[c].kind)
    BY <1>15 DEF DrainPick, listVars
  <2> QED
    BY <2>1 DEF InitializeScanned, Scanned
<1>16. ASSUME NEW c \in Cpus, DrainDone(c) PROVE Counted
  BY <1>16 DEF DrainDone, InitializeScanned, Finish, Go, listVars, fragVars, Scanned
<1>17. ASSUME NEW c \in Cpus, Publish(c) PROVE Counted
  BY <1>17 DEF Publish, ReadAs, Go, listVars, fragVars
<1>18. ASSUME NEW c \in Cpus, PostSlot(c) PROVE Counted
  BY <1>18 DEF PostSlot, Finish, Go, listVars, fragVars
<1>19. ASSUME NEW c \in Cpus, PostEventSlot(c) PROVE Counted
  BY <1>19 DEF PostEventSlot, Finish, Go, listVars, fragVars
<1>20. ASSUME NEW c \in Cpus, FinishBatch(c) PROVE Counted
  BY <1>20 DEF FinishBatch, CompleteHeld, Finish, Go, listVars, fragVars, HeldBy
<1>21. ASSUME NEW c \in Cpus, TakeReads(c) PROVE Counted
  BY <1>21 DEF TakeReads, TakePending, Go, listVars, fragVars, Pending
<1>22. ASSUME NEW c \in Cpus, TakeWrites(c) PROVE Counted
  BY <1>22 DEF TakeWrites, TakePending, Go, listVars, fragVars, Pending, SrbsOf
<1>23. ASSUME NEW c \in Cpus, CompleteTaken(c) PROVE Counted
  BY <1>23 DEF CompleteTaken, CompleteHeld, Go, listVars, fragVars, HeldBy
<1>24. ASSUME NEW c \in Cpus, CompleteEvent(c) PROVE Counted
  BY <1>24 DEF CompleteEvent, DetachedEventSlot, Finish, Go, listVars, fragVars
<1>25. ASSUME NEW c \in Cpus, FreeLists(c) PROVE Counted
  BY <1>25 DEF FreeLists, Go, listVars, fragVars
<1>26. ASSUME NEW c \in Cpus, FreeCounts(c) PROVE Counted
  BY <1>26 DEF FreeCounts, Finish, Go, listVars, fragVars
<1>27. ASSUME NEW c \in Cpus, CloseSession(c) PROVE Counted
  BY <1>27 DEF CloseSession, Finish, Go, listVars, fragVars
<1> QED
  BY <1>1, <1>2, <1>3, <1>4, <1>5, <1>6, <1>7, <1>8, <1>9, <1>10, <1>11, <1>12, <1>13, <1>14, <1>15, <1>16, <1>17, <1>18, <1>19, <1>20, <1>21, <1>22, <1>23, <1>24, <1>25, <1>26, <1>27
     DEF Next, Windows, App, Control, Continue

\* The initial state, before the first SRB and the first slot.
LEMMA InitInd == Init => IndInv
<1> SUFFICES ASSUME Init PROVE IndInv
  OBVIOUS
<1> USE DEF Init
<1>1. TypeOK
  BY IdleType, ConstantsAssumption DEF TypeOK, DiskTypeOK, ListTypeOK, FragTypeOK, SrbTypeOK, SlotTypeOK, CpuTypeOK,
        Phases, Places, Slots
<1>2. LocalsOK
  BY DEF LocalsOK
<1>3. FreshOK
  BY DEF FreshOK
<1>4. FragmentsOK
  BY FS_EmptySet DEF FragmentsOK, Srbs
<1>5. CompletedOK
  BY DEF CompletedOK, Srbs
<1> QED
  BY <1>1, <1>2, <1>3, <1>4, <1>5 DEF IndInv

\* The inductive invariant holds of every reachable state of the queues, for
\* any number of SRBs, slots, processors and control operations.
THEOREM Invariance == Spec => []IndInv
<1>1. IndInv /\ [Next]_vars => IndInv'
  BY TypeStep, LocalsStep, FreshStep, FragmentsStep, CompletedStep DEF IndInv
<1> QED
  BY <1>1, InitInd, PTL DEF Spec

\* Every variable of the queues keeps its type (defs.h).
THEOREM TypeCorrect == Spec => []TypeOK
<1>1. IndInv => TypeOK
  BY DEF IndInv
<1> QED
  BY <1>1, Invariance, PTL

\* A write is completed without an error only when every fragment of it was
\* issued and acknowledged and the fragments cover it
\* (DiskHandleWriteAckBatchIoctl compares AckedCount with TotalSeq).
THEOREM SuccessIsComplete == Spec => []SuccessMeansEveryFragmentAcked
<1>1. IndInv => SuccessMeansEveryFragmentAcked
  <2> SUFFICES ASSUME IndInv, NEW w \in Writes, Succeeded(w)
               PROVE  /\ ackedBits[w] = 0 .. (totalSeq[w] - 1)
                      /\ nextIssue[w] = totalSeq[w]
                      /\ totalSeq[w] * payload[w] >= Bytes[w]
    BY DEF SuccessMeansEveryFragmentAcked
  <2>1. nextIssue[w] \in Nat /\ totalSeq[w] \in Nat
    BY DEF IndInv, TypeOK, FragTypeOK, Srbs
  <2>2. /\ payload[w] # 0 /\ ackedCount[w] = totalSeq[w] /\ nextIssue[w] <= totalSeq[w]
        /\ totalSeq[w] * payload[w] >= Bytes[w]
        /\ ackedBits[w] \subseteq 0 .. (nextIssue[w] - 1) /\ ackedCount[w] = Cardinality(ackedBits[w])
    BY DEF IndInv, CompletedOK, FragmentsOK, Succeeded
  <2>3. IsFiniteSet(0 .. (nextIssue[w] - 1)) /\ Cardinality(0 .. (nextIssue[w] - 1)) = nextIssue[w]
    <3> DEFINE last == nextIssue[w] - 1
    <3>1. last \in Int /\ nextIssue[w] = last + 1 /\ last >= -1
      BY <2>1
    <3> HIDE DEF last
    <3>2. IsFiniteSet(0 .. last) /\ Cardinality(0 .. last) = IF 0 > last THEN 0 ELSE last - 0 + 1
      BY <3>1, FS_Interval
    <3>3. IsFiniteSet(0 .. last) /\ Cardinality(0 .. last) = nextIssue[w]
      BY <3>1, <3>2
    <3> QED
      BY <3>3 DEF last
  <2>4. /\ Cardinality(ackedBits[w]) <= nextIssue[w]
        /\ Cardinality(ackedBits[w]) = nextIssue[w] => ackedBits[w] = 0 .. (nextIssue[w] - 1)
    BY <2>2, <2>3, FS_Subset
  <2> QED
    BY <2>1, <2>2, <2>4
<1> QED
  BY <1>1, Invariance, PTL
=============================================================================
