-------------------------- MODULE WritePlaneProofs --------------------------
(***************************************************************************)
(* Proofs about WritePlane for every set of writes and blocks, any split   *)
(* into fragments, and any number of slots, batch size, faults, removals   *)
(* and re-creations: first that final responses and media agree with what  *)
(* Windows was told (IndInv), then that reads see what succeeded (ReadInv).*)
(***************************************************************************)
EXTENDS WritePlane, FiniteSetTheorems, WellFoundedInduction, TLAPS

\* The range a non-empty queue begins with.
LEMMA HeadType ==
    ASSUME NEW S, NEW q \in Seq(S), q # <<>>
    PROVE  /\ Head(q) \in S /\ Head(q) = q[1] /\ Tail(q) \in Seq(S)
           /\ Len(Tail(q)) = Len(q) - 1 /\ Len(q) \in Nat \ {0}
           /\ \A i \in 1 .. Len(Tail(q)) : Tail(q)[i] = q[i + 1]
OBVIOUS

\* A part of a sequence.
LEMMA SubSeqType ==
    ASSUME NEW S, NEW q \in Seq(S), NEW m \in 1 .. (Len(q) + 1), NEW n \in Nat, n <= Len(q), m <= n + 1
    PROVE  /\ SubSeq(q, m, n) \in Seq(S) /\ Len(SubSeq(q, m, n)) = n - m + 1
           /\ \A i \in 1 .. Len(SubSeq(q, m, n)) : SubSeq(q, m, n)[i] = q[m + i - 1]
OBVIOUS

\* The miniport's answer to a batch is a batch again.
LEMMA AnsweredType ==
    ASSUME NEW q \in Seq(RangeType)
    PROVE  LET a == [i \in 1 .. Len(q) |-> Answer(q[i])] IN
           /\ a \in Seq(RangeType) /\ Len(a) = Len(q)
           /\ \A i \in 1 .. Len(q) : a[i] = Answer(q[i]) /\ q[i] \in RangeType
<1> DEFINE a == [i \in 1 .. Len(q) |-> Answer(q[i])]
<1>1. \A i \in 1 .. Len(q) : q[i] \in RangeType /\ Answer(q[i]) \in RangeType
  <2>1. ASSUME NEW r \in RangeType PROVE Answer(r) \in RangeType
    <3>1. r.ev \in Writes /\ r.seq \in Nat /\ r.ok \in BOOLEAN
      BY DEF RangeType
    <3>2. Outcome(r) \in BOOLEAN
      BY <3>1 DEF Outcome
    <3> QED
      BY <3>1, <3>2 DEF Answer, RangeType
  <2> QED
    BY <2>1
<1>2. Len(q) \in Nat
  OBVIOUS
<1>3. a \in Seq(RangeType) /\ Len(a) = Len(q)
  BY <1>1, <1>2
<1> QED
  BY <1>1, <1>3

\* What Windows was told of a write stands.
Settled == \A w \in Writes : srb[w] \in {"done", "failed"} => srb'[w] = srb[w]

\* A reset fails the open writes only.
LEMMA FailOpenSettled ==
    ASSUME TypeOK, FailOpen PROVE Settled /\ srb' \in [Writes -> {"unsent", "open", "done", "failed"}]
BY DEF FailOpen, Settled, TypeOK, WindowsTypeOK

\* No step changes what Windows was told.
LEMMA SettledStep == TypeOK /\ [Next]_vars => Settled
<1> SUFFICES ASSUME TypeOK, [Next]_vars PROVE Settled
  OBVIOUS
<1>1. ASSUME NEW w \in Writes, SendWrite(w) PROVE Settled
  BY <1>1 DEF SendWrite, Settled, TypeOK, WindowsTypeOK
<1>2. CASE Send
  BY <1>2 DEF Send, AckedBy, Settled
<1>3. CASE FailOpen
  BY <1>3, FailOpenSettled
<1>4. CASE UNCHANGED srb
  BY <1>4 DEF Settled
<1>5. CASE Reset
  BY <1>5, <1>3 DEF Reset
<1>6. ASSUME NEW call \in Removals, BeginRemoval(call) PROVE Settled
  BY <1>6, <1>3, <1>4 DEF BeginRemoval
<1>7. CASE RemoveDisk
  BY <1>7, <1>3, <1>4 DEF RemoveDisk
<1>8. CASE CloseSession
  BY <1>8, <1>3 DEF CloseSession
<1>9. ASSUME NEW w \in Writes, FillSlot(w) PROVE Settled
  BY <1>9, <1>4 DEF FillSlot
<1>10. CASE Worker
  BY <1>10, <1>4 DEF Worker, Track, Stage, EnqueueAck, windowsVars
<1>11. CASE Flusher
  BY <1>11, <1>2, <1>4 DEF Flusher, Steal, ApplyRange, StopFlusher, windowsVars
<1>12. CASE SignalLoop \/ SessionBroken
  BY <1>12, <1>4 DEF SignalLoop, SessionBroken, Poll, Commit, Reject, windowsVars
<1>13. CASE Open \/ BeginCreate \/ AkCreateDisk \/ EndCreate \/ DestroyDisk \/ TakeMedia
  BY <1>13, <1>4 DEF Open, BeginCreate, AkCreateDisk, EndCreate, DestroyDisk, TakeMedia, windowsVars
<1>14. CASE UNCHANGED vars
  BY <1>14, <1>4 DEF vars, windowsVars
<1> QED
  BY <1>1, <1>5, <1>6, <1>7, <1>8, <1>9, <1>10, <1>11, <1>12, <1>13, <1>14 DEF Next, Control

\* What a step leaves alone keeps its type.
LEMMA UnchangedTypes ==
    ASSUME TypeOK
    PROVE  /\ UNCHANGED windowsVars => WindowsTypeOK'
           /\ UNCHANGED kernelVars => KernelTypeOK'
           /\ UNCHANGED backendVars => BackendTypeOK'
           /\ UNCHANGED dataVars => DataTypeOK'
           /\ UNCHANGED loopVars => LoopTypeOK'
<1>1. UNCHANGED windowsVars => WindowsTypeOK'
  BY DEF TypeOK, WindowsTypeOK, windowsVars
<1>2. UNCHANGED kernelVars => KernelTypeOK'
  BY DEF TypeOK, KernelTypeOK, kernelVars
<1>3. UNCHANGED backendVars => BackendTypeOK'
  BY DEF TypeOK, BackendTypeOK, backendVars
<1>4. UNCHANGED dataVars => DataTypeOK'
  BY DEF TypeOK, DataTypeOK, dataVars
<1>5. UNCHANGED loopVars => LoopTypeOK'
  BY DEF TypeOK, LoopTypeOK, loopVars
<1> QED
  BY <1>1, <1>2, <1>3, <1>4, <1>5

\* A reset keeps the types of what Windows and the miniport know.
LEMMA FailOpenType ==
    ASSUME TypeOK, FailOpen, UNCHANGED <<issued, accepted, earlier>> PROVE WindowsTypeOK'
BY FailOpenSettled DEF TypeOK, WindowsTypeOK

\* A worker that gets on keeps its slot.
LEMMA MovesType ==
    ASSUME TypeOK, NEW x \in slots, NEW at \in {"filled", "tracked", "refused", "staged"}, Moves(x, at)
    PROVE  slots' \subseteq SlotType /\ IsFiniteSet(slots') /\ Cardinality(slots') <= Slots
<1> DEFINE y == [ev |-> x.ev, seq |-> x.seq, at |-> at]
<1>1. x \in SlotType /\ slots \subseteq SlotType /\ IsFiniteSet(slots) /\ Cardinality(slots) <= Slots /\ Slots \in Nat
  BY ConstantsAssumption DEF TypeOK, KernelTypeOK
<1>2. y \in SlotType
  BY <1>1 DEF SlotType
<1>3. IsFiniteSet(slots \ {x}) /\ Cardinality(slots \ {x}) = Cardinality(slots) - 1
  BY <1>1, FS_RemoveElement
<1>4. slots' = (slots \ {x}) \cup {y}
  BY DEF Moves
<1> HIDE DEF y
<1>5. Cardinality(slots) \in Nat /\ Cardinality(slots \ {x}) \in Nat
  BY <1>1, <1>3, FS_CardinalityType
<1>6. /\ IsFiniteSet((slots \ {x}) \cup {y})
      /\ Cardinality((slots \ {x}) \cup {y}) = IF y \in slots \ {x} THEN Cardinality(slots \ {x}) ELSE Cardinality(slots \ {x}) + 1
  BY <1>3, FS_AddElement
<1> QED
  BY <1>1, <1>2, <1>3, <1>4, <1>5, <1>6

\* A final response, and the bounded list of what was finalized.
LEMMA FinalizeType ==
    ASSUME TypeOK, NEW w \in Writes, NEW committed \in BOOLEAN, Finalize(w, committed)
    PROVE  /\ responses' \in Seq(ResponseType)
           /\ DOMAIN active' \subseteq Writes /\ active' \in [DOMAIN active' -> Nat]
           /\ finalized' \in Seq(Writes) /\ Len(finalized') <= QueueDepth
<1>1. responses' \in Seq(ResponseType)
  <2>1. [ev |-> w, committed |-> committed] \in ResponseType
    BY DEF ResponseType
  <2> QED
    BY <2>1 DEF Finalize, TypeOK, LoopTypeOK
<1>2. DOMAIN active' \subseteq Writes /\ active' \in [DOMAIN active' -> Nat]
  BY DEF Finalize, Without, TypeOK, KernelTypeOK
<1>3. finalized' \in Seq(Writes) /\ Len(finalized') <= QueueDepth
  <2>1. finalized \in Seq(Writes) /\ Len(finalized) \in Nat /\ Len(finalized) <= QueueDepth /\ QueueDepth \in Nat \ {0}
    BY ConstantsAssumption DEF TypeOK, KernelTypeOK
  <2> DEFINE all == Append(finalized, w)
  <2>2. all \in Seq(Writes) /\ Len(all) = Len(finalized) + 1 /\ all # <<>>
    BY <2>1
  <2>3. Tail(all) \in Seq(Writes) /\ Len(Tail(all)) = Len(all) - 1
    BY <2>2, HeadType
  <2>4. finalized' = IF Len(all) > QueueDepth THEN Tail(all) ELSE all
    BY DEF Finalize, Remembered
  <2> HIDE DEF all
  <2> QED
    BY <2>1, <2>2, <2>3, <2>4
<1> QED
  BY <1>1, <1>2, <1>3

\* Every step keeps the types, and the limits of slots, batches and remembered
\* events.
LEMMA TypeStep == TypeOK /\ RangesOK /\ [Next]_vars => TypeOK'
<1> SUFFICES ASSUME TypeOK, RangesOK, [Next]_vars PROVE TypeOK'
  OBVIOUS
<1>0. /\ WindowsTypeOK /\ KernelTypeOK /\ BackendTypeOK /\ DataTypeOK /\ LoopTypeOK
  BY DEF TypeOK
<1>1. ASSUME NEW w \in Writes, SendWrite(w) PROVE TypeOK'
  <2>1. WindowsTypeOK'
    BY <1>0, <1>1 DEF SendWrite, WindowsTypeOK
  <2> QED
    BY <1>1, <2>1, UnchangedTypes DEF SendWrite, TypeOK
<1>2. ASSUME NEW w \in Writes, FillSlot(w) PROVE TypeOK'
  <2>1. WindowsTypeOK'
    BY <1>0, <1>2 DEF FillSlot, WindowsTypeOK
  <2>2. KernelTypeOK'
    <3> DEFINE y == [ev |-> w, seq |-> issued[w], at |-> "filled"]
    <3>1. y \in SlotType
      BY <1>0 DEF SlotType, WindowsTypeOK
    <3>2. slots' = slots \cup {y}
      BY <1>2 DEF FillSlot
    <3>3. IsFiniteSet(slots) /\ Cardinality(slots) < Slots /\ Slots \in Nat
      BY <1>0, <1>2, ConstantsAssumption DEF FillSlot, KernelTypeOK
    <3> HIDE DEF y
    <3>4. /\ IsFiniteSet(slots \cup {y}) /\ Cardinality(slots) \in Nat
          /\ Cardinality(slots \cup {y}) = IF y \in slots THEN Cardinality(slots) ELSE Cardinality(slots) + 1
      BY <3>3, FS_AddElement, FS_CardinalityType
    <3>5. slots' \subseteq SlotType /\ IsFiniteSet(slots') /\ Cardinality(slots') <= Slots
      BY <1>0, <3>1, <3>2, <3>3, <3>4 DEF KernelTypeOK
    <3> QED
      BY <1>0, <1>2, <3>5 DEF FillSlot, KernelTypeOK
  <2> QED
    BY <1>2, <2>1, <2>2, UnchangedTypes DEF FillSlot, TypeOK
<1>3. CASE Reset
  BY <1>3, FailOpenType, UnchangedTypes DEF Reset, TypeOK
<1>4. ASSUME NEW x \in slots, Track(x) PROVE TypeOK'
  <2>1. x.ev \in Writes
    BY <1>0 DEF KernelTypeOK, SlotType
  <2>2. slots' \subseteq SlotType /\ IsFiniteSet(slots') /\ Cardinality(slots') <= Slots
    BY <1>4, MovesType DEF Track
  <2>3. DOMAIN active' \subseteq Writes /\ active' \in [DOMAIN active' -> Nat]
    BY <1>0, <1>4, <2>1 DEF Track, With, KernelTypeOK
  <2>4. KernelTypeOK'
    BY <1>0, <1>4, <2>2, <2>3 DEF Track, KernelTypeOK
  <2> QED
    BY <1>4, <2>4, UnchangedTypes DEF Track, TypeOK
<1>5. ASSUME NEW x \in slots, Stage(x) PROVE TypeOK'
  <2>1. x.ev \in Writes
    BY <1>0 DEF KernelTypeOK, SlotType
  <2>2. slots' \subseteq SlotType /\ IsFiniteSet(slots') /\ Cardinality(slots') <= Slots
    BY <1>5, MovesType DEF Stage
  <2>3. KernelTypeOK'
    BY <1>0, <1>5, <2>2 DEF Stage, KernelTypeOK
  <2>4. DataTypeOK'
    BY <1>0, <1>5, <2>1 DEF Stage, StageWriteLocked, With, DataTypeOK
  <2> QED
    BY <1>5, <2>3, <2>4, UnchangedTypes DEF Stage, TypeOK
<1>6. ASSUME NEW x \in slots, EnqueueAck(x) PROVE TypeOK'
  <2>1. x \in SlotType /\ slots \subseteq SlotType /\ IsFiniteSet(slots) /\ Cardinality(slots) <= Slots /\ Slots \in Nat
    BY <1>0, ConstantsAssumption DEF KernelTypeOK
  <2>2. IsFiniteSet(slots \ {x}) /\ Cardinality(slots \ {x}) = Cardinality(slots) - 1 /\ Cardinality(slots) \in Nat
    BY <2>1, FS_RemoveElement, FS_CardinalityType
  <2>3. [ev |-> x.ev, seq |-> x.seq, ok |-> x.at = "staged"] \in RangeType
    <3>1. x.ev \in Writes /\ x.seq \in Nat /\ (x.at = "staged") \in BOOLEAN
      BY <2>1 DEF SlotType
    <3> QED
      BY <3>1 DEF RangeType
  <2>4. ackQueue' \in Seq(RangeType)
    BY <1>0, <1>6, <2>3 DEF EnqueueAck, KernelTypeOK
  <2>5. KernelTypeOK'
    BY <1>0, <1>6, <2>1, <2>2, <2>4 DEF EnqueueAck, KernelTypeOK
  <2> QED
    BY <1>6, <2>5, UnchangedTypes DEF EnqueueAck, TypeOK
<1>7. CASE Steal
  <2> DEFINE n == IF Len(ackQueue) < AckBatchMaxRanges THEN Len(ackQueue) ELSE AckBatchMaxRanges
  <2>1. /\ ackQueue \in Seq(RangeType) /\ Len(ackQueue) \in Nat \ {0}
        /\ n \in Nat \ {0} /\ n <= Len(ackQueue) /\ n <= AckBatchMaxRanges /\ AckBatchMaxRanges \in Nat
    BY <1>0, <1>7, ConstantsAssumption DEF Steal, KernelTypeOK
  <2>2. flush' = Flush("held", SubSeq(ackQueue, 1, n)) /\ ackQueue' = SubSeq(ackQueue, n + 1, Len(ackQueue))
    BY <1>7 DEF Steal, LeftAfter
  <2> HIDE DEF n
  <2>3. SubSeq(ackQueue, 1, n) \in Seq(RangeType) /\ Len(SubSeq(ackQueue, 1, n)) = n
    BY <2>1, SubSeqType
  <2>4. SubSeq(ackQueue, n + 1, Len(ackQueue)) \in Seq(RangeType)
    BY <2>1, SubSeqType
  <2>5. KernelTypeOK'
    <3>1. flush' \in [at : {"idle", "held", "answered", "exited"}, ranges : Seq(RangeType)] /\ Len(flush'.ranges) = n
      BY <2>2, <2>3 DEF Flush
    <3>2. UNCHANGED <<slots, active, finalized, disk>>
      BY <1>7 DEF Steal
    <3> QED
      BY <1>0, <2>1, <2>2, <2>4, <3>1, <3>2 DEF KernelTypeOK
  <2> QED
    BY <1>7, <2>5, UnchangedTypes DEF Steal, TypeOK
<1>8. CASE Send
  <2>1. flush.ranges \in Seq(RangeType)
    BY <1>0 DEF KernelTypeOK
  <2>2. KernelTypeOK'
    <3> DEFINE a == [i \in 1 .. Len(flush.ranges) |-> Answer(flush.ranges[i])]
    <3>1. a \in Seq(RangeType) /\ Len(a) = Len(flush.ranges)
      BY <2>1, AnsweredType
    <3>2. flush' = Flush("answered", a)
      BY <1>8 DEF Send
    <3> HIDE DEF a
    <3> QED
      BY <1>0, <1>8, <3>1, <3>2 DEF Send, Flush, KernelTypeOK
  <2>3. WindowsTypeOK'
    <3>1. srb' \in [Writes -> {"unsent", "open", "done", "failed"}]
      BY <1>0, <1>8 DEF Send, AckedBy, WindowsTypeOK
    <3>2. \A i \in 1 .. Len(flush.ranges) : flush.ranges[i].seq \in Nat
      <4>1. \A r \in RangeType : r.seq \in Nat
        BY DEF RangeType
      <4> QED
        BY <2>1, <4>1
    <3>3. accepted' \in [Writes -> SUBSET Nat]
      BY <1>0, <1>8, <3>2 DEF Send, WindowsTypeOK
    <3> QED
      BY <1>0, <1>8, <3>1, <3>3 DEF Send, WindowsTypeOK
  <2> QED
    BY <1>8, <2>2, <2>3, UnchangedTypes DEF Send, TypeOK
<1>9. CASE ApplyRange
  <2>1. flush.ranges \in Seq(RangeType) /\ flush.ranges # <<>> /\ flush.at = "answered"
    BY <1>0, <1>9 DEF ApplyRange, RangesOK, KernelTypeOK
  <2> DEFINE range == Head(flush.ranges)
             rest == Tail(flush.ranges)
  <2>2. /\ range \in RangeType /\ rest \in Seq(RangeType) /\ Len(rest) = Len(flush.ranges) - 1
        /\ range.ev \in Writes /\ range.ok \in BOOLEAN
    <3>1. range \in RangeType /\ rest \in Seq(RangeType) /\ Len(rest) = Len(flush.ranges) - 1
      BY <2>1, HeadType
    <3> QED
      BY <3>1 DEF RangeType
  <2>3. flush' \in {EmptyFlush, Flush("answered", rest), Flush("exited", <<>>)}
    BY <1>9 DEF ApplyRange
  <2>4. \/ \E committed \in BOOLEAN : Finalize(range.ev, committed)
        \/ /\ range.ev \in DOMAIN active /\ active' = [active EXCEPT ![range.ev] = @ + 1]
           /\ UNCHANGED <<responses, finalized>>
        \/ UNCHANGED <<responses, active, finalized>>
    BY <1>9 DEF ApplyRange
  <2> HIDE DEF range, rest
  <2>5. /\ responses' \in Seq(ResponseType)
        /\ DOMAIN active' \subseteq Writes /\ active' \in [DOMAIN active' -> Nat]
        /\ finalized' \in Seq(Writes) /\ Len(finalized') <= QueueDepth
    <3>1. ASSUME NEW committed \in BOOLEAN, Finalize(range.ev, committed) PROVE <2>5!:
      BY <2>2, <3>1, FinalizeType
    <3>2. CASE /\ range.ev \in DOMAIN active /\ active' = [active EXCEPT ![range.ev] = @ + 1]
               /\ UNCHANGED <<responses, finalized>>
      <4>1. PICK D : D \subseteq Writes /\ active \in [D -> Nat]
        BY <1>0 DEF KernelTypeOK
      <4>2. active' \in [D -> Nat]
        <5>1. range.ev \in D /\ active[range.ev] + 1 \in Nat
          BY <3>2, <4>1
        <5>2. active' = [active EXCEPT ![range.ev] = active[range.ev] + 1]
          BY <3>2
        <5> QED
          BY <4>1, <5>1, <5>2
      <4> QED
        BY <1>0, <3>2, <4>1, <4>2 DEF KernelTypeOK, LoopTypeOK
    <3>3. CASE UNCHANGED <<responses, active, finalized>>
      BY <1>0, <3>3 DEF KernelTypeOK, LoopTypeOK
    <3> QED
      BY <2>4, <3>1, <3>2, <3>3
  <2>6. /\ flush' \in [at : {"idle", "held", "answered", "exited"}, ranges : Seq(RangeType)]
        /\ Len(flush'.ranges) <= AckBatchMaxRanges
    <3>1. Len(flush.ranges) <= AckBatchMaxRanges /\ AckBatchMaxRanges \in Nat /\ Len(flush.ranges) \in Nat
      BY <1>0, <2>1, ConstantsAssumption DEF KernelTypeOK
    <3>2. CASE flush' = Flush("answered", rest)
      BY <2>2, <3>1, <3>2 DEF Flush
    <3>3. CASE flush' = EmptyFlush
      BY <3>1, <3>3 DEF EmptyFlush, Flush
    <3>4. CASE flush' = Flush("exited", <<>>)
      BY <3>1, <3>4 DEF Flush
    <3> QED
      BY <2>3, <3>2, <3>3, <3>4
  <2>7. KernelTypeOK'
    BY <1>0, <1>9, <2>5, <2>6 DEF ApplyRange, KernelTypeOK
  <2>8. LoopTypeOK'
    BY <1>0, <1>9, <2>5 DEF ApplyRange, LoopTypeOK
  <2> QED
    BY <1>9, <2>7, <2>8, UnchangedTypes DEF ApplyRange, TypeOK
<1>10. CASE StopFlusher
  <2>1. KernelTypeOK'
    BY <1>0, <1>10, ConstantsAssumption DEF StopFlusher, Flush, KernelTypeOK
  <2> QED
    BY <1>10, <2>1, UnchangedTypes DEF StopFlusher, TypeOK
<1>11. CASE Poll
  <2>1. LoopTypeOK'
    <3>1. responses \in Seq(ResponseType) /\ responses # <<>>
      BY <1>0, <1>11 DEF Poll, LoopTypeOK
    <3>2. Head(responses) \in ResponseType /\ Tail(responses) \in Seq(ResponseType)
      BY <3>1, HeadType
    <3> QED
      BY <1>0, <1>11, <3>2 DEF Poll, LoopTypeOK
  <2> QED
    BY <1>11, <2>1, UnchangedTypes DEF Poll, TypeOK
<1>12. ASSUME polled # None PROVE polled.ev \in Writes
  BY <1>0, <1>12 DEF LoopTypeOK, ResponseType
<1>13. ASSUME DataTypeOK', polled' = None, UNCHANGED <<windowsVars, kernelVars, backendVars, responses, loop>>
       PROVE  TypeOK'
  <2>1. LoopTypeOK'
    BY <1>0, <1>13 DEF LoopTypeOK
  <2> QED
    BY <1>13, <2>1, UnchangedTypes DEF TypeOK
<1>14. CASE Commit
  <2>1. polled.ev \in Writes
    BY <1>12, <1>14 DEF Commit
  <2>2. \A fragments : Written(polled.ev, fragments) \in [Blocks -> Writes \cup {Blank}]
    BY <1>0, <2>1 DEF Written, DataTypeOK
  <2>3. DataTypeOK'
    <3>1. CASE UNCHANGED dataVars
      BY <3>1, UnchangedTypes
    <3>2. CASE /\ store' = Written(polled.ev, RecordOf(polled.ev)) /\ staging' = Without(staging, polled.ev)
               /\ UNCHANGED <<nextOrdinal, stuck, lost>>
      BY <1>0, <2>2, <3>2 DEF Without, DataTypeOK
    <3>3. CASE /\ \E n \in 0 .. (Cardinality(RecordOf(polled.ev)) - 1) :
                      store' = Written(polled.ev, Prefix(polled.ev, n))
               /\ stuck' = stuck \cup {polled.ev} /\ UNCHANGED <<staging, nextOrdinal, lost>>
      BY <1>0, <2>1, <2>2, <3>3 DEF DataTypeOK
    <3> QED
      BY <1>14, <3>1, <3>2, <3>3 DEF Commit
  <2> QED
    BY <1>13, <1>14, <2>3 DEF Commit
<1>15. CASE Reject
  <2>1. DataTypeOK'
    BY <1>0, <1>15 DEF Reject, Without, DataTypeOK
  <2> QED
    BY <1>13, <1>15, <2>1 DEF Reject
<1>16. CASE SessionBroken
  <2>1. LoopTypeOK'
    BY <1>0, <1>16 DEF SessionBroken, LoopTypeOK
  <2> QED
    BY <1>16, <2>1, UnchangedTypes DEF SessionBroken, TypeOK
<1>17. CASE Open
  <2>1. LoopTypeOK' /\ BackendTypeOK'
    BY <1>0, <1>17 DEF Open, LoopTypeOK, BackendTypeOK
  <2> QED
    BY <1>17, <2>1, UnchangedTypes DEF Open, TypeOK
<1>18. CASE BeginCreate
  <2>1. BackendTypeOK'
    BY <1>0, <1>18 DEF BeginCreate, BackendTypeOK, CtlPlaces
  <2>2. DataTypeOK'
    BY <1>0, <1>18 DEF BeginCreate, NoRecords, DataTypeOK
  <2> QED
    BY <1>18, <2>1, <2>2, UnchangedTypes DEF BeginCreate, TypeOK
<1>19. ASSUME NEW place \in CtlPlaces, GoTo(place) PROVE ctl' \in [call : Removals \cup {"none", "create"}, at : CtlPlaces]
  BY <1>0, <1>19 DEF GoTo, BackendTypeOK
<1>20. Idle \in [call : Removals \cup {"none", "create"}, at : CtlPlaces]
  BY DEF Idle, CtlPlaces
<1>21. CASE AkCreateDisk
  <2>1. KernelTypeOK'
    <3>1. CASE disk' = "running" /\ flush' = EmptyFlush
      <4>1. flush' \in [at : {"idle", "held", "answered", "exited"}, ranges : Seq(RangeType)] /\ Len(flush'.ranges) = 0
        BY <3>1 DEF EmptyFlush, Flush
      <4> QED
        BY <1>0, <1>21, <3>1, <4>1, ConstantsAssumption DEF AkCreateDisk, KernelTypeOK
    <3>2. CASE UNCHANGED <<disk, flush>>
      BY <1>0, <1>21, <3>2 DEF AkCreateDisk, KernelTypeOK
    <3> QED
      BY <1>21, <3>1, <3>2 DEF AkCreateDisk
  <2>2. BackendTypeOK'
    BY <1>0, <1>19, <1>20, <1>21 DEF AkCreateDisk, BackendTypeOK, CtlPlaces
  <2> QED
    BY <1>21, <2>1, <2>2, UnchangedTypes DEF AkCreateDisk, TypeOK
<1>22. CASE EndCreate
  <2>1. BackendTypeOK'
    BY <1>0, <1>20, <1>22 DEF EndCreate, BackendTypeOK
  <2> QED
    BY <1>22, <2>1, UnchangedTypes DEF EndCreate, TypeOK
<1>23. ASSUME NEW call \in Removals, BeginRemoval(call) PROVE TypeOK'
  <2>1. WindowsTypeOK'
    BY <1>0, <1>23, FailOpenType, UnchangedTypes DEF BeginRemoval, windowsVars
  <2>2. KernelTypeOK'
    BY <1>0, <1>23 DEF BeginRemoval, KernelTypeOK
  <2>3. BackendTypeOK'
    BY <1>0, <1>23 DEF BeginRemoval, BackendTypeOK, CtlPlaces
  <2> QED
    BY <1>23, <2>1, <2>2, <2>3, UnchangedTypes DEF BeginRemoval, TypeOK
<1>24. CASE RemoveDisk
  <2>1. WindowsTypeOK'
    BY <1>0, <1>24, FailOpenType, UnchangedTypes DEF RemoveDisk, windowsVars
  <2>2. BackendTypeOK'
    BY <1>0, <1>19, <1>24 DEF RemoveDisk, BackendTypeOK, CtlPlaces
  <2> QED
    BY <1>24, <2>1, <2>2, UnchangedTypes DEF RemoveDisk, TypeOK
<1>25. CASE DestroyDisk
  <2>1. KernelTypeOK'
    BY <1>0, <1>25, ConstantsAssumption DEF DestroyDisk, NoEvents, KernelTypeOK
  <2>2. BackendTypeOK'
    BY <1>0, <1>19, <1>25 DEF DestroyDisk, BackendTypeOK, CtlPlaces
  <2> QED
    BY <1>25, <2>1, <2>2, UnchangedTypes DEF DestroyDisk, TypeOK
<1>26. CASE TakeMedia
  <2>1. BackendTypeOK'
    BY <1>0, <1>19, <1>20, <1>26 DEF TakeMedia, BackendTypeOK, CtlPlaces
  <2>2. DataTypeOK'
    BY <1>0, <1>26 DEF TakeMedia, NoRecords, DataTypeOK
  <2> QED
    BY <1>26, <2>1, <2>2, UnchangedTypes DEF TakeMedia, TypeOK
<1>27. CASE CloseSession
  <2>1. WindowsTypeOK'
    BY <1>27, FailOpenType DEF CloseSession
  <2>2. BackendTypeOK'
    BY <1>0, <1>20, <1>27 DEF CloseSession, BackendTypeOK
  <2>3. LoopTypeOK'
    BY <1>0, <1>27 DEF CloseSession, LoopTypeOK
  <2> QED
    BY <1>27, <2>1, <2>2, <2>3, UnchangedTypes DEF CloseSession, TypeOK
<1>28. CASE UNCHANGED vars
  BY <1>28, UnchangedTypes DEF vars, TypeOK
<1> QED
  BY <1>1, <1>2, <1>3, <1>4, <1>5, <1>6, <1>7, <1>8, <1>9, <1>10, <1>11, <1>14, <1>15, <1>16, <1>17,
     <1>18, <1>21, <1>22, <1>23, <1>24, <1>25, <1>26, <1>27, <1>28
  DEF Next, Worker, Flusher, SignalLoop, Control

\* What carries acknowledgements from a slot to the count of its event.
pipeVars == <<slots, ackQueue, flush, issued, accepted, active>>

\* The steps that move something along that way.
LEMMA PipeSteps ==
    ASSUME [Next]_vars
    PROVE  \/ UNCHANGED pipeVars
           \/ \E w \in Writes : FillSlot(w)
           \/ \E x \in slots : Track(x) \/ Stage(x) \/ EnqueueAck(x)
           \/ Steal \/ Send \/ ApplyRange \/ StopFlusher \/ AkCreateDisk \/ DestroyDisk
<1>1. ASSUME NEW w \in Writes, SendWrite(w) PROVE UNCHANGED pipeVars
  BY <1>1 DEF SendWrite, pipeVars, kernelVars
<1>2. CASE Reset \/ RemoveDisk \/ CloseSession
  BY <1>2 DEF Reset, RemoveDisk, CloseSession, pipeVars, kernelVars
<1>3. CASE SignalLoop \/ SessionBroken
  BY <1>3 DEF SignalLoop, Poll, Commit, Reject, SessionBroken, pipeVars, windowsVars, kernelVars
<1>4. CASE Open \/ BeginCreate \/ EndCreate \/ TakeMedia
  BY <1>4 DEF Open, BeginCreate, EndCreate, TakeMedia, pipeVars, windowsVars, kernelVars
<1>5. ASSUME NEW call \in Removals, BeginRemoval(call) PROVE UNCHANGED pipeVars
  BY <1>5 DEF BeginRemoval, pipeVars
<1>6. CASE UNCHANGED vars
  BY <1>6 DEF vars, pipeVars, windowsVars, kernelVars
<1> QED
  BY <1>1, <1>2, <1>3, <1>4, <1>5, <1>6 DEF Next, Worker, Flusher, Control

\* What is in the hands of the flusher was issued, and whose it is.
LEMMA RangeFacts ==
    ASSUME TypeOK, RangesOK
    PROVE  /\ \A x \in slots : x.ev \in Writes /\ x.seq \in Nat /\ x.seq < issued[x.ev]
           /\ \A i \in 1 .. Len(ackQueue) :
                 ackQueue[i].ev \in Writes /\ ackQueue[i].seq \in Nat /\ ackQueue[i].seq < issued[ackQueue[i].ev]
           /\ \A i \in 1 .. Len(flush.ranges) :
                 /\ flush.ranges[i].ev \in Writes /\ flush.ranges[i].seq \in Nat
                 /\ flush.ranges[i].ok \in BOOLEAN /\ flush.ranges[i].seq < issued[flush.ranges[i].ev]
           /\ Len(ackQueue) \in Nat /\ Len(flush.ranges) \in Nat
<1>1. /\ \A r \in RangeType : r.ev \in Writes /\ r.seq \in Nat /\ r.ok \in BOOLEAN
      /\ \A x \in SlotType : x.ev \in Writes /\ x.seq \in Nat
  BY DEF RangeType, SlotType
<1>2. slots \subseteq SlotType /\ ackQueue \in Seq(RangeType) /\ flush.ranges \in Seq(RangeType)
      /\ flush.at \in {"idle", "held", "answered", "exited"}
  BY DEF TypeOK, KernelTypeOK
<1>3. \A i \in 1 .. Len(flush.ranges) : flush.ranges[i].seq < issued[flush.ranges[i].ev]
  <2>1. CASE flush.at \in {"idle", "exited"}
    BY <2>1 DEF RangesOK
  <2>2. CASE flush.at = "held"
    BY <2>2 DEF RangesOK, Unaccepted
  <2>3. CASE flush.at = "answered"
    BY <2>3 DEF RangesOK
  <2> QED
    BY <1>2, <2>1, <2>2, <2>3
<1> QED
  BY <1>1, <1>2, <1>3 DEF RangesOK, Unaccepted

\* A fragment stays in one place.
LEMMA OnePlaceStep == TypeOK /\ OnePlace /\ RangesOK /\ [Next]_vars => OnePlace'
<1> SUFFICES ASSUME TypeOK, OnePlace, RangesOK, [Next]_vars PROVE OnePlace'
  OBVIOUS
<1>0. ackQueue \in Seq(RangeType) /\ flush.ranges \in Seq(RangeType)
  BY DEF TypeOK, KernelTypeOK
<1>1. CASE UNCHANGED pipeVars
  BY <1>1 DEF pipeVars, OnePlace
<1>2. ASSUME NEW w \in Writes, FillSlot(w) PROVE OnePlace'
  <2> DEFINE y == [ev |-> w, seq |-> issued[w], at |-> "filled"]
  <2>1. y.ev = w /\ y.seq = issued[w] /\ issued[w] \in Nat
    BY DEF TypeOK, WindowsTypeOK
  <2>2. slots' = slots \cup {y} /\ ackQueue' = ackQueue /\ flush' = flush
    BY <1>2 DEF FillSlot
  <2> HIDE DEF y
  <2>3. /\ \A x \in slots : ~Same(x, y) /\ ~Same(y, x)
        /\ \A i \in 1 .. Len(ackQueue) : ~Same(y, ackQueue[i])
        /\ \A i \in 1 .. Len(flush.ranges) : ~Same(y, flush.ranges[i])
    BY <2>1, RangeFacts DEF Same
  <2> QED
    BY <2>2, <2>3 DEF OnePlace
<1>3. ASSUME NEW x \in slots, NEW at \in {"tracked", "refused", "staged"}, Moves(x, at),
             ackQueue' = ackQueue, flush' = flush
      PROVE  OnePlace'
  <2> DEFINE y == [ev |-> x.ev, seq |-> x.seq, at |-> at]
  <2>1. \A r : (Same(y, r) <=> Same(x, r)) /\ (Same(r, y) <=> Same(r, x))
    BY DEF Same
  <2>2. slots' = (slots \ {x}) \cup {y}
    BY <1>3 DEF Moves
  <2> HIDE DEF y
  <2>3. \A u, v \in slots' : Same(u, v) => u = v
    BY <2>1, <2>2 DEF OnePlace
  <2>4. /\ \A u \in slots', i \in 1 .. Len(ackQueue) : ~Same(u, ackQueue[i])
        /\ \A u \in slots', j \in 1 .. Len(flush.ranges) : ~Same(u, flush.ranges[j])
    BY <2>1, <2>2 DEF OnePlace
  <2> QED
    BY <1>3, <2>3, <2>4 DEF OnePlace
<1>4. ASSUME NEW x \in slots, Track(x) \/ Stage(x) PROVE OnePlace'
  BY <1>3, <1>4 DEF Track, Stage
<1>5. ASSUME NEW x \in slots, EnqueueAck(x) PROVE OnePlace'
  <2> DEFINE r == [ev |-> x.ev, seq |-> x.seq, ok |-> x.at = "staged"]
  <2>1. \A q : (Same(r, q) <=> Same(x, q)) /\ (Same(q, r) <=> Same(q, x))
    BY DEF Same
  <2>2. ackQueue' = Append(ackQueue, r) /\ slots' = slots \ {x} /\ flush' = flush
    BY <1>5 DEF EnqueueAck
  <2> HIDE DEF r
  <2>3. /\ Len(ackQueue') = Len(ackQueue) + 1 /\ Len(ackQueue) \in Nat
        /\ \A i \in 1 .. Len(ackQueue') : ackQueue'[i] = IF i = Len(ackQueue) + 1 THEN r ELSE ackQueue[i]
    BY <1>0, <2>2
  <2>4. \A i, j \in 1 .. Len(ackQueue') : i # j => ~Same(ackQueue'[i], ackQueue'[j])
    <3>1. \A i \in 1 .. Len(ackQueue) : ~Same(x, ackQueue[i]) /\ ~Same(ackQueue[i], x)
      BY DEF OnePlace, Same
    <3> QED
      BY <2>1, <2>3, <3>1 DEF OnePlace
  <2>5. \A i \in 1 .. Len(ackQueue'), j \in 1 .. Len(flush.ranges) : ~Same(ackQueue'[i], flush.ranges[j])
    BY <2>1, <2>3 DEF OnePlace
  <2>6. \A u \in slots', i \in 1 .. Len(ackQueue') : ~Same(u, ackQueue'[i])
    BY <2>1, <2>2, <2>3 DEF OnePlace
  <2> QED
    BY <2>2, <2>4, <2>5, <2>6 DEF OnePlace
<1>6. CASE Steal
  <2> DEFINE n == IF Len(ackQueue) < AckBatchMaxRanges THEN Len(ackQueue) ELSE AckBatchMaxRanges
             held == SubSeq(ackQueue, 1, n)
             rest == SubSeq(ackQueue, n + 1, Len(ackQueue))
  <2>1. Len(ackQueue) \in Nat /\ n \in Nat \ {0} /\ n <= Len(ackQueue)
    BY <1>0, <1>6, ConstantsAssumption DEF Steal
  <2>2. flush' = Flush("held", held) /\ ackQueue' = rest /\ slots' = slots
    BY <1>6 DEF Steal, LeftAfter
  <2> HIDE DEF n
  <2>3. Len(held) = n /\ \A i \in 1 .. n : held[i] = ackQueue[i]
    BY <1>0, <2>1, SubSeqType
  <2>4. Len(rest) = Len(ackQueue) - n /\ \A i \in 1 .. Len(rest) : rest[i] = ackQueue[n + i]
    BY <1>0, <2>1, SubSeqType
  <2> HIDE DEF held, rest
  <2>5. flush'.ranges = held
    BY <2>2 DEF Flush
  <2>6. /\ \A i, j \in 1 .. Len(held) : i # j => ~Same(held[i], held[j])
        /\ \A i, j \in 1 .. Len(rest) : i # j => ~Same(rest[i], rest[j])
        /\ \A i \in 1 .. Len(rest), j \in 1 .. Len(held) : ~Same(rest[i], held[j])
    <3>1. ASSUME NEW i \in 1 .. Len(held) PROVE i \in 1 .. Len(ackQueue) /\ held[i] = ackQueue[i]
      BY <2>1, <2>3
    <3>2. ASSUME NEW i \in 1 .. Len(rest)
          PROVE  n + i \in 1 .. Len(ackQueue) /\ n + i > n /\ rest[i] = ackQueue[n + i]
      BY <2>1, <2>4
    <3>3. \A i, j \in 1 .. Len(held) : i # j => ~Same(held[i], held[j])
      BY <3>1 DEF OnePlace
    <3>4. ASSUME NEW i \in 1 .. Len(rest), NEW j \in 1 .. Len(rest), i # j PROVE ~Same(rest[i], rest[j])
      <4>1. n + i # n + j
        BY <2>1, <2>4, <3>4
      <4> QED
        BY <3>2, <4>1 DEF OnePlace
    <3>5. ASSUME NEW i \in 1 .. Len(rest), NEW j \in 1 .. Len(held) PROVE ~Same(rest[i], held[j])
      <4>1. n + i # j
        BY <2>1, <2>3, <2>4
      <4> QED
        BY <3>1, <3>2, <4>1 DEF OnePlace
    <3> QED
      BY <3>3, <3>4, <3>5
  <2>7. /\ \A x \in slots, i \in 1 .. Len(held) : ~Same(x, held[i])
        /\ \A x \in slots, i \in 1 .. Len(rest) : ~Same(x, rest[i])
    BY <2>1, <2>3, <2>4 DEF OnePlace
  <2> QED
    BY <2>2, <2>5, <2>6, <2>7 DEF OnePlace
<1>7. CASE Send
  <2> DEFINE a == [i \in 1 .. Len(flush.ranges) |-> Answer(flush.ranges[i])]
  <2>1. Len(a) = Len(flush.ranges) /\ \A i \in 1 .. Len(flush.ranges) : a[i] = Answer(flush.ranges[i])
    BY <1>0, AnsweredType
  <2>2. flush' = Flush("answered", a) /\ ackQueue' = ackQueue /\ slots' = slots
    BY <1>7 DEF Send
  <2>3. flush'.ranges = a
    BY <2>2 DEF Flush
  <2> HIDE DEF a
  <2>4. \A r, q : (Same(Answer(r), q) <=> Same(r, q)) /\ (Same(q, Answer(r)) <=> Same(q, r))
    BY DEF Answer, Same
  <2> QED
    BY <2>1, <2>2, <2>3, <2>4 DEF OnePlace
<1>8. ASSUME flush'.ranges = <<>>, ackQueue' \in {ackQueue, <<>>}, slots' = slots PROVE OnePlace'
  BY <1>8 DEF OnePlace
<1>9. CASE ApplyRange
  <2>1. flush.ranges # <<>>
    BY <1>9 DEF ApplyRange, RangesOK
  <2> DEFINE rest == Tail(flush.ranges)
  <2>2. Len(rest) = Len(flush.ranges) - 1 /\ Len(flush.ranges) \in Nat /\ \A i \in 1 .. Len(rest) : rest[i] = flush.ranges[i + 1]
    BY <1>0, <2>1, HeadType
  <2>3. flush' \in {EmptyFlush, Flush("answered", rest), Flush("exited", <<>>)} /\ ackQueue' = ackQueue /\ slots' = slots
    BY <1>9 DEF ApplyRange
  <2> HIDE DEF rest
  <2>4. flush'.ranges \in {<<>>, rest}
    BY <2>3 DEF EmptyFlush, Flush
  <2>5. CASE flush'.ranges = rest
    <3>1. ASSUME NEW i \in 1 .. Len(rest)
          PROVE  i + 1 \in 1 .. Len(flush.ranges) /\ rest[i] = flush.ranges[i + 1]
      BY <2>2
    <3>2. \A i, j \in 1 .. Len(rest) : i # j => ~Same(rest[i], rest[j])
      <4> SUFFICES ASSUME NEW i \in 1 .. Len(rest), NEW j \in 1 .. Len(rest), i # j PROVE ~Same(rest[i], rest[j])
        OBVIOUS
      <4>1. i + 1 # j + 1
        BY <2>2
      <4> QED
        BY <3>1, <4>1 DEF OnePlace
    <3>3. \A x \in slots, i \in 1 .. Len(rest) : ~Same(x, rest[i])
      BY <3>1 DEF OnePlace
    <3>4. \A i \in 1 .. Len(ackQueue), j \in 1 .. Len(rest) : ~Same(ackQueue[i], rest[j])
      BY <3>1 DEF OnePlace
    <3> QED
      BY <2>3, <2>5, <3>2, <3>3, <3>4 DEF OnePlace
  <2> QED
    BY <1>8, <2>3, <2>4, <2>5
<1>10. CASE StopFlusher
  BY <1>8, <1>10 DEF StopFlusher, Flush
<1>11. CASE AkCreateDisk
  <2>1. CASE flush' = EmptyFlush
    BY <1>8, <1>11, <2>1 DEF AkCreateDisk, EmptyFlush, Flush
  <2>2. CASE flush' = flush
    BY <1>11, <2>2 DEF AkCreateDisk, OnePlace
  <2> QED
    BY <1>11, <2>1, <2>2 DEF AkCreateDisk
<1>12. CASE DestroyDisk
  BY <1>12 DEF DestroyDisk, OnePlace
<1> QED
  BY <1>1, <1>2, <1>4, <1>5, <1>6, <1>7, <1>9, <1>10, <1>11, <1>12, PipeSteps

\* The fragments of a write.
LEMMA Totals == \A w \in Writes : TotalSeq(w) \in Nat \ {0}
<1> SUFFICES ASSUME NEW w \in Writes PROVE TotalSeq(w) \in Nat \ {0}
  OBVIOUS
<1>1. Fragments[w] \in Seq(Blocks) /\ Fragments[w] # <<>>
  BY ConstantsAssumption
<1> QED
  BY <1>1 DEF TotalSeq

\* What is accepted of a write is finite, and all of it when there is enough.
LEMMA AcceptedFinite ==
    ASSUME TypeOK, SuccessOK, NEW w \in Writes
    PROVE  /\ IsFiniteSet(accepted[w]) /\ Cardinality(accepted[w]) \in Nat
           /\ accepted[w] \subseteq 0 .. (TotalSeq(w) - 1)
           /\ Cardinality(accepted[w]) >= TotalSeq(w) => accepted[w] = 0 .. (TotalSeq(w) - 1)
<1> DEFINE last == TotalSeq(w) - 1
<1>1. TotalSeq(w) \in Nat \ {0} /\ last \in Int /\ last >= 0 /\ TotalSeq(w) = last + 1
  BY Totals
<1>2. issued[w] \in Nat /\ issued[w] <= TotalSeq(w) /\ accepted[w] \subseteq Nat /\ \A n \in accepted[w] : n < issued[w]
  BY DEF TypeOK, WindowsTypeOK, SuccessOK
<1>3. accepted[w] \subseteq 0 .. last
  BY <1>1, <1>2
<1> HIDE DEF last
<1>4. IsFiniteSet(0 .. last) /\ Cardinality(0 .. last) = last + 1
  <2>1. IsFiniteSet(0 .. last) /\ Cardinality(0 .. last) = IF 0 > last THEN 0 ELSE last - 0 + 1
    BY <1>1, FS_Interval
  <2> QED
    BY <1>1, <2>1
<1>5. /\ IsFiniteSet(accepted[w]) /\ Cardinality(accepted[w]) <= Cardinality(0 .. last)
      /\ Cardinality(0 .. last) = Cardinality(accepted[w]) => 0 .. last = accepted[w]
  BY <1>3, <1>4, FS_Subset
<1>6. Cardinality(accepted[w]) \in Nat
  BY <1>5, FS_CardinalityType
<1> QED
  BY <1>1, <1>3, <1>4, <1>5, <1>6 DEF last

\* The miniport's answer to a batch: what it accepts is new to it, and a write
\* of which it refuses something has failed.
LEMMA SendFacts ==
    ASSUME TypeOK, OnePlace, RangesOK, SuccessOK, Send
    PROVE  /\ \A w \in Writes : accepted[w] \subseteq accepted'[w]
           /\ \A w \in Writes : \A n \in accepted'[w] \ accepted[w] :
                 \E i \in 1 .. Len(flush.ranges) :
                    /\ flush.ranges[i].ev = w /\ flush.ranges[i].seq = n
                    /\ flush.ranges[i].ok /\ srb[w] = "open"
           /\ \A i \in 1 .. Len(flush.ranges) :
                 LET r == flush.ranges[i] IN
                 /\ r.seq \notin accepted[r.ev]
                 /\ Outcome(r) => r.seq \in accepted'[r.ev]
                 /\ ~Outcome(r) => srb'[r.ev] = "failed"
<1>1. \A w \in Writes :
        accepted'[w] = IF srb[w] # "open" THEN accepted[w]
                       ELSE accepted[w] \cup {flush.ranges[i].seq : i \in {j \in 1 .. Len(flush.ranges) :
                                               flush.ranges[j].ev = w /\ flush.ranges[j].ok}}
  BY DEF Send
<1>2. \A w \in Writes : accepted[w] \subseteq accepted'[w]
  BY <1>1
<1>3. ASSUME NEW w \in Writes, NEW n \in accepted'[w] \ accepted[w]
      PROVE  \E i \in 1 .. Len(flush.ranges) :
                /\ flush.ranges[i].ev = w /\ flush.ranges[i].seq = n
                /\ flush.ranges[i].ok /\ srb[w] = "open"
  <2> DEFINE new == {j \in 1 .. Len(flush.ranges) : flush.ranges[j].ev = w /\ flush.ranges[j].ok}
  <2>1. srb[w] = "open" /\ n \in {flush.ranges[i].seq : i \in new}
    BY <1>1, <1>3
  <2>2. PICK i \in new : flush.ranges[i].seq = n
    BY <2>1
  <2> QED
    BY <2>1, <2>2
<1>4. ASSUME NEW i \in 1 .. Len(flush.ranges)
      PROVE  LET r == flush.ranges[i] IN
             /\ r.seq \notin accepted[r.ev]
             /\ Outcome(r) => r.seq \in accepted'[r.ev]
             /\ ~Outcome(r) => srb'[r.ev] = "failed"
  <2> DEFINE r == flush.ranges[i]
  <2>1. r.ev \in Writes /\ r.seq \in Nat /\ r.ok \in BOOLEAN /\ r.seq < issued[r.ev]
    BY RangeFacts
  <2>2. r.seq \notin accepted[r.ev]
    BY DEF Send, RangesOK, Unaccepted
  <2>3. Outcome(r) => r.seq \in accepted'[r.ev]
    BY <1>1, <2>1 DEF Outcome
  <2>4. ASSUME ~Outcome(r) PROVE srb'[r.ev] = "failed"
    <3>1. srb'[r.ev] = AckedBy(flush.ranges, r.ev)
      BY <2>1 DEF Send
    <3>2. CASE srb[r.ev] = "open"
      <4>1. ~r.ok
        BY <2>4, <3>2 DEF Outcome
      <4> QED
        BY <3>1, <3>2, <4>1 DEF AckedBy
    <3>3. CASE srb[r.ev] = "failed"
      BY <3>1, <3>3 DEF AckedBy
    <3>4. srb[r.ev] # "unsent"
      BY <2>1 DEF SuccessOK
    <3>5. srb[r.ev] # "done"
      <4>1. issued[r.ev] \in Nat /\ TotalSeq(r.ev) \in Nat /\ issued[r.ev] <= TotalSeq(r.ev)
        BY <2>1, Totals DEF SuccessOK, TypeOK, WindowsTypeOK
      <4>2. r.seq \in 0 .. (TotalSeq(r.ev) - 1)
        BY <2>1, <4>1
      <4> QED
        BY <2>1, <2>2, <4>2 DEF SuccessOK
    <3> QED
      BY <2>1, <3>2, <3>3, <3>4, <3>5 DEF TypeOK, WindowsTypeOK
  <2> QED
    BY <2>2, <2>3, <2>4
<1> QED
  BY <1>2, <1>3, <1>4

\* Nothing is done before all of it is accepted, and then it is.
LEMMA SuccessStep == TypeOK /\ OnePlace /\ RangesOK /\ SuccessOK /\ [Next]_vars => SuccessOK'
<1> SUFFICES ASSUME TypeOK, OnePlace, RangesOK, SuccessOK, [Next]_vars PROVE SuccessOK'
  OBVIOUS
<1>0. TypeOK' /\ Settled
  BY TypeStep, SettledStep
<1>1. ASSUME accepted' = accepted, issued' = issued,
             \A w \in Writes : /\ srb'[w] = "done" <=> srb[w] = "done"
                               /\ srb'[w] = "unsent" => srb[w] = "unsent"
      PROVE  SuccessOK'
  BY <1>1 DEF SuccessOK, TotalSeq
<1>2. CASE FailOpen /\ UNCHANGED <<issued, accepted>>
  BY <1>1, <1>2 DEF FailOpen
<1>3. CASE UNCHANGED <<srb, issued, accepted>>
  BY <1>1, <1>3
<1>4. ASSUME NEW w \in Writes, SendWrite(w) PROVE SuccessOK'
  BY <1>1, <1>4 DEF SendWrite, TypeOK, WindowsTypeOK
<1>5. ASSUME NEW w \in Writes, FillSlot(w) PROVE SuccessOK'
  <2>1. /\ issued' = [issued EXCEPT ![w] = issued[w] + 1] /\ issued[w] \in Nat /\ issued \in [Writes -> Nat]
        /\ issued[w] < TotalSeq(w) /\ srb[w] = "open" /\ srb' = srb /\ accepted' = accepted
    BY <1>5 DEF FillSlot, TypeOK, WindowsTypeOK
  <2>2. \A v \in Writes : issued'[v] = IF v = w THEN issued[w] + 1 ELSE issued[v]
    BY <2>1
  <2>3. accepted \in [Writes -> SUBSET Nat] /\ \A v \in Writes : TotalSeq(v) \in Nat /\ issued[v] \in Nat
    BY Totals DEF TypeOK, WindowsTypeOK
  <2> QED
    BY <2>1, <2>2, <2>3 DEF SuccessOK, TotalSeq
<1>6. CASE Send
  <2> SUFFICES ASSUME NEW w \in Writes
               PROVE  /\ issued'[w] <= TotalSeq(w) /\ (srb'[w] = "unsent" => issued'[w] = 0)
                      /\ \A n \in accepted'[w] : n < issued'[w]
                      /\ srb'[w] = "done" <=> accepted'[w] = 0 .. (TotalSeq(w) - 1)
    BY DEF SuccessOK, TotalSeq
  <2>1. srb'[w] = AckedBy(flush.ranges, w) /\ issued' = issued
    BY <1>6 DEF Send
  <2>2. \A n \in accepted'[w] : n < issued[w]
    BY <1>6, SendFacts, RangeFacts DEF SuccessOK
  <2>3. issued[w] <= TotalSeq(w) /\ (srb'[w] = "unsent" => issued[w] = 0)
    BY <1>0, <2>1 DEF SuccessOK, AckedBy
  <2>4. CASE srb[w] # "open"
    <3>1. accepted'[w] = accepted[w] /\ srb'[w] = srb[w]
      BY <1>6, <2>1, <2>4 DEF AckedBy, Send
    <3> QED
      BY <2>1, <2>2, <2>3, <3>1 DEF SuccessOK
  <2>5. CASE srb[w] = "open"
    <3> DEFINE mine == {i \in 1 .. Len(flush.ranges) : flush.ranges[i].ev = w}
               told == {flush.ranges[i].seq : i \in mine}
    <3>1. accepted[w] # 0 .. (TotalSeq(w) - 1)
      BY <2>5 DEF SuccessOK
    <3>2. CASE mine = {}
      <4>1. srb'[w] = "open"
        BY <2>1, <2>5, <3>2 DEF AckedBy
      <4>2. accepted'[w] = accepted[w]
        <5>1. \A i \in 1 .. Len(flush.ranges) : flush.ranges[i].ev # w
          BY <3>2
        <5>2. accepted[w] \subseteq accepted'[w] /\ ~ \E n : n \in accepted'[w] \ accepted[w]
          BY <1>6, <5>1, SendFacts
        <5> QED
          BY <5>2
      <4> QED
        BY <2>1, <2>2, <2>3, <3>1, <4>1, <4>2
    <3>3. CASE \E i \in mine : ~flush.ranges[i].ok
      <4>1. srb'[w] = "failed"
        BY <2>1, <2>5, <3>3 DEF AckedBy
      <4>2. PICK i \in mine : ~flush.ranges[i].ok
        BY <3>3
      <4>3. flush.ranges[i].seq \in 0 .. (TotalSeq(w) - 1)
        <5>1. flush.ranges[i].ev = w /\ flush.ranges[i].seq \in Nat /\ flush.ranges[i].seq < issued[w]
          BY RangeFacts
        <5>2. issued[w] \in Nat /\ TotalSeq(w) \in Nat
          BY Totals DEF TypeOK, WindowsTypeOK
        <5> QED
          BY <2>3, <5>1, <5>2
      <4>4. flush.ranges[i].seq \notin accepted'[w]
        <5>1. flush.ranges[i].seq \notin accepted[w]
          BY <1>6, SendFacts
        <5>2. \A j \in 1 .. Len(flush.ranges) :
                flush.ranges[j].ev = w /\ flush.ranges[j].seq = flush.ranges[i].seq => j = i
          BY DEF OnePlace, Same
        <5> QED
          BY <1>6, <4>2, <5>1, <5>2, SendFacts
      <4> QED
        BY <2>1, <2>2, <2>3, <4>1, <4>3, <4>4
    <3>4. CASE mine # {} /\ \A i \in mine : flush.ranges[i].ok
      <4>1. accepted'[w] = accepted[w] \cup told
        BY <1>6, <2>5, <3>4 DEF Send
      <4>2. srb'[w] = IF accepted[w] \cup told = 0 .. (TotalSeq(w) - 1) THEN "done" ELSE "open"
        BY <2>1, <2>5, <3>4 DEF AckedBy
      <4> QED
        BY <2>1, <2>2, <2>3, <4>1, <4>2
    <3> QED
      BY <3>2, <3>3, <3>4
  <2> QED
    BY <2>4, <2>5
<1>7. CASE Reset \/ RemoveDisk \/ CloseSession
  BY <1>2, <1>3, <1>7 DEF Reset, RemoveDisk, CloseSession
<1>8. ASSUME NEW call \in Removals, BeginRemoval(call) PROVE SuccessOK'
  BY <1>2, <1>3, <1>8 DEF BeginRemoval
<1>9. CASE Worker
  BY <1>3, <1>9 DEF Worker, Track, Stage, EnqueueAck, windowsVars
<1>10. CASE Flusher
  BY <1>3, <1>6, <1>10 DEF Flusher, Steal, ApplyRange, StopFlusher, windowsVars
<1>11. CASE SignalLoop \/ SessionBroken
  BY <1>3, <1>11 DEF SignalLoop, SessionBroken, Poll, Commit, Reject, windowsVars
<1>12. CASE Open \/ BeginCreate \/ AkCreateDisk \/ EndCreate \/ DestroyDisk \/ TakeMedia
  BY <1>3, <1>12 DEF Open, BeginCreate, AkCreateDisk, EndCreate, DestroyDisk, TakeMedia, windowsVars
<1>13. CASE UNCHANGED vars
  BY <1>3, <1>13 DEF vars, windowsVars
<1> QED
  BY <1>4, <1>5, <1>7, <1>8, <1>9, <1>10, <1>11, <1>12, <1>13 DEF Next, Control

\* What waits is not accepted; what was answered agrees with the miniport.
LEMMA RangesStep == TypeOK /\ OnePlace /\ RangesOK /\ SuccessOK /\ [Next]_vars => RangesOK'
<1> SUFFICES ASSUME TypeOK, OnePlace, RangesOK, SuccessOK, [Next]_vars PROVE RangesOK'
  OBVIOUS
<1>0. /\ TypeOK' /\ Settled
      /\ ackQueue \in Seq(RangeType) /\ flush.ranges \in Seq(RangeType)
      /\ flush.at \in {"idle", "held", "answered", "exited"}
  BY TypeStep, SettledStep DEF TypeOK, KernelTypeOK
<1>2. ASSUME UNCHANGED <<issued, accepted>>, flush' = flush,
             \A x \in slots' : x.seq < issued[x.ev] /\ x.seq \notin accepted[x.ev],
             \A i \in 1 .. Len(ackQueue') : /\ ackQueue'[i].seq < issued[ackQueue'[i].ev]
                                           /\ ackQueue'[i].seq \notin accepted[ackQueue'[i].ev]
      PROVE  RangesOK'
  <2>1. flush.at = "answered" => \A i \in 1 .. Len(flush.ranges) : ~flush.ranges[i].ok => srb'[flush.ranges[i].ev] = "failed"
    BY <1>0, RangeFacts DEF RangesOK, Settled
  <2> QED
    BY <1>2, <2>1 DEF RangesOK, Unaccepted
<1>3. CASE UNCHANGED pipeVars
  BY <1>2, <1>3 DEF pipeVars, RangesOK, Unaccepted
<1>4. ASSUME NEW w \in Writes, FillSlot(w) PROVE RangesOK'
  <2>1. /\ issued' = [issued EXCEPT ![w] = issued[w] + 1] /\ issued[w] \in Nat /\ issued \in [Writes -> Nat]
        /\ accepted \in [Writes -> SUBSET Nat] /\ accepted' = accepted /\ ackQueue' = ackQueue /\ flush' = flush /\ srb' = srb
    BY <1>4 DEF FillSlot, TypeOK, WindowsTypeOK
  <2>2. \A v \in Writes : issued'[v] \in Nat /\ issued[v] \in Nat /\ issued[v] <= issued'[v] /\ issued'[w] = issued[w] + 1
    BY <2>1
  <2> DEFINE y == [ev |-> w, seq |-> issued[w], at |-> "filled"]
  <2>3. slots' = slots \cup {y} /\ y.ev = w /\ y.seq = issued[w]
    BY <1>4 DEF FillSlot
  <2> HIDE DEF y
  <2>4. y.seq < issued'[y.ev] /\ y.seq \notin accepted[y.ev]
    BY <2>1, <2>2, <2>3 DEF SuccessOK
  <2>5. \A x \in slots' : Unaccepted(x)'
    BY <2>1, <2>2, <2>3, <2>4, RangeFacts DEF RangesOK, Unaccepted
  <2>6. \A i \in 1 .. Len(ackQueue) : ackQueue[i].seq < issued'[ackQueue[i].ev] /\ ackQueue[i].seq \notin accepted[ackQueue[i].ev]
    BY <2>2, RangeFacts DEF RangesOK, Unaccepted
  <2>7. \A i \in 1 .. Len(flush.ranges) : flush.ranges[i].seq < issued'[flush.ranges[i].ev]
    BY <2>2, RangeFacts
  <2> QED
    BY <2>1, <2>5, <2>6, <2>7 DEF RangesOK, Unaccepted
<1>5. ASSUME NEW x \in slots, Track(x) \/ Stage(x) \/ EnqueueAck(x) PROVE RangesOK'
  <2>1. x.seq < issued[x.ev] /\ x.seq \notin accepted[x.ev]
    BY DEF RangesOK, Unaccepted
  <2>2. UNCHANGED <<issued, accepted>> /\ flush' = flush
    BY <1>5 DEF Track, Stage, EnqueueAck, windowsVars
  <2>3. \A y \in slots' : y.seq < issued[y.ev] /\ y.seq \notin accepted[y.ev]
    <3>1. ASSUME NEW at, Moves(x, at) PROVE <2>3!:
      BY <2>1, <3>1 DEF Moves, RangesOK, Unaccepted
    <3>2. CASE EnqueueAck(x)
      BY <3>2 DEF EnqueueAck, RangesOK, Unaccepted
    <3> QED
      BY <1>5, <3>1, <3>2 DEF Track, Stage
  <2>4. \A i \in 1 .. Len(ackQueue') :
          ackQueue'[i].seq < issued[ackQueue'[i].ev] /\ ackQueue'[i].seq \notin accepted[ackQueue'[i].ev]
    <3>1. CASE ackQueue' = ackQueue
      BY <3>1 DEF RangesOK, Unaccepted
    <3>2. CASE EnqueueAck(x)
      <4> DEFINE r == [ev |-> x.ev, seq |-> x.seq, ok |-> x.at = "staged"]
      <4>1. ackQueue' = Append(ackQueue, r) /\ r.ev = x.ev /\ r.seq = x.seq
        BY <3>2 DEF EnqueueAck
      <4> HIDE DEF r
      <4>2. \A i \in 1 .. Len(ackQueue') : ackQueue'[i] = IF i = Len(ackQueue) + 1 THEN r ELSE ackQueue[i]
        BY <1>0, <4>1
      <4>3. Len(ackQueue') = Len(ackQueue) + 1 /\ Len(ackQueue) \in Nat
        BY <1>0, <4>1
      <4> QED
        BY <2>1, <4>1, <4>2, <4>3 DEF RangesOK, Unaccepted
    <3> QED
      BY <1>5, <3>1, <3>2 DEF Track, Stage
  <2> QED
    BY <1>2, <2>2, <2>3, <2>4
<1>6. CASE Steal
  <2> DEFINE n == IF Len(ackQueue) < AckBatchMaxRanges THEN Len(ackQueue) ELSE AckBatchMaxRanges
             held == SubSeq(ackQueue, 1, n)
             rest == SubSeq(ackQueue, n + 1, Len(ackQueue))
  <2>1. Len(ackQueue) \in Nat /\ n \in Nat \ {0} /\ n <= Len(ackQueue)
    BY <1>0, <1>6, ConstantsAssumption DEF Steal
  <2>2. flush' = Flush("held", held) /\ ackQueue' = rest /\ slots' = slots /\ UNCHANGED <<issued, accepted>>
    BY <1>6 DEF Steal, LeftAfter, windowsVars
  <2> HIDE DEF n
  <2>3. Len(held) = n /\ \A i \in 1 .. n : held[i] = ackQueue[i]
    BY <1>0, <2>1, SubSeqType
  <2>4. Len(rest) = Len(ackQueue) - n /\ \A i \in 1 .. Len(rest) : rest[i] = ackQueue[n + i]
    BY <1>0, <2>1, SubSeqType
  <2> HIDE DEF held, rest
  <2>5. flush'.ranges = held /\ flush'.at = "held" /\ held # <<>>
    BY <2>1, <2>2, <2>3 DEF Flush
  <2>6. /\ \A i \in 1 .. Len(held) : held[i].seq < issued[held[i].ev] /\ held[i].seq \notin accepted[held[i].ev]
        /\ \A i \in 1 .. Len(rest) : rest[i].seq < issued[rest[i].ev] /\ rest[i].seq \notin accepted[rest[i].ev]
    <3>1. ASSUME NEW i \in 1 .. Len(rest) PROVE n + i \in 1 .. Len(ackQueue) /\ rest[i] = ackQueue[n + i]
      BY <2>1, <2>4
    <3>2. ASSUME NEW i \in 1 .. Len(held) PROVE i \in 1 .. Len(ackQueue) /\ held[i] = ackQueue[i]
      BY <2>1, <2>3
    <3> QED
      BY <3>1, <3>2 DEF RangesOK, Unaccepted
  <2> QED
    BY <2>2, <2>5, <2>6 DEF RangesOK, Unaccepted
<1>7. CASE Send
  <2> DEFINE a == [i \in 1 .. Len(flush.ranges) |-> Answer(flush.ranges[i])]
  <2>1. Len(a) = Len(flush.ranges) /\ \A i \in 1 .. Len(flush.ranges) : a[i] = Answer(flush.ranges[i])
    BY <1>0, AnsweredType
  <2>2. flush' = Flush("answered", a) /\ ackQueue' = ackQueue /\ slots' = slots /\ issued' = issued
    BY <1>7 DEF Send
  <2> HIDE DEF a
  <2>3. flush'.ranges = a /\ flush'.at = "answered"
    BY <2>2 DEF Flush
  <2>4. flush.ranges # <<>> /\ a # <<>>
    <3>1. flush.ranges # <<>> /\ flush.ranges \in Seq(RangeType)
      BY <1>0, <1>7 DEF Send, RangesOK
    <3>2. Len(flush.ranges) # 0
      BY <3>1
    <3> QED
      BY <2>1, <3>1, <3>2
  <2>5. ASSUME NEW i \in 1 .. Len(a)
        PROVE  /\ a[i].seq < issued[a[i].ev]
               /\ a[i].ok => a[i].seq \in accepted'[a[i].ev]
               /\ ~a[i].ok => srb'[a[i].ev] = "failed"
    <3>1. a[i].ev = flush.ranges[i].ev /\ a[i].seq = flush.ranges[i].seq /\ a[i].ok = Outcome(flush.ranges[i])
      <4>1. a[i] = Answer(flush.ranges[i])
        BY <2>1
      <4>2. \A r : Answer(r).ev = r.ev /\ Answer(r).seq = r.seq
        BY DEF Answer
      <4>3. \A r : Answer(r).ok = Outcome(r)
        BY Zenon DEF Answer
      <4> QED
        BY <4>1, <4>2, <4>3, Zenon
    <3> QED
      BY <1>7, <2>1, <3>1, SendFacts, RangeFacts
  <2>6. \A r : r.ev \in Writes /\ r.seq \notin accepted[r.ev]
               /\ (\A i \in 1 .. Len(flush.ranges) : ~Same(r, flush.ranges[i])) => r.seq \notin accepted'[r.ev]
    BY <1>7, SendFacts DEF Same
  <2>7. \A x \in slots : x.seq < issued[x.ev] /\ x.seq \notin accepted'[x.ev]
    BY <2>6, RangeFacts DEF OnePlace, RangesOK, Unaccepted
  <2>8. \A i \in 1 .. Len(ackQueue) : ackQueue[i].seq < issued[ackQueue[i].ev] /\ ackQueue[i].seq \notin accepted'[ackQueue[i].ev]
    BY <2>6, RangeFacts DEF OnePlace, RangesOK, Unaccepted
  <2> QED
    BY <2>2, <2>3, <2>4, <2>5, <2>7, <2>8 DEF RangesOK, Unaccepted
<1>8. ASSUME UNCHANGED <<issued, accepted>>, flush'.ranges = <<>>, flush'.at \in {"idle", "exited"},
             ackQueue' \in {ackQueue, <<>>}, slots' = slots
      PROVE  RangesOK'
  BY <1>8 DEF RangesOK, Unaccepted
<1>9. CASE ApplyRange
  <2>1. flush.ranges # <<>> /\ flush.at = "answered"
    BY <1>9 DEF ApplyRange, RangesOK
  <2> DEFINE rest == Tail(flush.ranges)
  <2>2. /\ Len(rest) = Len(flush.ranges) - 1 /\ Len(flush.ranges) \in Nat
        /\ \A i \in 1 .. Len(rest) : rest[i] = flush.ranges[i + 1]
    BY <1>0, <2>1, HeadType
  <2>3. /\ flush' = EmptyFlush \/ (rest # <<>> /\ flush' = Flush("answered", rest)) \/ flush' = Flush("exited", <<>>)
        /\ ackQueue' = ackQueue /\ slots' = slots /\ UNCHANGED <<srb, issued, accepted>>
    BY <1>9 DEF ApplyRange, windowsVars
  <2> HIDE DEF rest
  <2>4. CASE rest # <<>> /\ flush' = Flush("answered", rest)
    <3>1. flush'.ranges = rest /\ flush'.at = "answered"
      BY <2>4 DEF Flush
    <3>2. ASSUME NEW i \in 1 .. Len(rest)
          PROVE  i + 1 \in 1 .. Len(flush.ranges) /\ rest[i] = flush.ranges[i + 1]
      BY <2>2
    <3>3. ASSUME NEW i \in 1 .. Len(rest)
          PROVE  /\ rest[i].seq < issued[rest[i].ev]
                 /\ rest[i].ok => rest[i].seq \in accepted[rest[i].ev]
                 /\ ~rest[i].ok => srb[rest[i].ev] = "failed"
      BY <2>1, <3>2 DEF RangesOK
    <3> QED
      BY <2>3, <2>4, <3>1, <3>3 DEF RangesOK, Unaccepted
  <2>5. CASE flush' = EmptyFlush \/ flush' = Flush("exited", <<>>)
    BY <1>8, <2>3, <2>5 DEF EmptyFlush, Flush
  <2> QED
    BY <2>3, <2>4, <2>5
<1>10. CASE StopFlusher
  BY <1>8, <1>10 DEF StopFlusher, Flush, windowsVars
<1>11. CASE AkCreateDisk
  <2>1. CASE flush' = EmptyFlush
    BY <1>8, <1>11, <2>1 DEF AkCreateDisk, EmptyFlush, Flush, windowsVars
  <2>2. CASE flush' = flush
    BY <1>2, <1>11, <2>2 DEF AkCreateDisk, windowsVars, RangesOK, Unaccepted
  <2> QED
    BY <1>11, <2>1, <2>2 DEF AkCreateDisk
<1>12. CASE DestroyDisk
  BY <1>2, <1>12 DEF DestroyDisk, windowsVars, RangesOK, Unaccepted
<1> QED
  BY <1>3, <1>4, <1>5, <1>6, <1>7, <1>9, <1>10, <1>11, <1>12, PipeSteps

\* The count is safe where nothing new is counted and nothing new is owed.
LEMMA CountKept ==
    ASSUME TypeOK, SuccessOK, CountOK, accepted' = accepted,
           \A w \in Writes : Uncounted(w)' \subseteq Uncounted(w),
           DOMAIN active' \subseteq Writes,
           \A w \in DOMAIN active' : active'[w] = 0 \/ (w \in DOMAIN active /\ active'[w] = active[w])
    PROVE  CountOK'
<1> SUFFICES ASSUME NEW w \in DOMAIN active' PROVE active'[w] <= Cardinality(accepted[w] \ Uncounted(w)')
  BY DEF CountOK
<1>1. w \in Writes /\ IsFiniteSet(accepted[w])
  BY AcceptedFinite
<1> DEFINE before == accepted[w] \ Uncounted(w)
           after == accepted[w] \ Uncounted(w)'
<1>2. before \subseteq after /\ after \subseteq accepted[w]
  BY <1>1
<1> HIDE DEF before, after
<1>3. IsFiniteSet(after) /\ IsFiniteSet(before) /\ Cardinality(before) <= Cardinality(after)
  BY <1>1, <1>2, FS_Subset
<1>4. Cardinality(after) \in Nat /\ Cardinality(before) \in Nat
  BY <1>3, FS_CardinalityType
<1>5. CASE active'[w] = 0
  BY <1>4, <1>5 DEF after
<1>6. CASE w \in DOMAIN active /\ active'[w] = active[w]
  <2>1. active[w] <= Cardinality(before) /\ active[w] \in Nat
    BY <1>6 DEF before, CountOK, TypeOK, KernelTypeOK
  <2> QED
    BY <1>3, <1>4, <1>6, <2>1 DEF after
<1> QED
  BY <1>5, <1>6

\* The range the flusher learns of next was accepted and is not counted yet; so
\* when it fills the count, the write is done.
LEMMA NextRange ==
    ASSUME TypeOK, OnePlace, RangesOK, SuccessOK, CountOK, flush.at = "answered"
    PROVE  LET range == Head(flush.ranges)
               rest == Tail(flush.ranges)
           IN /\ range.ev \in Writes /\ range.ok \in BOOLEAN
              /\ ~range.ok => srb[range.ev] = "failed"
              /\ range.ok /\ range.ev \in DOMAIN active =>
                   active[range.ev] + 1 <= Cardinality(accepted[range.ev]
                       \ {rest[i].seq : i \in {j \in 1 .. Len(rest) : rest[j].ev = range.ev /\ rest[j].ok}})
              /\ range.ok /\ range.ev \in DOMAIN active /\ AllAcked(range.ev) => srb[range.ev] = "done"
<1> DEFINE range == Head(flush.ranges)
           rest == Tail(flush.ranges)
           w == range.ev
           owed == {rest[i].seq : i \in {j \in 1 .. Len(rest) : rest[j].ev = w /\ rest[j].ok}}
<1>1. flush.ranges \in Seq(RangeType) /\ flush.ranges # <<>>
  BY DEF TypeOK, KernelTypeOK, RangesOK
<1>2. /\ range = flush.ranges[1] /\ Len(flush.ranges) \in Nat \ {0} /\ Len(rest) = Len(flush.ranges) - 1
      /\ \A i \in 1 .. Len(rest) : rest[i] = flush.ranges[i + 1]
  BY <1>1, HeadType
<1> HIDE DEF range, rest
<1>3. /\ w \in Writes /\ range.ok \in BOOLEAN /\ range.seq \in Nat
      /\ range.ok => range.seq \in accepted[w]
      /\ ~range.ok => srb[w] = "failed"
  BY <1>2, RangeFacts DEF RangesOK
<1>4. ASSUME range.ok, w \in DOMAIN active
      PROVE  /\ active[w] + 1 <= Cardinality(accepted[w] \ owed)
             /\ AllAcked(w) => srb[w] = "done"
  <2>1. range.seq \in Uncounted(w)
    <3>1. 1 \in {j \in 1 .. Len(flush.ranges) : flush.at = "answered" /\ flush.ranges[j].ev = w /\ flush.ranges[j].ok}
      BY <1>2, <1>4
    <3> QED
      BY <1>2, <3>1 DEF Uncounted
  <2>2. owed \subseteq Uncounted(w)
    <3> SUFFICES ASSUME NEW i \in 1 .. Len(rest), rest[i].ev = w, rest[i].ok PROVE rest[i].seq \in Uncounted(w)
      OBVIOUS
    <3>1. i + 1 \in {j \in 1 .. Len(flush.ranges) : flush.at = "answered" /\ flush.ranges[j].ev = w /\ flush.ranges[j].ok}
      BY <1>2
    <3> QED
      BY <1>2, <3>1 DEF Uncounted
  <2>3. range.seq \notin owed
    <3> SUFFICES ASSUME NEW i \in 1 .. Len(rest), rest[i].ev = w PROVE rest[i].seq # range.seq
      OBVIOUS
    <3>1. i + 1 \in 1 .. Len(flush.ranges) /\ i + 1 # 1 /\ rest[i] = flush.ranges[i + 1]
      BY <1>2
    <3> QED
      BY <1>2, <3>1 DEF OnePlace, Same
  <2> DEFINE before == accepted[w] \ Uncounted(w)
             after == accepted[w] \ owed
  <2>4. before \cup {range.seq} \subseteq after /\ range.seq \notin before /\ after \subseteq accepted[w] /\ before \subseteq accepted[w]
    BY <1>3, <1>4, <2>1, <2>2, <2>3
  <2>5. active[w] <= Cardinality(before) /\ active[w] \in Nat
    BY <1>4 DEF CountOK, TypeOK, KernelTypeOK
  <2> HIDE DEF before, after
  <2>6. IsFiniteSet(accepted[w]) /\ Cardinality(accepted[w]) \in Nat
    BY <1>3, AcceptedFinite
  <2>7. IsFiniteSet(before) /\ IsFiniteSet(after) /\ Cardinality(after) <= Cardinality(accepted[w])
    BY <2>4, <2>6, FS_Subset
  <2>8. IsFiniteSet(before \cup {range.seq}) /\ Cardinality(before \cup {range.seq}) = Cardinality(before) + 1
    BY <2>4, <2>7, FS_AddElement
  <2>9. Cardinality(before \cup {range.seq}) <= Cardinality(after)
    BY <2>4, <2>7, FS_Subset
  <2>10. Cardinality(before) \in Nat /\ Cardinality(after) \in Nat
    BY <2>7, FS_CardinalityType
  <2>11. active[w] + 1 <= Cardinality(after)
    BY <2>5, <2>8, <2>9, <2>10
  <2>12. ASSUME AllAcked(w) PROVE srb[w] = "done"
    <3>1. Cardinality(accepted[w]) >= TotalSeq(w)
      BY <1>3, <2>5, <2>6, <2>7, <2>10, <2>11, <2>12, Totals DEF AllAcked
    <3> QED
      BY <1>3, <3>1, AcceptedFinite DEF SuccessOK
  <2> QED
    BY <2>11, <2>12 DEF after
<1> QED
  BY <1>3, <1>4 DEF range, rest

\* Where more is accepted or less is owed, a count that does not grow is safe.
LEMMA CountGrows ==
    ASSUME TypeOK', SuccessOK', NEW w \in Writes, NEW before, before \subseteq accepted'[w] \ Uncounted(w)',
           NEW n \in Nat, n <= Cardinality(before)
    PROVE  n <= Cardinality(accepted'[w] \ Uncounted(w)')
<1> DEFINE last == TotalSeq(w) - 1
           after == accepted'[w] \ Uncounted(w)'
<1>1. last \in Int
  BY Totals
<1>2. issued'[w] \in Nat /\ issued'[w] <= last + 1 /\ accepted'[w] \subseteq Nat /\ \A m \in accepted'[w] : m < issued'[w]
  BY Totals DEF TypeOK, WindowsTypeOK, SuccessOK, TotalSeq
<1>3. accepted'[w] \subseteq 0 .. last
  BY <1>1, <1>2
<1>4. after \subseteq 0 .. last /\ before \subseteq after
  BY <1>3
<1> HIDE DEF last, after
<1>5. IsFiniteSet(0 .. last)
  BY <1>1, FS_Interval
<1>6. IsFiniteSet(after)
  BY <1>4, <1>5, FS_Subset
<1>7. IsFiniteSet(before) /\ Cardinality(before) <= Cardinality(after)
  BY <1>4, <1>6, FS_Subset
<1>8. Cardinality(after) \in Nat /\ Cardinality(before) \in Nat
  BY <1>6, <1>7, FS_CardinalityType
<1> QED
  BY <1>7, <1>8 DEF after

\* AckedSeqCount stays within what the miniport accepted.
LEMMA CountStep == TypeOK /\ OnePlace /\ RangesOK /\ SuccessOK /\ CountOK /\ [Next]_vars => CountOK'
<1> SUFFICES ASSUME TypeOK, OnePlace, RangesOK, SuccessOK, CountOK, [Next]_vars PROVE CountOK'
  OBVIOUS
<1>0. TypeOK' /\ SuccessOK' /\ DOMAIN active' \subseteq Writes
  BY TypeStep, SuccessStep DEF TypeOK, KernelTypeOK
<1>1. ASSUME flush' = flush \/ flush'.at # "answered" PROVE \A w \in Writes : Uncounted(w)' \subseteq Uncounted(w)
  BY <1>1 DEF Uncounted
<1>2. ASSUME accepted' = accepted, flush' = flush \/ flush'.at # "answered",
             active' = active \/ active' = NoEvents \/ \E w \in Writes : active' = With(active, w, 0) /\ w \notin DOMAIN active
      PROVE  CountOK'
  <2>1. \A w \in DOMAIN active' : active'[w] = 0 \/ (w \in DOMAIN active /\ active'[w] = active[w])
    BY <1>2 DEF NoEvents, With
  <2> QED
    BY <1>0, <1>1, <1>2, <2>1, CountKept
<1>3. CASE UNCHANGED pipeVars
  BY <1>2, <1>3 DEF pipeVars
<1>4. ASSUME NEW w \in Writes, FillSlot(w) PROVE CountOK'
  BY <1>2, <1>4 DEF FillSlot
<1>5. ASSUME NEW x \in slots, Track(x) \/ Stage(x) \/ EnqueueAck(x) PROVE CountOK'
  <2>1. x.ev \in Writes /\ accepted' = accepted /\ flush' = flush
    BY <1>5, RangeFacts DEF Track, Stage, EnqueueAck, windowsVars
  <2>2. active' = active \/ (active' = With(active, x.ev, 0) /\ x.ev \notin DOMAIN active)
    BY <1>5 DEF Track, Stage, EnqueueAck
  <2> QED
    BY <1>2, <2>1, <2>2
<1>6. CASE Steal \/ StopFlusher
  <2>1. flush'.at # "answered" /\ accepted' = accepted /\ active' = active
    BY <1>6 DEF Steal, StopFlusher, Flush, windowsVars
  <2> QED
    BY <1>2, <2>1
<1>7. CASE AkCreateDisk \/ DestroyDisk
  <2>1. (flush' = flush \/ flush'.at # "answered") /\ accepted' = accepted /\ active' \in {active, NoEvents}
    BY <1>7 DEF AkCreateDisk, DestroyDisk, EmptyFlush, Flush, windowsVars
  <2> QED
    BY <1>2, <2>1
<1>8. CASE Send
  <2> SUFFICES ASSUME NEW w \in DOMAIN active PROVE active[w] <= Cardinality(accepted'[w] \ Uncounted(w)')
    BY <1>8 DEF Send, CountOK
  <2> DEFINE a == [i \in 1 .. Len(flush.ranges) |-> Answer(flush.ranges[i])]
  <2>1. /\ w \in Writes /\ active[w] \in Nat /\ active[w] <= Cardinality(accepted[w] \ Uncounted(w))
        /\ flush.ranges \in Seq(RangeType)
    BY DEF CountOK, TypeOK, KernelTypeOK
  <2>2. Len(a) = Len(flush.ranges) /\ \A i \in 1 .. Len(flush.ranges) : a[i] = Answer(flush.ranges[i])
    BY <2>1, AnsweredType
  <2>3. flush' = Flush("answered", a)
    BY <1>8 DEF Send
  <2> HIDE DEF a
  <2>4. flush'.ranges = a
    BY <2>3 DEF Flush
  <2>5. \A n \in Uncounted(w)' : \E i \in 1 .. Len(a) : a[i].ev = w /\ a[i].seq = n
    BY <2>4 DEF Uncounted
  <2>6. \A n \in Uncounted(w)' : \E i \in 1 .. Len(flush.ranges) : flush.ranges[i].ev = w /\ flush.ranges[i].seq = n
    <3>1. \A r : Answer(r).ev = r.ev /\ Answer(r).seq = r.seq
      BY DEF Answer
    <3> QED
      BY <2>2, <2>5, <3>1
  <2>7. \A n \in Uncounted(w)' : n \notin accepted[w]
    BY <1>8, <2>6, SendFacts
  <2>8. accepted[w] \ Uncounted(w) \subseteq accepted'[w] \ Uncounted(w)'
    BY <1>8, <2>1, <2>7, SendFacts
  <2> QED
    BY <1>0, <2>1, <2>8, CountGrows
<1>9. CASE ApplyRange
  <2>1. flush.at = "answered" /\ flush.ranges # <<>> /\ flush.ranges \in Seq(RangeType) /\ accepted' = accepted
    BY <1>9 DEF ApplyRange, RangesOK, TypeOK, KernelTypeOK, windowsVars
  <2> DEFINE range == Head(flush.ranges)
             rest == Tail(flush.ranges)
             owed(w) == {rest[i].seq : i \in {j \in 1 .. Len(rest) : rest[j].ev = w /\ rest[j].ok}}
  <2>2. /\ Len(flush.ranges) \in Nat \ {0} /\ Len(rest) = Len(flush.ranges) - 1
        /\ \A i \in 1 .. Len(rest) : rest[i] = flush.ranges[i + 1]
    BY <2>1, HeadType
  <2>3. /\ flush' \in {EmptyFlush, Flush("answered", rest), Flush("exited", <<>>)}
        /\ \/ active' = active
           \/ active' = Without(active, range.ev)
           \/ /\ range.ev \in DOMAIN active /\ range.ok
              /\ active' = [active EXCEPT ![range.ev] = active[range.ev] + 1]
    BY <1>9 DEF ApplyRange, Finalize
  <2>4. /\ range.ev \in Writes
        /\ range.ok /\ range.ev \in DOMAIN active => active[range.ev] + 1 <= Cardinality(accepted[range.ev] \ owed(range.ev))
    BY <2>1, NextRange
  <2> HIDE DEF range, rest
  <2>5. ASSUME NEW w \in Writes PROVE Uncounted(w)' \subseteq owed(w) /\ owed(w) \subseteq Uncounted(w)
    <3>1. Uncounted(w)' \subseteq owed(w)
      <4>1. CASE flush' = Flush("answered", rest)
        <5>1. flush'.ranges = rest
          BY <4>1 DEF Flush
        <5> QED
          BY <5>1 DEF Uncounted
      <4>2. CASE flush' = EmptyFlush \/ flush' = Flush("exited", <<>>)
        BY <4>2 DEF Uncounted, EmptyFlush, Flush
      <4> QED
        BY <2>3, <4>1, <4>2
    <3>2. owed(w) \subseteq Uncounted(w)
      <4> SUFFICES ASSUME NEW i \in 1 .. Len(rest), rest[i].ev = w, rest[i].ok PROVE rest[i].seq \in Uncounted(w)
        OBVIOUS
      <4>1. i + 1 \in {j \in 1 .. Len(flush.ranges) : flush.at = "answered" /\ flush.ranges[j].ev = w /\ flush.ranges[j].ok}
        BY <2>1, <2>2
      <4> QED
        BY <2>2, <4>1 DEF Uncounted
    <3> QED
      BY <3>1, <3>2
  <2>6. CASE active' = active \/ active' = Without(active, range.ev)
    <3>1. \A w \in DOMAIN active' : w \in DOMAIN active /\ active'[w] = active[w]
      BY <2>6 DEF Without
    <3>2. \A w \in Writes : Uncounted(w)' \subseteq Uncounted(w)
      BY <2>5
    <3> QED
      BY <1>0, <2>1, <3>1, <3>2, CountKept
  <2>7. CASE /\ range.ev \in DOMAIN active /\ range.ok
             /\ active' = [active EXCEPT ![range.ev] = active[range.ev] + 1]
    <3> SUFFICES ASSUME NEW w \in DOMAIN active' PROVE active'[w] <= Cardinality(accepted'[w] \ Uncounted(w)')
      BY DEF CountOK
    <3>1. /\ w \in Writes /\ w \in DOMAIN active /\ active[w] \in Nat
          /\ active'[w] = IF w = range.ev THEN active[w] + 1 ELSE active[w]
      BY <1>0, <2>7 DEF TypeOK, KernelTypeOK
    <3>2. active'[w] \in Nat
      BY <3>1
    <3>3. CASE w = range.ev
      <4>1. active'[w] <= Cardinality(accepted[w] \ owed(w))
        BY <2>4, <2>7, <3>1, <3>3
      <4>2. accepted[w] \ owed(w) \subseteq accepted'[w] \ Uncounted(w)'
        BY <2>1, <2>5, <3>1
      <4> HIDE DEF owed
      <4> QED
        BY <1>0, <3>1, <3>2, <4>1, <4>2, CountGrows
    <3>4. CASE w # range.ev
      <4>1. active'[w] <= Cardinality(accepted[w] \ Uncounted(w))
        BY <3>1, <3>4 DEF CountOK
      <4>2. accepted[w] \ Uncounted(w) \subseteq accepted'[w] \ Uncounted(w)'
        BY <2>1, <2>5, <3>1
      <4> QED
        BY <1>0, <3>1, <3>2, <4>1, <4>2, CountGrows
    <3> QED
      BY <3>3, <3>4
  <2> QED
    BY <2>3, <2>6, <2>7
<1> QED
  BY <1>3, <1>4, <1>5, <1>6, <1>7, <1>8, <1>9, PipeSteps

\* The last fragment to be counted makes the final response, and by then the
\* miniport has told Windows the same.
LEMMA FinalStep ==
    TypeOK /\ OnePlace /\ RangesOK /\ SuccessOK /\ CountOK /\ FinalAgreesWithWindows /\ [Next]_vars
        => FinalAgreesWithWindows'
<1> SUFFICES ASSUME TypeOK, OnePlace, RangesOK, SuccessOK, CountOK, FinalAgreesWithWindows, [Next]_vars
             PROVE  FinalAgreesWithWindows'
  OBVIOUS
<1>0. Settled /\ responses \in Seq(ResponseType) /\ polled \in ResponseType \cup {None}
  BY SettledStep DEF TypeOK, LoopTypeOK
<1>1. ASSUME NEW r \in Pending PROVE srb'[r.ev] = IF r.committed THEN "done" ELSE "failed"
  <2>1. r \in ResponseType
    BY <1>0 DEF Pending
  <2>2. r.ev \in Writes
    BY <2>1 DEF ResponseType
  <2> QED
    BY <1>0, <2>2 DEF FinalAgreesWithWindows, Settled
<1>2. ASSUME Pending' \subseteq Pending PROVE FinalAgreesWithWindows'
  BY <1>1, <1>2 DEF FinalAgreesWithWindows
<1>3. CASE responses' = responses /\ polled' \in {polled, None}
  BY <1>2, <1>3 DEF Pending
<1>4. CASE responses' = <<>> /\ polled' = polled
  BY <1>2, <1>4 DEF Pending
<1>5. CASE Poll
  <2>1. responses # <<>> /\ responses' = Tail(responses) /\ polled' \in {Head(responses), None}
    BY <1>5 DEF Poll
  <2>2. /\ Len(responses) \in Nat \ {0} /\ Head(responses) = responses[1]
        /\ Len(Tail(responses)) = Len(responses) - 1
        /\ \A i \in 1 .. Len(Tail(responses)) : Tail(responses)[i] = responses[i + 1]
    BY <1>0, <2>1, HeadType
  <2>3. \A i \in 1 .. Len(responses') : \E j \in 1 .. Len(responses) : responses'[i] = responses[j]
    <3> SUFFICES ASSUME NEW i \in 1 .. Len(Tail(responses))
                 PROVE  \E j \in 1 .. Len(responses) : Tail(responses)[i] = responses[j]
      BY <2>1
    <3>1. i + 1 \in 1 .. Len(responses)
      BY <2>2
    <3> QED
      BY <2>2, <3>1
  <2>4. 1 \in 1 .. Len(responses) /\ polled' \in {responses[1], None}
    BY <2>1, <2>2
  <2> QED
    BY <1>2, <2>3, <2>4 DEF Pending
<1>6. CASE ApplyRange
  <2> DEFINE range == Head(flush.ranges)
  <2>1. /\ range.ev \in Writes /\ range.ok \in BOOLEAN
        /\ ~range.ok => srb[range.ev] = "failed"
        /\ range.ok /\ range.ev \in DOMAIN active /\ AllAcked(range.ev) => srb[range.ev] = "done"
    BY <1>6, NextRange DEF ApplyRange
  <2>2. /\ polled' = polled /\ srb' = srb
        /\ \/ responses' = responses
           \/ ~range.ok /\ responses' = Append(responses, [ev |-> range.ev, committed |-> FALSE])
           \/ /\ range.ok /\ range.ev \in DOMAIN active /\ AllAcked(range.ev)
              /\ responses' = Append(responses, [ev |-> range.ev, committed |-> TRUE])
    BY <1>6 DEF ApplyRange, Finalize, windowsVars
  <2> HIDE DEF range
  <2>3. ASSUME NEW committed \in BOOLEAN, responses' = Append(responses, [ev |-> range.ev, committed |-> committed]),
               srb[range.ev] = IF committed THEN "done" ELSE "failed"
        PROVE  FinalAgreesWithWindows'
    <3> DEFINE r == [ev |-> range.ev, committed |-> committed]
    <3>1. r.ev = range.ev /\ r.committed = committed
      OBVIOUS
    <3>2. responses' = Append(responses, r)
      BY <2>3
    <3> HIDE DEF r
    <3>3. \A i \in 1 .. Len(responses') : responses'[i] = r \/ \E j \in 1 .. Len(responses) : responses'[i] = responses[j]
      BY <1>0, <3>2
    <3>4. \A q \in Pending' : q = r \/ q \in Pending
      BY <2>2, <3>3 DEF Pending
    <3>5. srb'[r.ev] = IF r.committed THEN "done" ELSE "failed"
      BY <2>2, <2>3, <3>1
    <3> QED
      BY <1>1, <3>4, <3>5 DEF FinalAgreesWithWindows
  <2> QED
    BY <1>3, <2>1, <2>2, <2>3
<1>7. CASE Reset \/ SessionBroken \/ \E w \in Writes : SendWrite(w) \/ FillSlot(w)
  BY <1>3, <1>7 DEF Reset, SessionBroken, SendWrite, FillSlot, loopVars
<1>8. CASE Worker
  BY <1>3, <1>8 DEF Worker, Track, Stage, EnqueueAck, loopVars
<1>9. CASE Flusher
  BY <1>3, <1>6, <1>9 DEF Flusher, Steal, Send, StopFlusher, loopVars
<1>10. CASE SignalLoop
  BY <1>3, <1>5, <1>10 DEF SignalLoop, Commit, Reject
<1>11. CASE Open \/ CloseSession
  BY <1>4, <1>11 DEF Open, CloseSession
<1>12. CASE BeginCreate \/ AkCreateDisk \/ EndCreate \/ RemoveDisk \/ DestroyDisk \/ TakeMedia
  BY <1>3, <1>12 DEF BeginCreate, AkCreateDisk, EndCreate, RemoveDisk, DestroyDisk, TakeMedia, loopVars
<1>13. ASSUME NEW call \in Removals, BeginRemoval(call) PROVE FinalAgreesWithWindows'
  BY <1>3, <1>13 DEF BeginRemoval, loopVars
<1>14. CASE UNCHANGED vars
  BY <1>3, <1>14 DEF vars, loopVars
<1> QED
  BY <1>7, <1>8, <1>9, <1>10, <1>11, <1>12, <1>13, <1>14 DEF Next, Control

\* Only a commit writes the media, and what it writes has succeeded.
LEMMA MediaStep ==
    TypeOK /\ FinalAgreesWithWindows /\ MediaHoldsOnlySucceeded /\ [Next]_vars => MediaHoldsOnlySucceeded'
<1> SUFFICES ASSUME TypeOK, FinalAgreesWithWindows, MediaHoldsOnlySucceeded, [Next]_vars
             PROVE  MediaHoldsOnlySucceeded'
  OBVIOUS
<1>0. Settled /\ store \in [Blocks -> Writes \cup {Blank}]
  BY SettledStep DEF TypeOK, DataTypeOK
<1>1. ASSUME store' = store PROVE MediaHoldsOnlySucceeded'
  BY <1>0, <1>1 DEF MediaHoldsOnlySucceeded, Settled
<1>2. CASE Commit
  <2>1. polled \in ResponseType /\ polled \in Pending /\ polled.committed
    BY <1>2 DEF Commit, Pending, TypeOK, LoopTypeOK
  <2>2. polled.ev \in Writes /\ srb[polled.ev] = "done" /\ srb' = srb
    BY <1>2, <2>1 DEF Commit, FinalAgreesWithWindows, ResponseType, windowsVars
  <2>3. store' = store \/ \E fragments : store' = Written(polled.ev, fragments)
    BY <1>2 DEF Commit, dataVars
  <2>4. ASSUME NEW fragments, store' = Written(polled.ev, fragments) PROVE MediaHoldsOnlySucceeded'
    BY <2>2, <2>4 DEF Written, MediaHoldsOnlySucceeded
  <2> QED
    BY <1>1, <2>3, <2>4
<1>3. CASE Reset \/ SessionBroken \/ \E w \in Writes : SendWrite(w) \/ FillSlot(w)
  BY <1>1, <1>3 DEF Reset, SessionBroken, SendWrite, FillSlot, dataVars
<1>4. CASE Worker
  BY <1>1, <1>4 DEF Worker, Track, Stage, EnqueueAck, dataVars
<1>5. CASE Flusher
  BY <1>1, <1>5 DEF Flusher, Steal, Send, ApplyRange, StopFlusher, dataVars
<1>6. CASE SignalLoop
  BY <1>1, <1>2, <1>6 DEF SignalLoop, Poll, Reject, dataVars
<1>7. CASE Open \/ BeginCreate \/ AkCreateDisk \/ EndCreate
  BY <1>1, <1>7 DEF Open, BeginCreate, AkCreateDisk, EndCreate, dataVars
<1>8. CASE RemoveDisk \/ DestroyDisk \/ TakeMedia \/ CloseSession
  BY <1>1, <1>8 DEF RemoveDisk, DestroyDisk, TakeMedia, CloseSession, dataVars
<1>9. ASSUME NEW call \in Removals, BeginRemoval(call) PROVE MediaHoldsOnlySucceeded'
  BY <1>1, <1>9 DEF BeginRemoval, dataVars
<1>10. CASE UNCHANGED vars
  BY <1>1, <1>10 DEF vars, dataVars
<1> QED
  BY <1>3, <1>4, <1>5, <1>6, <1>7, <1>8, <1>9, <1>10 DEF Next, Control

\* With no disk and nothing sent, nothing is under way.
LEMMA InitInd == Init => IndInv
<1> SUFFICES ASSUME Init PROVE IndInv
  OBVIOUS
<1>1. TypeOK
  <2>1. WindowsTypeOK
    BY DEF Init, WindowsTypeOK
  <2>2. KernelTypeOK
    <3>1. IsFiniteSet(slots) /\ Cardinality(slots) = 0
      BY FS_EmptySet DEF Init
    <3>2. flush \in [at : {"idle", "held", "answered", "exited"}, ranges : Seq(RangeType)] /\ Len(flush.ranges) = 0
      BY DEF Init, EmptyFlush, Flush
    <3> QED
      BY <3>1, <3>2, ConstantsAssumption DEF Init, NoEvents, KernelTypeOK
  <2>3. BackendTypeOK
    BY DEF Init, Idle, CtlPlaces, BackendTypeOK
  <2>4. DataTypeOK
    BY DEF Init, NoRecords, DataTypeOK
  <2>5. LoopTypeOK
    BY DEF Init, LoopTypeOK
  <2> QED
    BY <2>1, <2>2, <2>3, <2>4, <2>5 DEF TypeOK
<1>2. slots = {} /\ ackQueue = <<>> /\ flush.ranges = <<>> /\ flush.at = "idle"
  BY DEF Init, EmptyFlush, Flush
<1>3. OnePlace /\ RangesOK
  BY <1>2 DEF OnePlace, RangesOK
<1>4. SuccessOK
  <2> SUFFICES ASSUME NEW w \in Writes
               PROVE  /\ issued[w] <= TotalSeq(w) /\ (srb[w] = "unsent" => issued[w] = 0)
                      /\ \A n \in accepted[w] : n < issued[w]
                      /\ srb[w] = "done" <=> accepted[w] = 0 .. (TotalSeq(w) - 1)
    BY DEF SuccessOK
  <2>1. TotalSeq(w) \in Nat \ {0} /\ 0 \in 0 .. (TotalSeq(w) - 1)
    BY Totals
  <2> QED
    BY <2>1 DEF Init
<1>5. CountOK
  BY DEF Init, NoEvents, CountOK
<1>6. FinalAgreesWithWindows /\ MediaHoldsOnlySucceeded
  BY DEF Init, FinalAgreesWithWindows, Pending, MediaHoldsOnlySucceeded
<1> QED
  BY <1>1, <1>3, <1>4, <1>5, <1>6 DEF IndInv

\* The inductive invariant holds of every behaviour of the write path.
THEOREM Invariance == Spec => []IndInv
<1>1. IndInv /\ [Next]_vars => IndInv'
  BY TypeStep, OnePlaceStep, RangesStep, SuccessStep, CountStep, FinalStep, MediaStep DEF IndInv
<1> QED
  BY <1>1, InitInd, PTL DEF Spec

\* The final response AppKernel queues, and BackendRust acts on, always agrees
\* with what the miniport told Windows, for any batching of acknowledgements and
\* any reset or removal in between.
THEOREM FinalAgrees == Spec => []FinalAgreesWithWindows
<1>1. IndInv => FinalAgreesWithWindows
  BY DEF IndInv
<1> QED
  BY <1>1, Invariance, PTL

\* No byte of a write that failed, or was cut off, is ever on the media.
THEOREM MediaClean == Spec => []MediaHoldsOnlySucceeded
<1>1. IndInv => MediaHoldsOnlySucceeded
  BY DEF IndInv
<1> QED
  BY <1>1, Invariance, PTL

-----------------------------------------------------------------------------
(* Lifecycle.                                                              *)

\* The steps of the data path leave the control call and what it owns alone.
LEMMA ControlKept ==
    ASSUME LifecycleOK, UNCHANGED <<disk, backendVars>>,
           DOMAIN staging' \subseteq DOMAIN staging \/ disk # "none",
           disk = "none" => slots' = {} /\ flush'.at \in {"idle", "exited"} /\ DOMAIN active' = {}
    PROVE  LifecycleOK'
<1>1. disk # "none" => runtime /\ ctl.at # "AkCreateDisk"
  BY DEF LifecycleOK, DiskAt
<1> QED
  BY <1>1 DEF LifecycleOK, DiskAt, backendVars

\* Disk, handle, runtime, media and records come and go together.
LEMMA LifecycleStep == ASSUME TypeOK, LifecycleOK, [Next]_vars PROVE LifecycleOK'
<1>0. disk = "none" => slots = {} /\ flush.at \in {"idle", "exited"} /\ DOMAIN active = {}
  BY DEF LifecycleOK
<1>1. CASE Reset \/ SessionBroken \/ \E w \in Writes : SendWrite(w) \/ FillSlot(w)
  <2>1. UNCHANGED <<disk, backendVars, staging, flush, active>> /\ (disk = "none" => slots' = slots)
    BY <1>1 DEF Reset, SessionBroken, SendWrite, FillSlot, kernelVars, backendVars, dataVars
  <2> QED
    BY <1>0, <2>1, ControlKept
<1>2. CASE Worker
  <2>1. slots # {} /\ UNCHANGED <<disk, backendVars>>
    BY <1>2 DEF Worker, Track, Stage, EnqueueAck, backendVars
  <2> QED
    BY <1>0, <2>1, ControlKept
<1>3. CASE Steal \/ Send
  <2>1. disk = "running" /\ UNCHANGED <<disk, backendVars>>
    BY <1>3 DEF Steal, Send, backendVars
  <2> QED
    BY <2>1, ControlKept
<1>4. CASE ApplyRange
  <2>1. flush.at = "answered" /\ UNCHANGED <<disk, backendVars>>
    BY <1>4 DEF ApplyRange, backendVars
  <2> QED
    BY <1>0, <2>1, ControlKept
<1>5. CASE StopFlusher
  <2>1. disk = "stopping" /\ UNCHANGED <<disk, backendVars>>
    BY <1>5 DEF StopFlusher, backendVars
  <2> QED
    BY <2>1, ControlKept
<1>6. CASE SignalLoop
  <2>1. UNCHANGED <<disk, backendVars, slots, flush, active>> /\ DOMAIN staging' \subseteq DOMAIN staging
    BY <1>6 DEF SignalLoop, Poll, Commit, Reject, Without, kernelVars, backendVars, dataVars
  <2> QED
    BY <1>0, <2>1, ControlKept
<1>7. CASE Open
  BY <1>7 DEF Open, Idle, LifecycleOK, DiskAt, kernelVars, dataVars
<1>8. CASE BeginCreate
  BY <1>8 DEF BeginCreate, Idle, NoRecords, LifecycleOK, DiskAt, kernelVars
<1>9. CASE AkCreateDisk
  <2>1. /\ ctl.at = "AkCreateDisk" /\ UNCHANGED <<slots, active, handle, session, staging>>
        /\ \/ /\ disk' = "running" /\ ctl'.at = "return"
              /\ UNCHANGED <<runtime, media>>
           \/ /\ runtime' = FALSE /\ media' = "caller" /\ ctl'.at = "idle"
              /\ UNCHANGED <<disk, flush>>
    BY <1>9 DEF AkCreateDisk, Idle, GoTo, dataVars
  <2> QED
    BY <2>1 DEF LifecycleOK, DiskAt
<1>10. CASE EndCreate
  BY <1>10 DEF EndCreate, Idle, LifecycleOK, DiskAt, kernelVars, dataVars
<1>11. ASSUME NEW call \in Removals, BeginRemoval(call) PROVE LifecycleOK'
  <2>1. call \in {"remove", "detach", "removeAll", "close"}
    BY ConstantsAssumption
  <2>2. ctl.at = "idle" /\ UNCHANGED <<slots, flush, active, handle, runtime, media, session, staging>>
    BY <1>11 DEF BeginRemoval, Idle, dataVars
  <2>3. CASE runtime /\ handle = "valid"
    <3>1. disk' = "stopping" /\ ctl'.at \in {"join", "protocol"}
      BY <1>11, <2>3 DEF BeginRemoval
    <3> QED
      BY <2>2, <2>3, <3>1 DEF LifecycleOK, DiskAt
  <2>4. CASE runtime /\ handle # "valid"
    <3>1. disk' = disk /\ ctl'.at = "take" /\ ctl'.call = call
      BY <1>11, <2>4 DEF BeginRemoval
    <3>2. handle = "freed" /\ call = "close"
      BY <1>11, <2>2, <2>4 DEF BeginRemoval, LifecycleOK, TypeOK, BackendTypeOK
    <3> QED
      BY <2>2, <2>4, <3>1, <3>2 DEF LifecycleOK, DiskAt
  <2>5. CASE ~runtime
    <3>1. disk' = disk /\ ctl'.at = "closeSession"
      BY <1>11, <2>5 DEF BeginRemoval
    <3> QED
      BY <2>2, <2>5, <3>1 DEF LifecycleOK, DiskAt
  <2> QED
    BY <2>3, <2>4, <2>5
<1>12. CASE RemoveDisk
  BY <1>12 DEF RemoveDisk, GoTo, LifecycleOK, DiskAt, kernelVars, dataVars
<1>13. CASE DestroyDisk
  <2>1. /\ disk' = "none" /\ slots' = {} /\ flush'.at = "exited" /\ DOMAIN active' = {}
        /\ ctl.at \in {"join", "joinFailed"} /\ ctl'.at \in {"take", "takeFailed"}
        /\ UNCHANGED <<handle, runtime, media, session, staging>>
    BY <1>13 DEF DestroyDisk, GoTo, NoEvents, dataVars
  <2> QED
    BY <2>1 DEF LifecycleOK, DiskAt
<1>14. CASE TakeMedia
  <2>1. ctl.at \in {"take", "takeFailed"} /\ UNCHANGED <<disk, slots, flush, active, session>>
    BY <1>14 DEF TakeMedia, kernelVars
  <2>2. CASE KeepsDisk
    <3>1. handle' = "freed" /\ ctl'.at = "idle" /\ UNCHANGED <<runtime, media, staging>>
      BY <1>14, <2>2 DEF TakeMedia, Idle
    <3> QED
      BY <2>1, <3>1 DEF LifecycleOK, DiskAt
  <2>3. CASE ~KeepsDisk
    <3>1. /\ handle' = "none" /\ runtime' = FALSE /\ media' # "runtime" /\ DOMAIN staging' = {}
          /\ ctl'.at \in {"idle", "closeSession"}
      BY <1>14, <2>3 DEF TakeMedia, NoRecords, Idle, GoTo
    <3> QED
      BY <2>1, <3>1 DEF LifecycleOK, DiskAt
  <2> QED
    BY <2>2, <2>3
<1>15. CASE CloseSession
  BY <1>15 DEF CloseSession, Idle, LifecycleOK, DiskAt, kernelVars, dataVars
<1>16. CASE UNCHANGED vars
  BY <1>0, <1>16, ControlKept DEF vars, kernelVars, dataVars
<1> QED
  BY <1>1, <1>2, <1>3, <1>4, <1>5, <1>6, <1>7, <1>8, <1>9, <1>10, <1>11, <1>12, <1>13, <1>14, <1>15, <1>16
     DEF Next, Flusher, Control

\* An open write has its disk, or a removal that is under way or has failed.
LEMMA OpenStep == ASSUME TypeOK, LifecycleOK, OpenOK, [Next]_vars PROVE OpenOK'
<1>1. ASSUME UNCHANGED <<disk, handle, ctl>>, \A w \in Writes : srb'[w] = "open" => srb[w] = "open" \/ disk = "running"
      PROVE  OpenOK'
  BY <1>1 DEF OpenOK
<1>2. CASE FailOpen
  BY <1>2 DEF FailOpen, OpenOK
<1>3. CASE UNCHANGED <<srb, disk, handle, ctl>>
  BY <1>1, <1>3
<1>4. ASSUME NEW w \in Writes, SendWrite(w) PROVE OpenOK'
  BY <1>1, <1>4 DEF SendWrite, kernelVars, backendVars
<1>5. CASE Send
  <2>1. \A w \in Writes : srb'[w] = "open" => srb[w] = "open"
    BY <1>5 DEF Send, AckedBy
  <2> QED
    BY <1>1, <1>5, <2>1 DEF Send, backendVars
<1>6. CASE Reset \/ SessionBroken \/ \E w \in Writes : FillSlot(w)
  BY <1>2, <1>3, <1>6 DEF Reset, SessionBroken, FillSlot, windowsVars, kernelVars, backendVars
<1>7. CASE Worker
  BY <1>3, <1>7 DEF Worker, Track, Stage, EnqueueAck, windowsVars, backendVars
<1>8. CASE Steal \/ ApplyRange \/ StopFlusher
  BY <1>3, <1>8 DEF Steal, ApplyRange, StopFlusher, windowsVars, backendVars
<1>9. CASE SignalLoop
  BY <1>3, <1>9 DEF SignalLoop, Poll, Commit, Reject, windowsVars, kernelVars, backendVars
<1>10. CASE Open
  BY <1>3, <1>10 DEF Open, windowsVars, kernelVars
<1>11. CASE BeginCreate \/ AkCreateDisk
  <2>1. \/ ctl.at = "idle" /\ ~runtime
        \/ ctl.at = "AkCreateDisk"
    BY <1>11 DEF BeginCreate, AkCreateDisk, Idle
  <2>2. \A w \in Writes : srb[w] # "open"
    BY <2>1 DEF LifecycleOK, DiskAt, OpenOK
  <2> QED
    BY <1>11, <2>2 DEF BeginCreate, AkCreateDisk, OpenOK, windowsVars
<1>12. CASE EndCreate
  <2>1. disk = "running" /\ UNCHANGED <<srb, disk>>
    BY <1>12 DEF EndCreate, LifecycleOK, DiskAt, windowsVars, kernelVars
  <2> QED
    BY <2>1 DEF OpenOK
<1>13. ASSUME NEW call \in Removals, BeginRemoval(call) PROVE OpenOK'
  <2>1. CASE call = "detach"
    BY <1>2, <1>13, <2>1 DEF BeginRemoval
  <2>2. CASE call # "detach"
    <3>1. UNCHANGED <<srb, handle>> /\ ctl.at = "idle"
      BY <1>13, <2>2 DEF BeginRemoval, Idle
    <3>2. \/ runtime /\ handle = "valid" /\ ctl'.at = "protocol"
          \/ runtime /\ handle # "valid" /\ ctl'.at = "take" /\ disk' = disk
          \/ ~runtime /\ ctl'.at = "closeSession"
      BY <1>13, <2>2 DEF BeginRemoval
    <3> QED
      BY <3>1, <3>2 DEF OpenOK, LifecycleOK, DiskAt, TypeOK, BackendTypeOK
  <2> QED
    BY <2>1, <2>2
<1>14. CASE RemoveDisk
  BY <1>2, <1>14 DEF RemoveDisk, GoTo, OpenOK
<1>15. CASE DestroyDisk
  <2>1. /\ UNCHANGED <<srb, handle>>
        /\ ctl.at = "join" \/ (ctl.at = "joinFailed" /\ ctl'.at = "takeFailed")
    BY <1>15 DEF DestroyDisk, GoTo, windowsVars
  <2> QED
    BY <2>1 DEF OpenOK, LifecycleOK, DiskAt
<1>16. CASE TakeMedia
  <2>1. UNCHANGED <<srb, disk>> /\ ctl.at \in {"take", "takeFailed"}
    BY <1>16 DEF TakeMedia, windowsVars, kernelVars
  <2>2. CASE KeepsDisk
    BY <1>16, <2>1, <2>2 DEF TakeMedia, OpenOK
  <2>3. CASE ~KeepsDisk /\ ctl.call = "close"
    BY <1>16, <2>1, <2>3 DEF TakeMedia, GoTo, OpenOK
  <2>4. CASE ~KeepsDisk /\ ctl.call # "close"
    BY <2>1, <2>4 DEF KeepsDisk, LifecycleOK, DiskAt, OpenOK
  <2> QED
    BY <2>2, <2>3, <2>4
<1>17. CASE CloseSession
  BY <1>2, <1>17 DEF CloseSession
<1>18. CASE UNCHANGED vars
  BY <1>3, <1>18 DEF vars, windowsVars, kernelVars, backendVars
<1> QED
  BY <1>4, <1>5, <1>6, <1>7, <1>8, <1>9, <1>10, <1>11, <1>12, <1>13, <1>14, <1>15, <1>16, <1>17, <1>18
     DEF Next, Flusher, Control

-----------------------------------------------------------------------------
(* Writes that have succeeded.                                             *)

\* A write with a fragment in a slot has not succeeded.
LEMMA SlotNotDone ==
    ASSUME TypeOK, RangesOK, SuccessOK, NEW x \in slots
    PROVE  /\ x.ev \in Writes /\ x.seq \in 0 .. (TotalSeq(x.ev) - 1) /\ x.seq < issued[x.ev]
           /\ x.seq \notin accepted[x.ev] /\ srb[x.ev] \in {"open", "failed"}
<1>1. x.ev \in Writes /\ x.seq \in Nat
  BY DEF TypeOK, KernelTypeOK, SlotType
<1>2. x.seq < issued[x.ev] /\ x.seq \notin accepted[x.ev]
  BY DEF RangesOK, Unaccepted
<1>3. /\ issued[x.ev] <= TotalSeq(x.ev) /\ (srb[x.ev] = "unsent" => issued[x.ev] = 0)
      /\ srb[x.ev] = "done" <=> accepted[x.ev] = 0 .. (TotalSeq(x.ev) - 1)
  BY <1>1 DEF SuccessOK
<1>4. issued[x.ev] \in Nat /\ TotalSeq(x.ev) \in Nat /\ srb[x.ev] \in {"unsent", "open", "done", "failed"}
  BY <1>1, Totals DEF TypeOK, WindowsTypeOK
<1> QED
  BY <1>1, <1>2, <1>3, <1>4

\* The response that is being handled, and those that wait.
LEMMA PolledType ==
    ASSUME TypeOK, FinalAgreesWithWindows
    PROVE  /\ polled # None => /\ polled.ev \in Writes /\ polled \in Pending
                               /\ srb[polled.ev] = IF polled.committed THEN "done" ELSE "failed"
           /\ \A i \in 1 .. Len(responses) :
                /\ responses[i].ev \in Writes /\ responses[i] \in Pending
                /\ srb[responses[i].ev] = IF responses[i].committed THEN "done" ELSE "failed"
<1>1. \A r \in ResponseType : r.ev \in Writes
  BY DEF ResponseType
<1>2. \A i \in 1 .. Len(responses) : responses[i] \in ResponseType /\ responses[i] \in Pending
  BY DEF TypeOK, LoopTypeOK, Pending
<1>3. polled # None => polled \in ResponseType /\ polled \in Pending
  BY DEF TypeOK, LoopTypeOK, Pending
<1> QED
  BY <1>1, <1>2, <1>3 DEF FinalAgreesWithWindows

\* What was there before a write has succeeded; what a removal cleared is gone.
LEMMA HistoryStep == ASSUME IndInv, HistoryOK, QueueOK, [Next]_vars PROVE HistoryOK'
<1>0. TypeOK /\ RangesOK /\ SuccessOK /\ FinalAgreesWithWindows
  BY DEF IndInv
<1>1. Settled
  BY <1>0, SettledStep
<1> DEFINE EarlierPart(w) == w \notin earlier[w] /\ \A v \in earlier[w] : srb[v] = "done"
           LostPart(w)    == w \in lost => srb[w] = "done" /\ w \notin DOMAIN staging
           StuckPart(w)   == w \in stuck => srb[w] = "done" /\ w \notin DOMAIN active
<1>2. ASSUME NEW w \in Writes PROVE EarlierPart(w)'
  <2>1. EarlierPart(w) /\ earlier[w] \subseteq Writes
    BY <1>0 DEF HistoryOK, TypeOK, WindowsTypeOK
  <2>2. CASE earlier'[w] = earlier[w]
    BY <1>1, <2>1, <2>2 DEF Settled
  <2>3. ASSUME NEW v \in Writes, SendWrite(v) PROVE EarlierPart(w)'
    <3>1. CASE v = w
      <4>1. srb[w] = "unsent" /\ earlier'[w] = {u \in Writes : srb[u] = "done"}
        BY <1>0, <2>3, <3>1 DEF SendWrite, TypeOK, WindowsTypeOK
      <4> QED
        BY <1>1, <4>1 DEF Settled
    <3>2. CASE v # w
      BY <1>0, <2>2, <2>3, <3>2 DEF SendWrite, TypeOK, WindowsTypeOK
    <3> QED
      BY <3>1, <3>2
  <2>4. earlier' = earlier \/ \E v \in Writes : SendWrite(v)
    BY DEF Next, FillSlot, Reset, Worker, Track, Stage, EnqueueAck, Flusher, Steal, Send, ApplyRange,
           StopFlusher, SignalLoop, Poll, Commit, Reject, SessionBroken, Control, Open, BeginCreate,
           AkCreateDisk, EndCreate, BeginRemoval, RemoveDisk, DestroyDisk, TakeMedia, CloseSession,
           vars, windowsVars
  <2> QED
    BY <2>2, <2>3, <2>4
<1>3. ASSUME NEW w \in Writes PROVE LostPart(w)'
  <2>1. LostPart(w)
    BY DEF HistoryOK
  <2>2. CASE lost' = lost /\ DOMAIN staging' \subseteq DOMAIN staging
    BY <1>1, <2>1, <2>2 DEF Settled
  <2>3. ASSUME NEW x \in slots, Stage(x) PROVE LostPart(w)'
    <3>1. srb[x.ev] # "done" /\ lost' = lost /\ DOMAIN staging' = DOMAIN staging \cup {x.ev}
      BY <1>0, <2>3, SlotNotDone DEF Stage, StageWriteLocked, With
    <3> QED
      BY <1>1, <2>1, <3>1 DEF Settled
  <2>4. CASE TakeMedia
    BY <1>1, <2>1, <2>4 DEF TakeMedia, NoRecords, Settled
  <2>5. CASE BeginCreate \/ Commit \/ Reject
    BY <2>2, <2>5 DEF BeginCreate, Commit, Reject, Without, NoRecords, dataVars
  <2>6. \/ UNCHANGED <<staging, lost>> \/ \E x \in slots : Stage(x)
        \/ TakeMedia \/ BeginCreate \/ Commit \/ Reject
    BY DEF Next, SendWrite, FillSlot, Reset, Worker, Track, EnqueueAck, Flusher, Steal, Send, ApplyRange,
           StopFlusher, SignalLoop, Poll, SessionBroken, Control, Open,
           AkCreateDisk, EndCreate, BeginRemoval, RemoveDisk, DestroyDisk, CloseSession,
           vars, dataVars
  <2> QED
    BY <2>2, <2>3, <2>4, <2>5, <2>6
<1>4. ASSUME NEW w \in Writes PROVE StuckPart(w)'
  <2>1. StuckPart(w)
    BY DEF HistoryOK
  <2>2. CASE stuck' = stuck /\ DOMAIN active' \subseteq DOMAIN active
    BY <1>1, <2>1, <2>2 DEF Settled
  <2>3. ASSUME NEW x \in slots, Track(x) PROVE StuckPart(w)'
    <3>1. srb[x.ev] # "done" /\ stuck' = stuck /\ DOMAIN active' \subseteq DOMAIN active \cup {x.ev}
      BY <1>0, <2>3, SlotNotDone DEF Track, With, dataVars
    <3> QED
      BY <1>1, <2>1, <3>1 DEF Settled
  <2>4. CASE Commit
    <3>1. /\ polled.ev \in Writes /\ polled \in Pending /\ srb[polled.ev] = "done" /\ polled.committed
          /\ stuck' \subseteq stuck \cup {polled.ev} /\ active' = active
      BY <1>0, <2>4, PolledType DEF Commit, kernelVars, dataVars
    <3> QED
      BY <1>1, <2>1, <3>1 DEF Settled, QueueOK
  <2>5. CASE ApplyRange
    BY <2>2, <2>5 DEF ApplyRange, Finalize, Without, dataVars
  <2>6. CASE DestroyDisk
    BY <2>2, <2>6 DEF DestroyDisk, NoEvents, dataVars
  <2>7. \/ UNCHANGED <<active, stuck>> \/ \E x \in slots : Track(x)
        \/ Commit \/ ApplyRange \/ DestroyDisk
    BY DEF Next, SendWrite, FillSlot, Reset, Worker, Stage, EnqueueAck, Flusher, Steal, Send,
           StopFlusher, SignalLoop, Poll, Reject, SessionBroken, Control, Open, BeginCreate,
           AkCreateDisk, EndCreate, BeginRemoval, RemoveDisk, TakeMedia, CloseSession,
           vars, kernelVars, dataVars
  <2> QED
    BY <2>2, <2>3, <2>4, <2>5, <2>6, <2>7
<1>5. ASSUME NEW i \in 1 .. Len(finalized') PROVE srb'[finalized'[i]] \in {"done", "failed"}
  <2>1. /\ finalized \in Seq(Writes) /\ Len(finalized) \in Nat
        /\ \A j \in 1 .. Len(finalized) : finalized[j] \in Writes /\ srb[finalized[j]] \in {"done", "failed"}
    BY <1>0 DEF TypeOK, KernelTypeOK, HistoryOK
  <2>2. CASE \E j \in 1 .. Len(finalized) : finalized'[i] = finalized[j]
    BY <1>1, <2>1, <2>2 DEF Settled
  <2>3. CASE finalized' \in {finalized, <<>>}
    BY <1>5, <2>1, <2>2, <2>3
  <2>4. CASE ApplyRange
    <3> DEFINE v == Head(flush.ranges).ev
               all == Append(finalized, v)
    <3>1. /\ v \in Writes /\ UNCHANGED srb
          /\ finalized' = finalized \/ (srb[v] \in {"done", "failed"} /\ finalized' = Remembered(all))
      BY <1>0, <2>4, NextRange DEF IndInv, ApplyRange, Finalize, windowsVars
    <3> HIDE DEF v
    <3>2. /\ all \in Seq(Writes) /\ Len(all) = Len(finalized) + 1 /\ all # <<>> /\ all[Len(all)] = v
          /\ \A j \in 1 .. Len(finalized) : all[j] = finalized[j]
      BY <2>1, <3>1
    <3>3. \A j \in 1 .. Len(all) : all[j] = v \/ \E k \in 1 .. Len(finalized) : all[j] = finalized[k]
      BY <2>1, <3>2
    <3> HIDE DEF all
    <3>4. \A j \in 1 .. Len(Tail(all)) : j + 1 \in 1 .. Len(all) /\ Tail(all)[j] = all[j + 1]
      BY <2>1, <3>2, HeadType
    <3>5. CASE finalized' = Remembered(all) /\ srb[v] \in {"done", "failed"}
      <4>1. \E j \in 1 .. Len(all) : finalized'[i] = all[j]
        BY <1>5, <3>4, <3>5 DEF Remembered
      <4> QED
        BY <2>2, <3>1, <3>3, <3>5, <4>1
    <3> QED
      BY <2>3, <3>1, <3>5
  <2>5. finalized' \in {finalized, <<>>} \/ ApplyRange
    BY DEF Next, SendWrite, FillSlot, Reset, Worker, Track, Stage, EnqueueAck, Flusher, Steal, Send,
           StopFlusher, SignalLoop, Poll, Commit, Reject, SessionBroken, Control, Open, BeginCreate,
           AkCreateDisk, EndCreate, BeginRemoval, RemoveDisk, DestroyDisk, TakeMedia, CloseSession,
           vars, kernelVars
  <2> QED
    BY <2>3, <2>4, <2>5
<1> QED
  BY <1>2, <1>3, <1>4, <1>5 DEF HistoryOK

-----------------------------------------------------------------------------
(* Staged records.                                                         *)

\* The fragment a worker stages.
FragmentOf(x) == [seq |-> x.seq, block |-> Fragments[x.ev][x.seq + 1], ordinal |-> nextOrdinal]

\* Staging puts one fragment into the record of its write.
LEMMA StageEffect ==
    ASSUME NEW x \in slots, Stage(x)
    PROVE  /\ DOMAIN staging' = DOMAIN staging \cup {x.ev}
           /\ \A w \in DOMAIN staging' : w # x.ev => staging'[w] = staging[w]
           /\ staging'[x.ev] = {f \in RecordOf(x.ev) : f.seq # x.seq} \cup {FragmentOf(x)}
           /\ nextOrdinal' = nextOrdinal + 1
           /\ UNCHANGED <<windowsVars, backendVars, active, ackQueue, flush, disk, store, stuck, lost, loopVars>>
BY DEF Stage, StageWriteLocked, With, FragmentOf

\* Otherwise records only go, or all begin anew.
LEMMA RecordsChange ==
    ASSUME [Next]_vars
    PROVE  \/ UNCHANGED <<staging, nextOrdinal>>
           \/ \E x \in slots : Stage(x)
           \/ /\ Commit \/ Reject
              /\ staging' \in {staging, Without(staging, polled.ev)} /\ UNCHANGED <<windowsVars, nextOrdinal>>
           \/ DOMAIN staging' = {} /\ nextOrdinal' \in {1, nextOrdinal} /\ (TakeMedia \/ BeginCreate)
<1>1. CASE Commit \/ Reject
  BY <1>1 DEF Commit, Reject, dataVars
<1>2. CASE TakeMedia \/ BeginCreate
  BY <1>2 DEF TakeMedia, BeginCreate, NoRecords
<1>3. \/ UNCHANGED <<staging, nextOrdinal>> \/ \E x \in slots : Stage(x)
      \/ TakeMedia \/ BeginCreate \/ Commit \/ Reject
  BY DEF Next, SendWrite, FillSlot, Reset, Worker, Track, EnqueueAck, Flusher, Steal, Send, ApplyRange,
         StopFlusher, SignalLoop, Poll, SessionBroken, Control, Open,
         AkCreateDisk, EndCreate, BeginRemoval, RemoveDisk, DestroyDisk, CloseSession,
         vars, dataVars
<1> QED
  BY <1>1, <1>2, <1>3

\* Fragments are issued one after the other, and only a new write gets a history.
LEMMA WindowsChange ==
    ASSUME TypeOK, SuccessOK, [Next]_vars
    PROVE  \A w \in Writes :
             /\ issued[w] \in Nat /\ issued'[w] \in Nat /\ issued[w] <= issued'[w]
             /\ earlier'[w] = earlier[w] \/ issued[w] = 0
<1> SUFFICES ASSUME NEW w \in Writes
             PROVE  /\ issued[w] \in Nat /\ issued'[w] \in Nat /\ issued[w] <= issued'[w]
                    /\ earlier'[w] = earlier[w] \/ issued[w] = 0
  OBVIOUS
<1>0. issued \in [Writes -> Nat] /\ earlier \in [Writes -> SUBSET Writes]
  BY DEF TypeOK, WindowsTypeOK
<1>1. CASE UNCHANGED <<issued, earlier>>
  BY <1>0, <1>1
<1>2. ASSUME NEW v \in Writes, FillSlot(v) PROVE /\ earlier' = earlier
                                                 /\ issued'[w] \in Nat /\ issued[w] <= issued'[w]
  BY <1>0, <1>2 DEF FillSlot
<1>3. UNCHANGED <<issued, earlier>> \/ \E v \in Writes : SendWrite(v) \/ FillSlot(v)
  BY DEF Next, Reset, Worker, Track, Stage, EnqueueAck, Flusher, Steal, Send, ApplyRange,
         StopFlusher, SignalLoop, Poll, Commit, Reject, SessionBroken, Control, Open, BeginCreate,
         AkCreateDisk, EndCreate, BeginRemoval, RemoveDisk, DestroyDisk, TakeMedia, CloseSession,
         vars, windowsVars
<1>4. issued[w] \in Nat /\ issued[w] <= issued[w]
  BY <1>0
<1>5. CASE \E v \in Writes : SendWrite(v)
  <2>1. PICK v \in Writes : SendWrite(v)
    BY <1>5
  <2>2. issued' = issued /\ (earlier'[w] = earlier[w] \/ issued[w] = 0)
    BY <1>0, <2>1 DEF SendWrite, SuccessOK
  <2>3. issued[w] \in Nat /\ issued'[w] \in Nat /\ issued[w] <= issued'[w]
    BY <1>4, <2>2
  <2> QED
    BY <2>2, <2>3
<1>6. CASE \E v \in Writes : FillSlot(v)
  <2>1. PICK v \in Writes : FillSlot(v)
    BY <1>6
  <2> QED
    BY <1>0, <1>2, <2>1
<1> QED
  BY <1>1, <1>3, <1>4, <1>5, <1>6

\* What RecordsOK says of one fragment, and of the fragments of two writes.
FragmentOK(w, f) ==
    /\ f.seq \in 0 .. (issued[w] - 1) /\ f.block = Fragments[w][f.seq + 1]
    /\ f.ordinal \in Nat /\ f.ordinal < nextOrdinal
FragmentsOrdered(v, w) == \A f \in staging[v], g \in staging[w] : f.ordinal < g.ordinal

LEMMA RecordsParts ==
    RecordsOK <=> /\ nextOrdinal \in Nat
                  /\ \A w \in DOMAIN staging : \A f \in staging[w] : FragmentOK(w, f)
                  /\ \A w \in DOMAIN staging : \A v \in DOMAIN staging \cap earlier[w] : FragmentsOrdered(v, w)
BY DEF RecordsOK, FragmentOK, FragmentsOrdered

\* A record holds issued fragments, in the order of writes.
LEMMA RecordsStep == ASSUME IndInv, HistoryOK, RecordsOK, [Next]_vars PROVE RecordsOK'
<1>0. TypeOK /\ RangesOK /\ SuccessOK /\ DOMAIN staging \subseteq Writes
  BY DEF IndInv, TypeOK, DataTypeOK
<1>1. DOMAIN staging' \subseteq Writes
  BY <1>0, TypeStep DEF TypeOK, DataTypeOK
<1>2. ASSUME nextOrdinal' = nextOrdinal, DOMAIN staging' \subseteq DOMAIN staging,
             \A w \in DOMAIN staging' : staging'[w] = staging[w]
      PROVE  RecordsOK'
  <2>1. ASSUME NEW w \in DOMAIN staging', NEW f \in staging'[w] PROVE FragmentOK(w, f)'
    <3>1. w \in Writes /\ FragmentOK(w, f)
      BY <1>0, <1>2, <2>1, RecordsParts
    <3>2. issued[w] \in Nat /\ issued'[w] \in Nat /\ issued[w] <= issued'[w]
      BY <1>0, <3>1, WindowsChange
    <3> QED
      BY <1>2, <3>1, <3>2 DEF FragmentOK
  <2>2. ASSUME NEW w \in DOMAIN staging', NEW v \in DOMAIN staging' \cap earlier'[w] PROVE FragmentsOrdered(v, w)'
    <3>1. w \in Writes /\ staging'[w] = staging[w] /\ staging'[v] = staging[v] /\ v \in DOMAIN staging
      BY <1>0, <1>2, <2>2
    <3>2. CASE earlier'[w] = earlier[w]
      BY <1>2, <2>2, <3>1, <3>2, RecordsParts DEF FragmentsOrdered
    <3>3. CASE issued[w] = 0
      <4>1. \A f \in staging[w] : FALSE
        BY <1>2, <3>1, <3>3, RecordsParts DEF FragmentOK
      <4> QED
        BY <3>1, <4>1 DEF FragmentsOrdered
    <3> QED
      BY <1>0, <3>1, <3>2, <3>3, WindowsChange
  <2>3. nextOrdinal' \in Nat
    BY <1>2 DEF RecordsOK
  <2> QED
    BY <2>1, <2>2, <2>3 DEF RecordsOK, FragmentOK, FragmentsOrdered
<1>3. ASSUME NEW x \in slots, Stage(x) PROVE RecordsOK'
  <2> DEFINE new == FragmentOf(x)
  <2>1. /\ DOMAIN staging' = DOMAIN staging \cup {x.ev}
        /\ \A w \in DOMAIN staging' : w # x.ev => staging'[w] = staging[w]
        /\ staging'[x.ev] = {f \in RecordOf(x.ev) : f.seq # x.seq} \cup {new}
        /\ nextOrdinal' = nextOrdinal + 1
        /\ UNCHANGED <<issued, earlier>>
    BY <1>3, StageEffect DEF windowsVars
  <2>2. /\ x.ev \in Writes /\ x.seq \in 0 .. (TotalSeq(x.ev) - 1) /\ x.seq < issued[x.ev]
        /\ srb[x.ev] \in {"open", "failed"} /\ issued[x.ev] \in Nat /\ nextOrdinal \in Nat /\ TotalSeq(x.ev) \in Nat
    BY <1>0, SlotNotDone, Totals DEF TypeOK, WindowsTypeOK, RecordsOK
  <2>3. new.seq = x.seq /\ new.block = Fragments[x.ev][x.seq + 1] /\ new.ordinal = nextOrdinal
    BY DEF FragmentOf
  <2> HIDE DEF new
  <2>4. \A f \in RecordOf(x.ev) : FragmentOK(x.ev, f)
    BY RecordsParts DEF RecordOf
  <2>5. ASSUME NEW w \in DOMAIN staging', NEW f \in staging'[w] PROVE FragmentOK(w, f)'
    <3>1. CASE f = new /\ w = x.ev
      BY <2>1, <2>2, <2>3, <3>1 DEF FragmentOK
    <3>2. CASE FragmentOK(w, f)
      BY <2>1, <2>2, <3>2 DEF FragmentOK
    <3> QED
      BY <2>1, <2>4, <2>5, <3>1, <3>2, RecordsParts
  <2>6. ASSUME NEW w \in DOMAIN staging', NEW v \in DOMAIN staging' \cap earlier'[w],
               NEW f \in staging'[v], NEW g \in staging'[w]
        PROVE  f.ordinal < g.ordinal
    <3>1. w \in Writes /\ v \in earlier[w] /\ srb[v] = "done" /\ v # x.ev /\ v \in DOMAIN staging /\ f \in staging[v]
      BY <1>1, <2>1, <2>2, <2>6 DEF HistoryOK
    <3>2. f.ordinal \in Nat /\ f.ordinal < nextOrdinal
      BY <3>1, RecordsParts DEF FragmentOK
    <3>3. CASE w = x.ev /\ g = new
      BY <2>3, <3>2, <3>3
    <3>4. CASE w \in DOMAIN staging /\ g \in staging[w]
      BY <3>1, <3>4, RecordsParts DEF FragmentsOrdered
    <3> QED
      BY <2>1, <2>6, <3>3, <3>4 DEF RecordOf
  <2>7. nextOrdinal' \in Nat
    BY <2>1, <2>2
  <2> QED
    BY <2>5, <2>6, <2>7 DEF RecordsOK, FragmentOK
<1>4. CASE DOMAIN staging' = {} /\ nextOrdinal' \in {1, nextOrdinal}
  BY <1>4 DEF RecordsOK
<1>5. CASE staging' \in {staging, Without(staging, polled.ev)} /\ nextOrdinal' = nextOrdinal
  <2>1. DOMAIN staging' \subseteq DOMAIN staging /\ \A w \in DOMAIN staging' : staging'[w] = staging[w]
    BY <1>5 DEF Without
  <2> QED
    BY <1>2, <1>5, <2>1
<1>6. CASE UNCHANGED <<staging, nextOrdinal>>
  BY <1>2, <1>6
<1> QED
  BY <1>3, <1>4, <1>5, <1>6, RecordsChange

-----------------------------------------------------------------------------
(* Acknowledgements on their way.                                          *)

\* How a write comes to be open, and how it comes to succeed.
LEMMA StatusChange ==
    ASSUME TypeOK, [Next]_vars, NEW w \in Writes
    PROVE  /\ srb'[w] = "open" => \/ srb[w] = "open"
                                  \/ srb[w] = "unsent" /\ UNCHANGED <<issued, accepted, kernelVars, dataVars>>
           /\ srb'[w] = "done" => srb[w] = "done" \/ (srb[w] = "open" /\ Send)
<1>0. srb \in [Writes -> {"unsent", "open", "done", "failed"}]
  BY DEF TypeOK, WindowsTypeOK
<1>1. CASE UNCHANGED srb
  BY <1>1
<1>2. CASE FailOpen
  BY <1>0, <1>2 DEF FailOpen
<1>3. CASE Send
  BY <1>0, <1>3 DEF Send, AckedBy
<1>4. CASE \E v \in Writes : SendWrite(v)
  <2>1. PICK v \in Writes : SendWrite(v)
    BY <1>4
  <2> QED
    BY <1>0, <2>1 DEF SendWrite
<1>5. UNCHANGED srb \/ FailOpen \/ Send \/ \E v \in Writes : SendWrite(v)
  BY DEF Next, FillSlot, Reset, Worker, Track, Stage, EnqueueAck, Flusher, Steal, ApplyRange,
         StopFlusher, SignalLoop, Poll, Commit, Reject, SessionBroken, Control, Open, BeginCreate,
         AkCreateDisk, EndCreate, BeginRemoval, RemoveDisk, DestroyDisk, TakeMedia, CloseSession,
         vars, windowsVars
<1> QED
  BY <1>1, <1>2, <1>3, <1>4, <1>5

\* Nothing of a write that was not sent is anywhere.
LEMMA UnsentNowhere ==
    ASSUME TypeOK, RangesOK, SuccessOK, NEW w \in Writes, srb[w] = "unsent"
    PROVE  /\ \A n : ~Reported(w, n)
           /\ \A x \in slots : x.ev # w
<1>1. issued[w] = 0 /\ accepted[w] \subseteq Nat /\ \A n \in accepted[w] : n < issued[w]
  BY DEF SuccessOK, TypeOK, WindowsTypeOK
<1>2. \A m \in Nat : ~(m < 0)
  OBVIOUS
<1>3. accepted[w] = {}
  BY <1>1, <1>2
<1>4. \A x \in slots : x.ev # w
  BY <1>1, <1>2, RangeFacts
<1>5. \A i \in 1 .. Len(ackQueue) : ackQueue[i].ev # w
  BY <1>1, <1>2, RangeFacts
<1>6. \A i \in 1 .. Len(flush.ranges) : flush.ranges[i].ev # w
  BY <1>1, <1>2, RangeFacts
<1> QED
  BY <1>3, <1>4, <1>5, <1>6 DEF Reported

\* A fragment is reported anew only by the worker that stages it.
LEMMA ReportedChange ==
    ASSUME TypeOK, OnePlace, RangesOK, SuccessOK, [Next]_vars, NEW w \in Writes, NEW n, Reported(w, n)', disk' # "none"
    PROVE  \/ Reported(w, n)
           \/ \E x \in slots : Stage(x) /\ x.ev = w /\ x.seq = n
<1>0. ackQueue \in Seq(RangeType) /\ flush.ranges \in Seq(RangeType) /\ Len(ackQueue) \in Nat
  BY DEF TypeOK, KernelTypeOK
<1>1. ASSUME UNCHANGED <<accepted, ackQueue>>, flush' = flush \/ flush'.at # "held",
             \A x \in slots' : x.at = "staged" => x \in slots
      PROVE  Reported(w, n)
  BY <1>1 DEF Reported
<1>2. CASE UNCHANGED pipeVars \/ AkCreateDisk
  BY <1>1, <1>2 DEF pipeVars, AkCreateDisk, windowsVars, EmptyFlush, Flush
<1>3. CASE \E v \in Writes : FillSlot(v)
  <2>1. PICK v \in Writes : FillSlot(v)
    BY <1>3
  <2> QED
    BY <1>1, <2>1 DEF FillSlot
<1>4. CASE \E x \in slots : Track(x)
  <2>1. PICK x \in slots : Track(x)
    BY <1>4
  <2> QED
    BY <1>1, <2>1 DEF Track, Moves, windowsVars
<1>5. CASE \E x \in slots : Stage(x)
  <2>1. PICK x \in slots : Stage(x)
    BY <1>5
  <2>2. /\ slots' = (slots \ {x}) \cup {[ev |-> x.ev, seq |-> x.seq, at |-> "staged"]}
        /\ UNCHANGED <<accepted, ackQueue, flush>>
    BY <2>1 DEF Stage, Moves, windowsVars
  <2>3. CASE x.ev = w /\ x.seq = n
    BY <2>1, <2>3
  <2>4. CASE ~(x.ev = w /\ x.seq = n)
    BY <2>2, <2>4 DEF Reported
  <2> QED
    BY <2>3, <2>4
<1>6. CASE \E x \in slots : EnqueueAck(x)
  <2>1. PICK x \in slots : EnqueueAck(x)
    BY <1>6
  <2> DEFINE r == [ev |-> x.ev, seq |-> x.seq, ok |-> x.at = "staged"]
  <2>2. r.ev = x.ev /\ r.seq = x.seq /\ (r.ok <=> x.at = "staged")
    OBVIOUS
  <2>3. ackQueue' = Append(ackQueue, r) /\ slots' = slots \ {x} /\ UNCHANGED <<accepted, flush>>
    BY <2>1 DEF EnqueueAck, windowsVars
  <2> HIDE DEF r
  <2>4. \A i \in 1 .. Len(ackQueue') : ackQueue'[i] = r \/ (i \in 1 .. Len(ackQueue) /\ ackQueue'[i] = ackQueue[i])
    BY <1>0, <2>3
  <2>5. CASE \E i \in 1 .. Len(ackQueue') : ackQueue'[i].ev = w /\ ackQueue'[i].seq = n /\ ackQueue'[i].ok
    <3>1. PICK i \in 1 .. Len(ackQueue') : ackQueue'[i].ev = w /\ ackQueue'[i].seq = n /\ ackQueue'[i].ok
      BY <2>5
    <3>2. CASE ackQueue'[i] = r
      <4>1. x \in slots /\ x.ev = w /\ x.seq = n /\ x.at = "staged"
        BY <2>2, <3>1, <3>2
      <4> QED
        BY <4>1 DEF Reported
    <3>3. CASE i \in 1 .. Len(ackQueue) /\ ackQueue'[i] = ackQueue[i]
      BY <3>1, <3>3 DEF Reported
    <3> QED
      BY <2>4, <3>2, <3>3
  <2> QED
    BY <2>3, <2>5 DEF Reported
<1>7. CASE Steal
  <2> DEFINE m == IF Len(ackQueue) < AckBatchMaxRanges THEN Len(ackQueue) ELSE AckBatchMaxRanges
  <2>1. m \in Nat \ {0} /\ m <= Len(ackQueue)
    BY <1>0, <1>7, ConstantsAssumption DEF Steal
  <2>2. /\ flush'.ranges = SubSeq(ackQueue, 1, m) /\ ackQueue' = SubSeq(ackQueue, m + 1, Len(ackQueue))
        /\ UNCHANGED <<accepted, slots>>
    BY <1>7 DEF Steal, LeftAfter, Flush, windowsVars
  <2> HIDE DEF m
  <2>3. \A i \in 1 .. Len(ackQueue') : i + m \in 1 .. Len(ackQueue) /\ ackQueue'[i] = ackQueue[i + m]
    BY <1>0, <2>1, <2>2
  <2>4. \A i \in 1 .. Len(flush'.ranges) : i \in 1 .. Len(ackQueue) /\ flush'.ranges[i] = ackQueue[i]
    BY <1>0, <2>1, <2>2
  <2>5. CASE \E i \in 1 .. Len(ackQueue') : ackQueue'[i].ev = w /\ ackQueue'[i].seq = n /\ ackQueue'[i].ok
    BY <2>3, <2>5 DEF Reported
  <2>6. CASE \E i \in 1 .. Len(flush'.ranges) : flush'.ranges[i].ev = w /\ flush'.ranges[i].seq = n /\ flush'.ranges[i].ok
    BY <2>4, <2>6 DEF Reported
  <2> QED
    BY <2>2, <2>5, <2>6 DEF Reported
<1>8. CASE Send
  <2>1. flush.at = "held" /\ flush'.at = "answered" /\ UNCHANGED <<slots, ackQueue>>
    BY <1>8 DEF Send, Flush
  <2>2. n \in accepted'[w] => n \in accepted[w] \/ \E i \in 1 .. Len(flush.ranges) :
           flush.ranges[i].ev = w /\ flush.ranges[i].seq = n /\ flush.ranges[i].ok
    BY <1>8, SendFacts
  <2> QED
    BY <2>1, <2>2 DEF Reported
<1>9. CASE ApplyRange
  <2>1. UNCHANGED <<accepted, slots, ackQueue>> /\ flush'.at # "held"
    <3>1. flush' \in {EmptyFlush, Flush("answered", Tail(flush.ranges)), Flush("exited", <<>>)}
      BY <1>9 DEF ApplyRange
    <3>2. flush'.at # "held"
      BY <3>1 DEF EmptyFlush, Flush
    <3> QED
      BY <1>9, <3>2 DEF ApplyRange, windowsVars
  <2> QED
    BY <1>1, <2>1
<1>10. CASE StopFlusher
  <2>1. UNCHANGED <<accepted, slots>> /\ flush'.at # "held" /\ Len(ackQueue') = 0
    BY <1>10 DEF StopFlusher, Flush, windowsVars
  <2> QED
    BY <2>1 DEF Reported
<1>11. ~DestroyDisk
  BY DEF DestroyDisk
<1> QED
  BY <1>2, <1>3, <1>4, <1>5, <1>6, <1>7, <1>8, <1>9, <1>10, <1>11, PipeSteps

\* Only a write that is decided leaves the active events while the disk is there.
LEMMA ActiveKept ==
    ASSUME IndInv, [Next]_vars, disk' # "none", NEW w \in DOMAIN active, srb[w] = "open"
    PROVE  w \in DOMAIN active'
<1>0. TypeOK /\ OnePlace /\ RangesOK /\ SuccessOK /\ CountOK
  BY DEF IndInv
<1>1. CASE \E x \in slots : Track(x)
  <2>1. PICK x \in slots : Track(x)
    BY <1>1
  <2> QED
    BY <2>1 DEF Track, With
<1>2. CASE ApplyRange
  <2> DEFINE v == Head(flush.ranges).ev
  <2>1. v \in DOMAIN active /\ ~(active' = active) => srb[v] = "failed" \/ srb[v] = "done" \/ DOMAIN active' = DOMAIN active
    BY <1>0, <1>2, NextRange DEF ApplyRange
  <2>2. DOMAIN active' = DOMAIN active \/ (v \in DOMAIN active /\ DOMAIN active' = DOMAIN active \ {v})
    BY <1>2 DEF ApplyRange, Finalize, Without
  <2> HIDE DEF v
  <2> QED
    BY <2>1, <2>2
<1>3. CASE UNCHANGED active
  BY <1>3
<1>4. UNCHANGED active \/ (\E x \in slots : Track(x)) \/ ApplyRange \/ DestroyDisk
  BY DEF Next, SendWrite, FillSlot, Reset, Worker, Stage, EnqueueAck, Flusher, Steal, Send,
         StopFlusher, SignalLoop, Poll, Commit, Reject, SessionBroken, Control, Open, BeginCreate,
         AkCreateDisk, EndCreate, BeginRemoval, RemoveDisk, TakeMedia, CloseSession,
         vars, kernelVars
<1> QED
  BY <1>1, <1>2, <1>3, <1>4 DEF DestroyDisk

\* While the disk is there, a fragment stays in the record of a write that has
\* not failed until that is committed.
LEMMA FragmentKept ==
    ASSUME IndInv, LifecycleOK, [Next]_vars, NEW w \in Writes, NEW n, HasFragment(w, n),
           \/ srb[w] = "open" /\ disk # "none"
           \/ srb[w] = "done" /\ w \in DOMAIN staging'
    PROVE  HasFragment(w, n)'
<1>0. TypeOK /\ RangesOK /\ SuccessOK /\ FinalAgreesWithWindows
  BY DEF IndInv
<1>1. w \in DOMAIN staging /\ \E f \in staging[w] : f.seq = n
  BY DEF HasFragment, RecordOf
<1>2. CASE w \in DOMAIN staging' /\ staging'[w] = staging[w]
  BY <1>1, <1>2 DEF HasFragment, RecordOf
<1>3. CASE UNCHANGED <<staging, nextOrdinal>>
  BY <1>1, <1>2, <1>3
<1>4. CASE \E x \in slots : Stage(x)
  <2>1. PICK x \in slots : Stage(x)
    BY <1>4
  <2>2. /\ DOMAIN staging' = DOMAIN staging \cup {x.ev}
        /\ \A v \in DOMAIN staging' : v # x.ev => staging'[v] = staging[v]
        /\ staging'[x.ev] = {f \in RecordOf(x.ev) : f.seq # x.seq} \cup {FragmentOf(x)}
    BY <2>1, StageEffect
  <2>3. CASE x.ev = w
    <3>1. staging'[w] = {f \in staging[w] : f.seq # x.seq} \cup {FragmentOf(x)} /\ FragmentOf(x).seq = x.seq
      BY <1>1, <2>2, <2>3 DEF RecordOf, FragmentOf
    <3>2. \E f \in staging'[w] : f.seq = n
      BY <1>1, <3>1
    <3> QED
      BY <1>1, <2>2, <3>2 DEF HasFragment, RecordOf
  <2> QED
    BY <1>1, <1>2, <2>2, <2>3
<1>5. CASE /\ Commit \/ Reject
           /\ staging' \in {staging, Without(staging, polled.ev)} /\ UNCHANGED <<windowsVars, nextOrdinal>>
  <2>1. srb[polled.ev] \in {"done", "failed"}
    BY <1>0, <1>5, PolledType DEF Commit, Reject
  <2>2. w \in DOMAIN staging' /\ staging'[w] = staging[w]
    BY <1>1, <1>5, <2>1 DEF Without
  <2> QED
    BY <1>2, <2>2
<1>6. CASE DOMAIN staging' = {} /\ (TakeMedia \/ BeginCreate)
  <2>1. disk = "none"
    BY <1>6 DEF TakeMedia, BeginCreate, Idle, LifecycleOK, DiskAt
  <2> QED
    BY <1>6, <2>1
<1> QED
  BY <1>3, <1>4, <1>5, <1>6, RecordsChange

\* Without a disk the way of the acknowledgements is empty; with one, the write
\* path of AppKernel gets a disk only anew.
LEMMA DiskAppears ==
    ASSUME LifecycleOK, OpenOK, [Next]_vars, disk = "none", disk' # "none"
    PROVE  AkCreateDisk /\ (\A w \in Writes : srb[w] # "open") /\ srb' = srb /\ DOMAIN staging' = {}
<1>1. AkCreateDisk \/ UNCHANGED disk \/ \E call \in Removals : BeginRemoval(call) /\ runtime /\ handle = "valid"
  BY DEF Next, SendWrite, FillSlot, Reset, Worker, Track, Stage, EnqueueAck, Flusher, Steal, Send, ApplyRange,
         StopFlusher, SignalLoop, Poll, Commit, Reject, SessionBroken, Control, Open, BeginCreate,
         EndCreate, BeginRemoval, RemoveDisk, DestroyDisk, TakeMedia, CloseSession,
         vars, kernelVars
<1>2. ~ \E call \in Removals : BeginRemoval(call) /\ runtime /\ handle = "valid"
  BY DEF BeginRemoval, Idle, LifecycleOK, DiskAt
<1>3. AkCreateDisk
  BY <1>1, <1>2
<1> QED
  BY <1>3 DEF AkCreateDisk, LifecycleOK, DiskAt, OpenOK, windowsVars, dataVars

\* No acknowledgement without its record and its tracked event; the record of a
\* write that succeeded is complete.
LEMMA ReportedStep ==
    ASSUME IndInv, IndInv', LifecycleOK, OpenOK, HistoryOK, ReportedOK, [Next]_vars
    PROVE  ReportedOK'
<1>0. TypeOK /\ OnePlace /\ RangesOK /\ SuccessOK /\ FinalAgreesWithWindows
  BY DEF IndInv
<1>1. ASSUME NEW w \in Writes, srb[w] = "open", disk # "none", disk' # "none", NEW n \in 0 .. (TotalSeq(w) - 1), Reported(w, n)'
      PROVE  HasFragment(w, n)' /\ w \in DOMAIN active'
  <2>1. CASE Reported(w, n)
    <3>1. HasFragment(w, n) /\ w \in DOMAIN active
      BY <1>1, <2>1 DEF ReportedOK
    <3> QED
      BY <1>1, <3>1, ActiveKept, FragmentKept
  <2>2. CASE \E x \in slots : Stage(x) /\ x.ev = w /\ x.seq = n
    <3>1. PICK x \in slots : Stage(x) /\ x.ev = w /\ x.seq = n
      BY <2>2
    <3>2. w \in DOMAIN active /\ active' = active
      BY <1>1, <3>1, StageEffect DEF ReportedOK, Stage
    <3>3. w \in DOMAIN staging' /\ FragmentOf(x) \in staging'[w] /\ FragmentOf(x).seq = n
      BY <3>1, StageEffect DEF FragmentOf
    <3> QED
      BY <3>2, <3>3 DEF HasFragment, RecordOf
  <2> QED
    BY <1>0, <1>1, <2>1, <2>2, ReportedChange
<1>2. ASSUME NEW w \in Writes, srb[w] = "open", disk # "none", disk' # "none",
             NEW x \in slots', x.ev = w, x.at = "tracked"
      PROVE  w \in DOMAIN active'
  <2>1. x \in slots \/ \E y \in slots : Track(y) /\ y.ev = w
    <3>1. CASE \E v \in Writes : FillSlot(v)
      <4>1. PICK v \in Writes : FillSlot(v)
        BY <3>1
      <4> QED
        BY <1>2, <4>1 DEF FillSlot
    <3>2. CASE \E y \in slots : Track(y) \/ Stage(y) \/ EnqueueAck(y)
      <4>1. PICK y \in slots : Track(y) \/ Stage(y) \/ EnqueueAck(y)
        BY <3>2
      <4> QED
        BY <1>2, <4>1 DEF Track, Stage, EnqueueAck, Moves
    <3>3. CASE UNCHANGED slots
      BY <1>2, <3>3
    <3> QED
      BY <3>1, <3>2, <3>3, PipeSteps DEF pipeVars, Steal, Send, ApplyRange, StopFlusher, AkCreateDisk, DestroyDisk
  <2>2. CASE x \in slots
    BY <1>2, <2>2, ActiveKept DEF ReportedOK
  <2>3. ASSUME NEW y \in slots, Track(y), y.ev = w PROVE w \in DOMAIN active'
    <3>1. ~IsFinalized(y.ev)
      BY <1>2, <2>3 DEF HistoryOK, IsFinalized
    <3> QED
      BY <2>3, <3>1 DEF Track, With
  <2> QED
    BY <2>1, <2>2, <2>3
<1>3. ASSUME NEW w \in Writes, srb'[w] = "open", disk' # "none"
      PROVE  /\ \A n \in 0 .. (TotalSeq(w) - 1) : Reported(w, n)' => HasFragment(w, n)' /\ w \in DOMAIN active'
             /\ \A x \in slots' : x.ev = w /\ x.at = "tracked" => w \in DOMAIN active'
  <2>1. CASE srb[w] = "open"
    <3>1. disk # "none"
      BY <1>3, <2>1, DiskAppears
    <3> QED
      BY <1>1, <1>2, <1>3, <2>1, <3>1
  <2>2. CASE srb[w] = "unsent" /\ UNCHANGED <<issued, accepted, kernelVars, dataVars>>
    <3>1. \A n : ~Reported(w, n)'
      BY <1>0, <2>2, UnsentNowhere DEF Reported, kernelVars
    <3>2. \A x \in slots' : x.ev # w
      BY <1>0, <2>2, UnsentNowhere DEF kernelVars
    <3> QED
      BY <3>1, <3>2
  <2> QED
    BY <1>0, <1>3, <2>1, <2>2, StatusChange
<1>4. ASSUME NEW w \in Writes, srb'[w] = "done", w \in DOMAIN staging', NEW n \in 0 .. (TotalSeq(w) - 1)
      PROVE  HasFragment(w, n)'
  <2>1. CASE srb[w] = "done"
    <3>1. w \in DOMAIN staging
      <4>1. CASE \E x \in slots : Stage(x)
        <5>1. PICK x \in slots : Stage(x)
          BY <4>1
        <5>2. srb[x.ev] \in {"open", "failed"}
          BY <1>0, SlotNotDone
        <5>3. DOMAIN staging' = DOMAIN staging \cup {x.ev}
          BY <5>1, StageEffect
        <5> QED
          BY <1>4, <2>1, <5>2, <5>3
      <4>2. DOMAIN staging' \subseteq DOMAIN staging \/ \E x \in slots : Stage(x)
        BY RecordsChange DEF Without
      <4> QED
        BY <1>4, <4>1, <4>2
    <3>2. HasFragment(w, n)
      BY <1>4, <2>1, <3>1 DEF ReportedOK
    <3> QED
      BY <1>4, <2>1, <3>2, FragmentKept
  <2>2. CASE srb[w] = "open" /\ Send
    <3>1. disk = "running" /\ disk' = "running" /\ staging' = staging
      BY <2>2 DEF Send, dataVars
    <3>2. Reported(w, n)'
      <4>1. SuccessOK'
        BY DEF IndInv
      <4>2. TotalSeq(w)' = TotalSeq(w)
        BY DEF TotalSeq
      <4>3. n \in accepted'[w]
        BY <1>4, <4>1, <4>2 DEF SuccessOK
      <4> QED
        BY <4>3 DEF Reported
    <3>3. ~ \E x \in slots : Stage(x)
      <4>1. flush'.at = "answered" /\ flush.at = "held"
        BY <2>2 DEF Send, Flush
      <4> QED
        BY <4>1, StageEffect
    <3>4. Reported(w, n)
      BY <1>0, <3>1, <3>2, <3>3, ReportedChange
    <3>5. HasFragment(w, n)
      BY <2>2, <3>1, <3>4 DEF ReportedOK
    <3> QED
      BY <3>1, <3>5 DEF HasFragment, RecordOf
  <2> QED
    BY <1>0, <1>4, <2>1, <2>2, StatusChange
<1>5. \A w \in Writes : TotalSeq(w)' = TotalSeq(w)
  BY DEF TotalSeq
<1> QED
  BY <1>3, <1>4, <1>5 DEF ReportedOK

-----------------------------------------------------------------------------
(* The count of acknowledged fragments.                                    *)

\* What the flusher has still to learn of w once it is past the next range.
Owed(w) ==
    {Tail(flush.ranges)[i].seq : i \in {j \in 1 .. Len(Tail(flush.ranges)) :
        Tail(flush.ranges)[j].ev = w /\ Tail(flush.ranges)[j].ok}}

\* The next range is one accepted fragment that is not counted yet, or none.
LEMMA OwedIs ==
    ASSUME TypeOK, OnePlace, RangesOK, flush.at = "answered"
    PROVE  LET range == Head(flush.ranges) IN
           /\ range.ev \in Writes /\ range.ok \in BOOLEAN
           /\ \A w \in Writes : w # range.ev \/ ~range.ok => Uncounted(w) = Owed(w)
           /\ range.ok => /\ Uncounted(range.ev) = Owed(range.ev) \cup {range.seq}
                          /\ range.seq \notin Owed(range.ev) /\ range.seq \in accepted[range.ev]
<1> DEFINE range == Head(flush.ranges)
           rest == Tail(flush.ranges)
           q == flush.ranges
<1>1. q \in Seq(RangeType) /\ q # <<>>
  BY DEF TypeOK, KernelTypeOK, RangesOK
<1>2. /\ range = q[1] /\ Len(q) \in Nat \ {0} /\ Len(rest) = Len(q) - 1
      /\ \A i \in 1 .. Len(rest) : rest[i] = q[i + 1]
  BY <1>1, HeadType
<1>3. \A w : Uncounted(w) = {q[i].seq : i \in {j \in 1 .. Len(q) : q[j].ev = w /\ q[j].ok}}
  BY DEF Uncounted
<1>4. \A w : Owed(w) = {rest[i].seq : i \in {j \in 1 .. Len(rest) : rest[j].ev = w /\ rest[j].ok}}
  BY DEF Owed
<1> HIDE DEF range, rest, q
<1>5. /\ range.ev \in Writes /\ range.ok \in BOOLEAN
      /\ range.ok => range.seq \in accepted[range.ev]
  BY <1>2, RangeFacts DEF q, RangesOK
<1>6. \A w : Owed(w) \subseteq Uncounted(w)
  <2> SUFFICES ASSUME NEW w, NEW i \in 1 .. Len(rest), rest[i].ev = w, rest[i].ok PROVE rest[i].seq \in Uncounted(w)
    BY <1>4
  <2>1. i + 1 \in {j \in 1 .. Len(q) : q[j].ev = w /\ q[j].ok} /\ rest[i].seq = q[i + 1].seq
    BY <1>2
  <2> QED
    BY <1>3, <2>1
<1>7. ASSUME NEW w, NEW n \in Uncounted(w) PROVE n \in Owed(w) \/ (range.ev = w /\ range.ok /\ n = range.seq)
  <2>1. PICK i \in 1 .. Len(q) : q[i].ev = w /\ q[i].ok /\ q[i].seq = n
    BY <1>3, <1>7
  <2>2. CASE i = 1
    BY <1>2, <2>1, <2>2
  <2>3. CASE i # 1
    <3>1. i - 1 \in 1 .. Len(rest) /\ rest[i - 1] = q[i]
      BY <1>2, <2>3
    <3>2. i - 1 \in {j \in 1 .. Len(rest) : rest[j].ev = w /\ rest[j].ok} /\ rest[i - 1].seq = n
      BY <2>1, <3>1
    <3> QED
      BY <1>4, <3>2
  <2> QED
    BY <2>2, <2>3
<1>8. range.ok => range.seq \in Uncounted(range.ev)
  <2>1. range.ok => 1 \in {j \in 1 .. Len(q) : q[j].ev = range.ev /\ q[j].ok}
    BY <1>2
  <2> QED
    BY <1>2, <1>3, <2>1
<1>9. range.seq \notin Owed(range.ev)
  <2> SUFFICES ASSUME NEW i \in 1 .. Len(rest), rest[i].ev = range.ev PROVE rest[i].seq # range.seq
    BY <1>4
  <2>1. i + 1 \in 1 .. Len(q) /\ i + 1 # 1 /\ 1 \in 1 .. Len(q) /\ rest[i] = q[i + 1]
    BY <1>2
  <2> QED
    BY <1>2, <2>1 DEF q, OnePlace, Same
<1> QED
  BY <1>5, <1>6, <1>7, <1>8, <1>9 DEF range

\* Where nothing is accepted, counted or learned, the count stays exact.
LEMMA ExactKept ==
    ASSUME TypeOK, ExactOK, Settled, accepted' = accepted,
           \/ flush'.at = "exited"
           \/ flush.at # "exited" /\ \A w \in DOMAIN active' : Uncounted(w)' = Uncounted(w),
           \A w \in DOMAIN active' : w \in DOMAIN active /\ active'[w] = active[w]
    PROVE  ExactOK'
<1> SUFFICES ASSUME NEW w \in DOMAIN active'
             PROVE  /\ active'[w] < TotalSeq(w)
                    /\ srb'[w] # "failed" /\ flush'.at # "exited" => active'[w] = Cardinality(accepted'[w] \ Uncounted(w)')
  BY DEF ExactOK, TotalSeq
<1>1. w \in DOMAIN active /\ w \in Writes /\ active'[w] = active[w]
  BY DEF TypeOK, KernelTypeOK
<1>2. srb'[w] # "failed" => srb[w] # "failed"
  BY <1>1 DEF Settled
<1> QED
  BY <1>1, <1>2 DEF ExactOK

\* AckedSeqCount misses no fragment, as long as the flusher runs.
LEMMA ExactStep ==
    ASSUME IndInv, LifecycleOK, ReportedOK, ExactOK, [Next]_vars
    PROVE  ExactOK'
<1>0. TypeOK /\ OnePlace /\ RangesOK /\ SuccessOK /\ CountOK /\ Settled /\ DOMAIN active \subseteq Writes
  BY SettledStep DEF IndInv, TypeOK, KernelTypeOK
<1>1. ASSUME accepted' = accepted, flush' = flush, active' = active PROVE ExactOK'
  BY <1>0, <1>1, ExactKept DEF Uncounted
<1>2. CASE UNCHANGED pipeVars
  BY <1>1, <1>2 DEF pipeVars
<1>3. ASSUME NEW w \in Writes, FillSlot(w) PROVE ExactOK'
  BY <1>1, <1>3 DEF FillSlot
<1>4. ASSUME NEW x \in slots, Stage(x) \/ EnqueueAck(x) PROVE ExactOK'
  BY <1>1, <1>4 DEF Stage, EnqueueAck, windowsVars
<1>5. ASSUME NEW x \in slots, Track(x) PROVE ExactOK'
  <2>1. UNCHANGED <<srb, accepted, flush>>
    BY <1>5 DEF Track, windowsVars
  <2>2. CASE active' = active
    BY <1>1, <2>1, <2>2
  <2>3. CASE active' = With(active, x.ev, 0) /\ x.ev \notin DOMAIN active
    <3>1. x.ev \in Writes /\ srb[x.ev] \in {"open", "failed"} /\ disk # "none"
      BY <1>0, SlotNotDone DEF LifecycleOK
    <3>2. srb[x.ev] = "open" => accepted[x.ev] = {}
      BY <1>0, <2>3, <3>1, AcceptedFinite DEF ReportedOK, Reported
    <3>3. ASSUME NEW w \in DOMAIN active' PROVE \/ w = x.ev /\ active'[w] = 0
                                                \/ w \in DOMAIN active /\ active'[w] = active[w]
      BY <2>3 DEF With
    <3>4. Cardinality({} \ Uncounted(x.ev)) = 0
      BY FS_EmptySet
    <3>5. /\ 0 < TotalSeq(x.ev)
          /\ srb[x.ev] # "failed" => 0 = Cardinality(accepted[x.ev] \ Uncounted(x.ev))
      BY <3>1, <3>2, <3>4, Totals
    <3>6. \A w : Uncounted(w)' = Uncounted(w) /\ TotalSeq(w)' = TotalSeq(w)
      BY <2>1 DEF Uncounted, TotalSeq
    <3>7. ASSUME NEW w \in DOMAIN active'
          PROVE  /\ active'[w] < TotalSeq(w)
                 /\ srb[w] # "failed" /\ flush.at # "exited" => active'[w] = Cardinality(accepted[w] \ Uncounted(w))
      BY <3>3, <3>5 DEF ExactOK
    <3> QED
      BY <2>1, <3>6, <3>7 DEF ExactOK
  <2> QED
    BY <1>5, <2>2, <2>3 DEF Track
<1>6. CASE Steal
  <2>1. flush.at = "idle" /\ flush'.at = "held" /\ accepted' = accepted /\ active' = active
    BY <1>6 DEF Steal, Flush, windowsVars
  <2> QED
    BY <1>0, <2>1, ExactKept DEF Uncounted
<1>7. CASE StopFlusher
  <2>1. flush'.at = "exited" /\ accepted' = accepted /\ active' = active
    BY <1>7 DEF StopFlusher, Flush, windowsVars
  <2> QED
    BY <1>0, <2>1, ExactKept
<1>8. CASE AkCreateDisk \/ DestroyDisk
  <2>1. DOMAIN active' = {}
    BY <1>8 DEF AkCreateDisk, DestroyDisk, NoEvents, LifecycleOK, DiskAt
  <2> QED
    BY <2>1 DEF ExactOK
<1>9. CASE Send
  <2> SUFFICES ASSUME NEW w \in DOMAIN active
               PROVE  /\ active[w] < TotalSeq(w)
                      /\ srb'[w] # "failed" => active[w] = Cardinality(accepted'[w] \ Uncounted(w)')
    BY <1>9 DEF Send, ExactOK, TotalSeq
  <2> DEFINE a == [i \in 1 .. Len(flush.ranges) |-> Answer(flush.ranges[i])]
  <2>1. w \in Writes /\ flush.ranges \in Seq(RangeType) /\ flush.at = "held"
    BY <1>0, <1>9 DEF Send, TypeOK, KernelTypeOK
  <2>2. Len(a) = Len(flush.ranges) /\ \A i \in 1 .. Len(flush.ranges) : a[i] = Answer(flush.ranges[i])
    BY <2>1, AnsweredType
  <2>3. flush' = Flush("answered", a)
    BY <1>9 DEF Send
  <2> HIDE DEF a
  <2>4. Uncounted(w) = {} /\ Uncounted(w)' = {a[i].seq : i \in {j \in 1 .. Len(a) : a[j].ev = w /\ a[j].ok}}
    BY <2>1, <2>3 DEF Uncounted, Flush
  <2>5. \A r : Answer(r).ev = r.ev /\ Answer(r).seq = r.seq /\ Answer(r).ok = Outcome(r)
    BY DEF Answer
  <2>6. ASSUME NEW n \in Uncounted(w)' PROVE n \notin accepted[w]
    <3>1. PICK i \in 1 .. Len(a) : a[i].ev = w /\ a[i].seq = n
      BY <2>4, <2>6
    <3>2. flush.ranges[i].ev = w /\ flush.ranges[i].seq = n
      BY <2>2, <2>5, <3>1
    <3> QED
      BY <1>0, <1>9, <2>2, <3>1, <3>2, SendFacts
  <2>7. ASSUME NEW n \in accepted'[w] \ accepted[w] PROVE n \in Uncounted(w)'
    <3>1. PICK i \in 1 .. Len(flush.ranges) :
             flush.ranges[i].ev = w /\ flush.ranges[i].seq = n /\ flush.ranges[i].ok /\ srb[w] = "open"
      BY <1>0, <1>9, <2>1, <2>7, SendFacts
    <3>2. a[i].ev = w /\ a[i].seq = n /\ a[i].ok
      BY <2>2, <2>5, <3>1 DEF Outcome
    <3>3. i \in {j \in 1 .. Len(a) : a[j].ev = w /\ a[j].ok}
      BY <2>2, <3>2
    <3> QED
      BY <2>4, <3>2, <3>3
  <2>8. accepted[w] \subseteq accepted'[w]
    BY <1>0, <1>9, <2>1, SendFacts
  <2>9. accepted'[w] \ Uncounted(w)' = accepted[w] \ Uncounted(w)
    BY <2>4, <2>6, <2>7, <2>8
  <2>10. srb'[w] # "failed" => srb[w] # "failed"
    BY <1>0, <2>1 DEF Settled
  <2> QED
    BY <2>1, <2>9, <2>10 DEF ExactOK
<1>10. CASE ApplyRange
  <2> DEFINE range == Head(flush.ranges)
             w == range.ev
  <2>1. flush.at = "answered" /\ UNCHANGED <<srb, accepted>>
    BY <1>10 DEF ApplyRange, windowsVars
  <2>2. /\ w \in Writes /\ range.ok \in BOOLEAN
        /\ \A v \in Writes : v # w \/ ~range.ok => Uncounted(v) = Owed(v)
        /\ range.ok => /\ Uncounted(w) = Owed(w) \cup {range.seq}
                       /\ range.seq \notin Owed(w) /\ range.seq \in accepted[w]
    BY <1>0, <2>1, OwedIs
  <2>3. \/ flush'.at = "exited" /\ active' = active
        \/ flush'.at # "exited" /\ \A v \in Writes : Uncounted(v)' = Owed(v)
    <3>1. CASE flush' = Flush("exited", <<>>) /\ active' = active
      BY <3>1 DEF Flush
    <3>2. CASE flush' = Flush("answered", Tail(flush.ranges))
      BY <3>2 DEF Flush, Uncounted, Owed
    <3>3. CASE flush' = EmptyFlush /\ Tail(flush.ranges) = <<>>
      <4>1. Len(Tail(flush.ranges)) = 0 /\ flush'.at # "answered"
        BY <3>3 DEF EmptyFlush, Flush
      <4>2. ASSUME NEW v PROVE Owed(v) = {}
        <5>1. {j \in 1 .. Len(Tail(flush.ranges)) : Tail(flush.ranges)[j].ev = v /\ Tail(flush.ranges)[j].ok} = {}
          BY <4>1
        <5> QED
          BY <5>1 DEF Owed
      <4>3. \A v : Uncounted(v)' = {}
        BY <4>1 DEF Uncounted
      <4> QED
        BY <3>3, <4>2, <4>3 DEF EmptyFlush, Flush
    <3> QED
      BY <1>10, <3>1, <3>2, <3>3 DEF ApplyRange
  <2>4. \/ active' = active /\ (w \notin DOMAIN active \/ flush'.at = "exited")
        \/ active' = Without(active, w)
        \/ /\ w \in DOMAIN active /\ range.ok /\ ~AllAcked(w)
           /\ active' = [active EXCEPT ![w] = active[w] + 1]
    BY <1>10 DEF ApplyRange, Finalize
  <2> HIDE DEF range, w
  <2>5. CASE flush'.at = "exited" /\ active' = active
    BY <1>0, <2>1, <2>5, ExactKept
  <2>6. CASE /\ flush'.at # "exited" /\ \A v \in Writes : Uncounted(v)' = Owed(v)
             /\ \A v \in DOMAIN active' : v # w /\ v \in DOMAIN active /\ active'[v] = active[v]
    <3>1. \A v \in DOMAIN active' : Uncounted(v)' = Uncounted(v)
      BY <1>0, <2>2, <2>6
    <3> QED
      BY <1>0, <2>1, <2>6, <3>1, ExactKept
  <2>7. CASE /\ flush'.at # "exited" /\ \A v \in Writes : Uncounted(v)' = Owed(v)
             /\ w \in DOMAIN active /\ range.ok /\ ~AllAcked(w)
             /\ active' = [active EXCEPT ![w] = active[w] + 1]
    <3> SUFFICES ASSUME NEW v \in DOMAIN active'
                 PROVE  /\ active'[v] < TotalSeq(v)
                        /\ srb[v] # "failed" => active'[v] = Cardinality(accepted[v] \ Owed(v))
      BY <1>0, <2>1, <2>7 DEF ExactOK, TotalSeq
    <3>1. v \in Writes /\ v \in DOMAIN active /\ active[v] \in Nat /\ TotalSeq(v) \in Nat \ {0}
      BY <1>0, <2>7, Totals DEF TypeOK, KernelTypeOK
    <3>2. active[v] < TotalSeq(v) /\ (srb[v] # "failed" => active[v] = Cardinality(accepted[v] \ Uncounted(v)))
      BY <2>1, <3>1 DEF ExactOK
    <3>3. CASE v # w
      BY <2>2, <2>7, <3>1, <3>2, <3>3
    <3>4. CASE v = w
      <4>1. active'[v] = active[v] + 1 /\ active[v] + 1 < TotalSeq(v)
        BY <2>7, <3>1, <3>2, <3>4 DEF AllAcked
      <4> DEFINE before == accepted[v] \ Uncounted(v)
      <4>2. accepted[v] \ Owed(v) = before \cup {range.seq} /\ range.seq \notin before /\ before \subseteq accepted[v]
        BY <2>2, <2>7, <3>4
      <4>3. IsFiniteSet(accepted[v])
        BY <1>0, <3>1, AcceptedFinite
      <4> HIDE DEF before
      <4>4. IsFiniteSet(before)
        BY <4>2, <4>3, FS_Subset
      <4>5. Cardinality(before \cup {range.seq}) = Cardinality(before) + 1
        BY <4>2, <4>4, FS_AddElement
      <4> QED
        BY <3>2, <4>1, <4>2, <4>5 DEF before
    <3> QED
      BY <3>3, <3>4
  <2>8. \A v \in DOMAIN Without(active, w) : v # w /\ v \in DOMAIN active /\ Without(active, w)[v] = active[v]
    BY DEF Without
  <2> QED
    BY <2>3, <2>4, <2>5, <2>6, <2>7, <2>8
<1> QED
  BY <1>2, <1>3, <1>4, <1>5, <1>6, <1>7, <1>8, <1>9, <1>10, PipeSteps

-----------------------------------------------------------------------------
(* The order of the final responses.                                       *)

\* The history of a write is settled when it is sent.
LEMMA EarlierKept ==
    ASSUME TypeOK, [Next]_vars, NEW w \in Writes, srb[w] # "unsent"
    PROVE  earlier'[w] = earlier[w]
<1>1. CASE \E v \in Writes : SendWrite(v)
  <2>1. PICK v \in Writes : SendWrite(v)
    BY <1>1
  <2> QED
    BY <2>1 DEF SendWrite, TypeOK, WindowsTypeOK
<1>2. UNCHANGED earlier \/ \E v \in Writes : SendWrite(v)
  BY DEF Next, FillSlot, Reset, Worker, Track, Stage, EnqueueAck, Flusher, Steal, Send, ApplyRange,
         StopFlusher, SignalLoop, Poll, Commit, Reject, SessionBroken, Control, Open, BeginCreate,
         AkCreateDisk, EndCreate, BeginRemoval, RemoveDisk, DestroyDisk, TakeMedia, CloseSession,
         vars, windowsVars
<1> QED
  BY <1>1, <1>2

\* What the flusher does to the events and the responses.
LEMMA ApplyEffect ==
    ASSUME IndInv, ApplyRange
    PROVE  \/ DOMAIN active' = DOMAIN active /\ responses' = responses
           \/ \E v \in DOMAIN active, committed \in BOOLEAN :
                /\ v \in Writes /\ srb[v] = IF committed THEN "done" ELSE "failed"
                /\ DOMAIN active' = DOMAIN active \ {v}
                /\ responses' = Append(responses, [ev |-> v, committed |-> committed])
<1> DEFINE range == Head(flush.ranges)
<1>1. /\ range.ev \in Writes /\ range.ok \in BOOLEAN
      /\ ~range.ok => srb[range.ev] = "failed"
      /\ range.ok /\ range.ev \in DOMAIN active /\ AllAcked(range.ev) => srb[range.ev] = "done"
  BY NextRange DEF ApplyRange, IndInv
<1>2. \/ DOMAIN active' = DOMAIN active /\ responses' = responses
      \/ /\ range.ev \in DOMAIN active
         /\ \/ ~range.ok /\ Finalize(range.ev, FALSE)
            \/ range.ok /\ AllAcked(range.ev) /\ Finalize(range.ev, TRUE)
  BY DEF ApplyRange
<1> HIDE DEF range
<1>3. \A c : Finalize(range.ev, c) =>
         DOMAIN active' = DOMAIN active \ {range.ev} /\ responses' = Append(responses, [ev |-> range.ev, committed |-> c])
  BY DEF Finalize, Without
<1> QED
  BY <1>1, <1>2, <1>3

\* The steps that touch the events, the responses or what failed to commit.
LEMMA QueueSteps ==
    ASSUME [Next]_vars
    PROVE  \/ UNCHANGED <<responses, polled, active, stuck>>
           \/ \E x \in slots : Track(x)
           \/ ApplyRange \/ Poll \/ Commit \/ Reject \/ Open \/ CloseSession \/ DestroyDisk
BY DEF Next, SendWrite, FillSlot, Reset, Worker, Stage, EnqueueAck, Flusher, Steal, Send,
       StopFlusher, SignalLoop, SessionBroken, Control, BeginCreate,
       AkCreateDisk, EndCreate, BeginRemoval, RemoveDisk, TakeMedia,
       vars, kernelVars, dataVars, loopVars

\* Commits are queued once and in the order of the writes.
LEMMA QueueStep ==
    ASSUME IndInv, HistoryOK, QueueOK, CommitOK, [Next]_vars
    PROVE  QueueOK'
<1>0. /\ TypeOK /\ RangesOK /\ SuccessOK /\ FinalAgreesWithWindows
      /\ responses \in Seq(ResponseType) /\ Len(responses) \in Nat
  BY DEF IndInv, TypeOK, LoopTypeOK
<1> DEFINE After(r, q) == r.committed /\ q.committed => r.ev # q.ev /\ q.ev \notin earlier'[r.ev]
<1>1. ASSUME NEW r \in Pending, r.committed
      PROVE  r.ev \in Writes /\ srb[r.ev] = "done" /\ earlier'[r.ev] = earlier[r.ev]
  <2>1. r \in ResponseType
    BY <1>0, <1>1 DEF Pending, TypeOK, LoopTypeOK
  <2>2. r.ev \in Writes /\ srb[r.ev] = "done"
    BY <1>0, <1>1, <2>1 DEF ResponseType, FinalAgreesWithWindows
  <2> QED
    BY <1>0, <2>2, EarlierKept
<1>2. \A i \in 1 .. Len(responses) : responses[i] \in Pending
  BY DEF Pending
<1>3. polled # None => polled \in Pending
  BY DEF Pending
<1>4. /\ \A i, j \in 1 .. Len(responses) : i < j => After(responses[i], responses[j])
      /\ polled # None => \A j \in 1 .. Len(responses) : After(polled, responses[j])
  BY <1>1, <1>2, <1>3 DEF QueueOK, CommitsAfter
<1>5. ASSUME \A i, j \in 1 .. Len(responses') : i < j => After(responses'[i], responses'[j]),
             polled' # None => \A j \in 1 .. Len(responses') : After(polled', responses'[j]),
             \A r \in Pending' : r.committed => r.ev \notin DOMAIN active' /\ r.ev \notin stuck'
      PROVE  QueueOK'
  BY <1>5 DEF QueueOK, CommitsAfter
<1> HIDE DEF After
<1>6. ASSUME responses' \in {responses, <<>>}, polled' \in {polled, None},
             \A r \in Pending' : r.committed => r.ev \notin DOMAIN active' /\ r.ev \notin stuck'
      PROVE  QueueOK'
  BY <1>4, <1>5, <1>6
<1>7. ASSUME responses' \in {responses, <<>>}, polled' \in {polled, None} PROVE Pending' \subseteq Pending
  BY <1>7 DEF Pending
<1>8. CASE responses' \in {responses, <<>>} /\ polled' = polled /\ stuck' = stuck /\ DOMAIN active' \subseteq DOMAIN active
  BY <1>6, <1>7, <1>8 DEF QueueOK
<1>9. CASE \E x \in slots : Track(x)
  <2>1. PICK x \in slots : Track(x)
    BY <1>9
  <2>2. UNCHANGED <<responses, polled, stuck>> /\ DOMAIN active' \subseteq DOMAIN active \cup {x.ev}
    BY <2>1 DEF Track, With, dataVars, loopVars
  <2>3. srb[x.ev] # "done"
    BY <1>0, SlotNotDone
  <2> QED
    BY <1>1, <1>6, <1>7, <2>2, <2>3 DEF QueueOK
<1>10. CASE ApplyRange
  <2>1. UNCHANGED <<polled, stuck>>
    BY <1>10 DEF ApplyRange, dataVars
  <2>2. CASE DOMAIN active' = DOMAIN active /\ responses' = responses
    BY <1>8, <2>1, <2>2
  <2>3. ASSUME NEW v \in DOMAIN active, NEW committed \in BOOLEAN,
               v \in Writes, srb[v] = IF committed THEN "done" ELSE "failed", DOMAIN active' = DOMAIN active \ {v},
               responses' = Append(responses, [ev |-> v, committed |-> committed])
        PROVE  QueueOK'
    <3> DEFINE r == [ev |-> v, committed |-> committed]
    <3>1. r.ev = v /\ r.committed = committed /\ responses' = Append(responses, r)
      BY <2>3
    <3> HIDE DEF r
    <3>2. /\ Len(responses') = Len(responses) + 1 /\ responses'[Len(responses')] = r
          /\ \A i \in 1 .. Len(responses) : responses'[i] = responses[i]
      BY <1>0, <3>1
    <3>3. ASSUME NEW q \in Pending PROVE After(q, r)
      <4> SUFFICES ASSUME q.committed, r.committed PROVE q.ev # v /\ v \notin earlier[q.ev]
        BY <1>1, <3>1 DEF After
      <4>1. q.ev \notin DOMAIN active
        BY DEF QueueOK
      <4>2. srb[v] = "done" /\ NoneAfter(v)
        BY <2>3, <3>1 DEF CommitOK
      <4> QED
        BY <1>1, <4>1, <4>2 DEF NoneAfter
    <3>4. ASSUME NEW i \in 1 .. Len(responses'), NEW j \in 1 .. Len(responses'), i < j
          PROVE  After(responses'[i], responses'[j])
      <4>1. i \in 1 .. Len(responses) /\ responses'[i] = responses[i] /\ responses[i] \in Pending
        BY <1>0, <1>2, <3>2, <3>4
      <4>2. CASE j \in 1 .. Len(responses)
        BY <1>4, <3>2, <3>4, <4>1, <4>2
      <4>3. CASE j = Len(responses')
        BY <3>2, <3>3, <4>1, <4>3
      <4> QED
        BY <1>0, <3>2, <4>2, <4>3
    <3>5. ASSUME polled' # None, NEW j \in 1 .. Len(responses') PROVE After(polled', responses'[j])
      <4>1. CASE j \in 1 .. Len(responses)
        BY <1>4, <2>1, <3>2, <3>5, <4>1
      <4>2. CASE j = Len(responses')
        BY <1>3, <2>1, <3>2, <3>3, <3>5, <4>2
      <4> QED
        BY <1>0, <3>2, <4>1, <4>2
    <3>6. \A q \in Pending' : q \in Pending \/ q = r
      <4>1. \A i \in 1 .. Len(responses') : responses'[i] = r \/ \E j \in 1 .. Len(responses) : responses'[i] = responses[j]
        BY <1>0, <3>2
      <4> QED
        BY <2>1, <4>1 DEF Pending
    <3>7. r.committed => r.ev \notin DOMAIN active' /\ r.ev \notin stuck'
      BY <2>1, <2>3, <3>1 DEF HistoryOK
    <3>8. \A q \in Pending' : q.committed => q.ev \notin DOMAIN active' /\ q.ev \notin stuck'
      BY <2>1, <2>3, <3>6, <3>7 DEF QueueOK
    <3> QED
      BY <1>5, <3>4, <3>5, <3>8
  <2> QED
    BY <1>10, <2>2, <2>3, ApplyEffect
<1>11. CASE Poll
  <2>1. /\ responses # <<>> /\ responses' = Tail(responses) /\ polled' \in {Head(responses), None}
        /\ UNCHANGED <<active, stuck>>
    BY <1>11 DEF Poll, kernelVars, dataVars
  <2>2. /\ Len(responses) \in Nat \ {0} /\ Head(responses) = responses[1]
        /\ Len(Tail(responses)) = Len(responses) - 1
        /\ \A i \in 1 .. Len(Tail(responses)) : Tail(responses)[i] = responses[i + 1]
    BY <1>0, <2>1, HeadType
  <2>3. \A i \in 1 .. Len(responses') : i + 1 \in 1 .. Len(responses) /\ responses'[i] = responses[i + 1] /\ 1 < i + 1
    BY <2>1, <2>2
  <2>4. \A i, j \in 1 .. Len(responses') : i < j => After(responses'[i], responses'[j])
    <3> SUFFICES ASSUME NEW i \in 1 .. Len(responses'), NEW j \in 1 .. Len(responses'), i < j
                 PROVE  After(responses'[i], responses'[j])
      OBVIOUS
    <3>1. i + 1 < j + 1
      OBVIOUS
    <3> QED
      BY <1>4, <2>3, <3>1
  <2>5. 1 \in 1 .. Len(responses) /\ polled' \in {responses[1], None}
    BY <2>1, <2>2
  <2>6. polled' # None => \A j \in 1 .. Len(responses') : After(polled', responses'[j])
    BY <1>4, <2>3, <2>5
  <2>7. \A i \in 1 .. Len(responses') : responses'[i] \in Pending
    BY <1>2, <2>3
  <2>8. polled' # None => polled' \in Pending
    BY <1>2, <2>5
  <2>9. Pending' \subseteq Pending
    BY <2>7, <2>8 DEF Pending
  <2>10. \A r \in Pending' : r.committed => r.ev \notin DOMAIN active' /\ r.ev \notin stuck'
    BY <2>1, <2>9 DEF QueueOK
  <2> QED
    BY <1>5, <2>4, <2>6, <2>10
<1>12. CASE Commit \/ Reject
  <2>1. /\ responses' = responses /\ polled' = None /\ active' = active /\ polled # None
        /\ stuck' = stuck \/ (polled.committed /\ stuck' = stuck \cup {polled.ev})
    BY <1>12 DEF Commit, Reject, kernelVars, dataVars
  <2>2. \A r \in Pending' : r \in Pending /\ \E j \in 1 .. Len(responses) : r = responses[j]
    BY <2>1 DEF Pending
  <2>3. polled.committed => \A r \in Pending' : r.committed => r.ev # polled.ev
    BY <2>1, <2>2 DEF QueueOK, CommitsAfter
  <2>4. \A r \in Pending' : r.committed => r.ev \notin DOMAIN active' /\ r.ev \notin stuck'
    BY <2>1, <2>2, <2>3 DEF QueueOK
  <2> QED
    BY <1>6, <2>1, <2>4
<1>13. CASE Open \/ CloseSession
  BY <1>8, <1>13 DEF Open, CloseSession, kernelVars, dataVars
<1>14. CASE DestroyDisk
  BY <1>8, <1>14 DEF DestroyDisk, NoEvents, dataVars, loopVars
<1> QED
  BY <1>8, <1>9, <1>10, <1>11, <1>12, <1>13, <1>14, QueueSteps

-----------------------------------------------------------------------------
(* From success to the commit.                                             *)

\* A write succeeds with a complete record and a tracked event.
LEMMA NewlyDone ==
    ASSUME IndInv, HistoryOK, ReportedOK, [Next]_vars, NEW v \in Writes, srb'[v] = "done", srb[v] # "done"
    PROVE  /\ Send /\ srb[v] = "open" /\ disk = "running" /\ flush.at = "held"
           /\ UNCHANGED <<active, staging, earlier, lost, stuck, responses, polled, disk>>
           /\ v \in DOMAIN active /\ v \in DOMAIN staging /\ v \notin lost \cup stuck
           /\ \A w \in Writes : v \notin earlier[w]
<1>0. TypeOK /\ OnePlace /\ RangesOK /\ SuccessOK /\ SuccessOK'
  BY SuccessStep DEF IndInv
<1>1. Send /\ srb[v] = "open"
  BY <1>0, StatusChange
<1>2. /\ disk = "running" /\ flush.at = "held" /\ flush'.at = "answered"
      /\ UNCHANGED <<slots, active, staging, earlier, lost, stuck, responses, polled, disk>>
  BY <1>1 DEF Send, Flush, dataVars, loopVars
<1>3. 0 \in 0 .. (TotalSeq(v) - 1) /\ TotalSeq(v)' = TotalSeq(v)
  BY Totals DEF TotalSeq
<1>4. Reported(v, 0)'
  BY <1>0, <1>3 DEF SuccessOK, Reported
<1>5. ~ \E x \in slots : Stage(x)
  BY <1>2, StageEffect
<1>6. Reported(v, 0)
  BY <1>0, <1>2, <1>4, <1>5, ReportedChange
<1>7. HasFragment(v, 0) /\ v \in DOMAIN active
  BY <1>1, <1>2, <1>3, <1>6 DEF ReportedOK
<1>8. v \in DOMAIN staging
  BY <1>7 DEF HasFragment, RecordOf
<1> QED
  BY <1>1, <1>2, <1>7, <1>8 DEF HistoryOK

\* While a write that has succeeded is tracked, none that follows it succeeds:
\* the batch that lets it succeed is sent when the previous one is counted.
LEMMA NoneAfterKept ==
    ASSUME IndInv, HistoryOK, ReportedOK, ExactOK, [Next]_vars, NEW v \in Writes, srb[v] = "done", NoneAfter(v),
           v \in DOMAIN active \/ disk = "none"
    PROVE  NoneAfter(v)'
<1>0. TypeOK /\ SuccessOK /\ Settled
  BY SettledStep DEF IndInv
<1> SUFFICES ASSUME NEW w \in Writes, v \in earlier'[w], srb'[w] = "done" PROVE FALSE
  BY DEF NoneAfter
<1>1. CASE srb[w] = "done"
  <2>1. earlier'[w] = earlier[w]
    BY <1>0, <1>1, EarlierKept
  <2> QED
    BY <1>1, <2>1 DEF NoneAfter
<1>2. CASE srb[w] # "done"
  <2>1. flush.at = "held" /\ disk = "running"
    BY <1>2, NewlyDone
  <2>2. v \in DOMAIN active /\ active[v] < TotalSeq(v) /\ active[v] = Cardinality(accepted[v] \ Uncounted(v))
    BY <2>1 DEF ExactOK
  <2>3. Uncounted(v) = {}
    BY <2>1 DEF Uncounted
  <2>4. accepted[v] = 0 .. (TotalSeq(v) - 1) /\ TotalSeq(v) \in Nat \ {0}
    BY <1>0, Totals DEF SuccessOK
  <2> DEFINE last == TotalSeq(v) - 1
  <2>5. last \in Int /\ 0 <= last /\ last + 1 = TotalSeq(v)
    BY <2>4
  <2> HIDE DEF last
  <2>6. Cardinality(0 .. last) = last + 1
    <3>1. Cardinality(0 .. last) = IF 0 > last THEN 0 ELSE last - 0 + 1
      BY <2>5, FS_Interval
    <3> QED
      BY <2>5, <3>1
  <2>7. accepted[v] \ Uncounted(v) = 0 .. last
    BY <2>3, <2>4 DEF last
  <2>8. active[v] = TotalSeq(v)
    BY <2>2, <2>5, <2>6, <2>7
  <2> QED
    BY <2>2, <2>4, <2>8
<1> QED
  BY <1>1, <1>2

\* A write that has succeeded is neither tracked nor staged anew.
LEMMA DoneLeaves ==
    ASSUME IndInv, [Next]_vars, NEW v \in Writes, srb[v] = "done"
    PROVE  /\ v \in DOMAIN active' => v \in DOMAIN active
           /\ v \in DOMAIN staging' => v \in DOMAIN staging
<1>0. TypeOK /\ RangesOK /\ SuccessOK
  BY DEF IndInv
<1>1. ASSUME NEW x \in slots, Track(x) \/ Stage(x)
      PROVE  /\ DOMAIN active' \subseteq DOMAIN active \cup {x.ev} /\ DOMAIN staging' \subseteq DOMAIN staging \cup {x.ev}
             /\ x.ev # v
  <2>1. srb[x.ev] # "done"
    BY <1>0, SlotNotDone
  <2> QED
    BY <1>1, <2>1, StageEffect DEF Track, With, dataVars
<1>2. DOMAIN staging' \subseteq DOMAIN staging \/ \E x \in slots : Stage(x)
  BY RecordsChange DEF Without
<1>3. ApplyRange => DOMAIN active' \subseteq DOMAIN active
  BY DEF ApplyRange, Finalize, Without
<1>4. DOMAIN active' \subseteq DOMAIN active \/ \E x \in slots : Track(x)
  BY <1>3, QueueSteps DEF Poll, Commit, Reject, Open, CloseSession, DestroyDisk, NoEvents, kernelVars
<1> QED
  BY <1>1, <1>2, <1>4

\* What was queued to be committed is, unless its record is gone or stays for good.
LEMMA ToCommitKept ==
    ASSUME IndInv, LifecycleOK, [Next]_vars, NEW v \in Writes, srb[v] = "done", ToCommit(v),
           v \in DOMAIN staging, v \in DOMAIN staging' \ stuck'
    PROVE  ToCommit(v)'
<1>0. responses \in Seq(ResponseType) /\ runtime /\ media = "runtime" /\ session /\ ctl.at # "closeSession"
  BY DEF IndInv, TypeOK, LoopTypeOK, LifecycleOK
<1>1. PICK r \in Pending : r.ev = v /\ r.committed
  BY DEF ToCommit
<1>2. CASE r \in Pending'
  BY <1>1, <1>2 DEF ToCommit
<1>3. CASE UNCHANGED <<responses, polled>>
  BY <1>2, <1>3 DEF Pending
<1>4. CASE ApplyRange
  <2>1. polled' = polled
    BY <1>4 DEF ApplyRange
  <2>2. CASE responses' = responses
    BY <1>3, <2>1, <2>2
  <2>3. ASSUME NEW q, responses' = Append(responses, q) PROVE r \in Pending'
    <3>1. \A i \in 1 .. Len(responses) : i \in 1 .. Len(responses') /\ responses'[i] = responses[i]
      BY <1>0, <2>3
    <3> QED
      BY <2>1, <3>1 DEF Pending
  <2> QED
    BY <1>2, <1>4, <2>2, <2>3, ApplyEffect
<1>5. CASE Poll
  <2>1. responses # <<>> /\ responses' = Tail(responses) /\ polled' = Head(responses) /\ polled = None
    BY <1>0, <1>5 DEF Poll
  <2>2. /\ Len(responses) \in Nat \ {0} /\ Head(responses) = responses[1]
        /\ Len(responses') = Len(responses) - 1
        /\ \A i \in 1 .. Len(responses') : responses'[i] = responses[i + 1]
    BY <1>0, <2>1, HeadType
  <2>3. PICK i \in 1 .. Len(responses) : r = responses[i]
    BY <2>1 DEF Pending
  <2>4. CASE i = 1
    <3>1. r = polled' /\ r # None
      <4>1. r \in ResponseType
        BY <1>0, <2>3
      <4>2. r # None
        BY <4>1, ConstantsAssumption DEF ResponseType
      <4> QED
        BY <2>1, <2>2, <2>3, <2>4, <4>2
    <3> QED
      BY <1>2, <3>1 DEF Pending
  <2>5. CASE i # 1
    <3>1. i - 1 \in 1 .. Len(responses') /\ responses'[i - 1] = r
      BY <2>2, <2>3, <2>5
    <3> QED
      BY <1>2, <3>1 DEF Pending
  <2> QED
    BY <2>4, <2>5
<1>6. CASE Commit \/ Reject
  <2>1. /\ polled # None /\ responses' = responses
        /\ Reject => ~polled.committed
        /\ Commit => DOMAIN staging' = DOMAIN staging \ {polled.ev} \/ stuck' = stuck \cup {polled.ev}
    BY <1>0, <1>6 DEF Commit, Reject, Without
  <2>2. r # polled
    BY <1>1, <1>6, <2>1
  <2>3. PICK i \in 1 .. Len(responses) : r = responses[i]
    BY <2>2 DEF Pending
  <2> QED
    BY <1>2, <2>1, <2>3 DEF Pending
<1>7. ~Open /\ ~CloseSession
  BY <1>0 DEF Open, CloseSession
<1>8. CASE \E x \in slots : Track(x)
  BY <1>3, <1>8 DEF Track, loopVars
<1>9. CASE DestroyDisk
  BY <1>3, <1>9 DEF DestroyDisk, loopVars
<1> QED
  BY <1>3, <1>4, <1>5, <1>6, <1>7, <1>8, <1>9, QueueSteps

\* A write that succeeded and whose record is still there is on its way to be
\* committed, before every later one.
LEMMA CommitStep ==
    ASSUME IndInv, LifecycleOK, OpenOK, HistoryOK, ReportedOK, ExactOK, QueueOK, CommitOK, [Next]_vars
    PROVE  CommitOK'
<1>0. TypeOK /\ RangesOK /\ SuccessOK /\ FinalAgreesWithWindows /\ Settled
  BY SettledStep DEF IndInv
<1>1. ASSUME NEW v \in Writes, srb'[v] = "done", v \in DOMAIN active' PROVE NoneAfter(v)'
  <2>1. CASE srb[v] = "done"
    <3>1. v \in DOMAIN active
      BY <1>1, <2>1, DoneLeaves
    <3>2. NoneAfter(v)
      BY <2>1, <3>1 DEF CommitOK
    <3> QED
      BY <2>1, <3>1, <3>2, NoneAfterKept
  <2>2. CASE srb[v] # "done"
    BY <1>1, <2>2, NewlyDone DEF NoneAfter
  <2> QED
    BY <2>1, <2>2
<1>2. ASSUME NEW v \in Writes, srb[v] = "done", v \in DOMAIN staging, v \in DOMAIN staging' \ stuck'
      PROVE  v \in DOMAIN active' \/ ToCommit(v)' \/ (disk' = "none" /\ NoneAfter(v)')
  <2>1. v \notin stuck
    <3>1. stuck \subseteq stuck'
      BY QueueSteps DEF Track, ApplyRange, Poll, Commit, Reject, Open, CloseSession, DestroyDisk, dataVars
    <3> QED
      BY <1>2, <3>1
  <2>2. CASE ToCommit(v)
    BY <1>2, <2>2, ToCommitKept
  <2>3. CASE v \in DOMAIN active
    <3>1. NoneAfter(v)
      BY <1>2, <2>3 DEF CommitOK
    <3>2. CASE ApplyRange
      <4>1. CASE DOMAIN active' = DOMAIN active
        BY <2>3, <4>1
      <4>2. ASSUME NEW u \in DOMAIN active, NEW committed \in BOOLEAN,
                   srb[u] = IF committed THEN "done" ELSE "failed", DOMAIN active' = DOMAIN active \ {u},
                   responses' = Append(responses, [ev |-> u, committed |-> committed])
            PROVE  v \in DOMAIN active' \/ ToCommit(v)'
        <5>1. CASE u # v
          BY <2>3, <4>2, <5>1
        <5>2. CASE u = v
          <6> DEFINE r == [ev |-> u, committed |-> committed]
          <6>1. r.ev = v /\ r.committed
            BY <1>2, <4>2, <5>2
          <6>2. responses' = Append(responses, r) /\ responses \in Seq(ResponseType)
            BY <1>0, <4>2 DEF TypeOK, LoopTypeOK
          <6> HIDE DEF r
          <6>3. Len(responses') \in 1 .. Len(responses') /\ responses'[Len(responses')] = r
            BY <6>2
          <6>4. r \in Pending'
            BY <6>3 DEF Pending
          <6> QED
            BY <6>1, <6>4 DEF ToCommit
        <5> QED
          BY <5>1, <5>2
      <4> QED
        BY <3>2, <4>1, <4>2, ApplyEffect
    <3>3. CASE DestroyDisk
      BY <1>2, <2>3, <3>1, <3>3, NoneAfterKept DEF DestroyDisk
    <3>4. CASE DOMAIN active \subseteq DOMAIN active'
      BY <2>3, <3>4
    <3>5. (\E x \in slots : Track(x)) => DOMAIN active \subseteq DOMAIN active'
      BY DEF Track, With
    <3>6. Poll \/ Commit \/ Reject \/ Open \/ CloseSession => active' = active
      BY DEF Poll, Commit, Reject, Open, CloseSession, kernelVars
    <3> QED
      BY <3>2, <3>3, <3>4, <3>5, <3>6, QueueSteps
  <2>4. CASE disk = "none" /\ NoneAfter(v)
    <3>1. NoneAfter(v)'
      BY <1>2, <2>4, NoneAfterKept
    <3>2. disk' = "none"
      BY <1>2, <2>4, DiskAppears
    <3> QED
      BY <3>1, <3>2
  <2> QED
    BY <1>2, <2>1, <2>2, <2>3, <2>4 DEF CommitOK
<1>3. ASSUME NEW v \in Writes, srb'[v] = "done", v \in DOMAIN staging' \ stuck'
      PROVE  v \in DOMAIN active' \/ ToCommit(v)' \/ (disk' = "none" /\ NoneAfter(v)')
  <2>1. CASE srb[v] = "done"
    BY <1>2, <1>3, <2>1, DoneLeaves
  <2>2. CASE srb[v] # "done"
    BY <1>3, <2>2, NewlyDone
  <2> QED
    BY <2>1, <2>2
<1>4. ASSUME NEW v \in Writes, srb'[v] = "done", v \in DOMAIN staging' \ stuck',
             NEW w \in Writes, v \in earlier'[w], srb'[w] = "done"
      PROVE  w \in lost' \cup DOMAIN staging'
  <2>1. srb[v] = "done"
    BY <1>4, NewlyDone
  <2>2. CASE srb[w] # "done"
    BY <1>4, <2>2, NewlyDone
  <2>3. CASE srb[w] = "done"
    <3>1. v \in DOMAIN staging /\ v \in earlier[w]
      BY <1>0, <1>4, <2>1, <2>3, DoneLeaves, EarlierKept
    <3>2. v \notin stuck /\ lost \subseteq lost'
      <4>1. stuck \subseteq stuck'
        BY QueueSteps DEF Track, ApplyRange, Poll, Commit, Reject, Open, CloseSession, DestroyDisk, dataVars
      <4>2. lost \subseteq lost'
        BY DEF Next, SendWrite, FillSlot, Reset, Worker, Track, Stage, EnqueueAck, Flusher, Steal, Send, ApplyRange,
               StopFlusher, SignalLoop, Poll, Commit, Reject, SessionBroken, Control, Open, BeginCreate,
               AkCreateDisk, EndCreate, BeginRemoval, RemoveDisk, DestroyDisk, TakeMedia, CloseSession,
               vars, dataVars
      <4> QED
        BY <1>4, <4>1, <4>2
    <3>3. w \in lost \cup DOMAIN staging
      BY <2>1, <2>3, <3>1, <3>2 DEF CommitOK
    <3>4. CASE w \in DOMAIN staging /\ Commit /\ w = polled.ev
      <4>1. polled # None /\ polled.committed /\ polled \in Pending
        BY <3>4 DEF Commit, Pending
      <4>2. ~NoneAfter(v)
        BY <2>3, <3>1 DEF NoneAfter
      <4>3. ToCommit(v)
        BY <2>1, <3>1, <3>2, <4>2 DEF CommitOK
      <4>4. PICK r \in Pending : r.ev = v /\ r.committed
        BY <4>3 DEF ToCommit
      <4>5. v # w
        BY <3>1 DEF HistoryOK
      <4>6. r # polled
        BY <3>4, <4>4, <4>5
      <4>7. PICK j \in 1 .. Len(responses) : r = responses[j]
        BY <4>4, <4>6 DEF Pending
      <4>8. CommitsAfter(polled, r)
        BY <4>1, <4>7 DEF QueueOK
      <4> QED
        BY <3>1, <3>4, <4>1, <4>4, <4>8 DEF CommitsAfter
    <3>5. CASE w \in DOMAIN staging /\ Reject /\ w = polled.ev
      BY <1>0, <2>3, <3>5, PolledType DEF Reject
    <3>6. CASE w \in DOMAIN staging /\ w \in DOMAIN staging'
      BY <3>6
    <3>7. ASSUME w \in DOMAIN staging, w \notin DOMAIN staging' PROVE (Commit \/ Reject) /\ w = polled.ev
      <4>1. ~ \E x \in slots : Stage(x)
        BY <3>7, StageEffect
      <4>2. staging' # staging
        BY <3>7
      <4>3. DOMAIN staging' # {}
        BY <1>4
      <4>4. (Commit \/ Reject) /\ staging' = Without(staging, polled.ev)
        BY <4>1, <4>2, <4>3, RecordsChange
      <4>5. w = polled.ev
        BY <3>7, <4>4 DEF Without
      <4> QED
        BY <4>4, <4>5
    <3> QED
      BY <3>2, <3>3, <3>4, <3>5, <3>6, <3>7
  <2> QED
    BY <2>2, <2>3
<1> QED
  BY <1>1, <1>3, <1>4 DEF CommitOK

-----------------------------------------------------------------------------
(* What the media holds.                                                   *)

\* A record covers blocks of its write only, and all of them when it is complete.
LEMMA RecordCovers ==
    ASSUME TypeOK, SuccessOK, RecordsOK, NEW w \in Writes, NEW b
    PROVE  /\ \A f \in RecordOf(w) : f.block = b => Covers(w, b)
           /\ Covers(w, b) /\ (\A n \in 0 .. (TotalSeq(w) - 1) : HasFragment(w, n)) =>
                \E f \in RecordOf(w) : f.block = b
<1>0. issued[w] \in Nat /\ issued[w] <= TotalSeq(w) /\ TotalSeq(w) \in Nat
  BY Totals DEF TypeOK, WindowsTypeOK, SuccessOK
<1>1. \A f \in RecordOf(w) : f.seq \in 0 .. (issued[w] - 1) /\ f.block = Fragments[w][f.seq + 1]
  BY DEF RecordOf, RecordsOK
<1>2. ASSUME NEW f \in RecordOf(w), f.block = b PROVE Covers(w, b)
  <2>1. f.seq + 1 \in 1 .. TotalSeq(w)
    BY <1>0, <1>1
  <2> QED
    BY <1>1, <1>2, <2>1 DEF Covers
<1>3. ASSUME Covers(w, b), \A n \in 0 .. (TotalSeq(w) - 1) : HasFragment(w, n)
      PROVE  \E f \in RecordOf(w) : f.block = b
  <2>1. PICK i \in 1 .. TotalSeq(w) : Fragments[w][i] = b
    BY <1>3 DEF Covers
  <2>2. i - 1 \in 0 .. (TotalSeq(w) - 1) /\ (i - 1) + 1 = i
    BY <1>0
  <2>3. PICK f \in RecordOf(w) : f.seq = i - 1
    BY <1>3, <2>2 DEF HasFragment
  <2> QED
    BY <1>1, <2>1, <2>2, <2>3
<1> QED
  BY <1>2, <1>3

\* A commit writes the record of a write that succeeded, or a part of it.
LEMMA CommitEffect ==
    ASSUME IndInv, Commit
    PROVE  LET w == polled.ev IN
           /\ w \in Writes /\ srb[w] = "done" /\ polled \in Pending /\ polled.committed
           /\ UNCHANGED <<srb, earlier, lost>>
           /\ \/ UNCHANGED <<store, staging, stuck>>
              \/ /\ staging' = Without(staging, w) /\ stuck' = stuck
                 /\ \A b \in Blocks :
                      store'[b] = IF \E f \in RecordOf(w) : f.block = b THEN w ELSE store[b]
              \/ /\ staging' = staging /\ stuck' = stuck \cup {w}
                 /\ \A b \in Blocks : store'[b] = store[b]
                                      \/ (store'[b] = w /\ \E f \in RecordOf(w) : f.block = b)
<1> DEFINE w == polled.ev
<1>1. w \in Writes /\ srb[w] = "done" /\ polled \in Pending /\ polled.committed
  BY PolledType DEF Commit, IndInv
<1>2. UNCHANGED <<srb, earlier, lost>>
  BY DEF Commit, windowsVars, dataVars
<1>3. \/ UNCHANGED <<store, staging, stuck>>
      \/ store' = Written(w, RecordOf(w)) /\ staging' = Without(staging, w) /\ stuck' = stuck
      \/ /\ staging' = staging /\ stuck' = stuck \cup {w}
         /\ \E n \in 0 .. (Cardinality(RecordOf(w)) - 1) : store' = Written(w, Prefix(w, n))
  BY DEF Commit, dataVars
<1> HIDE DEF w
<1>4. ASSUME store' = Written(w, RecordOf(w)), NEW b \in Blocks
      PROVE  store'[b] = IF \E f \in RecordOf(w) : f.block = b THEN w ELSE store[b]
  BY <1>4 DEF Written
<1>5. ASSUME NEW n, store' = Written(w, Prefix(w, n)), NEW b \in Blocks
      PROVE  store'[b] = store[b] \/ (store'[b] = w /\ \E f \in RecordOf(w) : f.block = b)
  BY <1>5 DEF Written, Prefix
<1> QED
  BY <1>1, <1>2, <1>3, <1>4, <1>5 DEF w

\* What a removal clears is remembered as lost; a commit that fails as stuck.
LEMMA OnlyGrow == ASSUME [Next]_vars PROVE /\ lost \subseteq lost' /\ stuck \subseteq stuck'
                                           /\ store' = store \/ Commit
                                           /\ lost' = lost \/ TakeMedia
<1>1. Commit => lost \subseteq lost' /\ stuck \subseteq stuck' /\ lost' = lost
  BY DEF Commit, dataVars
<1>2. TakeMedia => lost \subseteq lost' /\ stuck \subseteq stuck' /\ store' = store
  BY DEF TakeMedia
<1>3. UNCHANGED <<lost, stuck, store>> \/ Commit \/ TakeMedia
  BY DEF Next, SendWrite, FillSlot, Reset, Worker, Track, Stage, EnqueueAck, Flusher, Steal, Send, ApplyRange,
         StopFlusher, SignalLoop, Poll, Reject, SessionBroken, Control, Open, BeginCreate,
         AkCreateDisk, EndCreate, BeginRemoval, RemoveDisk, DestroyDisk, CloseSession,
         vars, dataVars
<1> QED
  BY <1>1, <1>2, <1>3

\* The media holds what was committed, unless something later replaced it.
LEMMA StoreStep ==
    ASSUME IndInv, LifecycleOK, HistoryOK, RecordsOK, ReportedOK, QueueOK, CommitOK, StoreOK, [Next]_vars
    PROVE  StoreOK'
<1>0. /\ TypeOK /\ RangesOK /\ SuccessOK /\ FinalAgreesWithWindows /\ MediaHoldsOnlySucceeded /\ Settled
      /\ store \in [Blocks -> Writes \cup {Blank}] /\ Blank \notin Writes
  BY SettledStep, ConstantsAssumption DEF IndInv, TypeOK, DataTypeOK
<1>1. ASSUME NEW b \in Blocks, store[b] # Blank
      PROVE  /\ store[b] \in Writes /\ Covers(store[b], b)
             /\ store[b] \in lost' \cup DOMAIN staging' => store[b] \in stuck'
  <2>1. store[b] \in Writes /\ srb[store[b]] = "done" /\ Covers(store[b], b)
    BY <1>0, <1>1 DEF MediaHoldsOnlySucceeded, StoreOK
  <2>2. store[b] \in DOMAIN staging' => store[b] \in DOMAIN staging
    BY <2>1, DoneLeaves
  <2>3. store[b] \in lost' => store[b] \in lost \cup DOMAIN staging
    BY OnlyGrow DEF TakeMedia
  <2> QED
    BY <1>1, <2>1, <2>2, <2>3, OnlyGrow DEF StoreOK
<1>2. ASSUME NEW b \in Blocks, store'[b] # Blank
      PROVE  Covers(store'[b], b) /\ (store'[b] \in lost' \cup DOMAIN staging' => store'[b] \in stuck')
  <2>1. CASE store'[b] = store[b]
    BY <1>1, <1>2, <2>1
  <2>2. CASE store'[b] # store[b]
    <3> DEFINE w == polled.ev
    <3>1. Commit
      BY <2>2, OnlyGrow
    <3>2. w \in Writes /\ lost' = lost /\ store'[b] = w /\ \E f \in RecordOf(w) : f.block = b
      BY <2>2, <3>1, CommitEffect
    <3>3. w \notin DOMAIN staging' \/ w \in stuck'
      BY <2>2, <3>1, CommitEffect DEF Without
    <3> HIDE DEF w
    <3>4. Covers(w, b)
      BY <1>0, <3>2, RecordCovers
    <3>5. w \in DOMAIN staging /\ w \notin lost
      BY <3>2 DEF RecordOf, HistoryOK
    <3> QED
      BY <3>2, <3>3, <3>4, <3>5
  <2> QED
    BY <2>1, <2>2
<1>3. ASSUME NEW b \in Blocks, NEW w \in Writes, srb'[w] = "done", Covers(w, b), w \notin lost', w \notin DOMAIN staging'
      PROVE  store'[b] # Blank /\ store'[b] \notin earlier'[w]
  <2>1. srb[w] = "done"
    BY <1>3, NewlyDone
  <2>2. earlier'[w] = earlier[w] /\ w \notin lost /\ w \in Kept(b)
    BY <1>0, <1>3, <2>1, EarlierKept, OnlyGrow DEF Kept, Succeeded
  <2>3. CASE w \notin DOMAIN staging
    <3>1. store[b] # Blank /\ store[b] \notin earlier[w]
      BY <2>2, <2>3 DEF StoreOK
    <3>2. CASE store'[b] # store[b]
      <4> DEFINE u == polled.ev
      <4>1. Commit
        BY <3>2, OnlyGrow
      <4>2. /\ u \in Writes /\ srb[u] = "done" /\ polled \in Pending /\ polled.committed
            /\ store'[b] = u /\ \E f \in RecordOf(u) : f.block = b
        BY <3>2, <4>1, CommitEffect
      <4>3. u \in DOMAIN staging /\ u \notin stuck
        BY <4>2 DEF RecordOf, QueueOK
      <4> HIDE DEF u
      <4>4. u \notin earlier[w]
        BY <2>1, <2>2, <2>3, <4>2, <4>3 DEF CommitOK
      <4> QED
        BY <1>0, <2>2, <4>2, <4>4
    <3> QED
      BY <2>2, <3>1, <3>2
  <2>4. CASE w \in DOMAIN staging
    <3>1. ~TakeMedia
      <4>1. ASSUME TakeMedia PROVE w \in lost' \/ w \in DOMAIN staging'
        BY <2>1, <2>4, <4>1 DEF TakeMedia
      <4> QED
        BY <1>3, <4>1
    <3>2. ~BeginCreate
      BY <2>4 DEF BeginCreate, LifecycleOK
    <3>3. ~ \E x \in slots : Stage(x)
      BY <1>3, <2>4, StageEffect
    <3>4. (Commit \/ Reject) /\ staging' = Without(staging, polled.ev)
      BY <1>3, <2>4, <3>1, <3>2, <3>3, RecordsChange
    <3>5. w = polled.ev
      BY <1>3, <2>4, <3>4 DEF Without
    <3>6. Commit
      BY <1>0, <2>1, <3>4, <3>5, PolledType DEF Reject
    <3>7. \E f \in RecordOf(w) : f.block = b
      BY <1>0, <1>3, <2>1, <2>4, RecordCovers DEF ReportedOK
    <3>8. staging' # staging
      BY <1>3, <2>4
    <3>9. store'[b] = w
      BY <3>5, <3>6, <3>7, <3>8, CommitEffect
    <3> QED
      BY <1>0, <2>2, <3>9 DEF HistoryOK
  <2> QED
    BY <2>3, <2>4
<1>4. \A w, b : Covers(w, b)' <=> Covers(w, b)
  BY DEF Covers, TotalSeq
<1>5. ASSUME NEW b \in Blocks, NEW w \in Kept(b)', w \notin DOMAIN staging'
      PROVE  store'[b] # Blank /\ store'[b] \notin earlier'[w]
  <2>1. w \in Writes /\ srb'[w] = "done" /\ Covers(w, b) /\ w \notin lost'
    BY <1>4, <1>5 DEF Kept, Succeeded
  <2> QED
    BY <1>3, <1>5, <2>1
<1>6. ASSUME NEW b \in Blocks, store'[b] # Blank PROVE Covers(store[b], b)'
  BY <1>2, <1>6 DEF Covers, TotalSeq
<1> QED
  BY <1>2, <1>5, <1>6 DEF StoreOK

-----------------------------------------------------------------------------
(* The theorems.                                                           *)

\* With no disk there is nothing to read, to commit or to lose.
LEMMA InitRead == Init => ReadInv
<1> SUFFICES ASSUME Init PROVE ReadInv
  OBVIOUS
<1>1. LifecycleOK
  BY DEF Init, Idle, EmptyFlush, Flush, NoEvents, NoRecords, LifecycleOK, DiskAt
<1>2. srb = [w \in Writes |-> "unsent"] /\ earlier = [w \in Writes |-> {}] /\ lost = {} /\ stuck = {}
      /\ finalized = <<>> /\ DOMAIN staging = {} /\ DOMAIN active = {} /\ nextOrdinal = 1
  BY DEF Init, NoRecords, NoEvents
<1>3. OpenOK /\ HistoryOK /\ RecordsOK /\ ReportedOK /\ ExactOK /\ CommitOK
  BY <1>2 DEF OpenOK, HistoryOK, RecordsOK, ReportedOK, ExactOK, CommitOK
<1>4. QueueOK
  BY DEF Init, QueueOK, Pending
<1>5. StoreOK
  BY <1>2 DEF Init, StoreOK, Kept, Succeeded
<1> QED
  BY <1>1, <1>3, <1>4, <1>5, InitInd DEF ReadInv

\* The inductive invariant of reads holds of every behaviour of the write path.
THEOREM ReadInvariance == Spec => []ReadInv
<1>1. ReadInv /\ [Next]_vars => ReadInv'
  <2> SUFFICES ASSUME ReadInv, [Next]_vars PROVE ReadInv'
    OBVIOUS
  <2>1. IndInv'
    BY TypeStep, OnePlaceStep, RangesStep, SuccessStep, CountStep, FinalStep, MediaStep DEF ReadInv, IndInv
  <2>2. LifecycleOK' /\ OpenOK'
    BY LifecycleStep, OpenStep DEF ReadInv, IndInv
  <2>3. HistoryOK' /\ RecordsOK'
    BY HistoryStep, RecordsStep DEF ReadInv
  <2>4. ReportedOK' /\ ExactOK'
    BY <2>1, ReportedStep, ExactStep DEF ReadInv
  <2>5. QueueOK' /\ CommitOK' /\ StoreOK'
    BY QueueStep, CommitStep, StoreStep DEF ReadInv
  <2> QED
    BY <2>1, <2>2, <2>3, <2>4, <2>5 DEF ReadInv
<1> QED
  BY <1>1, InitRead, PTL DEF Spec

\* A bounded set of numbers has a largest one.
LEMMA LargestBelow ==
    ASSUME NEW m \in Nat, NEW S \in SUBSET Nat, S # {}, \A n \in S : n < m
    PROVE  \E x \in S : \A y \in S : y <= x
<1> DEFINE R == OpToRel(<, Nat)
           T == {n \in Nat : m - n \in S}
<1>1. T # {} /\ T \subseteq Nat
  <2>1. PICK n \in S : n < m
    OBVIOUS
  <2>2. m - n \in Nat /\ m - (m - n) = n
    BY <2>1
  <2> QED
    BY <2>1, <2>2
<1>2. \A x, y \in Nat : <<y, x>> \in R <=> y < x
  BY DEF OpToRel
<1>3. PICK x \in T : \A y \in T : ~(<<y, x>> \in R)
  <2> HIDE DEF T, R
  <2>1. IsWellFoundedOn(R, Nat)
    BY NatLessThanWellFounded DEF R
  <2> QED
    BY <1>1, <2>1, WFMin
<1>4. \A y \in T : ~(y < x)
  BY <1>1, <1>2, <1>3
<1>5. \A s \in S : m - s \in T
  BY SMT
<1>6. m - x \in S /\ x \in Nat
  OBVIOUS
<1>7. ASSUME NEW y \in S PROVE y <= m - x
  <2>1. m - y \in T /\ y \in Nat /\ m - y \in Nat
    BY <1>5
  <2>2. ~(m - y < x)
    BY <1>4, <2>1
  <2> QED
    BY <1>6, <2>1, <2>2
<1> QED
  BY <1>6, <1>7

\* A staged fragment of block b.
LEMMA StagedIs ==
    ASSUME NEW b, NEW w, NEW f
    PROVE  <<w, f>> \in Staged(b) <=> w \in DOMAIN staging /\ f \in staging[w] /\ f.block = b
<1>1. <<w, f>>[2] = f
  OBVIOUS
<1>2. <<w, f>> \in UNION {{<<v, g>> : g \in staging[v]} : v \in DOMAIN staging}
        <=> \E v \in DOMAIN staging : \E g \in staging[v] : <<w, f>> = <<v, g>>
  OBVIOUS
<1> QED
  BY <1>1, <1>2 DEF Staged

\* What is staged over b is a write with a fragment in its record.
LEMMA StagedPair ==
    ASSUME NEW b, NEW p \in Staged(b)
    PROVE  p = <<p[1], p[2]>> /\ p[1] \in DOMAIN staging /\ p[2] \in staging[p[1]] /\ p[2].block = b
<1>1. PICK w \in DOMAIN staging : \E f \in staging[w] : p = <<w, f>>
  BY DEF Staged
<1> QED
  BY <1>1 DEF Staged

\* Where records cover b, a read returns the write of the latest of them.
LEMMA LatestStaged ==
    ASSUME RecordsOK, NEW b, Staged(b) # {}
    PROVE  \E p \in Staged(b) : HostRead(b) = p[1] /\ \A q \in Staged(b) : q[2].ordinal <= p[2].ordinal
<1> DEFINE S == {p[2].ordinal : p \in Staged(b)}
           Latest(p) == \A q \in Staged(b) : q[2].ordinal <= p[2].ordinal
<1>1. nextOrdinal \in Nat /\ \A p \in Staged(b) : p[2].ordinal \in Nat /\ p[2].ordinal < nextOrdinal
  BY StagedPair DEF RecordsOK
<1>2. S \in SUBSET Nat /\ S # {} /\ \A n \in S : n < nextOrdinal
  BY <1>1
<1>3. PICK x \in S : \A y \in S : y <= x
  <2> HIDE DEF S
  <2> QED
    BY <1>1, <1>2, LargestBelow
<1>4. \E p \in Staged(b) : Latest(p)
  BY <1>3
<1>5. LET p == CHOOSE p \in Staged(b) : Latest(p) IN p \in Staged(b) /\ Latest(p)
  BY <1>4
<1> QED
  BY <1>5 DEF HostRead

\* The inductive invariant is enough: the latest record over a block is of a
\* write that succeeded, and every later success has its record too; without a
\* record over the block, the media holds what was committed last.
LEMMA ReadSees == ReadInv => ReadSeesSucceeded
<1> SUFFICES ASSUME ReadInv, NEW b \in Blocks,
                    \A w \in Writes : Covers(w, b) => srb[w] # "open", ~Abandoned(b)
             PROVE  /\ Kept(b) # {} => HostRead(b) \in Kept(b) \cup (Succeeded(b) \cap stuck)
                    /\ ~ \E w \in Kept(b) : HostRead(b) \in earlier[w]
  BY DEF ReadSeesSucceeded
<1>0. /\ TypeOK /\ SuccessOK /\ MediaHoldsOnlySucceeded /\ HistoryOK /\ RecordsOK /\ ReportedOK /\ CommitOK /\ StoreOK
      /\ DOMAIN staging \subseteq Writes /\ store \in [Blocks -> Writes \cup {Blank}]
      /\ srb \in [Writes -> {"unsent", "open", "done", "failed"}]
  BY DEF ReadInv, IndInv, TypeOK, DataTypeOK, WindowsTypeOK
<1>1. ASSUME NEW w \in Kept(b), w \in DOMAIN staging PROVE \E f \in staging[w] : <<w, f>> \in Staged(b)
  <2>1. w \in Writes /\ srb[w] = "done" /\ Covers(w, b)
    BY DEF Kept, Succeeded
  <2>2. PICK f \in RecordOf(w) : f.block = b
    BY <1>0, <1>1, <2>1, RecordCovers DEF ReportedOK
  <2>3. f \in staging[w]
    BY <1>1, <2>2 DEF RecordOf
  <2> QED
    BY <1>1, <2>2, <2>3, StagedIs
<1>2. CASE Staged(b) = {}
  <2>1. HostRead(b) = store[b]
    BY <1>2 DEF HostRead
  <2>2. \A w \in Kept(b) : store[b] # Blank /\ store[b] \notin earlier[w]
    BY <1>0, <1>1, <1>2 DEF StoreOK
  <2>3. store[b] # Blank => store[b] \in Succeeded(b) /\ (store[b] \in lost => store[b] \in stuck)
    BY <1>0 DEF StoreOK, MediaHoldsOnlySucceeded, Succeeded
  <2> QED
    BY <2>1, <2>2, <2>3 DEF Kept
<1>3. CASE Staged(b) # {}
  <2>1. PICK p \in Staged(b) : HostRead(b) = p[1] /\ \A q \in Staged(b) : q[2].ordinal <= p[2].ordinal
    BY <1>0, <1>3, LatestStaged
  <2> DEFINE v == p[1]
             f == p[2]
  <2>2. v \in DOMAIN staging /\ f \in staging[v] /\ f.block = b /\ v \in Writes
    BY <1>0, <2>1, StagedPair
  <2>3. f.seq \in 0 .. (issued[v] - 1) /\ f.ordinal \in Nat
    BY <1>0, <2>2 DEF RecordsOK
  <2>4. srb[v] # "failed" /\ v \notin stuck
    BY <2>1 DEF Abandoned
  <2> HIDE DEF v, f
  <2>5. Covers(v, b)
    BY <1>0, <2>2, RecordCovers DEF RecordOf
  <2>6. srb[v] = "done"
    <3>1. srb[v] # "unsent"
      BY <1>0, <2>2, <2>3 DEF SuccessOK
    <3> QED
      BY <1>0, <2>2, <2>4, <2>5, <3>1
  <2>7. v \in Kept(b)
    BY <1>0, <2>2, <2>5, <2>6 DEF Kept, Succeeded, HistoryOK
  <2>8. ASSUME NEW w \in Kept(b), v \in earlier[w] PROVE FALSE
    <3>1. w \in Writes /\ srb[w] = "done" /\ w \notin lost
      BY DEF Kept, Succeeded
    <3>2. w \in DOMAIN staging
      BY <1>0, <2>2, <2>4, <2>6, <2>8, <3>1 DEF CommitOK
    <3>3. PICK g \in staging[w] : <<w, g>> \in Staged(b)
      BY <1>1, <3>2
    <3>4. f.ordinal < g.ordinal /\ g.ordinal \in Nat
      BY <1>0, <2>2, <2>8, <3>2 DEF RecordsOK
    <3>5. g.ordinal <= f.ordinal
      BY <2>1, <3>3 DEF f
    <3> QED
      BY <2>3, <3>4, <3>5
  <2> QED
    BY <2>1, <2>7, <2>8 DEF v
<1> QED
  BY <1>2, <1>3

\* Reads see writes: while no write to a block is under way and no abandoned
\* record covers it, host_read_bytes returns a write to it that succeeded and
\* that no later one has replaced, for any split of writes into fragments, any
\* batching, and any commit, reset, removal and re-creation in between.
THEOREM ReadsSeeSucceeded == Spec => []ReadSeesSucceeded
BY ReadInvariance, ReadSees, PTL
=============================================================================
