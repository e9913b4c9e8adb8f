---------------------------- MODULE CacheProofs ----------------------------
(***************************************************************************)
(* Proofs about Cache for every finite set of threads and blocks, any      *)
(* calls, queue capacities, limit of temp files and failures.              *)
(***************************************************************************)
EXTENDS Cache, FiniteSetTheorems, WellFoundedInduction, TLAPS

(***************************************************************************)
(* Operators.                                                              *)
(***************************************************************************)

\* The smallest block of a set of blocks, which the worker takes, is one.
LEMMA MinIn ==
    ASSUME NEW S \in SUBSET Nat, S # {}
    PROVE  Min(S) \in S
<1> DEFINE R == {ss \in Nat \X Nat : ss[1] < ss[2]}
<1>1. IsWellFoundedOn(R, Nat)
  BY NatLessThanWellFounded DEF OpToRel
<1>2. PICK x \in S : \A y \in S : <<y, x>> \notin R
  <2> HIDE DEF R
  <2> QED
    BY <1>1, WFMin
<1>3. \A y \in S : x <= y
  <2> TAKE y \in S
  <2>1. x \in Nat /\ y \in Nat /\ <<y, x>> \notin R
    BY <1>2
  <2> QED
    BY <2>1
<1> QED
  BY <1>3 DEF Min

\* Appending a block that is not in a queue.
LEMMA AppendedQueue ==
    ASSUME NEW S, NEW q \in Seq(S), NEW b \in S, b \notin ToSet(q), IsInjective(q)
    PROVE  /\ Append(q, b) \in Seq(S) /\ IsInjective(Append(q, b))
           /\ ToSet(Append(q, b)) = ToSet(q) \cup {b} /\ Len(Append(q, b)) = Len(q) + 1
<1> DEFINE a == Append(q, b)
<1>1. a \in Seq(S) /\ Len(a) = Len(q) + 1 /\ DOMAIN a = 1 .. Len(a) /\ DOMAIN q = 1 .. Len(q)
  OBVIOUS
<1>2. \A i \in DOMAIN a : a[i] = IF i = Len(q) + 1 THEN b ELSE q[i]
  BY <1>1
<1>3. \A i \in DOMAIN q : q[i] # b
  BY DEF ToSet
<1>4. IsInjective(a)
  BY <1>1, <1>2, <1>3 DEF IsInjective
<1>5. ToSet(a) = ToSet(q) \cup {b}
  <2>1. Len(q) + 1 \in DOMAIN a /\ DOMAIN q \subseteq DOMAIN a /\ Len(q) + 1 \notin DOMAIN q
    BY <1>1
  <2>2. \A i \in DOMAIN a : a[i] \in ToSet(q) \cup {b}
    BY <1>1, <1>2 DEF ToSet
  <2>3. \A i \in DOMAIN q : a[i] = q[i]
    BY <1>2, <2>1
  <2> QED
    BY <1>2, <2>1, <2>2, <2>3 DEF ToSet
<1> QED
  BY <1>1, <1>4, <1>5

\* Taking the oldest block off a queue.
LEMMA TailQueue ==
    ASSUME NEW S, NEW q \in Seq(S), q # <<>>, IsInjective(q)
    PROVE  /\ Head(q) \in ToSet(q) /\ Head(q) \in S /\ Tail(q) \in Seq(S) /\ IsInjective(Tail(q))
           /\ ToSet(Tail(q)) = ToSet(q) \ {Head(q)} /\ Len(Tail(q)) = Len(q) - 1
<1> DEFINE a == Tail(q)
<1>1. /\ Len(q) \in Nat \ {0} /\ a \in Seq(S) /\ Len(a) = Len(q) - 1
      /\ DOMAIN a = 1 .. Len(a) /\ DOMAIN q = 1 .. Len(q) /\ Head(q) = q[1] /\ q[1] \in S
  OBVIOUS
<1>2. \A i \in DOMAIN a : a[i] = q[i + 1] /\ i + 1 \in DOMAIN q /\ i + 1 # 1
  BY <1>1
<1>3. \A i \in DOMAIN q : i # 1 => i - 1 \in DOMAIN a /\ a[i - 1] = q[i]
  BY <1>1
<1>4. IsInjective(a)
  BY <1>1, <1>2 DEF IsInjective
<1>5. Head(q) \in ToSet(q) /\ 1 \in DOMAIN q
  BY <1>1 DEF ToSet
<1>6. ToSet(a) \subseteq ToSet(q) \ {Head(q)}
  BY <1>1, <1>2, <1>5 DEF ToSet, IsInjective
<1>7. ToSet(q) \ {Head(q)} \subseteq ToSet(a)
  <2> SUFFICES ASSUME NEW i \in DOMAIN q, q[i] # Head(q) PROVE q[i] \in ToSet(a)
    BY DEF ToSet
  <2>1. i - 1 \in DOMAIN a /\ a[i - 1] = q[i]
    BY <1>1, <1>3
  <2> HIDE DEF a
  <2> QED
    BY <2>1 DEF ToSet
<1> QED
  BY <1>1, <1>4, <1>5, <1>6, <1>7

\* A part of a sequence.
LEMMA SubSeqType ==
    ASSUME NEW S, NEW q \in Seq(S), NEW m \in 1 .. (Len(q) + 1), NEW n \in Nat, n <= Len(q), m <= n + 1
    PROVE  /\ SubSeq(q, m, n) \in Seq(S) /\ Len(SubSeq(q, m, n)) = n - m + 1
           /\ \A i \in 1 .. Len(SubSeq(q, m, n)) : SubSeq(q, m, n)[i] = q[m + i - 1]
OBVIOUS

\* One sequence after another.
LEMMA ConcatType ==
    ASSUME NEW S, NEW p \in Seq(S), NEW q \in Seq(S)
    PROVE  /\ p \o q \in Seq(S) /\ Len(p \o q) = Len(p) + Len(q)
           /\ \A i \in 1 .. Len(p \o q) : (p \o q)[i] = IF i <= Len(p) THEN p[i] ELSE q[i - Len(p)]
OBVIOUS

\* Unlinking a block from the queue it is in.
LEMMA UnlinkedQueue ==
    ASSUME NEW S, NEW q \in Seq(S), NEW b \in ToSet(q), IsInjective(q)
    PROVE  /\ Unlinked(q, b) \in Seq(S) /\ IsInjective(Unlinked(q, b))
           /\ ToSet(Unlinked(q, b)) = ToSet(q) \ {b} /\ Len(Unlinked(q, b)) = Len(q) - 1
<1> DEFINE n == CHOOSE i \in DOMAIN q : q[i] = b
           a == RemoveAt(q, n)
<1>1. n \in DOMAIN q /\ q[n] = b
  BY DEF ToSet
<1> HIDE DEF n
<1>2. DOMAIN q = 1 .. Len(q) /\ Len(q) \in Nat /\ n \in 1 .. Len(q)
  BY <1>1
<1> DEFINE p1 == SubSeq(q, 1, n - 1)
           p2 == SubSeq(q, n + 1, Len(q))
<1>3. p1 \in Seq(S) /\ Len(p1) = n - 1 /\ \A i \in 1 .. Len(p1) : p1[i] = q[i]
  <2>1. 1 \in 1 .. (Len(q) + 1) /\ n - 1 \in Nat /\ n - 1 <= Len(q) /\ 1 <= (n - 1) + 1
    BY <1>2
  <2> QED
    BY <1>2, <2>1, SubSeqType
<1>4. p2 \in Seq(S) /\ Len(p2) = Len(q) - n /\ \A i \in 1 .. Len(p2) : p2[i] = q[n + i]
  <2>1. n + 1 \in 1 .. (Len(q) + 1) /\ Len(q) \in Nat /\ Len(q) <= Len(q) /\ n + 1 <= Len(q) + 1
    BY <1>2
  <2>2. /\ p2 \in Seq(S) /\ Len(p2) = Len(q) - (n + 1) + 1
        /\ \A i \in 1 .. Len(p2) : p2[i] = q[(n + 1) + i - 1]
    BY <2>1, SubSeqType
  <2> HIDE DEF p2
  <2>3. Len(p2) = Len(q) - n
    BY <1>2, <2>2
  <2>4. \A i \in 1 .. Len(p2) : (n + 1) + i - 1 = n + i
    BY <1>2, <2>3
  <2> QED
    BY <2>2, <2>3, <2>4
<1>5. a = p1 \o p2
  BY DEF RemoveAt
<1> HIDE DEF a, p1, p2
<1>12. a \in Seq(S) /\ Len(a) = Len(q) - 1 /\ DOMAIN a = 1 .. Len(a)
  <2>1. a \in Seq(S) /\ Len(a) = Len(p1) + Len(p2)
    BY <1>3, <1>4, <1>5, ConcatType
  <2>2. Len(p1) + Len(p2) = Len(q) - 1
    BY <1>2, <1>3, <1>4
  <2> QED
    BY <2>1, <2>2
<1>6. \A i \in DOMAIN a : a[i] = IF i < n THEN q[i] ELSE q[i + 1]
  <2> TAKE i \in DOMAIN a
  <2>1. a[i] = IF i <= n - 1 THEN p1[i] ELSE p2[i - (n - 1)]
    BY <1>3, <1>4, <1>5, <1>12, ConcatType
  <2> QED
    BY <1>2, <1>3, <1>4, <1>12, <2>1
<1>7. \A i \in DOMAIN a : (IF i < n THEN i ELSE i + 1) \in DOMAIN q \ {n}
  BY <1>2, <1>12
<1>8. \A i \in DOMAIN q \ {n} : LET j == IF i < n THEN i ELSE i - 1 IN j \in DOMAIN a /\ a[j] = q[i]
  BY <1>2, <1>12, <1>6
<1>9. IsInjective(a)
  BY <1>2, <1>12, <1>6, <1>7 DEF IsInjective
<1>10. ToSet(a) \subseteq ToSet(q) \ {b}
  BY <1>1, <1>6, <1>7 DEF ToSet, IsInjective
<1>11. ToSet(q) \ {b} \subseteq ToSet(a)
  BY <1>1, <1>8 DEF ToSet
<1> QED
  BY <1>12, <1>9, <1>10, <1>11 DEF Unlinked, a, n

\* What a block holds, what the calls are, and that no constant is either.
LEMMA DataFacts ==
    /\ Data0 \in Data
    /\ \A d \in Data : d # None /\ d # Failed /\ d # Done
    /\ \A d \in Data, w \in Writes : Patched(d, w) \in Data
    /\ \A c \in AnyCall : c.block \in Blocks /\ c.kind \in {"read", "write"} /\ (c.kind = "write") = (c \in Writes)
    /\ Writes \subseteq AnyCall /\ None \notin AnyCall
    /\ \A e \in Entry : e # None
    /\ None # Failed /\ None # Done /\ Failed # Done
<1>1. \A d \in Data, w \in Writes : Patched(d, w) \in Data
  BY ConstantsAssumption DEF Data, Patched
<1>2. Data0 \in Data
  BY DEF Data, Data0
<1> QED
  BY <1>1, <1>2, ConstantsAssumption DEF Writes

\* The threads that have a place in the count.
InCount == {t \in Threads : forTemp[t]}

\* Giving back a place, if there is one, and taking one.
LEMMA ReleaseStep ==
    ASSUME TypeOK, waiters = Cardinality(InCount), NEW t \in Threads, ReleaseWaiter(t)
    PROVE  /\ waiters' \in Nat /\ forTemp' \in [Threads -> BOOLEAN] /\ waiters' = Cardinality(InCount')
           /\ ~forTemp'[t] /\ \A u \in Threads : u # t => forTemp'[u] = forTemp[u]
<1>1. forTemp' \in [Threads -> BOOLEAN] /\ ~forTemp'[t] /\ \A u \in Threads : u # t => forTemp'[u] = forTemp[u]
  BY DEF TypeOK, ReleaseWaiter
<1>2. InCount' = InCount \ {t}
  BY <1>1 DEF InCount
<1>3. IsFiniteSet(InCount)
  BY ConstantsAssumption, FS_Subset DEF InCount
<1>4. /\ Cardinality(InCount) \in Nat
      /\ Cardinality(InCount \ {t}) = IF t \in InCount THEN Cardinality(InCount) - 1 ELSE Cardinality(InCount)
      /\ Cardinality(InCount \ {t}) \in Nat
  BY <1>3, FS_RemoveElement, FS_CardinalityType
<1>5. waiters' = Cardinality(InCount')
  BY <1>2, <1>4 DEF ReleaseWaiter, InCount
<1> QED
  BY <1>1, <1>2, <1>4, <1>5

\* A caller that sleeps for a temp file counts itself in.
LEMMA SleepForTempStep ==
    ASSUME TypeOK, waiters = Cardinality(InCount), NEW t \in Threads, SleepForTemp(t)
    PROVE  /\ waiters' \in Nat /\ forTemp' \in [Threads -> BOOLEAN] /\ waiters' = Cardinality(InCount')
           /\ forTemp'[t] /\ \A u \in Threads : u # t => forTemp'[u] = forTemp[u]
<1>1. forTemp' \in [Threads -> BOOLEAN] /\ forTemp'[t] /\ \A u \in Threads : u # t => forTemp'[u] = forTemp[u]
  BY DEF TypeOK, SleepForTemp
<1>2. InCount' = InCount \cup {t}
  BY <1>1 DEF InCount
<1>3. IsFiniteSet(InCount)
  BY ConstantsAssumption, FS_Subset DEF InCount
<1>4. /\ Cardinality(InCount) \in Nat
      /\ Cardinality(InCount \cup {t}) = IF t \in InCount THEN Cardinality(InCount) ELSE Cardinality(InCount) + 1
      /\ Cardinality(InCount \cup {t}) \in Nat
  BY <1>3, FS_AddElement, FS_CardinalityType
<1>5. waiters' = Cardinality(InCount')
  BY <1>2, <1>4 DEF SleepForTemp, InCount
<1> QED
  BY <1>1, <1>2, <1>4, <1>5

\* Whoever has a place waits or is about to decide again.
LEMMA CountedThreads == WaitersOK => (WaitersCounted <=> waiters = Cardinality(InCount))
<1> SUFFICES ASSUME WaitersOK PROVE {t \in Threads : forTemp[t] /\ pc[t] \in {"asleep", "plan"}} = InCount
  BY DEF WaitersCounted
<1> QED
  BY DEF WaitersOK, InCount

\* After the step as well the callers that are counted are those of InCount.
LEMMA CountedThreadsNext == WaitersOK' => (WaitersCounted' <=> waiters' = Cardinality(InCount'))
<1> SUFFICES ASSUME WaitersOK' PROVE {t \in Threads : forTemp'[t] /\ pc'[t] \in {"asleep", "plan"}} = InCount'
  BY DEF WaitersCounted
<1> QED
  BY DEF WaitersOK, InCount

(***************************************************************************)
(* What a step leaves alone.                                               *)
(***************************************************************************)

\* A step of a thread that does not touch the blocks.
LEMMA CachedFrame ==
    ASSUME CachedOK, UNCHANGED <<residentVars, tempVars, right, worker>>
    PROVE  CachedOK'
<1> USE DEF residentVars, tempVars
<1>1. BlocksOK'
  BY DEF CachedOK, BlocksOK, Resident, IsReady
<1>2. FlushOK'
  BY DEF CachedOK, FlushOK, IsReady, Resident, Flushing, WorkerAt
<1>3. SnapshotsOK'
  BY DEF CachedOK, SnapshotsOK, IsReady, Resident, WorkerAt
<1>4. QueuesHoldResident'
  BY DEF CachedOK, QueuesHoldResident, IsReady, Resident
<1>5. TempFilesWithinLimit'
  BY DEF CachedOK, TempFilesWithinLimit, TempCount, IsReady, Resident
<1>6. CleanIsOnRight'
  BY DEF CachedOK, CleanIsOnRight, IsReady, Resident, Clean
<1> QED
  BY <1>1, <1>2, <1>3, <1>4, <1>5, <1>6 DEF CachedOK

(***************************************************************************)
(* Calls, sleeping, and the reads without the lock.                        *)
(***************************************************************************)

\* A call begins.
LEMMA BeginStep == ASSUME IndInv, NEW t \in Threads, Begin(t) PROVE IndInv'
<1> USE DEF IndInv, Begin
<1>1. PICK c \in Calls[t] : call' = [call EXCEPT ![t] = c]
  OBVIOUS
<1>2. c \in AnyCall /\ c # None
  BY <1>1, DataFacts DEF AnyCall
<1>3. TypeOK'
  BY <1>1, <1>2 DEF TypeOK, Go, residentVars, tempVars
<1>4. CachedOK'
  BY CachedFrame
<1>5. ThreadsOK'
  <2>1. CallsOK'
    BY <1>1, <1>2 DEF ThreadsOK, CallsOK, Go, TypeOK, Block, tempVars
  <2>2. LoadersOK'
    BY <1>1 DEF ThreadsOK, LoadersOK, Go, TypeOK, Block, Loading, Resident, residentVars
  <2>3. WaitersOK' /\ WaitersCounted'
    BY CountedThreads, CountedThreadsNext DEF ThreadsOK, WaitersOK, Go, TypeOK, InCount
  <2> QED
    BY <2>1, <2>2, <2>3 DEF ThreadsOK
<1>6. TempUserFindsBlock'
  BY <1>1 DEF TempUserFindsBlock, Go, TypeOK, Block, Resident, IsReady, residentVars, tempVars, FlushFindsBlock, LoadFindsBlock, Flushing
<1> QED
  BY <1>3, <1>4, <1>5, <1>6

\* It returns.
LEMMA ReturnStep == ASSUME IndInv, NEW t \in Threads, Return(t) PROVE IndInv'
<1> USE DEF IndInv, Return
<1>3. TypeOK'
  BY DEF TypeOK, Go, residentVars, tempVars
<1>4. CachedOK'
  BY CachedFrame
<1>5. ThreadsOK'
  <2>1. CallsOK'
    BY DEF ThreadsOK, CallsOK, Go, TypeOK, Block, tempVars
  <2>2. LoadersOK'
    BY DEF ThreadsOK, LoadersOK, Go, TypeOK, Block, Loading, Resident, residentVars
  <2>3. WaitersOK' /\ WaitersCounted'
    BY CountedThreads, CountedThreadsNext DEF ThreadsOK, WaitersOK, Go, TypeOK, InCount
  <2> QED
    BY <2>1, <2>2, <2>3 DEF ThreadsOK
<1>6. TempUserFindsBlock'
  BY DEF TempUserFindsBlock, Go, TypeOK, Block, Resident, IsReady, residentVars, tempVars, FlushFindsBlock, LoadFindsBlock, Flushing
<1> QED
  BY <1>3, <1>4, <1>5, <1>6

\* A call goes to sleep, for a block or for a temp slot.
LEMMA SleepStep ==
    ASSUME IndInv, NEW t \in Threads, pc[t] = "plan", SleepGeneric(t) \/ SleepForTemp(t),
           UNCHANGED <<residentVars, tempVars, stopped, right, worker, faults, call, reply, fetched>>
    PROVE  IndInv'
<1> USE DEF IndInv
<1>1. /\ waiters' \in Nat /\ forTemp' \in [Threads -> BOOLEAN] /\ waiters' = Cardinality(InCount')
      /\ \A u \in Threads : u # t => forTemp'[u] = forTemp[u]
  BY ReleaseStep, SleepForTempStep, CountedThreads DEF SleepGeneric, ThreadsOK
<1>2. pc' = [pc EXCEPT ![t] = "asleep"]
  BY DEF SleepGeneric, SleepForTemp, Go
<1>3. TypeOK'
  BY <1>1, <1>2 DEF TypeOK, residentVars, tempVars
<1>4. CachedOK'
  BY CachedFrame
<1>5. ThreadsOK'
  <2>1. CallsOK'
    BY <1>2 DEF ThreadsOK, CallsOK, TypeOK, Block, tempVars
  <2>2. LoadersOK'
    BY <1>2 DEF ThreadsOK, LoadersOK, TypeOK, Block, Loading, Resident, residentVars
  <2>3. WaitersOK' /\ WaitersCounted'
    BY <1>1, <1>2, CountedThreadsNext DEF ThreadsOK, WaitersOK, TypeOK
  <2> QED
    BY <2>1, <2>2, <2>3 DEF ThreadsOK
<1>6. TempUserFindsBlock'
  BY <1>2 DEF TempUserFindsBlock, TypeOK, Block, Resident, IsReady, residentVars, tempVars, FlushFindsBlock, LoadFindsBlock, Flushing
<1> QED
  BY <1>3, <1>4, <1>5, <1>6

\* The data of a load arrives: from the right side,
LEMMA ReadRightStep == ASSUME IndInv, NEW t \in Threads, ReadRight(t) PROVE IndInv'
<1> USE DEF IndInv, ReadRight
<1>1. Block(t) \in Blocks /\ call[t] # None
  BY DataFacts DEF ThreadsOK, CallsOK, TypeOK, Block
<1>2. faults' \in Nat /\ \E d \in {right[Block(t)], Failed} : fetched' = [fetched EXCEPT ![t] = d]
  BY DEF Fetched, NoFault, Fault, TypeOK
<1>3. pc' = [pc EXCEPT ![t] = "loaded"]
  BY DEF Go
<1>4. TypeOK'
  BY <1>1, <1>2, <1>3 DEF TypeOK, residentVars, tempVars
<1>5. CachedOK'
  BY CachedFrame
<1>6. ThreadsOK'
  <2>1. CallsOK'
    BY <1>1, <1>2, <1>3 DEF ThreadsOK, CallsOK, TypeOK, Block, tempVars
  <2>2. LoadersOK'
    BY <1>3 DEF ThreadsOK, LoadersOK, TypeOK, Block, Loading, Resident, residentVars
  <2>3. WaitersOK' /\ WaitersCounted'
    BY <1>3, CountedThreads, CountedThreadsNext DEF ThreadsOK, WaitersOK, TypeOK, InCount
  <2> QED
    BY <2>1, <2>2, <2>3 DEF ThreadsOK
<1>7. TempUserFindsBlock'
  BY <1>3 DEF TempUserFindsBlock, TypeOK, Block, Resident, IsReady, residentVars, tempVars, FlushFindsBlock, LoadFindsBlock, Flushing
<1> QED
  BY <1>4, <1>5, <1>6, <1>7

\* and from the temp file.
LEMMA ReadTempStep == ASSUME IndInv, NEW t \in Threads, ReadTemp(t) PROVE IndInv'
<1> USE DEF IndInv, ReadTemp
<1>1. Block(t) \in Blocks /\ call[t] # None
  BY DataFacts DEF ThreadsOK, CallsOK, TypeOK, Block
<1>2. faults' \in Nat /\ \E d \in {temp[Block(t)], Failed} : fetched' = [fetched EXCEPT ![t] = d]
  BY DEF Fetched, NoFault, Fault, TypeOK
<1>3. pc' = [pc EXCEPT ![t] = "rehydrated"]
  BY DEF Go
<1>4. TypeOK'
  BY <1>1, <1>2, <1>3 DEF TypeOK, residentVars, tempVars, Missing
<1>5. CachedOK'
  BY CachedFrame
<1>6. ThreadsOK'
  <2>1. CallsOK'
    BY <1>1, <1>2, <1>3 DEF ThreadsOK, CallsOK, TypeOK, Block, tempVars
  <2>2. LoadersOK'
    BY <1>3 DEF ThreadsOK, LoadersOK, TypeOK, Block, Loading, Resident, residentVars
  <2>3. WaitersOK' /\ WaitersCounted'
    BY <1>3, CountedThreads, CountedThreadsNext DEF ThreadsOK, WaitersOK, TypeOK, InCount
  <2> QED
    BY <2>1, <2>2, <2>3 DEF ThreadsOK
<1>7. TempUserFindsBlock'
  BY <1>3 DEF TempUserFindsBlock, TypeOK, Block, Resident, IsReady, residentVars, tempVars, FlushFindsBlock, LoadFindsBlock, Flushing
<1> QED
  BY <1>4, <1>5, <1>6, <1>7

(***************************************************************************)
(* A hit.                                                                  *)
(***************************************************************************)

\* A call in progress is for a block, and one that loads finds its placeholder.
LEMMA CallBlock ==
    ASSUME IndInv, NEW t \in Threads, pc[t] # "idle"
    PROVE  call[t] \in AnyCall /\ call[t] # None /\ Block(t) \in Blocks /\ Block(t) = call[t].block
<1>1. call[t] \in AnyCall
  BY DEF IndInv, ThreadsOK, CallsOK, TypeOK
<1> QED
  BY <1>1, DataFacts DEF Block

\* The block of a call that loads is resident and not ready, in the state of
\* the load the call is in.
LEMMA LoadingBlock ==
    ASSUME IndInv, NEW t \in Threads, Loading(t)
    PROVE  /\ call[t] \in AnyCall /\ Block(t) \in Blocks /\ Block(t) = call[t].block
           /\ entries[Block(t)] \in Entry /\ Resident(Block(t)) /\ ~IsReady(Block(t))
           /\ entries[Block(t)].load = (IF pc[t] \in {"load", "loaded"} THEN "loadingRemote" ELSE "rehydrating")
<1>1. call[t] \in AnyCall /\ Block(t) \in Blocks /\ Block(t) = call[t].block
  BY CallBlock DEF Loading
<1>2. /\ Resident(Block(t))
      /\ entries[Block(t)].load = (IF pc[t] \in {"load", "loaded"} THEN "loadingRemote" ELSE "rehydrating")
  BY DEF Loading, IndInv, TempUserFindsBlock, FlushFindsBlock, LoadFindsBlock, Flushing
<1> QED
  BY <1>1, <1>2 DEF Resident, IsReady, IndInv, TypeOK

\* The block the worker sends is one whose temp file is in use.
LEMMA FlushBlock ==
    ASSUME IndInv, Flushing
    PROVE  worker.block \in Blocks /\ worker.block \in activeTemp
BY DEF IndInv, CachedOK, FlushOK, Flushing, TempUserFindsBlock, FlushFindsBlock, LoadFindsBlock

\* record_hit moves the block in the queues and evicts at most the clean head
\* of the LRU.
LEMMA RecordHitStep ==
    ASSUME IndInv, NEW b \in Blocks, IsReady(b),
           NEW es \in [Blocks -> Entry \cup {None}], es[b] \in Entry, es[b].load = "ready",
           \A c \in Blocks \ {b} : es[c] = entries[c], RecordHit(b, es)
    PROVE  /\ fifo' \in Seq(Blocks) /\ lru' \in Seq(Blocks) /\ QueuesHoldResident'
           /\ \/ entries' = es
              \/ \E v \in Blocks \ {b} :
                   IsReady(v) /\ Clean(entries[v]) /\ entries' = [es EXCEPT ![v] = None]
<1> DEFINE full == Len(lru) = LruCapacity
<1>1. /\ fifo \in Seq(Blocks) /\ lru \in Seq(Blocks)
      /\ Len(fifo) <= FifoCapacity /\ Len(lru) <= LruCapacity
      /\ IsInjective(fifo) /\ IsInjective(lru) /\ ToSet(fifo) \cap ToSet(lru) = {}
      /\ ToSet(fifo) \cup ToSet(lru) = {c \in Blocks : Resident(c)}
      /\ \A c \in ToSet(lru) : IsReady(c)
  BY DEF IndInv, TypeOK, CachedOK, QueuesHoldResident
<1>2. Len(fifo) \in Nat /\ Len(lru) \in Nat /\ FifoCapacity \in Nat \ {0} /\ LruCapacity \in Nat \ {0}
  BY <1>1, ConstantsAssumption
<1>3. {c \in Blocks : es[c] # None} = {c \in Blocks : Resident(c)} /\ es[b] # None
  BY DataFacts DEF IsReady, Resident
<1>4. \A c \in ToSet(lru) : es[c] # None /\ es[c].load = "ready"
  BY <1>1, <1>3 DEF IsReady, Resident
<1>5. CASE b \in ToSet(lru) /\ lru' = Append(Unlinked(lru, b), b) /\ entries' = es /\ UNCHANGED fifo
  <2>1. /\ Unlinked(lru, b) \in Seq(Blocks) /\ IsInjective(Unlinked(lru, b))
        /\ ToSet(Unlinked(lru, b)) = ToSet(lru) \ {b} /\ Len(Unlinked(lru, b)) = Len(lru) - 1
    BY <1>1, <1>5, UnlinkedQueue
  <2>2. /\ lru' \in Seq(Blocks) /\ IsInjective(lru') /\ ToSet(lru') = ToSet(lru) /\ Len(lru') = Len(lru)
    <3> DEFINE u == Unlinked(lru, b)
    <3>1. u \in Seq(Blocks) /\ b \notin ToSet(u) /\ IsInjective(u) /\ lru' = Append(u, b)
      BY <1>5, <2>1
    <3>2. ToSet(u) \cup {b} = ToSet(lru) /\ Len(u) + 1 = Len(lru)
      BY <1>2, <1>5, <2>1
    <3> HIDE DEF u
    <3>3. /\ Append(u, b) \in Seq(Blocks) /\ IsInjective(Append(u, b))
          /\ ToSet(Append(u, b)) = ToSet(u) \cup {b} /\ Len(Append(u, b)) = Len(u) + 1
      BY <3>1, AppendedQueue
    <3> QED
      BY <3>1, <3>2, <3>3
  <2> QED
    BY <1>1, <1>3, <1>4, <1>5, <2>2 DEF QueuesHoldResident, Resident, IsReady
<1>6. CASE b \in ToSet(fifo) /\ ~full /\ fifo' = Unlinked(fifo, b) /\ lru' = Append(lru, b) /\ entries' = es
  <2>1. /\ fifo' \in Seq(Blocks) /\ IsInjective(fifo') /\ ToSet(fifo') = ToSet(fifo) \ {b} /\ Len(fifo') = Len(fifo) - 1
    BY <1>1, <1>6, UnlinkedQueue
  <2>2. /\ lru' \in Seq(Blocks) /\ IsInjective(lru') /\ ToSet(lru') = ToSet(lru) \cup {b} /\ Len(lru') = Len(lru) + 1
    BY <1>1, <1>6, AppendedQueue
  <2>3. Len(fifo') <= FifoCapacity /\ Len(lru') <= LruCapacity
    BY <1>1, <1>2, <1>6, <2>1, <2>2
  <2> QED
    BY <1>1, <1>3, <1>4, <1>6, <2>1, <2>2, <2>3 DEF QueuesHoldResident, Resident, IsReady
<1>7. CASE /\ b \in ToSet(fifo) /\ full /\ LruHeadEvictable
           /\ fifo' = Unlinked(fifo, b) /\ lru' = Append(Tail(lru), b)
           /\ entries' = [es EXCEPT ![Head(lru)] = None]
  <2> DEFINE v == Head(lru)
  <2>1. /\ fifo' \in Seq(Blocks) /\ IsInjective(fifo') /\ ToSet(fifo') = ToSet(fifo) \ {b} /\ Len(fifo') = Len(fifo) - 1
    BY <1>1, <1>7, UnlinkedQueue
  <2>2. lru # <<>>
    BY <1>1, <1>2, <1>7
  <2>3. /\ v \in ToSet(lru) /\ v \in Blocks /\ Tail(lru) \in Seq(Blocks) /\ IsInjective(Tail(lru))
        /\ ToSet(Tail(lru)) = ToSet(lru) \ {v} /\ Len(Tail(lru)) = Len(lru) - 1
    BY <1>1, <2>2, TailQueue
  <2>4. /\ lru' \in Seq(Blocks) /\ IsInjective(lru') /\ ToSet(lru') = (ToSet(lru) \ {v}) \cup {b}
        /\ Len(lru') = Len(lru) - 1 + 1
    <3> DEFINE u == Tail(lru)
    <3>1. u \in Seq(Blocks) /\ b \notin ToSet(u) /\ IsInjective(u) /\ lru' = Append(u, b)
      BY <1>1, <1>7, <2>3
    <3>2. ToSet(u) = ToSet(lru) \ {v} /\ Len(u) = Len(lru) - 1
      BY <2>3
    <3> HIDE DEF u, v
    <3> QED
      BY <3>1, <3>2, AppendedQueue
  <2>5. v # b
    BY <1>1, <1>7, <2>3
  <2>6. Len(fifo') <= FifoCapacity /\ Len(lru') <= LruCapacity
    BY <1>1, <1>2, <2>1, <2>4
  <2>7. {c \in Blocks : Resident(c)'} = {c \in Blocks : Resident(c)} \ {v}
    BY <1>3, <1>7, <2>3 DEF Resident
  <2>8. \A c \in ToSet(lru') : IsReady(c)'
    BY <1>3, <1>4, <1>7, <2>4, <2>5, <2>3 DEF Resident, IsReady
  <2>9. IsReady(v) /\ Clean(entries[v])
    BY <1>7 DEF LruHeadEvictable
  <2> HIDE DEF v
  <2>10. ToSet(fifo') \cup ToSet(lru') = {c \in Blocks : Resident(c)'} /\ ToSet(fifo') \cap ToSet(lru') = {}
    BY <1>1, <1>7, <2>1, <2>3, <2>4, <2>5, <2>7
  <2> QED
    BY <1>7, <2>1, <2>3, <2>4, <2>5, <2>6, <2>8, <2>9, <2>10 DEF QueuesHoldResident, v
<1>8. CASE b \in ToSet(fifo) /\ full /\ ~LruHeadEvictable /\ entries' = es /\ UNCHANGED <<fifo, lru>>
  BY <1>1, <1>3, <1>4, <1>8 DEF QueuesHoldResident, Resident, IsReady
<1> QED
  BY <1>5, <1>6, <1>7, <1>8 DEF RecordHit

\* What a write leaves in the entry.
LEMMA PatchedEntryType ==
    ASSUME NEW e \in Entry, NEW w \in Writes
    PROVE  LET p == PatchedEntry(e, w) IN
           /\ p \in Entry /\ p.load = e.load /\ p.data = Patched(e.data, w) /\ p.dirty /\ p.snapshot = e.snapshot
           /\ p.patch = e.patch
<1>1. e.data \in Data /\ Patched(e.data, w) \in Data
  BY DataFacts DEF Entry
<1> QED
  BY <1>1 DEF PatchedEntry, Entry

\* A call finds its block ready: it moves in its queue and is read or written.
LEMMA HitStep == ASSUME IndInv, NEW t \in Threads, Hit(t) PROVE IndInv'
<1> USE DEF IndInv
<1> DEFINE b == Block(t)
<1>1. call[t] \in AnyCall /\ b \in Blocks /\ entries[b] \in Entry /\ entries[b].load = "ready" /\ entries[b].patch = None
  <2>1. pc[t] = "plan" /\ IsReady(b)
    BY DEF Hit
  <2>2. call[t] \in AnyCall /\ b \in Blocks
    BY <2>1, CallBlock
  <2> QED
    BY <2>1, <2>2 DEF TypeOK, IsReady, Resident, CachedOK, BlocksOK
<1>2. PICK es \in [Blocks -> Entry \cup {None}] :
        /\ es[b] \in Entry /\ es[b].load = "ready" /\ es[b].patch = None /\ es[b].snapshot = entries[b].snapshot
        /\ es[b] = entries[b] \/ es[b].dirty
        /\ \A c \in Blocks \ {b} : es[c] = entries[c]
        /\ RecordHit(b, es)
        /\ \E r \in Data \cup {Done} : reply' = [reply EXCEPT ![t] = r]
  <2>1. CASE call[t].kind = "read"
    <3>1. RecordHit(b, entries) /\ reply' = [reply EXCEPT ![t] = entries[b].data]
      BY <2>1 DEF Hit, Answer
    <3>2. entries[b].data \in Data /\ entries \in [Blocks -> Entry \cup {None}]
      BY <1>1 DEF TypeOK, Entry
    <3> QED
      BY <1>1, <3>1, <3>2
  <2>2. CASE call[t].kind = "write"
    <3> DEFINE es == [entries EXCEPT ![b] = PatchedEntry(@, call[t])]
    <3>1. RecordHit(b, es) /\ reply' = [reply EXCEPT ![t] = Done]
      BY <2>2 DEF Hit, Answer
    <3>2. call[t] \in Writes
      BY <1>1, <2>2, DataFacts
    <3>3. es \in [Blocks -> Entry \cup {None}] /\ es[b] = PatchedEntry(entries[b], call[t])
      BY <1>1, <3>2, PatchedEntryType DEF TypeOK
    <3> QED
      BY <1>1, <3>1, <3>2, <3>3, PatchedEntryType DEF TypeOK
  <2> QED
    BY <1>1, <2>1, <2>2, DataFacts
<1>3. /\ fifo' \in Seq(Blocks) /\ lru' \in Seq(Blocks) /\ QueuesHoldResident'
      /\ \/ entries' = es
         \/ \E v \in Blocks \ {b} : IsReady(v) /\ Clean(entries[v]) /\ entries' = [es EXCEPT ![v] = None]
  BY <1>1, <1>2, RecordHitStep DEF Hit
<1>4. /\ entries' \in [Blocks -> Entry \cup {None}]
      /\ entries'[b] = es[b]
      /\ \A c \in Blocks \ {b} : \/ entries'[c] = entries[c]
                                 \/ IsReady(c) /\ Clean(entries[c]) /\ entries'[c] = None
  BY <1>1, <1>2, <1>3
<1>5. /\ waiters' \in Nat /\ forTemp' \in [Threads -> BOOLEAN] /\ waiters' = Cardinality(InCount')
      /\ ~forTemp'[t] /\ \A u \in Threads : u # t => forTemp'[u] = forTemp[u]
  BY ReleaseStep, CountedThreads DEF ThreadsOK, Hit
<1>6. pc[t] = "plan" /\ pc' = [pc EXCEPT ![t] = "done"] /\ UNCHANGED <<tempVars, stopped, right, worker, faults, call, fetched>>
  BY DEF Hit, Go
<1>7. \E r \in Data \cup {Done} : reply' = [reply EXCEPT ![t] = r]
  BY <1>2
<1> DEFINE e == es[b]
<1>8. /\ e \in Entry /\ e # None /\ e.load = "ready" /\ e.patch = None /\ e.snapshot = entries[b].snapshot
      /\ e = entries[b] \/ e.dirty
  BY <1>2, DataFacts
<1> HIDE DEF e
<1>9. /\ entries'[b] = e /\ b \in Blocks
      /\ \A c \in Blocks \ {b} : \/ entries'[c] = entries[c]
                                 \/ IsReady(c) /\ Clean(entries[c]) /\ entries'[c] = None
  BY <1>1, <1>4 DEF e
<1>10. IsReady(b) /\ entries[b].patch = None /\ b = call[t].block
  BY <1>1, DataFacts DEF IsReady, Resident, Block
<1> HIDE DEF b
<1>15. \A u \in Threads : Loading(u)' =>
         /\ Loading(u) /\ u # t /\ Block(u)' = Block(u) /\ Block(u) \in Blocks
         /\ entries'[Block(u)] = entries[Block(u)]
  <2> SUFFICES ASSUME NEW u \in Threads, Loading(u)'
               PROVE  /\ Loading(u) /\ u # t /\ Block(u)' = Block(u) /\ Block(u) \in Blocks
                      /\ entries'[Block(u)] = entries[Block(u)]
    OBVIOUS
  <2>1. Loading(u) /\ u # t /\ Block(u)' = Block(u)
    BY <1>6 DEF Loading, Block, TypeOK
  <2>2. Block(u) \in Blocks /\ Block(u) # b /\ ~IsReady(Block(u))
    BY <1>10, <2>1, LoadingBlock
  <2> QED
    BY <1>9, <2>1, <2>2
<1>11. TypeOK'
  BY <1>3, <1>4, <1>5, <1>6, <1>7 DEF TypeOK, tempVars
<1>12. CachedOK'
  <2> USE DEF CachedOK, tempVars
  <2>1. BlocksOK'
    BY <1>6, <1>8, <1>9, <1>10 DEF BlocksOK, Resident, IsReady
  <2>2. FlushOK'
    BY <1>6, <1>8, <1>9, <1>10 DEF FlushOK, IsReady, Resident, Flushing, WorkerAt
  <2>3. SnapshotsOK'
    BY <1>6, <1>8, <1>9, <1>10 DEF SnapshotsOK, IsReady, Resident, WorkerAt
  <2>4. TempFilesWithinLimit'
    <3>1. {c \in Blocks : Resident(c) /\ entries[c].snapshot}' = {c \in Blocks : Resident(c) /\ entries[c].snapshot}
      BY <1>6, <1>8, <1>9, <1>10 DEF IsReady, Resident, Clean
    <3>2. TempCount' = TempCount
      BY <3>1, <1>6 DEF TempCount
    <3>3. \A c \in Blocks : /\ IsReady(c) /\ entries[c].snapshot => IsReady(c)' /\ entries'[c].snapshot
                            /\ Resident(c) /\ entries[c].load = "rehydrating" => Resident(c)' /\ entries'[c].load = "rehydrating"
      BY <1>6, <1>8, <1>9, <1>10 DEF IsReady, Resident, Clean
    <3> QED
      BY <1>6, <3>2, <3>3 DEF TempFilesWithinLimit
  <2>5. CleanIsOnRight'
    BY <1>6, <1>8, <1>9, <1>10 DEF CleanIsOnRight, IsReady, Resident, Clean
  <2> QED
    BY <1>3, <2>1, <2>2, <2>3, <2>4, <2>5
<1>13. ThreadsOK'
  <2>1. CallsOK'
    BY <1>6, <1>7, DataFacts DEF ThreadsOK, CallsOK, TypeOK, Block, tempVars
  <2>2. LoadersOK'
    BY <1>6, <1>15 DEF ThreadsOK, LoadersOK, Resident
  <2>3. WaitersOK' /\ WaitersCounted'
    BY <1>5, <1>6, CountedThreadsNext DEF ThreadsOK, WaitersOK, TypeOK
  <2> QED
    BY <2>1, <2>2, <2>3 DEF ThreadsOK
<1>14. TempUserFindsBlock'
  <2>1. Flushing => /\ worker.block \in activeTemp
                    /\ \/ worker.block \in spilled /\ ~Resident(worker.block)'
                       \/ worker.block \notin spilled /\ IsReady(worker.block)' /\ entries'[worker.block].snapshot
    BY <1>6, <1>8, <1>9, <1>10, FlushBlock DEF TempUserFindsBlock, Resident, IsReady, Clean, Flushing, FlushFindsBlock, LoadFindsBlock
  <2> QED
    BY <1>6, <1>15, <2>1 DEF TempUserFindsBlock, Resident, IsReady, Loading, Flushing, tempVars, FlushFindsBlock, LoadFindsBlock
<1> QED
  BY <1>11, <1>12, <1>13, <1>14

(***************************************************************************)
(* A miss.                                                                 *)
(***************************************************************************)

\* The resident blocks with a snapshot, which TempCount counts.
Snapshots == {b \in Blocks : Resident(b) /\ entries[b].snapshot}

\* The placeholder of a load is not ready, and holds the bytes of the write
\* that waits for it.
LEMMA PlaceholderType ==
    ASSUME NEW t, call[t] \in AnyCall
    PROVE  LET p == Placeholder(t) IN
           /\ p \in Entry /\ p # None /\ p.load = IF Block(t) \in spilled THEN "rehydrating" ELSE "loadingRemote"
           /\ p.load # "ready" /\ ~p.dirty /\ ~p.snapshot
           /\ p.patch = IF call[t].kind = "write" THEN call[t] ELSE None
<1>1. Placeholder(t) \in Entry
  BY DataFacts DEF Placeholder, Entry
<1> QED
  BY <1>1, DataFacts DEF Placeholder

\* The call's placeholder enters, after the blocks of V (none, or the head of
\* the FIFO) left: a clean one without a trace, another to its temp file.
LEMMA InsertStep ==
    ASSUME IndInv, NEW t \in Threads, Missed(t),
           NEW V \in SUBSET Blocks, \A c \in V : IsReady(c) /\ c \notin activeTemp,
           NEW es, es = [c \in Blocks |-> IF c \in V THEN None ELSE entries[c]],
           NEW q \in Seq(Blocks), IsInjective(q), ToSet(q) = ToSet(fifo) \ V, V \subseteq ToSet(fifo),
           Len(q) < FifoCapacity, Insert(t, es, q),
           spilled' = spilled \cup {c \in V : ~Clean(entries[c])},
           temp' \in [Blocks -> Data \cup {Missing}], \A c \in Blocks \ V : temp'[c] = temp[c],
           \A c \in V : IF Clean(entries[c]) THEN temp'[c] = temp[c] ELSE temp'[c] = entries[c].data,
           TempCount' <= TempMaxFiles, faults' \in Nat
    PROVE  IndInv' /\ \A c \in Blocks : Content(c)' = Content(c)
<1> USE DEF IndInv
<1> DEFINE b == Block(t)
           p == Placeholder(t)
<1>1. call[t] \in AnyCall /\ b \in Blocks /\ b = call[t].block /\ ~Resident(b) /\ b \notin V /\ pc[t] = "plan"
      /\ (b \in spilled => b \notin activeTemp)
  BY CallBlock DEF Missed, TempInUse, IsReady
<1>2. /\ p \in Entry /\ p # None /\ p.load = IF b \in spilled THEN "rehydrating" ELSE "loadingRemote"
      /\ p.load # "ready" /\ ~p.dirty /\ ~p.snapshot
      /\ p.patch = IF call[t].kind = "write" THEN call[t] ELSE None
  BY <1>1, PlaceholderType
<1> HIDE DEF p
<1>3. /\ entries' \in [Blocks -> Entry \cup {None}] /\ entries'[b] = p
      /\ \A c \in Blocks \ {b} : entries'[c] = IF c \in V THEN None ELSE entries[c]
  BY <1>1, <1>2 DEF Insert, TypeOK, p
<1>4. /\ fifo' = Append(q, b) /\ activeTemp' = (IF b \in spilled THEN activeTemp \cup {b} ELSE activeTemp)
      /\ pc' = [pc EXCEPT ![t] = IF b \in spilled THEN "rehydrate" ELSE "load"]
      /\ UNCHANGED <<lru, stopped, right, worker, call, reply, fetched>>
  BY DEF Insert, Go
<1>5. /\ waiters' \in Nat /\ forTemp' \in [Threads -> BOOLEAN] /\ waiters' = Cardinality(InCount')
      /\ ~forTemp'[t] /\ \A u \in Threads : u # t => forTemp'[u] = forTemp[u]
  BY ReleaseStep, CountedThreads DEF ThreadsOK, Insert
<1>6. \A c \in V : IsReady(c) /\ c \notin activeTemp /\ c # b /\ entries[c] # None /\ entries[c] \in Entry
                   /\ entries[c].data \in Data /\ c \notin spilled
  BY <1>1 DEF IsReady, Resident, TypeOK, Entry, CachedOK, BlocksOK
<1>7. /\ spilled' \subseteq Blocks /\ (b \in spilled') = (b \in spilled)
      /\ \A c \in Blocks \ V : (c \in spilled') = (c \in spilled)
      /\ \A c \in V : (c \in spilled') = ~Clean(entries[c])
  BY <1>1, <1>6 DEF TypeOK
<1>8. \A c \in Blocks \ V : temp'[c] = temp[c]
  OBVIOUS
<1> HIDE DEF b
<1>9. \A u \in Threads : Loading(u) => /\ u # t /\ Block(u)' = Block(u) /\ Block(u) \in Blocks /\ Block(u) # b
                                        /\ Block(u) \notin V /\ entries'[Block(u)] = entries[Block(u)] /\ Loading(u)' /\ pc'[u] = pc[u]
  <2> SUFFICES ASSUME NEW u \in Threads, Loading(u)
               PROVE  /\ u # t /\ Block(u)' = Block(u) /\ Block(u) \in Blocks /\ Block(u) # b
                      /\ Block(u) \notin V /\ entries'[Block(u)] = entries[Block(u)] /\ Loading(u)' /\ pc'[u] = pc[u]
    OBVIOUS
  <2>1. u # t /\ Block(u)' = Block(u) /\ pc'[u] = pc[u] /\ Loading(u)'
    BY <1>1, <1>4 DEF Loading, Block, TypeOK
  <2>2. Block(u) \in Blocks /\ Resident(Block(u)) /\ ~IsReady(Block(u))
    BY LoadingBlock
  <2> QED
    BY <1>1, <1>3, <1>6, <2>1, <2>2
<1>10. TypeOK'
  <2>1. fifo' \in Seq(Blocks)
    BY <1>1, <1>4
  <2> QED
    BY <1>1, <1>3, <1>4, <1>5, <1>7, <2>1 DEF TypeOK
<1>11. QueuesHoldResident'
  <2>1. /\ IsInjective(lru) /\ Len(lru) <= LruCapacity /\ ToSet(fifo) \cap ToSet(lru) = {}
        /\ ToSet(fifo) \cup ToSet(lru) = {c \in Blocks : Resident(c)} /\ \A c \in ToSet(lru) : IsReady(c)
    BY DEF CachedOK, QueuesHoldResident
  <2>2. b \notin ToSet(q) /\ b \notin ToSet(lru)
    BY <1>1, <2>1
  <2>3. IsInjective(fifo') /\ ToSet(fifo') = ToSet(q) \cup {b} /\ Len(fifo') = Len(q) + 1
    BY <1>1, <1>4, <2>2, AppendedQueue
  <2>4. Len(fifo') <= FifoCapacity
    BY <2>3, ConstantsAssumption
  <2>5. {c \in Blocks : Resident(c)'} = ({c \in Blocks : Resident(c)} \ V) \cup {b}
    BY <1>1, <1>2, <1>3 DEF Resident
  <2>6. \A c \in ToSet(lru) : c \in Blocks /\ c \notin V /\ c # b
    BY <2>1, <2>2
  <2>7. \A c \in ToSet(lru) : IsReady(c)'
    BY <1>3, <2>1, <2>6 DEF IsReady, Resident
  <2> QED
    BY <1>4, <2>1, <2>2, <2>3, <2>4, <2>5, <2>6, <2>7 DEF QueuesHoldResident
<1>12. BlocksOK'
  BY <1>1, <1>2, <1>3, <1>4, <1>7 DEF CachedOK, BlocksOK, Resident, IsReady
<1>13. Flushing => worker.block \in Blocks /\ worker.block \in activeTemp /\ worker.block \notin V /\ worker.block # b
  BY <1>1, <1>6, FlushBlock DEF TempUserFindsBlock, Flushing, IsReady, FlushFindsBlock, LoadFindsBlock
<1>14. FlushOK'
  BY <1>3, <1>4, <1>8, <1>13 DEF CachedOK, FlushOK, IsReady, Resident, Flushing, WorkerAt
<1>15. SnapshotsOK'
  BY <1>2, <1>3, <1>4, <1>8 DEF CachedOK, SnapshotsOK, IsReady, Resident, WorkerAt
<1>16. CleanIsOnRight'
  BY <1>2, <1>3, <1>4 DEF CachedOK, CleanIsOnRight, IsReady, Resident, Clean
<1>17. TempFilesWithinLimit'
  <2> SUFFICES ASSUME NEW c \in Blocks, temp'[c] # Missing, c \notin spilled'
               PROVE  /\ Resident(c)'
                      /\ \/ IsReady(c)' /\ entries'[c].snapshot
                         \/ entries'[c].load = "rehydrating"
    BY DEF TempFilesWithinLimit
  <2>1. c \notin V
    BY <1>6, <1>7 DEF CachedOK, TempFilesWithinLimit, Clean, IsReady
  <2>2. Resident(c) /\ ((IsReady(c) /\ entries[c].snapshot) \/ entries[c].load = "rehydrating")
    BY <1>7, <1>8, <2>1 DEF CachedOK, TempFilesWithinLimit, IsReady
  <2>3. entries'[c] = entries[c]
    BY <1>1, <1>3, <2>1, <2>2
  <2> QED
    BY <2>2, <2>3 DEF Resident, IsReady
<1>18. ThreadsOK'
  <2>1. CallsOK'
    BY <1>1, <1>4, <1>8, <1>9 DEF ThreadsOK, CallsOK, TypeOK, Block, Loading
  <2>2. LoadersOK'
    <3>1. ASSUME NEW u \in Threads, Loading(u)' PROVE u = t \/ Loading(u)
      BY <1>3, <1>4, <3>1 DEF Loading, TypeOK
    <3>2. Block(t)' = b
      BY <1>1, <1>4 DEF Block
    <3>3. ASSUME NEW u \in Threads, Loading(u)'
          PROVE  Resident(Block(u))' /\ (entries[Block(u)].patch = IF call[u].kind = "write" THEN call[u] ELSE None)'
      <4>1. CASE u = t
        BY <1>2, <1>3, <1>4, <3>2, <4>1 DEF Resident
      <4>2. CASE Loading(u)
        BY <1>4, <1>9, <4>2 DEF ThreadsOK, LoadersOK, Resident
      <4> QED
        BY <3>1, <3>3, <4>1, <4>2
    <3>4. ASSUME NEW u \in Threads, NEW w \in Threads, Loading(u)', Loading(w)', Block(u)' = Block(w)' PROVE u = w
      BY <1>9, <3>1, <3>2, <3>4 DEF ThreadsOK, LoadersOK
    <3> QED
      BY <3>3, <3>4 DEF LoadersOK
  <2>3. WaitersOK' /\ WaitersCounted'
    BY <1>1, <1>4, <1>5, CountedThreadsNext DEF ThreadsOK, WaitersOK, TypeOK
  <2> QED
    BY <2>1, <2>2, <2>3 DEF ThreadsOK
<1>19. TempUserFindsBlock'
  <2>1. FlushFindsBlock'
    BY <1>3, <1>4, <1>7, <1>13 DEF TempUserFindsBlock, FlushFindsBlock, Resident, IsReady, Flushing
  <2>2. ASSUME NEW u \in Threads
        PROVE  /\ pc'[u] \in {"rehydrate", "rehydrated"} =>
                    /\ Block(u)' \in spilled' \cap activeTemp'
                    /\ Resident(Block(u))' /\ entries'[Block(u)'].load = "rehydrating"
               /\ pc'[u] \in {"load", "loaded"} =>
                    Resident(Block(u))' /\ entries'[Block(u)'].load = "loadingRemote"
    <3>1. CASE u = t
      <4>1. Block(t)' = b
        BY <1>1, <1>4 DEF Block
      <4> QED
        BY <1>1, <1>2, <1>3, <1>4, <1>7, <3>1, <4>1 DEF Resident, TypeOK
    <3>2. CASE u # t
      BY <1>1, <1>4, <1>7, <1>9, <3>2 DEF TempUserFindsBlock, Resident, Loading, TypeOK, FlushFindsBlock, LoadFindsBlock, Flushing
    <3> QED
      BY <3>1, <3>2
  <2> QED
    BY <2>1, <2>2 DEF TempUserFindsBlock, Flushing, Resident, FlushFindsBlock, LoadFindsBlock
<1>20. \A c \in Blocks : Content(c)' = Content(c)
  <2> SUFFICES ASSUME NEW c \in Blocks PROVE Content(c)' = Content(c)
    OBVIOUS
  <2>1. CASE c = b
    BY <1>1, <1>2, <1>3, <1>4, <1>7, <1>8, <2>1 DEF Content, IsReady, Resident
  <2>2. CASE c \in V
    BY <1>3, <1>4, <1>6, <1>7, <2>2, DataFacts DEF Content, IsReady, Resident, CachedOK, CleanIsOnRight, Missing
  <2>3. CASE c # b /\ c \notin V
    BY <1>3, <1>4, <1>7, <1>8, <2>3 DEF Content, IsReady, Resident
  <2> QED
    BY <2>1, <2>2, <2>3
<1> QED
  BY <1>10, <1>11, <1>12, <1>14, <1>15, <1>16, <1>17, <1>18, <1>19, <1>20 DEF CachedOK

\* There is a free place in the FIFO.
LEMMA EnterFreeStep ==
    ASSUME IndInv, NEW t \in Threads, EnterFree(t)
    PROVE  IndInv' /\ \A c \in Blocks : Content(c)' = Content(c)
<1> USE DEF IndInv, EnterFree
<1> DEFINE V == {}
<1>1. /\ fifo \in Seq(Blocks) /\ IsInjective(fifo) /\ ToSet(fifo) = ToSet(fifo) \ V /\ V \subseteq ToSet(fifo)
      /\ Len(fifo) < FifoCapacity
  <2>1. fifo \in Seq(Blocks) /\ IsInjective(fifo) /\ ~(Len(fifo) >= FifoCapacity)
    BY DEF TypeOK, CachedOK, QueuesHoldResident, FifoFull
  <2> QED
    BY <2>1, ConstantsAssumption
<1>2. entries = [c \in Blocks |-> IF c \in V THEN None ELSE entries[c]]
  BY DEF TypeOK
<1>3. spilled' = spilled \cup {c \in V : ~Clean(entries[c])} /\ temp' \in [Blocks -> Data \cup {Missing}] /\ faults' \in Nat
  BY DEF TypeOK
<1>4. TempCount' <= TempMaxFiles
  <2>1. \A c \in Blocks : (Resident(c)' /\ entries'[c].snapshot) <=> (Resident(c) /\ entries[c].snapshot)
    <3>1. Block(t) \in Blocks /\ ~Resident(Block(t)) /\ ~Placeholder(t).snapshot
      BY CallBlock, PlaceholderType DEF Missed
    <3>2. entries' = [entries EXCEPT ![Block(t)] = Placeholder(t)]
      BY DEF Insert
    <3> QED
      BY <3>1, <3>2 DEF Resident, TypeOK
  <2>2. {c \in Blocks : Resident(c) /\ entries[c].snapshot}' = {c \in Blocks : Resident(c) /\ entries[c].snapshot}
    BY <2>1
  <2> QED
    BY <2>2 DEF TempCount, CachedOK, TempFilesWithinLimit
<1>5. Missed(t) /\ Insert(t, entries, fifo) /\ \A c \in Blocks : temp'[c] = temp[c]
  OBVIOUS
<1>6. V \in SUBSET Blocks /\ \A c \in V : FALSE
  OBVIOUS
<1> HIDE DEF IndInv, EnterFree, V
<1> QED
  BY <1>1, <1>2, <1>3, <1>4, <1>5, <1>6, InsertStep

\* What the steps that evict know of the head of the FIFO.
LEMMA VictimFacts ==
    ASSUME IndInv, FifoFull, ~VictimBusy
    PROVE  /\ fifo \in Seq(Blocks) /\ fifo # <<>> /\ Victim \in Blocks /\ Victim \in ToSet(fifo)
           /\ IsReady(Victim) /\ Victim \notin activeTemp /\ Victim \notin spilled
           /\ entries[Victim] \in Entry /\ entries[Victim].data \in Data /\ entries[Victim] # None
           /\ Tail(fifo) \in Seq(Blocks) /\ IsInjective(Tail(fifo)) /\ ToSet(Tail(fifo)) = ToSet(fifo) \ {Victim}
           /\ Len(Tail(fifo)) < FifoCapacity
           /\ Evicted = [c \in Blocks |-> IF c \in {Victim} THEN None ELSE entries[c]]
<1> USE DEF IndInv
<1>1. fifo \in Seq(Blocks) /\ IsInjective(fifo) /\ Len(fifo) <= FifoCapacity /\ Len(fifo) >= FifoCapacity
  BY DEF TypeOK, CachedOK, QueuesHoldResident, FifoFull
<1>2. fifo # <<>>
  BY <1>1, ConstantsAssumption
<1>3. /\ Victim \in ToSet(fifo) /\ Victim \in Blocks /\ Tail(fifo) \in Seq(Blocks) /\ IsInjective(Tail(fifo))
      /\ ToSet(Tail(fifo)) = ToSet(fifo) \ {Victim} /\ Len(Tail(fifo)) = Len(fifo) - 1
  BY <1>1, <1>2, TailQueue DEF Victim
<1>4. Len(Tail(fifo)) < FifoCapacity
  BY <1>1, <1>3, ConstantsAssumption
<1>5. IsReady(Victim) /\ Victim \notin activeTemp
  BY DEF VictimBusy
<1>6. entries[Victim] \in Entry /\ entries[Victim] # None /\ entries[Victim].data \in Data /\ Victim \notin spilled
  BY <1>3, <1>5 DEF IsReady, Resident, TypeOK, Entry, CachedOK, BlocksOK
<1>7. Evicted = [c \in Blocks |-> IF c \in {Victim} THEN None ELSE entries[c]]
  <2> DEFINE v == Victim
  <2>1. v \in Blocks /\ entries \in [Blocks -> Entry \cup {None}]
    BY <1>3 DEF TypeOK
  <2> HIDE DEF v
  <2>2. [entries EXCEPT ![v] = None] = [c \in Blocks |-> IF c \in {v} THEN None ELSE entries[c]]
    BY <2>1
  <2> QED
    BY <2>2 DEF v, Evicted
<1> QED
  BY <1>1, <1>2, <1>3, <1>4, <1>5, <1>6, <1>7

\* A clean victim goes.
LEMMA EvictCleanStep ==
    ASSUME IndInv, NEW t \in Threads, EvictClean(t)
    PROVE  IndInv' /\ \A c \in Blocks : Content(c)' = Content(c)
<1> DEFINE v == Victim
           V == {v}
<1>1. Missed(t) /\ FifoFull /\ ~VictimBusy /\ Clean(entries[v]) /\ Insert(t, Evicted, Tail(fifo))
      /\ UNCHANGED <<spilled, temp, faults>>
  BY DEF EvictClean
<1>2. /\ v \in Blocks /\ V \in SUBSET Blocks /\ V \subseteq ToSet(fifo) /\ \A c \in V : IsReady(c) /\ c \notin activeTemp
      /\ Tail(fifo) \in Seq(Blocks) /\ IsInjective(Tail(fifo)) /\ ToSet(Tail(fifo)) = ToSet(fifo) \ V
      /\ Len(Tail(fifo)) < FifoCapacity
      /\ Evicted = [c \in Blocks |-> IF c \in V THEN None ELSE entries[c]]
      /\ v \notin spilled /\ IsReady(v)
  BY <1>1, VictimFacts
<1> HIDE DEF v
<1>3. spilled' = spilled \cup {c \in V : ~Clean(entries[c])} /\ temp' \in [Blocks -> Data \cup {Missing}] /\ faults' \in Nat
  BY <1>1 DEF IndInv, TypeOK
<1>4. TempCount' <= TempMaxFiles
  <2>1. \A c \in Blocks : (Resident(c)' /\ entries'[c].snapshot) <=> (Resident(c) /\ entries[c].snapshot)
    <3>1. Block(t) \in Blocks /\ ~Resident(Block(t)) /\ ~Placeholder(t).snapshot
      BY <1>1, CallBlock, PlaceholderType DEF Missed
    <3>2. entries' = [Evicted EXCEPT ![Block(t)] = Placeholder(t)]
      BY <1>1 DEF Insert
    <3> QED
      BY <1>1, <1>2, <3>1, <3>2 DEF Resident, Clean
  <2>2. {c \in Blocks : Resident(c) /\ entries[c].snapshot}' = {c \in Blocks : Resident(c) /\ entries[c].snapshot}
    BY <2>1
  <2> QED
    BY <1>1, <2>2 DEF TempCount, IndInv, CachedOK, TempFilesWithinLimit
<1>5. \A c \in Blocks : temp'[c] = temp[c]
  BY <1>1
<1>6. \A c \in V : Clean(entries[c])
  BY <1>1
<1> HIDE DEF V
<1> QED
  BY <1>1, <1>2, <1>3, <1>4, <1>5, <1>6, InsertStep

\* A dirty victim goes to its temp file, one with a snapshot stays there.
LEMMA SpillStep ==
    ASSUME IndInv, NEW t \in Threads, Spill(t)
    PROVE  IndInv' /\ \A c \in Blocks : Content(c)' = Content(c)
<1> DEFINE v == Victim
           V == {v}
<1>1. Missed(t) /\ FifoFull /\ ~VictimBusy /\ ~Clean(entries[v]) /\ ~NoTempSlot /\ Insert(t, Evicted, Tail(fifo))
      /\ temp' = SpilledTemp /\ spilled' = spilled \cup {v} /\ UNCHANGED faults
  BY DEF Spill, SpillReady, NoFault
<1>2. /\ v \in Blocks /\ V \in SUBSET Blocks /\ V \subseteq ToSet(fifo) /\ \A c \in V : IsReady(c) /\ c \notin activeTemp
      /\ Tail(fifo) \in Seq(Blocks) /\ IsInjective(Tail(fifo)) /\ ToSet(Tail(fifo)) = ToSet(fifo) \ V
      /\ Len(Tail(fifo)) < FifoCapacity
      /\ Evicted = [c \in Blocks |-> IF c \in V THEN None ELSE entries[c]]
      /\ v \notin spilled /\ IsReady(v) /\ v \notin activeTemp
      /\ entries[v] \in Entry /\ entries[v].data \in Data
  BY <1>1, VictimFacts
<1>3. temp' = (IF entries[v].dirty THEN [temp EXCEPT ![v] = entries[v].data] ELSE temp)
  BY <1>1 DEF SpilledTemp
<1>4. NoTempSlot <=> ~entries[v].snapshot /\ TempCount >= TempMaxFiles
  BY DEF NoTempSlot
<1> HIDE DEF v
<1>5. ~entries[v].dirty => temp[v] = entries[v].data
  <2>1. Flushing => worker.block # v
    BY <1>2, FlushBlock
  <2> QED
    BY <1>1, <1>2, <2>1 DEF IndInv, CachedOK, SnapshotsOK, Flushing, WorkerAt, Clean
<1>6. temp' \in [Blocks -> Data \cup {Missing}] /\ temp'[v] = entries[v].data /\ \A c \in Blocks \ V : temp'[c] = temp[c]
  BY <1>2, <1>3, <1>5 DEF IndInv, TypeOK
<1>7. spilled' = spilled \cup {c \in V : ~Clean(entries[c])} /\ faults' \in Nat
  BY <1>1 DEF IndInv, TypeOK
<1>8. TempCount' <= TempMaxFiles
  <2>1. \A c \in Blocks : (Resident(c)' /\ entries'[c].snapshot) <=> (c # v /\ Resident(c) /\ entries[c].snapshot)
    <3>1. Block(t) \in Blocks /\ ~Resident(Block(t)) /\ ~Placeholder(t).snapshot
      BY <1>1, CallBlock, PlaceholderType DEF Missed
    <3>2. entries' = [Evicted EXCEPT ![Block(t)] = Placeholder(t)]
      BY <1>1 DEF Insert
    <3> QED
      BY <1>1, <1>2, <3>1, <3>2 DEF Resident
  <2>2. Snapshots' = Snapshots \ {v}
    BY <2>1 DEF Snapshots
  <2>3. IsFiniteSet(Snapshots) /\ IsFiniteSet(spilled)
    BY ConstantsAssumption, FS_Subset DEF Snapshots, IndInv, TypeOK
  <2>4. /\ Cardinality(Snapshots) \in Nat /\ Cardinality(spilled) \in Nat
        /\ Cardinality(Snapshots \ {v}) = IF v \in Snapshots THEN Cardinality(Snapshots) - 1 ELSE Cardinality(Snapshots)
        /\ Cardinality(spilled \cup {v}) = Cardinality(spilled) + 1
    BY <1>2, <2>3, FS_CardinalityType, FS_RemoveElement, FS_AddElement
  <2>5. v \in Snapshots <=> entries[v].snapshot
    BY <1>2 DEF Snapshots, IsReady
  <2>6. TempCount = Cardinality(spilled) + Cardinality(Snapshots)
    BY DEF TempCount, Snapshots
  <2>7. TempCount' = Cardinality(spilled \cup {v}) + Cardinality(Snapshots \ {v})
    BY <1>1, <2>2 DEF TempCount, Snapshots
  <2>8. TempCount <= TempMaxFiles /\ TempMaxFiles \in Nat
    BY ConstantsAssumption DEF IndInv, CachedOK, TempFilesWithinLimit
  <2> HIDE DEF v
  <2> QED
    BY <1>1, <1>4, <2>4, <2>5, <2>6, <2>7, <2>8
<1>9. \A c \in V : ~Clean(entries[c]) /\ temp'[c] = entries[c].data
  BY <1>1, <1>6
<1> HIDE DEF V
<1> QED
  BY <1>1, <1>2, <1>6, <1>7, <1>8, <1>9, InsertStep

\* The temp file of the victim cannot be written.
LEMMA SpillFailsStep ==
    ASSUME IndInv, NEW t \in Threads, SpillFails(t)
    PROVE  IndInv' /\ \A c \in Blocks : Content(c)' = Content(c)
<1> USE DEF IndInv
<1> DEFINE v == Victim
<1>1. pc[t] = "plan" /\ FifoFull /\ ~VictimBusy /\ entries[v].dirty
  BY DEF SpillFails, SpillReady, Missed
<1>2. v \in Blocks /\ IsReady(v) /\ v \notin activeTemp /\ v \notin spilled
  BY <1>1, VictimFacts
<1>3. /\ temp' = temp \/ temp' = [temp EXCEPT ![v] = Missing]
      /\ faults' \in Nat
  BY DEF SpillFails, Fault, TypeOK
<1>4. /\ reply' = [reply EXCEPT ![t] = Failed] /\ pc' = [pc EXCEPT ![t] = "done"]
      /\ UNCHANGED <<entries, fifo, lru, spilled, activeTemp, stopped, right, worker, call, fetched>>
  BY DEF SpillFails, Answer, Go, residentVars
<1>5. /\ waiters' \in Nat /\ forTemp' \in [Threads -> BOOLEAN] /\ waiters' = Cardinality(InCount')
      /\ ~forTemp'[t] /\ \A u \in Threads : u # t => forTemp'[u] = forTemp[u]
  BY ReleaseStep, CountedThreads DEF ThreadsOK, SpillFails
<1> HIDE DEF v
<1>6. /\ temp' \in [Blocks -> Data \cup {Missing}]
      /\ \A c \in Blocks : c # v => temp'[c] = temp[c]
      /\ \A c \in Blocks : temp'[c] # Missing => temp[c] # Missing
  BY <1>2, <1>3 DEF TypeOK
<1>7. TypeOK'
  BY <1>3, <1>4, <1>5, <1>6 DEF TypeOK
<1>8. Flushing => worker.block \in Blocks /\ worker.block # v
  BY <1>2, FlushBlock
<1>9. CachedOK'
  <2> USE DEF CachedOK
  <2>1. BlocksOK'
    BY <1>4 DEF BlocksOK, Resident, IsReady
  <2>2. FlushOK'
    BY <1>4, <1>6, <1>8 DEF FlushOK, IsReady, Resident, Flushing, WorkerAt
  <2>3. SnapshotsOK'
    BY <1>1, <1>4, <1>6 DEF SnapshotsOK, IsReady, Resident, WorkerAt
  <2>4. QueuesHoldResident'
    BY <1>4 DEF QueuesHoldResident, IsReady, Resident
  <2>5. TempFilesWithinLimit'
    BY <1>4, <1>6 DEF TempFilesWithinLimit, TempCount, IsReady, Resident
  <2>6. CleanIsOnRight'
    BY <1>4 DEF CleanIsOnRight, IsReady, Resident, Clean
  <2> QED
    BY <2>1, <2>2, <2>3, <2>4, <2>5, <2>6
<1>10. ThreadsOK'
  <2>1. CallsOK'
    <3> SUFFICES ASSUME NEW u \in Threads
                 PROVE  /\ (call'[u] = None) = (pc'[u] = "idle")
                        /\ (reply'[u] # None) = (pc'[u] = "done")
                        /\ pc'[u] \notin {"loaded", "rehydrated"} => fetched'[u] = None
                        /\ pc'[u] = "loaded" => fetched'[u] \in {right'[Block(u)'], Failed}
                        /\ pc'[u] = "rehydrated" => fetched'[u] \in {temp'[Block(u)'], Failed}
      BY DEF CallsOK
    <3>1. CASE u = t
      BY <1>1, <1>4, <3>1, DataFacts DEF ThreadsOK, CallsOK, TypeOK
    <3>2. CASE u # t
      <4>1. pc'[u] = pc[u] /\ reply'[u] = reply[u] /\ Block(u)' = Block(u)
        BY <1>4, <3>2 DEF TypeOK, Block
      <4>2. pc[u] = "rehydrated" => Block(u) \in Blocks /\ Block(u) # v
        BY <1>2, LoadingBlock DEF Loading
      <4> QED
        BY <1>4, <1>6, <4>1, <4>2 DEF ThreadsOK, CallsOK
    <3> QED
      BY <3>1, <3>2
  <2>2. LoadersOK'
    BY <1>1, <1>4 DEF ThreadsOK, LoadersOK, Loading, TypeOK, Block, Resident
  <2>3. WaitersOK' /\ WaitersCounted'
    BY <1>4, <1>5, CountedThreadsNext DEF ThreadsOK, WaitersOK, TypeOK
  <2> QED
    BY <2>1, <2>2, <2>3 DEF ThreadsOK
<1>11. TempUserFindsBlock'
  BY <1>1, <1>4 DEF TempUserFindsBlock, FlushFindsBlock, LoadFindsBlock, Flushing, Resident, IsReady, Block, TypeOK
<1>12. \A c \in Blocks : Content(c)' = Content(c)
  BY <1>2, <1>4, <1>6 DEF Content, IsReady, Resident
<1> QED
  BY <1>7, <1>9, <1>10, <1>11, <1>12

(***************************************************************************)
(* The end of a load.                                                      *)
(***************************************************************************)

\* notify_all wakes the sleepers and, when it waits, the worker.
LEMMA NotifyStep ==
    ASSUME TypeOK, NEW t \in Threads, GoAndNotify(t, "done")
    PROVE  /\ pc' \in [Threads -> {"idle", "plan", "asleep", "load", "rehydrate", "loaded", "rehydrated", "done"}]
           /\ pc'[t] = "done"
           /\ \A u \in Threads : u # t => pc'[u] = IF pc[u] = "asleep" THEN "plan" ELSE pc[u]
           /\ worker' \in [pc : {"waiting", "woken", "scanning", "read", "write", "remove", "finish", "giveUp", "ended"},
                           block : Blocks \cup {None}, data : Data \cup {None}]
           /\ worker'.block = worker.block /\ worker'.data = worker.data
           /\ worker'.pc = IF worker.pc = "waiting" THEN "woken" ELSE worker.pc
<1>1. pc' = [Woken EXCEPT ![t] = "done"]
  BY DEF GoAndNotify
<1>2. worker' = IF worker.pc = "waiting" THEN [worker EXCEPT !.pc = "woken"] ELSE worker
  BY DEF GoAndNotify
<1>3. Woken \in [Threads -> {"idle", "plan", "asleep", "load", "rehydrate", "loaded", "rehydrated", "done"}]
  BY DEF Woken, TypeOK
<1> QED
  BY <1>1, <1>2, <1>3 DEF Woken, TypeOK

\* The entry that a load leaves behind.
LEMMA ReadyEntryType ==
    ASSUME NEW d \in Data, NEW x \in BOOLEAN, NEW y \in BOOLEAN
    PROVE  LET e == ReadyEntry(d, x, y) IN
           e \in Entry /\ e # None /\ e.load = "ready" /\ e.data = d /\ e.dirty = x /\ e.snapshot = y /\ e.patch = None
<1>1. ReadyEntry(d, x, y) \in Entry
  BY DEF ReadyEntry, Entry
<1> QED
  BY <1>1, DataFacts DEF ReadyEntry

\* What a call finds when its read came back.
LEMMA LoadFacts ==
    ASSUME IndInv, NEW t \in Threads, Loads(t)
    PROVE  LET b == Block(t)  e == entries[b] IN
           /\ call[t] \in AnyCall /\ b \in Blocks /\ b = call[t].block /\ Loading(t)
           /\ e \in Entry /\ Resident(b) /\ ~IsReady(b) /\ ~e.dirty /\ ~e.snapshot
           /\ e.patch = IF call[t].kind = "write" THEN call[t] ELSE None
           /\ pc[t] = "loaded" => b \notin spilled /\ fetched[t] \in {right[b], Failed}
           /\ pc[t] = "rehydrated" => b \in spilled /\ b \in activeTemp /\ fetched[t] \in {temp[b], Failed}
           /\ fetched[t] # Failed => fetched[t] \in Data /\ Content(b) = fetched[t]
           /\ b \in ToSet(fifo) /\ (Flushing => worker.block # b)
           /\ \A u \in Threads : Loading(u) /\ u # t => Block(u) # b
<1> USE DEF IndInv
<1> DEFINE b == Block(t)
           e == entries[b]
<1>1. Loading(t)
  BY DEF Loads, Loading
<1>2. /\ call[t] \in AnyCall /\ b \in Blocks /\ b = call[t].block /\ e \in Entry /\ Resident(b) /\ ~IsReady(b)
      /\ e.load = IF pc[t] \in {"load", "loaded"} THEN "loadingRemote" ELSE "rehydrating"
  BY <1>1, LoadingBlock
<1>3. ~e.dirty /\ ~e.snapshot /\ (b \in spilled) = (e.load = "rehydrating")
  BY <1>2 DEF CachedOK, BlocksOK
<1>4. e.patch = IF call[t].kind = "write" THEN call[t] ELSE None
  BY <1>1 DEF ThreadsOK, LoadersOK
<1>5. /\ pc[t] = "loaded" => b \notin spilled /\ fetched[t] \in {right[b], Failed}
      /\ pc[t] = "rehydrated" => b \in spilled /\ b \in activeTemp /\ fetched[t] \in {temp[b], Failed}
  BY <1>2, <1>3 DEF ThreadsOK, CallsOK, TempUserFindsBlock, LoadFindsBlock
<1>6. fetched[t] # Failed => fetched[t] \in Data /\ Content(b) = fetched[t]
  BY <1>2, <1>5 DEF Loads, TypeOK, Content, Missing
<1>7. b \in ToSet(fifo)
  BY <1>2 DEF CachedOK, QueuesHoldResident
<1>8. Flushing => worker.block # b
  BY <1>2 DEF TempUserFindsBlock, FlushFindsBlock
<1>9. \A u \in Threads : Loading(u) /\ u # t => Block(u) # b
  BY <1>1 DEF ThreadsOK, LoadersOK
<1> QED
  BY <1>1, <1>2, <1>3, <1>4, <1>5, <1>6, <1>7, <1>8, <1>9

\* The data is there: the placeholder becomes a block.
LEMMA FinishLoadStep ==
    ASSUME IndInv, NEW t \in Threads, FinishLoad(t)
    PROVE  /\ IndInv' /\ \A c \in Blocks : c # Block(t) => Content(c)' = Content(c)
           /\ Content(Block(t))' = Applied(Content(Block(t)), entries[Block(t)].patch)
           /\ reply' = [reply EXCEPT ![t] = IF call[t].kind = "read" THEN Content(Block(t)) ELSE Done]
<1> USE DEF IndInv
<1> DEFINE b == Block(t)
           patch == entries[b].patch
           d == Applied(fetched[t], patch)
           back == pc[t] = "rehydrated"
           e == ReadyEntry(d, patch # None, back)
<1>1. Loads(t) /\ fetched[t] # Failed
  BY DEF FinishLoad
<1>2. /\ call[t] \in AnyCall /\ b \in Blocks /\ b = call[t].block /\ Loading(t) /\ entries[b] \in Entry
      /\ Resident(b) /\ ~IsReady(b) /\ ~entries[b].dirty /\ ~entries[b].snapshot
      /\ patch = IF call[t].kind = "write" THEN call[t] ELSE None
      /\ ~back => b \notin spilled /\ fetched[t] = right[b]
      /\ back => b \in spilled /\ b \in activeTemp /\ fetched[t] = temp[b]
      /\ fetched[t] \in Data /\ Content(b) = fetched[t]
      /\ Flushing => worker.block # b
      /\ \A u \in Threads : Loading(u) /\ u # t => Block(u) # b
  BY <1>1, LoadFacts DEF Loads
<1>3. d \in Data /\ (patch = None => d = fetched[t])
  BY <1>2, DataFacts DEF Applied
<1>4. e \in Entry /\ e # None /\ e.load = "ready" /\ e.data = d /\ e.dirty = (patch # None) /\ e.snapshot = back /\ e.patch = None
  BY <1>3, ReadyEntryType
<1>5. /\ entries' = [entries EXCEPT ![b] = e]
      /\ spilled' = spilled \ (IF back THEN {b} ELSE {}) /\ activeTemp' = activeTemp \ (IF back THEN {b} ELSE {})
      /\ reply' = [reply EXCEPT ![t] = IF call[t].kind = "read" THEN d ELSE Done]
      /\ fetched' = [fetched EXCEPT ![t] = None] /\ GoAndNotify(t, "done")
      /\ UNCHANGED <<fifo, lru, temp, waiters, stopped, right, faults, call, forTemp>>
  BY DEF FinishLoad, Answer
<1>6. /\ pc' \in [Threads -> {"idle", "plan", "asleep", "load", "rehydrate", "loaded", "rehydrated", "done"}]
      /\ pc'[t] = "done"
      /\ \A u \in Threads : u # t => pc'[u] = IF pc[u] = "asleep" THEN "plan" ELSE pc[u]
      /\ worker' \in [pc : {"waiting", "woken", "scanning", "read", "write", "remove", "finish", "giveUp", "ended"},
                      block : Blocks \cup {None}, data : Data \cup {None}]
      /\ worker'.block = worker.block /\ worker'.data = worker.data
      /\ worker'.pc = IF worker.pc = "waiting" THEN "woken" ELSE worker.pc
  BY <1>5, NotifyStep
<1>7. \A u \in Threads : Loading(u)' => /\ u # t /\ Loading(u) /\ pc'[u] = pc[u] /\ Block(u) # b /\ Block(u)' = Block(u)
                                         /\ Block(u) \in Blocks
  <2> SUFFICES ASSUME NEW u \in Threads, Loading(u)'
               PROVE  /\ u # t /\ Loading(u) /\ pc'[u] = pc[u] /\ Block(u) # b /\ Block(u)' = Block(u)
                      /\ Block(u) \in Blocks
    OBVIOUS
  <2>1. u # t /\ Loading(u) /\ pc'[u] = pc[u]
    BY <1>6 DEF Loading
  <2> QED
    BY <1>2, <1>5, <2>1, LoadingBlock DEF Block
<1> HIDE DEF e
<1>8. entries'[b] = e /\ (\A c \in Blocks : c # b => entries'[c] = entries[c]) /\ entries' \in [Blocks -> Entry \cup {None}]
  BY <1>2, <1>4, <1>5 DEF TypeOK
<1>9. \A c \in Blocks : c # b => (c \in spilled' <=> c \in spilled) /\ (c \in activeTemp' <=> c \in activeTemp)
  BY <1>5
<1>10. b \notin spilled'
  BY <1>2, <1>5
<1> HIDE DEF b, d
<1>11. TypeOK'
  BY <1>2, <1>3, <1>5, <1>6, <1>8 DEF TypeOK
<1>12. BlocksOK'
  BY <1>4, <1>8, <1>9, <1>10 DEF CachedOK, BlocksOK, Resident, IsReady
<1>13. Flushing' => Flushing /\ worker.block \in Blocks /\ worker.block # b
  BY <1>2, <1>6, FlushBlock DEF Flushing
<1>14. FlushOK'
  BY <1>5, <1>6, <1>8, <1>13 DEF CachedOK, FlushOK, IsReady, Resident, Flushing, WorkerAt
<1>15. SnapshotsOK'
  <2> SUFFICES ASSUME NEW c \in Blocks, IsReady(c)', entries'[c].snapshot, ~entries'[c].dirty
               PROVE  temp'[c] = entries'[c].data \/ (WorkerAt("finish") /\ worker.block = c)'
    BY DEF SnapshotsOK
  <2>1. CASE c = b
    BY <1>2, <1>3, <1>4, <1>5, <1>8, <2>1
  <2>2. CASE c # b
    BY <1>5, <1>6, <1>8, <2>2 DEF CachedOK, SnapshotsOK, IsReady, Resident, WorkerAt
  <2> QED
    BY <2>1, <2>2
<1>16. QueuesHoldResident'
  <2>1. \A c \in Blocks : Resident(c)' = Resident(c) /\ (IsReady(c) => IsReady(c)')
    BY <1>2, <1>4, <1>8 DEF Resident, IsReady
  <2>2. {c \in Blocks : Resident(c)}' = {c \in Blocks : Resident(c)}
    BY <2>1
  <2>3. ToSet(lru) \subseteq Blocks
    BY DEF CachedOK, QueuesHoldResident
  <2> QED
    BY <1>5, <2>1, <2>2, <2>3 DEF CachedOK, QueuesHoldResident
<1>17. TempFilesWithinLimit'
  <2>1. TempCount' <= TempMaxFiles
    <3>1. Snapshots' = Snapshots \cup (IF back THEN {b} ELSE {})
      BY <1>2, <1>4, <1>8 DEF Snapshots, Resident
    <3>2. b \notin Snapshots
      BY <1>2 DEF Snapshots
    <3>3. IsFiniteSet(Snapshots) /\ IsFiniteSet(spilled)
      BY ConstantsAssumption, FS_Subset DEF Snapshots, TypeOK
    <3>4. /\ Cardinality(Snapshots) \in Nat /\ Cardinality(spilled) \in Nat
          /\ Cardinality(Snapshots \cup {b}) = Cardinality(Snapshots) + 1
          /\ b \in spilled => Cardinality(spilled \ {b}) = Cardinality(spilled) - 1
      BY <3>2, <3>3, FS_CardinalityType, FS_RemoveElement, FS_AddElement
    <3>5. TempCount = Cardinality(spilled) + Cardinality(Snapshots) /\ TempCount <= TempMaxFiles
      BY DEF TempCount, Snapshots, CachedOK, TempFilesWithinLimit
    <3>6. TempCount' = Cardinality(spilled') + Cardinality(Snapshots')
      BY DEF TempCount, Snapshots
    <3>7. TempMaxFiles \in Nat
      BY ConstantsAssumption
    <3>8. CASE back
      <4>1. spilled' = spilled \ {b} /\ Snapshots' = Snapshots \cup {b} /\ b \in spilled
        BY <1>2, <1>5, <3>1, <3>8
      <4> QED
        BY <3>4, <3>5, <3>6, <3>7, <4>1
    <3>9. CASE ~back
      <4>1. spilled' = spilled /\ Snapshots' = Snapshots
        BY <1>5, <3>1, <3>9
      <4> QED
        BY <3>5, <3>6, <4>1
    <3> QED
      BY <3>8, <3>9
  <2>2. ASSUME NEW c \in Blocks, temp'[c] # Missing, c \notin spilled'
        PROVE  (IsReady(c) /\ entries[c].snapshot)' \/ (Resident(c) /\ entries[c].load = "rehydrating")'
    <3>1. CASE c = b
      BY <1>2, <1>4, <1>5, <1>8, <2>2, <3>1 DEF CachedOK, TempFilesWithinLimit, BlocksOK, IsReady, Resident
    <3>2. CASE c # b
      BY <1>5, <1>8, <1>9, <2>2, <3>2 DEF CachedOK, TempFilesWithinLimit, IsReady, Resident
    <3> QED
      BY <3>1, <3>2
  <2> QED
    BY <2>1, <2>2 DEF TempFilesWithinLimit
<1>18. CleanIsOnRight'
  <2> SUFFICES ASSUME NEW c \in Blocks, IsReady(c)', Clean(entries'[c]) PROVE right'[c] = entries'[c].data
    BY DEF CleanIsOnRight
  <2>1. CASE c = b
    BY <1>2, <1>3, <1>4, <1>5, <1>8, <2>1 DEF Clean
  <2>2. CASE c # b
    BY <1>5, <1>8, <2>2 DEF CachedOK, CleanIsOnRight, IsReady, Resident, Clean
  <2> QED
    BY <2>1, <2>2
<1>19. ThreadsOK'
  <2>1. CallsOK'
    <3> SUFFICES ASSUME NEW u \in Threads
                 PROVE  /\ (call'[u] = None) = (pc'[u] = "idle")
                        /\ (reply'[u] # None) = (pc'[u] = "done")
                        /\ pc'[u] \notin {"loaded", "rehydrated"} => fetched'[u] = None
                        /\ pc'[u] = "loaded" => fetched'[u] \in {right'[Block(u)'], Failed}
                        /\ pc'[u] = "rehydrated" => fetched'[u] \in {temp'[Block(u)'], Failed}
      BY DEF CallsOK
    <3>1. CASE u = t
      BY <1>2, <1>3, <1>5, <1>6, <3>1, DataFacts DEF ThreadsOK, CallsOK, TypeOK
    <3>2. CASE u # t
      <4>1. reply'[u] = reply[u] /\ fetched'[u] = fetched[u] /\ Block(u)' = Block(u)
        BY <1>5, <3>2 DEF TypeOK, Block
      <4> QED
        BY <1>5, <1>6, <3>2, <4>1 DEF ThreadsOK, CallsOK
    <3> QED
      BY <3>1, <3>2
  <2>2. LoadersOK'
    BY <1>5, <1>7, <1>8 DEF ThreadsOK, LoadersOK, Resident
  <2>3. WaitersOK'
    BY <1>2, <1>5, <1>6 DEF ThreadsOK, WaitersOK, Loading
  <2>4. WaitersCounted'
    BY <1>5, <2>3, CountedThreads, CountedThreadsNext DEF ThreadsOK, InCount
  <2> QED
    BY <2>1, <2>2, <2>3, <2>4 DEF ThreadsOK
<1>20. TempUserFindsBlock'
  <2>1. FlushFindsBlock'
    BY <1>6, <1>8, <1>9, <1>13 DEF TempUserFindsBlock, FlushFindsBlock, Flushing, Resident, IsReady
  <2>2. LoadFindsBlock'
    BY <1>7, <1>8, <1>9 DEF TempUserFindsBlock, LoadFindsBlock, Loading, Resident
  <2> QED
    BY <2>1, <2>2 DEF TempUserFindsBlock
<1>21. \A c \in Blocks : c # b => Content(c)' = Content(c)
  BY <1>5, <1>8, <1>9 DEF Content, IsReady, Resident
<1>22. b' = b /\ Content(b)' = d
  <2>1. b' = b
    BY <1>5 DEF b, Block
  <2> QED
    BY <1>4, <1>8, <2>1 DEF Content, IsReady, Resident
<1>23. call[t].kind = "read" => d = Content(b)
  BY <1>2, <1>3
<1> QED
  BY <1>2, <1>5, <1>11, <1>12, <1>14, <1>15, <1>16, <1>17, <1>18, <1>19, <1>20, <1>21, <1>22, <1>23 DEF CachedOK, b, d

\* The read failed: the placeholder goes.
LEMMA AbortLoadStep ==
    ASSUME IndInv, NEW t \in Threads, AbortLoad(t)
    PROVE  IndInv' /\ \A c \in Blocks : Content(c)' = Content(c)
<1> USE DEF IndInv
<1> DEFINE b == Block(t)
           back == pc[t] = "rehydrated"
<1>1. Loads(t) /\ fetched[t] = Failed
  BY DEF AbortLoad
<1>2. /\ call[t] \in AnyCall /\ b \in Blocks /\ b = call[t].block /\ Loading(t)
      /\ Resident(b) /\ ~IsReady(b) /\ ~entries[b].snapshot /\ b \in ToSet(fifo)
      /\ Flushing => worker.block # b
      /\ \A u \in Threads : Loading(u) /\ u # t => Block(u) # b
  BY <1>1, LoadFacts
<1>3. /\ entries' = [entries EXCEPT ![b] = None] /\ fifo' = Unlinked(fifo, b)
      /\ activeTemp' = activeTemp \ (IF back THEN {b} ELSE {})
      /\ reply' = [reply EXCEPT ![t] = Failed]
      /\ fetched' = [fetched EXCEPT ![t] = None] /\ GoAndNotify(t, "done")
      /\ UNCHANGED <<lru, spilled, temp, waiters, stopped, right, faults, call, forTemp>>
  BY DEF AbortLoad, Answer, QueueWithout
<1>4. /\ pc' \in [Threads -> {"idle", "plan", "asleep", "load", "rehydrate", "loaded", "rehydrated", "done"}]
      /\ pc'[t] = "done"
      /\ \A u \in Threads : u # t => pc'[u] = IF pc[u] = "asleep" THEN "plan" ELSE pc[u]
      /\ worker' \in [pc : {"waiting", "woken", "scanning", "read", "write", "remove", "finish", "giveUp", "ended"},
                      block : Blocks \cup {None}, data : Data \cup {None}]
      /\ worker'.block = worker.block /\ worker'.data = worker.data
      /\ worker'.pc = IF worker.pc = "waiting" THEN "woken" ELSE worker.pc
  BY <1>3, NotifyStep
<1>5. \A u \in Threads : Loading(u)' => /\ u # t /\ Loading(u) /\ pc'[u] = pc[u] /\ Block(u) # b /\ Block(u)' = Block(u)
                                         /\ Block(u) \in Blocks
  <2> SUFFICES ASSUME NEW u \in Threads, Loading(u)'
               PROVE  /\ u # t /\ Loading(u) /\ pc'[u] = pc[u] /\ Block(u) # b /\ Block(u)' = Block(u)
                      /\ Block(u) \in Blocks
    OBVIOUS
  <2>1. u # t /\ Loading(u) /\ pc'[u] = pc[u]
    BY <1>4 DEF Loading
  <2> QED
    BY <1>2, <1>3, <2>1, LoadingBlock DEF Block
<1>6. /\ fifo' \in Seq(Blocks) /\ IsInjective(fifo') /\ ToSet(fifo') = ToSet(fifo) \ {b} /\ Len(fifo') = Len(fifo) - 1
      /\ Len(fifo') <= FifoCapacity
  <2>1. fifo \in Seq(Blocks) /\ IsInjective(fifo) /\ Len(fifo) <= FifoCapacity
    BY DEF TypeOK, CachedOK, QueuesHoldResident
  <2>2. /\ fifo' \in Seq(Blocks) /\ IsInjective(fifo') /\ ToSet(fifo') = ToSet(fifo) \ {b} /\ Len(fifo') = Len(fifo) - 1
    BY <1>2, <1>3, <2>1, UnlinkedQueue
  <2> QED
    BY <2>1, <2>2, ConstantsAssumption
<1>7. entries'[b] = None /\ (\A c \in Blocks : c # b => entries'[c] = entries[c]) /\ entries' \in [Blocks -> Entry \cup {None}]
  BY <1>2, <1>3 DEF TypeOK
<1>8. \A c \in Blocks : c # b => (c \in activeTemp' <=> c \in activeTemp)
  BY <1>3
<1> HIDE DEF b
<1>9. TypeOK'
  BY <1>3, <1>4, <1>6, <1>7, DataFacts DEF TypeOK
<1>10. Flushing' => Flushing /\ worker.block \in Blocks /\ worker.block # b
  BY <1>2, <1>4, FlushBlock DEF Flushing
<1>11. CachedOK'
  <2> USE DEF CachedOK
  <2>1. BlocksOK'
    BY <1>3, <1>7 DEF BlocksOK, Resident, IsReady
  <2>2. FlushOK'
    BY <1>3, <1>4, <1>7, <1>10 DEF FlushOK, IsReady, Resident, Flushing, WorkerAt
  <2>3. SnapshotsOK'
    BY <1>3, <1>4, <1>7 DEF SnapshotsOK, IsReady, Resident, WorkerAt
  <2>4. QueuesHoldResident'
    <3>1. {c \in Blocks : Resident(c)}' = {c \in Blocks : Resident(c)} \ {b}
      BY <1>7 DEF Resident
    <3>2. b \notin ToSet(lru) /\ ToSet(lru) \subseteq Blocks
      BY <1>2 DEF QueuesHoldResident
    <3>3. \A c \in ToSet(lru) : IsReady(c)'
      BY <1>7, <3>2 DEF QueuesHoldResident, IsReady, Resident
    <3> QED
      BY <1>3, <1>6, <3>1, <3>2, <3>3 DEF QueuesHoldResident
  <2>5. TempFilesWithinLimit'
    <3>1. {c \in Blocks : Resident(c) /\ entries[c].snapshot}' = {c \in Blocks : Resident(c) /\ entries[c].snapshot}
      BY <1>2, <1>7 DEF Resident
    <3>2. TempCount' = TempCount
      BY <1>3, <3>1 DEF TempCount
    <3>3. ASSUME NEW c \in Blocks, temp'[c] # Missing, c \notin spilled'
          PROVE  (IsReady(c) /\ entries[c].snapshot)' \/ (Resident(c) /\ entries[c].load = "rehydrating")'
      BY <1>2, <1>3, <1>7, <3>3 DEF TempFilesWithinLimit, BlocksOK, IsReady, Resident
    <3> QED
      BY <3>2, <3>3 DEF TempFilesWithinLimit
  <2>6. CleanIsOnRight'
    BY <1>3, <1>7 DEF CleanIsOnRight, IsReady, Resident, Clean
  <2> QED
    BY <2>1, <2>2, <2>3, <2>4, <2>5, <2>6
<1>12. ThreadsOK'
  <2>1. CallsOK'
    <3> SUFFICES ASSUME NEW u \in Threads
                 PROVE  /\ (call'[u] = None) = (pc'[u] = "idle")
                        /\ (reply'[u] # None) = (pc'[u] = "done")
                        /\ pc'[u] \notin {"loaded", "rehydrated"} => fetched'[u] = None
                        /\ pc'[u] = "loaded" => fetched'[u] \in {right'[Block(u)'], Failed}
                        /\ pc'[u] = "rehydrated" => fetched'[u] \in {temp'[Block(u)'], Failed}
      BY DEF CallsOK
    <3>1. CASE u = t
      BY <1>2, <1>3, <1>4, <3>1, DataFacts DEF ThreadsOK, CallsOK, TypeOK
    <3>2. CASE u # t
      <4>1. reply'[u] = reply[u] /\ fetched'[u] = fetched[u] /\ Block(u)' = Block(u)
        BY <1>3, <3>2 DEF TypeOK, Block
      <4> QED
        BY <1>3, <1>4, <3>2, <4>1 DEF ThreadsOK, CallsOK
    <3> QED
      BY <3>1, <3>2
  <2>2. LoadersOK'
    BY <1>3, <1>5, <1>7 DEF ThreadsOK, LoadersOK, Resident
  <2>3. WaitersOK'
    BY <1>2, <1>3, <1>4 DEF ThreadsOK, WaitersOK, Loading
  <2>4. WaitersCounted'
    BY <1>3, <2>3, CountedThreads, CountedThreadsNext DEF ThreadsOK, InCount
  <2> QED
    BY <2>1, <2>2, <2>3, <2>4 DEF ThreadsOK
<1>13. TempUserFindsBlock'
  <2>1. FlushFindsBlock'
    BY <1>3, <1>4, <1>7, <1>8, <1>10 DEF TempUserFindsBlock, FlushFindsBlock, Flushing, Resident, IsReady
  <2>2. LoadFindsBlock'
    BY <1>3, <1>5, <1>7, <1>8 DEF TempUserFindsBlock, LoadFindsBlock, Loading, Resident
  <2> QED
    BY <2>1, <2>2 DEF TempUserFindsBlock
<1>14. \A c \in Blocks : Content(c)' = Content(c)
  BY <1>2, <1>3, <1>7 DEF Content, IsReady, Resident
<1> QED
  BY <1>9, <1>11, <1>12, <1>13, <1>14

(***************************************************************************)
(* The worker.                                                             *)
(***************************************************************************)

\* A step of the worker wakes threads or leaves them alone, and keeps what a
\* loading call relies on.
LEMMA ThreadFrame ==
    ASSUME IndInv, pc' \in {pc, Woken}, UNCHANGED <<waiters, call, reply, forTemp, fetched>>,
           \A u \in Threads : Loading(u) =>
               LET b == Block(u) IN
               /\ entries'[b] = entries[b] /\ temp'[b] = temp[b] /\ right'[b] = right[b]
               /\ (b \in spilled => b \in spilled') /\ (b \in activeTemp => b \in activeTemp')
    PROVE  /\ pc' \in [Threads -> {"idle", "plan", "asleep", "load", "rehydrate", "loaded", "rehydrated", "done"}]
           /\ ThreadsOK' /\ LoadFindsBlock'
<1> USE DEF IndInv
<1>1. pc' \in [Threads -> {"idle", "plan", "asleep", "load", "rehydrate", "loaded", "rehydrated", "done"}]
  BY DEF Woken, TypeOK
<1>2. \A u \in Threads : pc'[u] = pc[u] \/ (pc[u] = "asleep" /\ pc'[u] = "plan")
  BY DEF Woken, TypeOK
<1>3. \A u \in Threads : Block(u)' = Block(u) /\ (Loading(u)' <=> Loading(u))
  BY <1>2 DEF Block, Loading
<1>4. CallsOK'
  BY <1>2, <1>3 DEF ThreadsOK, CallsOK, Loading
<1>5. LoadersOK'
  BY <1>3 DEF ThreadsOK, LoadersOK, Resident
<1>6. WaitersOK'
  BY <1>2 DEF ThreadsOK, WaitersOK
<1>7. WaitersCounted'
  BY <1>6, CountedThreads, CountedThreadsNext DEF ThreadsOK, InCount
<1>8. LoadFindsBlock'
  BY <1>2, <1>3 DEF TempUserFindsBlock, LoadFindsBlock, Loading, Resident
<1> QED
  BY <1>1, <1>4, <1>5, <1>6, <1>7, <1>8 DEF ThreadsOK

\* The block of a loading call is not the one the worker flushes.
LEMMA LoadingApart ==
    ASSUME IndInv, NEW u \in Threads, Loading(u)
    PROVE  /\ Block(u) \in Blocks /\ Resident(Block(u)) /\ ~IsReady(Block(u))
           /\ Flushing => Block(u) # worker.block
BY LoadingBlock DEF IndInv, TempUserFindsBlock, FlushFindsBlock

\* The worker, with nothing to flush, goes to another place.
LEMMA WorkerIdleStep ==
    ASSUME IndInv, ~Flushing, NEW p \in {"waiting", "scanning", "ended"}, WorkerGoes(p),
           UNCHANGED <<residentVars, tempVars, waiters, stopped, right, threadVars>>, faults' \in Nat
    PROVE  IndInv' /\ \A c \in Blocks : Content(c)' = Content(c)
<1> USE DEF IndInv, residentVars, tempVars, threadVars
<1>1. worker' = [worker EXCEPT !.pc = p] /\ worker' \in [pc : {"waiting", "woken", "scanning", "read", "write", "remove",
          "finish", "giveUp", "ended"}, block : Blocks \cup {None}, data : Data \cup {None}]
  BY DEF WorkerGoes, TypeOK
<1>2. worker'.pc = p
  BY <1>1 DEF TypeOK
<1>3. TypeOK'
  BY <1>1 DEF TypeOK
<1>4. CachedOK'
  <2> USE DEF CachedOK
  <2>1. BlocksOK'
    BY DEF BlocksOK, Resident, IsReady
  <2>2. FlushOK'
    BY <1>2 DEF FlushOK, Flushing, WorkerAt
  <2>3. SnapshotsOK'
    BY DEF SnapshotsOK, IsReady, Resident, WorkerAt, Flushing
  <2>4. QueuesHoldResident'
    BY DEF QueuesHoldResident, IsReady, Resident
  <2>5. TempFilesWithinLimit'
    BY DEF TempFilesWithinLimit, TempCount, IsReady, Resident
  <2>6. CleanIsOnRight'
    BY DEF CleanIsOnRight, IsReady, Resident, Clean
  <2> QED
    BY <2>1, <2>2, <2>3, <2>4, <2>5, <2>6
<1>5. ThreadsOK' /\ LoadFindsBlock'
  BY ThreadFrame
<1>6. FlushFindsBlock'
  BY <1>2 DEF FlushFindsBlock, Flushing
<1>7. \A c \in Blocks : Content(c)' = Content(c)
  BY DEF Content, IsReady, Resident
<1> QED
  BY <1>3, <1>4, <1>5, <1>6, <1>7 DEF TempUserFindsBlock

\* The cache is dropped.
LEMMA DropStep ==
    ASSUME IndInv, Drop
    PROVE  IndInv' /\ \A c \in Blocks : Content(c)' = Content(c)
<1> USE DEF IndInv, Drop, residentVars, tempVars, threadVars
<1>1. TypeOK'
  BY DEF TypeOK
<1>2. CachedOK'
  BY CachedFrame
<1>3. ThreadsOK' /\ LoadFindsBlock'
  BY ThreadFrame
<1>4. FlushFindsBlock'
  BY DEF TempUserFindsBlock, FlushFindsBlock, Flushing, Resident, IsReady
<1>5. \A c \in Blocks : Content(c)' = Content(c)
  BY DEF Content, IsReady, Resident
<1> QED
  BY <1>1, <1>2, <1>3, <1>4, <1>5 DEF TempUserFindsBlock

\* The worker takes a temp file.
LEMMA PickTempStep ==
    ASSUME IndInv, PickTemp
    PROVE  IndInv' /\ \A c \in Blocks : Content(c)' = Content(c)
<1> USE DEF IndInv
<1> DEFINE S == IF SpilledIdle # {} THEN SpilledIdle ELSE SnapshotIdle
           b == Min(S)
<1>1. /\ worker.pc = "scanning" /\ SpilledIdle \cup SnapshotIdle # {} /\ activeTemp' = activeTemp \cup {b}
      /\ worker' = [pc |-> "read", block |-> b, data |-> None]
      /\ UNCHANGED <<residentVars, spilled, temp, waiters, stopped, right, faults, threadVars>>
  BY DEF PickTemp, WorkerAt
<1>2. b \in S
  <2>1. SpilledIdle \subseteq Nat /\ SnapshotIdle \subseteq Nat
    BY ConstantsAssumption DEF SpilledIdle, SnapshotIdle, TypeOK
  <2>2. S \in SUBSET Nat /\ S # {}
    BY <1>1, <2>1
  <2> QED
    BY <2>2, MinIn
<1>3. b \in Blocks /\ (b \in spilled \/ (IsReady(b) /\ entries[b].snapshot))
  BY <1>2 DEF SpilledIdle, SnapshotIdle, TypeOK
<1>4. (b \in spilled /\ ~Resident(b)) \/ (b \notin spilled /\ IsReady(b) /\ entries[b].snapshot)
  <2>1. b \notin activeTemp
    BY <1>2 DEF SpilledIdle, SnapshotIdle
  <2> QED
    BY <1>3, <2>1 DEF CachedOK, BlocksOK, IsReady
<1> HIDE DEF b, S
<1>5. TypeOK'
  BY <1>1, <1>3 DEF TypeOK, residentVars, threadVars
<1>6. worker'.pc = "read" /\ worker'.block = b /\ ~Flushing
  BY <1>1 DEF Flushing
<1>7. CachedOK'
  <2> USE DEF CachedOK, residentVars
  <2>1. BlocksOK'
    BY <1>1 DEF BlocksOK, Resident, IsReady
  <2>2. FlushOK'
    BY <1>3, <1>6 DEF FlushOK, Flushing, WorkerAt
  <2>3. SnapshotsOK'
    BY <1>1 DEF SnapshotsOK, IsReady, Resident, WorkerAt, Flushing
  <2>4. QueuesHoldResident'
    BY <1>1 DEF QueuesHoldResident, IsReady, Resident
  <2>5. TempFilesWithinLimit'
    BY <1>1 DEF TempFilesWithinLimit, TempCount, IsReady, Resident
  <2>6. CleanIsOnRight'
    BY <1>1 DEF CleanIsOnRight, IsReady, Resident, Clean
  <2> QED
    BY <2>1, <2>2, <2>3, <2>4, <2>5, <2>6
<1>8. ThreadsOK' /\ LoadFindsBlock'
  BY <1>1, ThreadFrame DEF residentVars, threadVars
<1>9. FlushFindsBlock'
  BY <1>1, <1>4, <1>6 DEF FlushFindsBlock, Flushing, Resident, IsReady, residentVars
<1>10. \A c \in Blocks : Content(c)' = Content(c)
  BY <1>1 DEF Content, IsReady, Resident, residentVars
<1> QED
  BY <1>5, <1>7, <1>8, <1>9, <1>10 DEF TempUserFindsBlock

\* The worker makes a snapshot of a dirty block.
LEMMA CreateSnapshotStep ==
    ASSUME IndInv, CreateSnapshot
    PROVE  IndInv' /\ \A c \in Blocks : Content(c)' = Content(c)
<1> USE DEF IndInv
<1> DEFINE b == Min(Dirty)
<1>1. /\ worker.pc = "scanning" /\ MaySnapshot /\ Dirty # {}
      /\ UNCHANGED <<fifo, lru, spilled, activeTemp, waiters, stopped, right, call, reply, forTemp, fetched>>
  BY DEF CreateSnapshot, WorkerAt
<1>2. b \in Dirty
  <2>1. Dirty \in SUBSET Nat
    BY ConstantsAssumption DEF Dirty
  <2> QED
    BY <1>1, <2>1, MinIn
<1>3. ~Flushing
  BY <1>1 DEF Flushing
<1>4. CASE Fault("tempWrite") /\ WorkerGoes("waiting") /\ UNCHANGED <<temp, entries, pc>>
  BY <1>1, <1>3, <1>4, WorkerIdleStep DEF Fault, TypeOK, residentVars, tempVars, threadVars
<1>5. CASE /\ temp' = [temp EXCEPT ![b] = entries[b].data] /\ NoFault
           /\ entries' = [entries EXCEPT ![b].snapshot = TRUE, ![b].dirty = FALSE]
           /\ pc' = Woken /\ UNCHANGED worker
  <2> DEFINE e == entries'[b]
  <2>1. /\ b \in Blocks /\ IsReady(b) /\ entries[b].dirty /\ ~entries[b].snapshot /\ entries[b] \in Entry
        /\ entries[b].load = "ready" /\ entries[b].patch = None /\ entries[b].data \in Data /\ b \notin spilled
    BY <1>2 DEF Dirty, IsReady, Resident, TypeOK, Entry, CachedOK, BlocksOK
  <2> HIDE DEF b
  <2>2. /\ e \in Entry /\ e # None /\ e.load = "ready" /\ e.data = entries[b].data /\ e.snapshot /\ ~e.dirty
        /\ e.patch = None
    <3>1. e = [[entries[b] EXCEPT !.snapshot = TRUE] EXCEPT !.dirty = FALSE]
      BY <1>5, <2>1 DEF TypeOK
    <3> HIDE DEF e
    <3>2. e = [entries[b] EXCEPT !.snapshot = TRUE, !.dirty = FALSE]
      BY <3>1
    <3>3. /\ e \in Entry /\ e.load = "ready" /\ e.data = entries[b].data /\ e.snapshot /\ ~e.dirty
          /\ e.patch = None
      BY <2>1, <3>2 DEF Entry
    <3> QED
      BY <3>3, DataFacts
  <2>3. /\ entries' \in [Blocks -> Entry \cup {None}]
        /\ \A c \in Blocks : c # b => entries'[c] = entries[c]
    BY <1>5, <2>1, <2>2 DEF TypeOK
  <2> HIDE DEF e
  <2>4. entries'[b] = e
    BY DEF e
  <2>5. /\ temp' \in [Blocks -> Data \cup {Missing}] /\ temp'[b] = entries[b].data
        /\ \A c \in Blocks : c # b => temp'[c] = temp[c]
    BY <1>5, <2>1 DEF TypeOK
  <2>6. \A u \in Threads : Loading(u) => Block(u) \in Blocks /\ Block(u) # b
    BY <2>1, LoadingApart
  <2>7. /\ pc' \in [Threads -> {"idle", "plan", "asleep", "load", "rehydrate", "loaded", "rehydrated", "done"}]
        /\ ThreadsOK' /\ LoadFindsBlock'
    <3>1. pc' \in {pc, Woken}
      BY <1>5
    <3> QED
      BY <1>1, <2>3, <2>5, <2>6, <3>1, ThreadFrame
  <2>8. TypeOK'
    BY <1>1, <1>5, <2>3, <2>5, <2>7 DEF TypeOK, NoFault
  <2>9. CachedOK'
    <3> USE DEF CachedOK
    <3>1. BlocksOK'
      BY <1>1, <2>1, <2>2, <2>3, <2>4 DEF BlocksOK, Resident, IsReady
    <3>2. FlushOK'
      BY <1>3, <1>5 DEF FlushOK, Flushing, WorkerAt
    <3>3. SnapshotsOK'
      BY <1>3, <1>5, <2>2, <2>3, <2>4, <2>5 DEF SnapshotsOK, IsReady, Resident, WorkerAt, Flushing
    <3>4. QueuesHoldResident'
      <4>1. {c \in Blocks : Resident(c)}' = {c \in Blocks : Resident(c)}
        BY <2>1, <2>2, <2>3, <2>4 DEF Resident, IsReady
      <4>2. \A c \in ToSet(lru) : IsReady(c)'
        BY <2>2, <2>3, <2>4 DEF QueuesHoldResident, Resident, IsReady
      <4> QED
        BY <1>1, <4>1, <4>2 DEF QueuesHoldResident
    <3>5. TempFilesWithinLimit'
      <4>1. Snapshots' = Snapshots \cup {b} /\ b \notin Snapshots
        BY <2>1, <2>2, <2>3, <2>4 DEF Snapshots, Resident
      <4>2. IsFiniteSet(Snapshots) /\ IsFiniteSet(spilled)
        BY ConstantsAssumption, FS_Subset DEF Snapshots, TypeOK
      <4>3. /\ Cardinality(Snapshots) \in Nat /\ Cardinality(spilled) \in Nat
            /\ Cardinality(Snapshots \cup {b}) = Cardinality(Snapshots) + 1
        BY <4>1, <4>2, FS_CardinalityType, FS_AddElement
      <4>4. TempCount = Cardinality(spilled) + Cardinality(Snapshots) /\ TempCount < TempMaxFiles
        BY <1>1 DEF TempCount, Snapshots, MaySnapshot
      <4>5. TempCount' = Cardinality(spilled) + Cardinality(Snapshots \cup {b})
        BY <1>1, <4>1 DEF TempCount, Snapshots
      <4>6. TempCount' <= TempMaxFiles
        BY <4>3, <4>4, <4>5, ConstantsAssumption
      <4>7. ASSUME NEW c \in Blocks, temp'[c] # Missing, c \notin spilled'
            PROVE  (IsReady(c) /\ entries[c].snapshot)' \/ (Resident(c) /\ entries[c].load = "rehydrating")'
        BY <1>1, <2>2, <2>3, <2>4, <2>5, <4>7 DEF TempFilesWithinLimit, IsReady, Resident
      <4> QED
        BY <4>6, <4>7 DEF TempFilesWithinLimit
    <3>6. CleanIsOnRight'
      BY <1>1, <2>2, <2>3, <2>4 DEF CleanIsOnRight, IsReady, Resident, Clean
    <3> QED
      BY <3>1, <3>2, <3>3, <3>4, <3>5, <3>6
  <2>10. FlushFindsBlock'
    BY <1>3, <1>5 DEF FlushFindsBlock, Flushing
  <2>11. \A c \in Blocks : Content(c)' = Content(c)
    BY <1>1, <2>1, <2>2, <2>3, <2>4, <2>5 DEF Content, IsReady, Resident
  <2> QED
    BY <2>7, <2>8, <2>9, <2>10, <2>11 DEF TempUserFindsBlock
<1> QED
  BY <1>4, <1>5 DEF CreateSnapshot

\* The worker opens the temp file.
LEMMA FlushReadsTempStep ==
    ASSUME IndInv, FlushReadsTemp
    PROVE  IndInv' /\ \A c \in Blocks : Content(c)' = Content(c)
<1> USE DEF IndInv
<1> DEFINE b == worker.block
<1>1. /\ worker.pc = "read" /\ Flushing /\ b \in Blocks
      /\ UNCHANGED <<entries, fifo, lru, spilled, activeTemp, temp, waiters, stopped, right, threadVars>>
      /\ faults' \in Nat
  <2>1. worker.pc = "read" /\ Flushing
    BY DEF FlushReadsTemp, WorkerAt, Flushing
  <2> QED
    BY <2>1, FlushBlock DEF FlushReadsTemp, NoFault, Fault, TypeOK, residentVars, tempVars
<1>2. \/ temp[b] # Missing /\ worker' = [worker EXCEPT !.pc = "write", !.data = temp[b]]
      \/ worker' = [worker EXCEPT !.pc = "giveUp"]
  BY DEF FlushReadsTemp, WorkerGoes
<1>3. /\ worker' \in [pc : {"waiting", "woken", "scanning", "read", "write", "remove", "finish", "giveUp", "ended"},
                      block : Blocks \cup {None}, data : Data \cup {None}]
      /\ worker'.block = b
      /\ \/ worker'.pc = "write" /\ worker'.data = temp[b] /\ temp[b] \in Data
         \/ worker'.pc = "giveUp"
  BY <1>1, <1>2 DEF TypeOK
<1> HIDE DEF b
<1>4. TypeOK'
  BY <1>1, <1>3 DEF TypeOK, threadVars
<1>5. CachedOK'
  <2> USE DEF CachedOK
  <2>1. BlocksOK'
    BY <1>1 DEF BlocksOK, Resident, IsReady
  <2>2. FlushOK'
    BY <1>1, <1>3 DEF FlushOK, Flushing, WorkerAt
  <2>3. SnapshotsOK'
    BY <1>1, <1>3 DEF SnapshotsOK, IsReady, Resident, WorkerAt
  <2>4. QueuesHoldResident'
    BY <1>1 DEF QueuesHoldResident, IsReady, Resident
  <2>5. TempFilesWithinLimit'
    BY <1>1 DEF TempFilesWithinLimit, TempCount, IsReady, Resident
  <2>6. CleanIsOnRight'
    BY <1>1 DEF CleanIsOnRight, IsReady, Resident, Clean
  <2> QED
    BY <2>1, <2>2, <2>3, <2>4, <2>5, <2>6
<1>6. ThreadsOK' /\ LoadFindsBlock'
  BY <1>1, ThreadFrame DEF threadVars
<1>7. FlushFindsBlock'
  BY <1>1, <1>3 DEF TempUserFindsBlock, FlushFindsBlock, Resident, IsReady, b
<1>8. \A c \in Blocks : Content(c)' = Content(c)
  BY <1>1 DEF Content, IsReady, Resident
<1> QED
  BY <1>4, <1>5, <1>6, <1>7, <1>8 DEF TempUserFindsBlock

\* The worker writes the right side, the whole block or a part of it.
LEMMA FlushWritesRightStep ==
    ASSUME IndInv, FlushWritesRight
    PROVE  IndInv' /\ \A c \in Blocks : Content(c)' = Content(c)
<1> USE DEF IndInv
<1> DEFINE b == worker.block
<1>1. /\ worker.pc = "write" /\ Flushing /\ b \in Blocks /\ worker.data \in Data /\ temp[b] = worker.data
      /\ b \in activeTemp
      /\ UNCHANGED <<entries, fifo, lru, spilled, activeTemp, temp, waiters, stopped, threadVars>>
      /\ faults' \in Nat
  <2>1. worker.pc = "write" /\ Flushing
    BY DEF FlushWritesRight, WorkerAt, Flushing
  <2> QED
    BY <2>1, FlushBlock
       DEF FlushWritesRight, NoFault, Fault, TypeOK, residentVars, tempVars, CachedOK, FlushOK, WorkerAt
<1>2. /\ right' \in [Blocks -> Data] /\ \A c \in Blocks : c # b => right'[c] = right[c]
      /\ \/ right'[b] = worker.data /\ worker' = [worker EXCEPT !.pc = "remove"]
         \/ worker' = [worker EXCEPT !.pc = "giveUp"]
  <2>1. CASE right' = [right EXCEPT ![b] = worker.data] /\ WorkerGoes("remove")
    BY <1>1, <2>1 DEF WorkerGoes, TypeOK
  <2>2. CASE /\ \E written \in SUBSET DOMAIN worker.data :
                  right' = [right EXCEPT ![b] = [c \in DOMAIN @ |-> IF c \in written THEN worker.data[c] ELSE @[c]]]
             /\ WorkerGoes("giveUp")
    <3>1. PICK written \in SUBSET DOMAIN worker.data :
            right' = [right EXCEPT ![b] =
                        [c \in DOMAIN right[b] |-> IF c \in written THEN worker.data[c] ELSE right[b][c]]]
      BY <2>2
    <3>2. [c \in DOMAIN right[b] |-> IF c \in written THEN worker.data[c] ELSE right[b][c]] \in Data
      BY <1>1 DEF TypeOK, Data
    <3> QED
      BY <1>1, <2>2, <3>1, <3>2 DEF WorkerGoes, TypeOK
  <2> QED
    BY <2>1, <2>2 DEF FlushWritesRight
<1>3. /\ worker' \in [pc : {"waiting", "woken", "scanning", "read", "write", "remove", "finish", "giveUp", "ended"},
                      block : Blocks \cup {None}, data : Data \cup {None}]
      /\ worker'.block = b
      /\ (worker'.pc = "remove" /\ right'[b] = temp[b] /\ temp[b] # Missing) \/ worker'.pc = "giveUp"
  BY <1>1, <1>2, DataFacts DEF TypeOK, Missing
<1>4. (b \in spilled /\ ~Resident(b)) \/ (b \notin spilled /\ IsReady(b) /\ entries[b].snapshot)
  BY <1>1 DEF TempUserFindsBlock, FlushFindsBlock
<1>5. \A u \in Threads : Loading(u) => Block(u) \in Blocks /\ Block(u) # b
  BY <1>1, LoadingApart
<1>6. FlushFindsBlock'
  BY <1>1, <1>3 DEF TempUserFindsBlock, FlushFindsBlock, Resident, IsReady
<1> HIDE DEF b
<1>7. TypeOK'
  BY <1>1, <1>2, <1>3 DEF TypeOK, threadVars
<1>8. CachedOK'
  <2> USE DEF CachedOK
  <2>1. BlocksOK'
    BY <1>1 DEF BlocksOK, Resident, IsReady
  <2>2. FlushOK'
    BY <1>1, <1>3 DEF FlushOK, Flushing, WorkerAt
  <2>3. SnapshotsOK'
    BY <1>1, <1>3 DEF SnapshotsOK, IsReady, Resident, WorkerAt
  <2>4. QueuesHoldResident'
    BY <1>1 DEF QueuesHoldResident, IsReady, Resident
  <2>5. TempFilesWithinLimit'
    BY <1>1 DEF TempFilesWithinLimit, TempCount, IsReady, Resident
  <2>6. CleanIsOnRight'
    BY <1>1, <1>2, <1>4 DEF CleanIsOnRight, IsReady, Resident, Clean
  <2> QED
    BY <2>1, <2>2, <2>3, <2>4, <2>5, <2>6
<1>9. ThreadsOK' /\ LoadFindsBlock'
  BY <1>1, <1>2, <1>5, ThreadFrame DEF threadVars
<1>10. \A c \in Blocks : Content(c)' = Content(c)
  BY <1>1, <1>2, <1>4, DataFacts DEF Content, IsReady, Resident, Missing
<1> QED
  BY <1>6, <1>7, <1>8, <1>9, <1>10 DEF TempUserFindsBlock

\* The worker removes the temp file.
LEMMA FlushRemovesTempStep ==
    ASSUME IndInv, FlushRemovesTemp
    PROVE  IndInv' /\ \A c \in Blocks : Content(c)' = Content(c)
<1> USE DEF IndInv
<1> DEFINE b == worker.block
<1>1. /\ worker.pc = "remove" /\ Flushing /\ b \in Blocks /\ temp[b] # Missing /\ right[b] = temp[b]
      /\ UNCHANGED <<entries, fifo, lru, spilled, activeTemp, waiters, stopped, right, threadVars>>
      /\ faults' \in Nat
  <2>1. worker.pc = "remove" /\ Flushing
    BY DEF FlushRemovesTemp, WorkerAt, Flushing
  <2> QED
    BY <2>1, FlushBlock DEF FlushRemovesTemp, NoFault, Fault, TypeOK, residentVars, CachedOK, FlushOK, WorkerAt
<1>2. \/ temp' = [temp EXCEPT ![b] = Missing] /\ worker' = [worker EXCEPT !.pc = "finish"]
      \/ temp' = temp /\ worker' = [worker EXCEPT !.pc = "giveUp"]
  BY DEF FlushRemovesTemp, WorkerGoes
<1>3. /\ worker' \in [pc : {"waiting", "woken", "scanning", "read", "write", "remove", "finish", "giveUp", "ended"},
                      block : Blocks \cup {None}, data : Data \cup {None}]
      /\ worker'.block = b
      /\ temp' \in [Blocks -> Data \cup {Missing}] /\ \A c \in Blocks : c # b => temp'[c] = temp[c]
      /\ \/ worker'.pc = "finish" /\ temp'[b] = Missing
         \/ worker'.pc = "giveUp" /\ temp' = temp
  BY <1>1, <1>2 DEF TypeOK
<1>4. (b \in spilled /\ ~Resident(b)) \/ (b \notin spilled /\ IsReady(b) /\ entries[b].snapshot)
  BY <1>1 DEF TempUserFindsBlock, FlushFindsBlock
<1>5. \A u \in Threads : Loading(u) => Block(u) \in Blocks /\ Block(u) # b
  BY <1>1, LoadingApart
<1>6. FlushFindsBlock'
  BY <1>1, <1>3 DEF TempUserFindsBlock, FlushFindsBlock, Resident, IsReady
<1>7. IsReady(b) /\ ~entries[b].dirty => right[b] = entries[b].data
  BY <1>1, <1>4 DEF CachedOK, SnapshotsOK, BlocksOK, IsReady, WorkerAt
<1> HIDE DEF b
<1>8. TypeOK'
  BY <1>1, <1>3 DEF TypeOK, threadVars
<1>9. CachedOK'
  <2> USE DEF CachedOK
  <2>1. BlocksOK'
    BY <1>1 DEF BlocksOK, Resident, IsReady
  <2>2. FlushOK'
    BY <1>1, <1>3, <1>7 DEF FlushOK, Flushing, WorkerAt, IsReady, Resident
  <2>3. SnapshotsOK'
    BY <1>1, <1>3 DEF SnapshotsOK, IsReady, Resident, WorkerAt
  <2>4. QueuesHoldResident'
    BY <1>1 DEF QueuesHoldResident, IsReady, Resident
  <2>5. TempFilesWithinLimit'
    <3>1. \A c \in Blocks : temp'[c] # Missing => temp[c] # Missing
      BY <1>1, <1>3
    <3> QED
      BY <1>1, <3>1 DEF TempFilesWithinLimit, TempCount, IsReady, Resident
  <2>6. CleanIsOnRight'
    BY <1>1 DEF CleanIsOnRight, IsReady, Resident, Clean
  <2> QED
    BY <2>1, <2>2, <2>3, <2>4, <2>5, <2>6
<1>10. ThreadsOK' /\ LoadFindsBlock'
  BY <1>1, <1>3, <1>5, ThreadFrame DEF threadVars
<1>11. \A c \in Blocks : Content(c)' = Content(c)
  BY <1>1, <1>3, <1>4 DEF Content, IsReady, Resident
<1> QED
  BY <1>6, <1>8, <1>9, <1>10, <1>11 DEF TempUserFindsBlock

\* The worker is done with the block: EndFlush.
LEMMA EndFlushStep ==
    ASSUME IndInv, Flushing, EndFlush, UNCHANGED <<waiters, right, call, reply, forTemp, fetched>>,
           \A c \in Blocks : c # worker.block => entries'[c] = entries[c] /\ (c \in spilled' <=> c \in spilled)
    PROVE  /\ worker' \in [pc : {"waiting", "woken", "scanning", "read", "write", "remove", "finish", "giveUp", "ended"},
                           block : Blocks \cup {None}, data : Data \cup {None}]
           /\ worker'.pc = "scanning" /\ FlushOK' /\ FlushFindsBlock'
           /\ worker.block \in Blocks /\ \A c \in Blocks : c # worker.block => (c \in activeTemp' <=> c \in activeTemp)
           /\ activeTemp' \subseteq Blocks
           /\ (UNCHANGED temp =>
                 /\ pc' \in [Threads -> {"idle", "plan", "asleep", "load", "rehydrate", "loaded", "rehydrated", "done"}]
                 /\ ThreadsOK' /\ LoadFindsBlock')
<1> USE DEF IndInv
<1> DEFINE b == worker.block
<1>1. /\ activeTemp' = activeTemp \ {b} /\ worker' = [pc |-> "scanning", block |-> None, data |-> None] /\ pc' = Woken
      /\ b \in Blocks
  BY FlushBlock DEF EndFlush
<1>2. worker'.pc = "scanning"
  BY <1>1
<1>3. FlushOK' /\ FlushFindsBlock'
  BY <1>2 DEF FlushOK, FlushFindsBlock, Flushing, WorkerAt
<1>4. \A u \in Threads : Loading(u) => Block(u) \in Blocks /\ Block(u) # b
  BY LoadingApart
<1>5. \A c \in Blocks : c # b => (c \in activeTemp' <=> c \in activeTemp)
  BY <1>1
<1>6. ASSUME UNCHANGED temp
      PROVE  /\ pc' \in [Threads -> {"idle", "plan", "asleep", "load", "rehydrate", "loaded", "rehydrated", "done"}]
             /\ ThreadsOK' /\ LoadFindsBlock'
  <2> HIDE DEF b, IndInv
  <2>1. pc' \in {pc, Woken}
    BY <1>1
  <2>2. \A u \in Threads : Loading(u) =>
               LET d == Block(u) IN
               /\ entries'[d] = entries[d] /\ temp'[d] = temp[d] /\ right'[d] = right[d]
               /\ (d \in spilled => d \in spilled') /\ (d \in activeTemp => d \in activeTemp')
    BY <1>4, <1>5, <1>6 DEF b
  <2> QED
    BY <2>1, <2>2, ThreadFrame
<1> QED
  BY <1>1, <1>2, <1>3, <1>5, <1>6 DEF TypeOK

\* The flush succeeded: the block is no longer spilled, or has no snapshot.
LEMMA FinishFlushStep ==
    ASSUME IndInv, FinishFlush
    PROVE  IndInv' /\ \A c \in Blocks : Content(c)' = Content(c)
<1> USE DEF IndInv
<1>1. /\ worker.pc = "finish" /\ Flushing /\ EndFlush
      /\ UNCHANGED <<fifo, lru, temp, waiters, stopped, right, faults, call, reply, forTemp, fetched>>
  BY DEF FinishFlush, WorkerAt, Flushing
<1>10. PICK b \in Blocks : b = worker.block
  BY <1>1, FlushBlock
<1> DEFINE e == Unsnapshot(entries[b])
<1>2. temp[b] = Missing /\ (IsReady(b) /\ ~entries[b].dirty => right[b] = entries[b].data)
  BY <1>1, <1>10 DEF CachedOK, FlushOK, WorkerAt
<1>3. (b \in spilled /\ ~Resident(b)) \/ (b \notin spilled /\ IsReady(b) /\ entries[b].snapshot)
  BY <1>1, <1>10 DEF TempUserFindsBlock, FlushFindsBlock
<1>4. ASSUME IsReady(b)
      PROVE  /\ e \in Entry /\ e # None /\ e.load = "ready" /\ e.data = entries[b].data /\ e.dirty = entries[b].dirty
             /\ ~e.snapshot /\ e.patch = entries[b].patch
  <2>1. entries[b] \in Entry
    BY <1>2, <1>4 DEF TypeOK, IsReady, Resident
  <2>2. e \in Entry
    BY <2>1 DEF Unsnapshot, Entry
  <2> QED
    BY <1>4, <2>1, <2>2, DataFacts DEF Unsnapshot, Entry, IsReady
<1>5. \/ b \in spilled /\ ~Resident(b) /\ spilled' = spilled \ {b} /\ entries' = entries
      \/ b \notin spilled /\ IsReady(b) /\ entries[b].snapshot /\ entries' = [entries EXCEPT ![b] = e] /\ spilled' = spilled
  BY <1>3, <1>10 DEF FinishFlush
<1>6. /\ entries' \in [Blocks -> Entry \cup {None}] /\ spilled' \subseteq Blocks
      /\ \A c \in Blocks : c # b => entries'[c] = entries[c] /\ (c \in spilled' <=> c \in spilled)
  BY <1>2, <1>4, <1>5 DEF TypeOK
<1>7. /\ worker' \in [pc : {"waiting", "woken", "scanning", "read", "write", "remove", "finish", "giveUp", "ended"},
                      block : Blocks \cup {None}, data : Data \cup {None}]
      /\ worker'.pc = "scanning" /\ FlushOK' /\ FlushFindsBlock'
      /\ \A c \in Blocks : c # b => (c \in activeTemp' <=> c \in activeTemp)
      /\ activeTemp' \subseteq Blocks
      /\ pc' \in [Threads -> {"idle", "plan", "asleep", "load", "rehydrate", "loaded", "rehydrated", "done"}]
      /\ ThreadsOK' /\ LoadFindsBlock'
  <2> HIDE DEF IndInv
  <2> QED
    BY <1>1, <1>6, <1>10, EndFlushStep
<1>8. ASSUME IsReady(b)
      PROVE  entries'[b] = e /\ entries[b].snapshot /\ b \notin spilled'
  BY <1>4, <1>5, <1>8 DEF TypeOK, IsReady
<1>9. ASSUME ~IsReady(b) PROVE b \in spilled /\ ~Resident(b) /\ ~Resident(b)' /\ b \notin spilled'
  BY <1>5, <1>9 DEF Resident
<1> HIDE DEF e
<1>11. TypeOK'
  BY <1>1, <1>6, <1>7 DEF TypeOK
<1>12. CachedOK'
  <2> USE DEF CachedOK
  <2>1. BlocksOK'
    BY <1>4, <1>6, <1>7, <1>8, <1>9 DEF BlocksOK, Resident, IsReady
  <2>2. SnapshotsOK'
    BY <1>1, <1>4, <1>6, <1>8, <1>9, <1>10 DEF SnapshotsOK, Resident, IsReady, WorkerAt
  <2>3. \A c \in Blocks : (Resident(c)' <=> Resident(c)) /\ (IsReady(c)' <=> IsReady(c))
    BY <1>4, <1>6, <1>8, <1>9 DEF Resident, IsReady
  <2>4. QueuesHoldResident'
    <3>1. {c \in Blocks : Resident(c)}' = {c \in Blocks : Resident(c)}
      BY <2>3
    <3>2. ToSet(lru) \subseteq Blocks
      BY DEF QueuesHoldResident
    <3> QED
      BY <1>1, <2>3, <3>1, <3>2 DEF QueuesHoldResident
  <2>5. TempFilesWithinLimit'
    <3>1. IsFiniteSet(Snapshots) /\ IsFiniteSet(spilled)
      BY ConstantsAssumption, FS_Subset DEF Snapshots, TypeOK
    <3>2. /\ Cardinality(Snapshots) \in Nat /\ Cardinality(spilled) \in Nat
          /\ b \in spilled => Cardinality(spilled \ {b}) = Cardinality(spilled) - 1
          /\ b \in Snapshots => Cardinality(Snapshots \ {b}) = Cardinality(Snapshots) - 1
      BY <3>1, FS_CardinalityType, FS_RemoveElement
    <3>3. TempCount = Cardinality(spilled) + Cardinality(Snapshots) /\ TempCount <= TempMaxFiles
      BY DEF TempCount, Snapshots, TempFilesWithinLimit
    <3>4. TempCount' = Cardinality(spilled') + Cardinality(Snapshots')
      BY DEF TempCount, Snapshots
    <3>5. TempCount' <= TempMaxFiles
      <4>1. CASE IsReady(b)
        <5>1. Snapshots' = Snapshots \ {b} /\ b \in Snapshots
          BY <1>2, <1>4, <1>6, <1>8, <4>1 DEF Snapshots, Resident, IsReady
        <5>2. spilled' = spilled
          BY <1>5, <4>1 DEF IsReady
        <5> QED
          BY <3>2, <3>3, <3>4, <5>1, <5>2, ConstantsAssumption
      <4>2. CASE ~IsReady(b)
        <5>1. Snapshots' = Snapshots /\ spilled' = spilled \ {b} /\ b \in spilled
          BY <1>5, <1>9, <4>2 DEF Snapshots, Resident
        <5> QED
          BY <3>2, <3>3, <3>4, <5>1, ConstantsAssumption
      <4> QED
        BY <4>1, <4>2
    <3>6. ASSUME NEW c \in Blocks, temp'[c] # Missing, c \notin spilled'
          PROVE  (IsReady(c) /\ entries[c].snapshot)' \/ (Resident(c) /\ entries[c].load = "rehydrating")'
      <4>1. c # b /\ temp[c] # Missing /\ c \notin spilled
        BY <1>1, <1>2, <1>6, <3>6
      <4> QED
        BY <1>6, <4>1 DEF TempFilesWithinLimit, IsReady, Resident
    <3> QED
      BY <3>5, <3>6 DEF TempFilesWithinLimit
  <2>6. CleanIsOnRight'
    <3> SUFFICES ASSUME NEW c \in Blocks, IsReady(c)', Clean(entries'[c]) PROVE right'[c] = entries'[c].data
      BY DEF CleanIsOnRight
    <3>1. CASE c = b
      BY <1>1, <1>2, <1>4, <1>8, <1>9, <3>1 DEF Clean, IsReady
    <3>2. CASE c # b
      BY <1>1, <1>6, <3>2 DEF CleanIsOnRight, IsReady, Resident, Clean
    <3> QED
      BY <3>1, <3>2
  <2> QED
    BY <1>7, <2>1, <2>2, <2>4, <2>5, <2>6
<1>13. \A c \in Blocks : Content(c)' = Content(c)
  BY <1>1, <1>2, <1>4, <1>6, <1>8, <1>9 DEF Content, IsReady, Resident
<1> QED
  BY <1>7, <1>11, <1>12, <1>13 DEF TempUserFindsBlock

\* The flush failed: the temp file stays.
LEMMA GiveUpFlushStep ==
    ASSUME IndInv, GiveUpFlush
    PROVE  IndInv' /\ \A c \in Blocks : Content(c)' = Content(c)
<1> USE DEF IndInv
<1> DEFINE b == worker.block
<1>1. /\ worker.pc = "giveUp" /\ Flushing /\ EndFlush
      /\ UNCHANGED <<entries, fifo, lru, spilled, temp, waiters, stopped, right, faults, call, reply, forTemp, fetched>>
  BY DEF GiveUpFlush, WorkerAt, Flushing, residentVars
<1>2. (b \in spilled /\ ~Resident(b)) \/ (b \notin spilled /\ IsReady(b) /\ entries[b].snapshot)
  BY <1>1 DEF TempUserFindsBlock, FlushFindsBlock
<1>3. /\ worker' \in [pc : {"waiting", "woken", "scanning", "read", "write", "remove", "finish", "giveUp", "ended"},
                      block : Blocks \cup {None}, data : Data \cup {None}]
      /\ worker'.pc = "scanning" /\ FlushOK' /\ FlushFindsBlock'
      /\ \A c \in Blocks : c # b => (c \in activeTemp' <=> c \in activeTemp)
      /\ activeTemp' \subseteq Blocks
      /\ pc' \in [Threads -> {"idle", "plan", "asleep", "load", "rehydrate", "loaded", "rehydrated", "done"}]
      /\ ThreadsOK' /\ LoadFindsBlock'
  <2> HIDE DEF IndInv
  <2> QED
    BY <1>1, EndFlushStep
<1> HIDE DEF b
<1>4. TypeOK'
  BY <1>1, <1>3 DEF TypeOK
<1>5. CachedOK'
  <2> USE DEF CachedOK
  <2>1. BlocksOK'
    BY <1>1, <1>2, <1>3 DEF BlocksOK, Resident, IsReady
  <2>2. SnapshotsOK'
    BY <1>1 DEF SnapshotsOK, IsReady, Resident, WorkerAt
  <2>3. QueuesHoldResident'
    BY <1>1 DEF QueuesHoldResident, IsReady, Resident
  <2>4. TempFilesWithinLimit'
    BY <1>1 DEF TempFilesWithinLimit, TempCount, IsReady, Resident
  <2>5. CleanIsOnRight'
    BY <1>1 DEF CleanIsOnRight, IsReady, Resident, Clean
  <2> QED
    BY <1>3, <2>1, <2>2, <2>3, <2>4, <2>5
<1>6. \A c \in Blocks : Content(c)' = Content(c)
  BY <1>1 DEF Content, IsReady, Resident
<1> QED
  BY <1>3, <1>4, <1>5, <1>6 DEF TempUserFindsBlock

\* A hit serves the content of its block, or patches it; the block that leaves
\* the LRU for it keeps its content.
LEMMA HitContent ==
    ASSUME IndInv, NEW t \in Threads, Hit(t), NEW b \in Blocks, b = Block(t)
    PROVE  /\ \A c \in Blocks : c # b => Content(c)' = Content(c)
           /\ \/ /\ call[t].kind = "read" /\ Content(b)' = Content(b)
                 /\ reply' = [reply EXCEPT ![t] = Content(b)]
              \/ /\ call[t].kind = "write" /\ Content(b)' = Patched(Content(b), call[t])
                 /\ reply' = [reply EXCEPT ![t] = Done]
<1> USE DEF IndInv
<1>1. /\ pc[t] = "plan" /\ IsReady(b) /\ call[t] \in AnyCall /\ entries[b] \in Entry /\ entries[b].load = "ready"
      /\ UNCHANGED <<spilled, temp, right>> /\ Content(b) = entries[b].data
  <2>1. pc[t] = "plan" /\ IsReady(b) /\ UNCHANGED <<spilled, temp, right>>
    BY DEF Hit, tempVars
  <2>2. call[t] \in AnyCall
    BY <2>1, CallBlock
  <2> QED
    BY <2>1, <2>2 DEF TypeOK, IsReady, Resident, Content
<1>2. \A v \in Blocks \ {b} : IsReady(v) /\ Clean(entries[v]) => v \notin spilled /\ right[v] = entries[v].data
  BY DEF CachedOK, CleanIsOnRight, BlocksOK, IsReady
<1>3. ASSUME NEW es \in [Blocks -> Entry \cup {None}], es[b] \in Entry, es[b].load = "ready",
             \A c \in Blocks \ {b} : es[c] = entries[c], RecordHit(b, es)
      PROVE  Content(b)' = es[b].data /\ \A c \in Blocks : c # b => Content(c)' = Content(c)
  <2>1. \/ entries' = es
        \/ \E v \in Blocks \ {b} : IsReady(v) /\ Clean(entries[v]) /\ entries' = [es EXCEPT ![v] = None]
    BY <1>1, <1>3, RecordHitStep
  <2>2. /\ entries'[b] = es[b] /\ es[b] # None
        /\ \A c \in Blocks \ {b} : \/ entries'[c] = entries[c]
                                   \/ IsReady(c) /\ Clean(entries[c]) /\ entries'[c] = None
    BY <1>3, <2>1, DataFacts
  <2> QED
    BY <1>1, <1>2, <1>3, <2>2 DEF Content, IsReady, Resident
<1>4. CASE call[t].kind = "read"
  <2>1. RecordHit(b, entries) /\ reply' = [reply EXCEPT ![t] = entries[b].data]
    BY <1>4 DEF Hit, Answer
  <2>2. Content(b)' = entries[b].data /\ \A c \in Blocks : c # b => Content(c)' = Content(c)
    BY <1>1, <1>3, <2>1 DEF TypeOK
  <2> QED
    BY <1>1, <1>4, <2>1, <2>2
<1>5. CASE call[t].kind = "write"
  <2> DEFINE es == [entries EXCEPT ![b] = PatchedEntry(@, call[t])]
  <2>1. RecordHit(b, es) /\ reply' = [reply EXCEPT ![t] = Done]
    BY <1>5 DEF Hit, Answer
  <2>2. call[t] \in Writes
    BY <1>1, <1>5, DataFacts
  <2>3. /\ es \in [Blocks -> Entry \cup {None}] /\ es[b] = PatchedEntry(entries[b], call[t])
        /\ es[b] \in Entry /\ es[b].load = "ready" /\ es[b].data = Patched(entries[b].data, call[t])
        /\ \A c \in Blocks \ {b} : es[c] = entries[c]
    BY <1>1, <2>2, PatchedEntryType DEF TypeOK
  <2> HIDE DEF es
  <2>4. Content(b)' = es[b].data /\ \A c \in Blocks : c # b => Content(c)' = Content(c)
    BY <1>3, <2>1, <2>3
  <2> QED
    BY <1>1, <1>5, <2>1, <2>3, <2>4
<1> QED
  BY <1>1, <1>4, <1>5, DataFacts

(***************************************************************************)
(* The theorems.                                                           *)
(***************************************************************************)

\* At first the cache is empty.
LEMMA InitInd == Init => IndInv
<1> SUFFICES ASSUME Init PROVE IndInv
  OBVIOUS
<1> USE DEF Init
<1>1. \A b \in Blocks : entries[b] = None /\ temp[b] = Missing
  OBVIOUS
<1>2. ~Flushing /\ worker.pc = "waiting"
  BY DEF Flushing
<1>3. TypeOK
  <2>1. fifo \in Seq(Blocks) /\ lru \in Seq(Blocks)
    OBVIOUS
  <2>2. /\ entries \in [Blocks -> Entry \cup {None}] /\ right \in [Blocks -> Data]
        /\ temp \in [Blocks -> Data \cup {Missing}]
    BY DataFacts
  <2> QED
    BY <2>1, <2>2 DEF TypeOK
<1>4. CachedOK
  <2>1. BlocksOK /\ SnapshotsOK /\ CleanIsOnRight
    BY <1>1 DEF BlocksOK, SnapshotsOK, CleanIsOnRight, Resident, IsReady
  <2>2. FlushOK
    BY <1>2 DEF FlushOK, Flushing, WorkerAt
  <2>3. QueuesHoldResident
    <3>1. {b \in Blocks : Resident(b)} = {}
      BY <1>1 DEF Resident
    <3>2. ToSet(fifo) = {} /\ ToSet(lru) = {} /\ IsInjective(fifo) /\ IsInjective(lru) /\ Len(fifo) = 0 /\ Len(lru) = 0
      BY DEF ToSet, IsInjective
    <3> QED
      BY <3>1, <3>2, ConstantsAssumption DEF QueuesHoldResident
  <2>4. TempFilesWithinLimit
    <3>1. Snapshots = {} /\ spilled = {}
      BY <1>1 DEF Resident, Snapshots
    <3>2. TempCount = 0
      <4>1. TempCount = Cardinality(spilled) + Cardinality(Snapshots)
        BY DEF TempCount, Snapshots
      <4>2. Cardinality(spilled) = 0 /\ Cardinality(Snapshots) = 0
        BY <3>1, FS_EmptySet
      <4> QED
        BY <4>1, <4>2
    <3> QED
      BY <1>1, <3>2, ConstantsAssumption DEF TempFilesWithinLimit
  <2> QED
    BY <2>1, <2>2, <2>3, <2>4 DEF CachedOK
<1>5. ThreadsOK
  <2>1. CallsOK /\ LoadersOK /\ WaitersOK
    BY DEF CallsOK, LoadersOK, WaitersOK, Loading
  <2>2. WaitersCounted
    <3>1. {t \in Threads : forTemp[t] /\ pc[t] \in {"asleep", "plan"}} = {}
      OBVIOUS
    <3> QED
      BY <3>1, FS_EmptySet DEF WaitersCounted
  <2> QED
    BY <2>1, <2>2 DEF ThreadsOK
<1>6. TempUserFindsBlock
  BY <1>2 DEF TempUserFindsBlock, FlushFindsBlock, LoadFindsBlock
<1> QED
  BY <1>3, <1>4, <1>5, <1>6 DEF IndInv

\* What an entry and a file hold is content as long as nobody touches them.
LEMMA ContentFrame ==
    ASSUME UNCHANGED <<entries, spilled, temp, right>>
    PROVE  \A c \in Blocks : Content(c)' = Content(c)
BY DEF Content, IsReady, Resident

\* Nothing happens.
LEMMA StutterStep == ASSUME IndInv, UNCHANGED vars PROVE IndInv'
<1> USE DEF IndInv, vars, residentVars, tempVars, threadVars
<1>1. TypeOK'
  BY DEF TypeOK
<1>2. CachedOK'
  BY CachedFrame
<1>3. ThreadsOK' /\ LoadFindsBlock'
  BY ThreadFrame
<1>4. FlushFindsBlock'
  BY DEF TempUserFindsBlock, FlushFindsBlock, Flushing, Resident, IsReady
<1> QED
  BY <1>1, <1>2, <1>3, <1>4 DEF TempUserFindsBlock

\* The steps of the worker, and the drop of the cache: the calls do not see them.
WorkerStep == TimerFires \/ RearmTimer \/ FlushStep \/ Drop \/ WorkerEnds

\* They keep the invariant and, whatever the block is moved to, its content.
LEMMA WorkerStepKeeps ==
    ASSUME IndInv, WorkerStep
    PROVE  /\ IndInv' /\ \A c \in Blocks : Content(c)' = Content(c)
           /\ UNCHANGED <<call, reply>>
<1>1. UNCHANGED <<call, reply>>
  BY DEF WorkerStep, TimerFires, RearmTimer, FlushStep, Drop, WorkerEnds, PickTemp, CreateSnapshot, NothingDue,
         FlushReadsTemp, FlushWritesRight, FlushRemovesTemp, FinishFlush, GiveUpFlush, threadVars
<1>2. CASE TimerFires
  BY <1>2, WorkerIdleStep, <1>1 DEF TimerFires, WorkerAt, Flushing, IndInv, TypeOK
<1>3. CASE RearmTimer
  BY <1>3, WorkerIdleStep, <1>1 DEF RearmTimer, WorkerAt, Flushing, IndInv, TypeOK
<1>4. CASE NothingDue
  BY <1>4, WorkerIdleStep, <1>1 DEF NothingDue, WorkerAt, Flushing, IndInv, TypeOK
<1>5. CASE WorkerEnds
  BY <1>5, WorkerIdleStep, <1>1 DEF WorkerEnds, Flushing, IndInv, TypeOK
<1>6. CASE PickTemp \/ CreateSnapshot \/ FlushReadsTemp \/ FlushWritesRight
  BY <1>1, <1>6, PickTempStep, CreateSnapshotStep, FlushReadsTempStep, FlushWritesRightStep
<1>7. CASE FlushRemovesTemp \/ FinishFlush \/ GiveUpFlush \/ Drop
  BY <1>1, <1>7, FlushRemovesTempStep, FinishFlushStep, GiveUpFlushStep, DropStep
<1> QED
  BY <1>2, <1>3, <1>4, <1>5, <1>6, <1>7 DEF WorkerStep, FlushStep

\* A call waits for a block or for a victim.
LEMMA WaitStep ==
    ASSUME IndInv, NEW t \in Threads, WaitForBlock(t) \/ WaitForVictim(t)
    PROVE  IndInv'
BY SleepStep DEF WaitForBlock, WaitForVictim, Missed

\* Every step keeps the invariant.
LEMMA NextInd == ASSUME IndInv, [Next]_vars PROVE IndInv'
<1>1. CASE \E t \in Threads : Begin(t) \/ ThreadStep(t)
  <2>1. PICK t \in Threads : Begin(t) \/ ThreadStep(t)
    BY <1>1
  <2>2. CASE Begin(t) \/ Return(t) \/ Hit(t) \/ WaitForBlock(t) \/ WaitForVictim(t)
    BY <2>2, BeginStep, ReturnStep, HitStep, WaitStep
  <2>3. CASE EnterFree(t) \/ EvictClean(t) \/ Spill(t) \/ SpillFails(t)
    BY <2>3, EnterFreeStep, EvictCleanStep, SpillStep, SpillFailsStep
  <2>4. CASE ReadRight(t) \/ ReadTemp(t) \/ FinishLoad(t) \/ AbortLoad(t)
    BY <2>4, ReadRightStep, ReadTempStep, FinishLoadStep, AbortLoadStep
  <2> QED
    BY <2>1, <2>2, <2>3, <2>4 DEF ThreadStep
<1>2. CASE WorkerStep
  BY <1>2, WorkerStepKeeps
<1>3. CASE UNCHANGED vars
  BY <1>3, StutterStep
<1> QED
  BY <1>1, <1>2, <1>3 DEF Next, WorkerStep

\* The inductive invariant holds in every reachable state.
THEOREM Invariance == Spec => []IndInv
<1>1. IndInv /\ [Next]_vars => IndInv'
  BY NextInd
<1> QED
  BY <1>1, InitInd, PTL DEF Spec

\* Type correctness of the cache.
THEOREM TypeCorrect == Spec => []TypeOK
BY Invariance, PTL DEF IndInv

\* The two queues hold exactly the resident blocks (resident/mod.rs).
THEOREM QueuesAreResident == Spec => []QueuesHoldResident
BY Invariance, PTL DEF IndInv, CachedOK

\* The worker and a rehydrating call find the block whose temp file they used:
\* finish_flush_success and finish_rehydrate never meet an InvariantViolation.
THEOREM TempUsersSafe == Spec => []TempUserFindsBlock
BY Invariance, PTL DEF IndInv

\* Never more temp files than temp_max_files.
THEOREM TempFilesBounded == Spec => []TempFilesWithinLimit
BY Invariance, PTL DEF IndInv, CachedOK

\* What is clean is on the right side.
THEOREM CleanIsSafe == Spec => []CleanIsOnRight
BY Invariance, PTL DEF IndInv, CachedOK

\* The count that keeps the worker from making snapshots is the number of calls
\* that wait for a temp slot.
THEOREM WaitersAreCounted == Spec => []WaitersCounted
BY Invariance, PTL DEF IndInv, ThreadsOK

(***************************************************************************)
(* The cache implements the block store.                                   *)
(***************************************************************************)
mem == [b \in Blocks |-> Content(b)]

\* Blocks whose contents stay are the store's memory left alone.
LEMMA SameMem ==
    ASSUME \A c \in Blocks : Content(c)' = Content(c)
    PROVE  mem' = mem
BY DEF mem

\* One content that changes is one place of the memory.
LEMMA PatchedMem ==
    ASSUME NEW b \in Blocks, \A c \in Blocks : c # b => Content(c)' = Content(c), NEW d, Content(b)' = d
    PROVE  mem' = [mem EXCEPT ![b] = d]
BY DEF mem

\* A call that has no answer yet is pending in the store.
LEMMA PendingCall ==
    ASSUME IndInv, NEW t \in Threads, pc[t] \notin {"idle", "done"}
    PROVE  Store!Pending(t) /\ mem[Block(t)] = Content(Block(t)) /\ reply \in [Threads -> Data \cup {None, Done, Failed}]
BY CallBlock DEF Store!Pending, IndInv, ThreadsOK, CallsOK, TypeOK, mem

\* A call that is answered with the content of its block reads, one that
\* patches it writes.
LEMMA ServedCall ==
    ASSUME IndInv, NEW t \in Threads, pc[t] \notin {"idle", "done"}, NEW b \in Blocks, b = Block(t), call' = call,
           \A c \in Blocks : c # b => Content(c)' = Content(c),
           \/ /\ call[t].kind = "read" /\ Content(b)' = Content(b)
              /\ reply' = [reply EXCEPT ![t] = Content(b)]
           \/ /\ call[t].kind = "write" /\ Content(b)' = Patched(Content(b), call[t])
              /\ reply' = [reply EXCEPT ![t] = Done]
    PROVE  Store!Read(t) \/ Store!Write(t)
<1>1. Store!Pending(t) /\ mem[b] = Content(b) /\ b = call[t].block
  BY PendingCall DEF Block
<1>2. CASE call[t].kind = "read" /\ Content(b)' = Content(b) /\ reply' = [reply EXCEPT ![t] = Content(b)]
  <2>1. mem' = mem
    BY <1>2, SameMem
  <2> QED
    BY <1>1, <1>2, <2>1 DEF Store!Read, mem
<1>3. CASE /\ call[t].kind = "write" /\ Content(b)' = Patched(Content(b), call[t])
           /\ reply' = [reply EXCEPT ![t] = Done]
  <2>1. mem' = [mem EXCEPT ![b] = Patched(mem[b], call[t])]
    BY <1>1, <1>3, PatchedMem
  <2> QED
    BY <1>1, <1>3, <2>1 DEF Store!Write, Store!Patched, Patched, mem
<1> QED
  BY <1>2, <1>3

\* A call that is refused, with nothing changed.
LEMMA FailedCall ==
    ASSUME IndInv, NEW t \in Threads, pc[t] \notin {"idle", "done"}, call' = call, reply' = [reply EXCEPT ![t] = Failed],
           \A c \in Blocks : Content(c)' = Content(c)
    PROVE  Store!Fail(t)
BY PendingCall, SameMem DEF Store!Fail, mem

\* At first every block is blank.
LEMMA StoreInit == Init => Store!Init
<1> SUFFICES ASSUME Init PROVE Store!Init
  OBVIOUS
<1>1. \A b \in Blocks : Content(b) = Data0
  BY DEF Init, Content, IsReady, Resident
<1>2. mem = [b \in Blocks |-> [c \in Cells |-> Value0]]
  BY <1>1 DEF mem, Data0
<1> QED
  BY <1>2 DEF Store!Init, Init, mem

\* Every step of the cache is a step of the store, or one it does not see.
LEMMA StoreNext == ASSUME IndInv, [Next]_vars PROVE [Store!Next]_(Store!vars)
<1> DEFINE Same == \A c \in Blocks : Content(c)' = Content(c)
<1>0. ASSUME Same, UNCHANGED <<call, reply>> PROVE UNCHANGED Store!vars
  BY <1>0, SameMem DEF Store!vars, mem
<1>1. CASE \E t \in Threads : Begin(t) \/ ThreadStep(t)
  <2>1. PICK t \in Threads : Begin(t) \/ ThreadStep(t)
    BY <1>1
  <2>2. CASE Begin(t)
    <3>1. Same
      BY <2>2, ContentFrame DEF Begin, residentVars, tempVars
    <3>2. mem' = mem /\ call[t] = None
      BY <2>2, <3>1, SameMem DEF Begin, IndInv, ThreadsOK, CallsOK
    <3>3. Store!Begin(t)
      BY <2>2, <3>2 DEF Begin, Store!Begin, mem
    <3> QED
      BY <3>3 DEF Store!Next
  <2>3. CASE Return(t)
    <3>1. Same
      BY <2>3, ContentFrame DEF Return, residentVars, tempVars
    <3>2. mem' = mem /\ reply[t] # None
      BY <2>3, <3>1, SameMem DEF Return, IndInv, ThreadsOK, CallsOK
    <3>3. Store!Return(t)
      BY <2>3, <3>2 DEF Return, Store!Return, mem
    <3> QED
      BY <3>3 DEF Store!Next
  <2>4. CASE Hit(t)
    <3>1. pc[t] = "plan" /\ call' = call
      BY <2>4 DEF Hit
    <3>2. Block(t) \in Blocks
      BY <3>1, CallBlock
    <3>3. PICK b \in Blocks : b = Block(t)
      BY <3>2
    <3>4. Store!Read(t) \/ Store!Write(t)
      BY <2>4, <3>1, <3>3, HitContent, ServedCall
    <3> QED
      BY <3>4 DEF Store!Next
  <2>5. CASE FinishLoad(t)
    <3>1. pc[t] \notin {"idle", "done"} /\ call' = call /\ Loads(t)
      BY <2>5 DEF FinishLoad, Loads
    <3>2. PICK b \in Blocks : b = Block(t)
      BY <3>1, CallBlock
    <3>3. Block(t)' = b
      BY <3>1, <3>2 DEF Block
    <3>4. /\ \A c \in Blocks : c # b => Content(c)' = Content(c)
          /\ Content(b)' = Applied(Content(b), entries[b].patch)
          /\ reply' = [reply EXCEPT ![t] = IF call[t].kind = "read" THEN Content(b) ELSE Done]
      BY <2>5, <3>2, <3>3, FinishLoadStep
    <3>5. /\ entries[b].patch = IF call[t].kind = "write" THEN call[t] ELSE None
          /\ call[t] # None /\ call[t].kind \in {"read", "write"}
      BY <3>1, <3>2, LoadFacts, DataFacts
    <3>6. Store!Read(t) \/ Store!Write(t)
      <4>1. CASE call[t].kind = "read"
        <5>1. Content(b)' = Content(b) /\ reply' = [reply EXCEPT ![t] = Content(b)]
          BY <3>4, <3>5, <4>1 DEF Applied
        <5> QED
          BY <3>1, <3>2, <3>4, <4>1, <5>1, ServedCall
      <4>2. CASE call[t].kind = "write"
        <5>1. Content(b)' = Patched(Content(b), call[t]) /\ reply' = [reply EXCEPT ![t] = Done]
          BY <3>4, <3>5, <4>2 DEF Applied
        <5> QED
          BY <3>1, <3>2, <3>4, <4>2, <5>1, ServedCall
      <4> QED
        BY <3>5, <4>1, <4>2
    <3> QED
      BY <3>6 DEF Store!Next
  <2>6. CASE SpillFails(t)
    <3>1. Same
      BY <2>6, SpillFailsStep
    <3>2. pc[t] \notin {"idle", "done"} /\ call' = call /\ reply' = [reply EXCEPT ![t] = Failed]
      BY <2>6 DEF SpillFails, SpillReady, Missed, Answer
    <3>3. Store!Fail(t)
      BY <3>1, <3>2, FailedCall
    <3> QED
      BY <3>3 DEF Store!Next
  <2>7. CASE AbortLoad(t)
    <3>1. Same
      BY <2>7, AbortLoadStep
    <3>2. pc[t] \notin {"idle", "done"} /\ call' = call /\ reply' = [reply EXCEPT ![t] = Failed]
      BY <2>7 DEF AbortLoad, Loads, Answer
    <3>3. Store!Fail(t)
      BY <3>1, <3>2, FailedCall
    <3> QED
      BY <3>3 DEF Store!Next
  <2>8. CASE EnterFree(t) \/ EvictClean(t) \/ Spill(t)
    <3>1. Same
      BY <2>8, EnterFreeStep, EvictCleanStep, SpillStep
    <3>2. UNCHANGED <<call, reply>>
      BY <2>8 DEF EnterFree, EvictClean, Spill, Insert
    <3> QED
      BY <1>0, <3>1, <3>2
  <2>9. CASE WaitForBlock(t) \/ WaitForVictim(t) \/ ReadRight(t) \/ ReadTemp(t)
    <3>1. UNCHANGED <<entries, spilled, temp, right, call, reply>>
      BY <2>9 DEF WaitForBlock, WaitForVictim, ReadRight, ReadTemp, residentVars, tempVars
    <3>2. Same
      BY <3>1, ContentFrame
    <3> QED
      BY <1>0, <3>1, <3>2
  <2> QED
    BY <2>1, <2>2, <2>3, <2>4, <2>5, <2>6, <2>7, <2>8, <2>9 DEF ThreadStep
<1>2. CASE WorkerStep
  BY <1>0, <1>2, WorkerStepKeeps
<1>3. CASE UNCHANGED vars
  <2>1. Same /\ UNCHANGED <<call, reply>>
    BY <1>3, ContentFrame DEF vars, residentVars, tempVars, threadVars
  <2> QED
    BY <1>0, <2>1
<1> QED
  BY <1>1, <1>2, <1>3 DEF Next, WorkerStep

\* Whatever is evicted, spilled, rehydrated or flushed, and whatever fails, a
\* read returns the last accepted write and a failed call changes nothing: the
\* cache implements the block store (ImplementsStore).
THEOREM StoreImplemented == Spec => ImplementsStore
<1>1. IndInv /\ [Next]_vars => [Store!Next]_(Store!vars)
  BY StoreNext
<1> QED
  BY <1>1, StoreInit, Invariance, PTL DEF Spec, Store!Spec, ImplementsStore
=============================================================================
