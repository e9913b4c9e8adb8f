------------------------- MODULE KmdfSessionProofs -------------------------
(***************************************************************************)
(* Proofs about KmdfSession for any number of files and requests, any      *)
(* commands, pool limits and failures of allocations.                      *)
(***************************************************************************)
EXTENDS KmdfSession, FiniteSetTheorems, TLAPS

(***************************************************************************)
(* Counting.                                                               *)
(***************************************************************************)

\* One more,
LEMMA OneMore ==
    ASSUME NEW S, IsFiniteSet(S), NEW x, x \notin S
    PROVE  /\ IsFiniteSet(S \cup {x}) /\ Cardinality(S \cup {x}) = Cardinality(S) + 1
           /\ Cardinality(S) \in Nat
BY FS_AddElement, FS_CardinalityType

\* and one less.
LEMMA OneLess ==
    ASSUME NEW S, IsFiniteSet(S), NEW x \in S
    PROVE  /\ IsFiniteSet(S \ {x}) /\ Cardinality(S \ {x}) = Cardinality(S) - 1
           /\ Cardinality(S) \in Nat \ {0} /\ Cardinality(S) - 1 \in Nat
<1>1. Cardinality(S) # 0
  BY FS_EmptySet
<1> QED
  BY <1>1, FS_RemoveElement, FS_CardinalityType

\* Nobody is counted where the counter is zero.
LEMMA NobodyCounted ==
    ASSUME NEW S, IsFiniteSet(S), Cardinality(S) = 0
    PROVE  S = {}
BY FS_EmptySet

(***************************************************************************)
(* A step of one request.                                                  *)
(***************************************************************************)

\* Request r of file f moves, and nobody else.
Moves(r, f) ==
    /\ file'[r] = f /\ (file[r] = f \/ pc[r] = "idle")
    /\ \A q \in Requests \ {r} : pc'[q] = pc[q] /\ file'[q] = file[q] /\ holds'[q] = holds[q]

\* Nothing that SessionOK speaks of changes.
SessionsKept == UNCHANGED <<state, handle, hasId, armed, fresh, closer, runtime, rtState>>

\* The request of a file has a file; an idle one has none and is not counted.
LEMMA RequestFile ==
    ASSUME IndInv, NEW r \in Requests
    PROVE  /\ pc[r] = "idle" => file[r] = None /\ holds[r] = "none"
           /\ pc[r] # "idle" => file[r] \in Files /\ state[file[r]] \notin {"unopened", "Invalid"}
           /\ None \notin Files
<1>1. RequestOK(r) /\ None \notin Files
  BY ConstantsAssumption DEF IndInv, RequestsOK
<1>2. pc[r] = "idle" => file[r] = None /\ holds[r] = "none"
  BY <1>1 DEF RequestOK, ObjectPlaces
<1>3. ASSUME pc[r] # "idle" PROVE file[r] \in Files /\ state[file[r]] \notin {"unopened", "Invalid"}
  <2>1. file[r] \in Files
    BY <1>1, <1>3 DEF RequestOK, IndInv, TypeOK
  <2> QED
    BY <2>1 DEF IndInv, QuietOK, QuietAt
<1> QED
  BY <1>1, <1>2, <1>3

\* What holds of the other requests, and of the sessions, after the step.
LEMMA RequestStep ==
    ASSUME IndInv, NEW r \in Requests, NEW f \in Files, Moves(r, f), SessionsKept, RequestOK(r)',
           state[f] \notin {"unopened", "Invalid"},
           \A q \in Requests \ {r} :
               /\ completed'[q] = completed[q] /\ completion'[q] = completion[q]
               /\ (q \in calling') = (q \in calling) /\ (irp'[q] = "none") = (irp[q] = "none"),
           state[f] # "Active" /\ pc[r] \in QuietPlaces \cup {"idle"} => pc'[r] \in QuietPlaces,
           rtState[f] = "none" /\ pc[r] = "idle" => pc'[r] = "done",
           pc[r] # "done", holds'[r] # "none" => holds[r] # "none" \/ pc[r] = "reference"
    PROVE  RequestsOK' /\ SessionsOK' /\ QuietOK'
<1> USE DEF IndInv
<1>1. RequestsOK'
  <2> SUFFICES ASSUME NEW q \in Requests \ {r} PROVE RequestOK(q)'
    BY DEF RequestsOK
  <2>1. RequestOK(q)
    BY DEF RequestsOK
  <2> QED
    BY <2>1 DEF RequestOK, Moves
<1>2. SessionsOK'
  BY DEF SessionsOK, SessionOK, SessionsKept
<1>3. QuietOK'
  <2> SUFFICES ASSUME NEW g \in Files PROVE QuietAt(g)'
    BY DEF QuietOK
  <2>1. QuietAt(g) /\ SessionOK(g)
    BY DEF QuietOK, SessionsOK
  <2>2. pc[r] = "idle" => file[r] = None /\ holds[r] = "none"
    BY RequestFile
  <2>3. CASE g = f
    <3>1. ASSUME Quiet(f), state[f] # "Active" PROVE Quiet(f)'
      BY <2>2, <3>1 DEF Quiet, Moves
    <3>2. (\E k \in Closers : closer[f][k] \in {"stop", "drainActive"}) => state[f] # "Active"
      BY <2>1, <2>3 DEF SessionOK, Closers
    <3>3. rtState[f] = "freed" => state[f] # "Active"
      BY <2>1, <2>3 DEF SessionOK
    <3>4. ASSUME rtState[f] = "freed", NEW q \in Requests, file'[q] = f PROVE holds'[q] = "none"
      <4>1. CASE q = r
        BY <2>1, <2>2, <2>3, <3>4, <4>1 DEF QuietAt, Quiet, QuietPlaces, Moves
      <4>2. CASE q # r
        BY <2>1, <2>3, <3>4, <4>2 DEF QuietAt, Moves
      <4> QED
        BY <4>1, <4>2
    <3>5. ASSUME rtState[f] = "none", NEW q \in Requests, file'[q] = f PROVE pc'[q] = "done"
      BY <2>1, <2>3, <3>5 DEF QuietAt, Moves
    <3> QED
      BY <2>1, <2>3, <3>1, <3>2, <3>3, <3>4, <3>5 DEF QuietAt, SessionsKept
  <2>4. CASE g # f
    <3>1. \A q \in Requests : file'[q] = g => q # r /\ file[q] = g /\ pc'[q] = pc[q] /\ holds'[q] = holds[q]
      BY <2>4 DEF Moves
    <3> QED
      BY <2>1, <3>1 DEF QuietAt, Quiet, SessionsKept
  <2> QED
    BY <2>3, <2>4
<1> QED
  BY <1>1, <1>2, <1>3

(***************************************************************************)
(* The counters.                                                           *)
(***************************************************************************)

\* Who is in a session, or holds its runtime, after request r of f moved.
LEMMA SessionSets ==
    ASSUME IndInv, NEW r \in Requests, NEW f \in Files, Moves(r, f)
    PROVE  /\ \A g \in Files : g # f => /\ InSession(g)' = InSession(g) /\ Holders(g)' = Holders(g)
                                        /\ \A p \in Pools : ObjectsOut(g, p)' = ObjectsOut(g, p)
           /\ r \in InSession(f) <=> pc[r] \in InPlaces
           /\ r \in Holders(f) <=> holds[r] # "none"
           /\ \A p \in Pools : r \in ObjectsOut(f, p) <=> holds[r] = "object" /\ PoolOf(r) = p
           /\ InSession(f)' = IF pc'[r] \in InPlaces THEN InSession(f) \cup {r} ELSE InSession(f) \ {r}
           /\ Holders(f)' = IF holds'[r] # "none" THEN Holders(f) \cup {r} ELSE Holders(f) \ {r}
           /\ \A p \in Pools : ObjectsOut(f, p)' = IF holds'[r] = "object" /\ PoolOf(r) = p
                                                     THEN ObjectsOut(f, p) \cup {r} ELSE ObjectsOut(f, p) \ {r}
           /\ (holds'[r] = "none") = (holds[r] = "none") => Holders(f)' = Holders(f)
           /\ \A p \in Pools : p # PoolOf(r) \/ (holds'[r] = "object") = (holds[r] = "object") =>
                                 ObjectsOut(f, p)' = ObjectsOut(f, p)
<1>1. pc[r] = "idle" => file[r] = None /\ holds[r] = "none" /\ pc[r] \notin InPlaces
  BY RequestFile DEF InPlaces
<1>2. None \notin Files
  BY ConstantsAssumption
<1>3. \A g \in Files : g # f => file[r] # g /\ file'[r] # g
  BY <1>1, <1>2 DEF Moves
<1>4. \A g \in Files : g # f => InSession(g)' = InSession(g)
  BY <1>3 DEF InSession, Moves
<1>5. \A g \in Files : g # f => Holders(g)' = Holders(g)
  BY <1>3 DEF Holders, Moves
<1>6. \A g \in Files : g # f => \A p \in Pools : ObjectsOut(g, p)' = ObjectsOut(g, p)
  BY <1>3 DEF ObjectsOut, Moves, PoolOf
<1>7. r \in InSession(f) <=> pc[r] \in InPlaces
  BY <1>1 DEF InSession, Moves
<1>8. r \in Holders(f) <=> holds[r] # "none"
  BY <1>1 DEF Holders, Moves
<1>9. \A p \in Pools : r \in ObjectsOut(f, p) <=> holds[r] = "object" /\ PoolOf(r) = p
  BY <1>1 DEF ObjectsOut, Moves
<1>10. InSession(f)' = IF pc'[r] \in InPlaces THEN InSession(f) \cup {r} ELSE InSession(f) \ {r}
  BY DEF InSession, Moves
<1>11. Holders(f)' = IF holds'[r] # "none" THEN Holders(f) \cup {r} ELSE Holders(f) \ {r}
  BY DEF Holders, Moves
<1>12. \A p \in Pools : ObjectsOut(f, p)' = IF holds'[r] = "object" /\ PoolOf(r) = p
                                             THEN ObjectsOut(f, p) \cup {r} ELSE ObjectsOut(f, p) \ {r}
  BY DEF ObjectsOut, Moves, PoolOf
<1>13. (holds'[r] = "none") = (holds[r] = "none") => Holders(f)' = Holders(f)
  BY <1>1 DEF Holders, Moves
<1>14. \A p \in Pools : p # PoolOf(r) \/ (holds'[r] = "object") = (holds[r] = "object") =>
                           ObjectsOut(f, p)' = ObjectsOut(f, p)
  BY <1>1 DEF ObjectsOut, Moves, PoolOf
<1> QED
  BY <1>4, <1>5, <1>6, <1>7, <1>8, <1>9, <1>10, <1>11, <1>12, <1>13, <1>14

\* One place of a table of the pools.
LEMMA PoolUpdate ==
    ASSUME NEW F \in [Files -> [Pools -> Nat]], NEW f \in Files, NEW p \in Pools, NEW n \in Nat
    PROVE  /\ [F EXCEPT ![f][p] = n] \in [Files -> [Pools -> Nat]] /\ [F EXCEPT ![f][p] = n][f][p] = n
           /\ \A g \in Files, q \in Pools : g # f \/ q # p => [F EXCEPT ![f][p] = n][g][q] = F[g][q]
OBVIOUS

\* The request stays inside or outside its session,
LEMMA InFlightSame ==
    ASSUME IndInv, NEW r \in Requests, NEW f \in Files, Moves(r, f), UNCHANGED <<inFlight, pendingSlots>>,
           (pc'[r] \in InPlaces) = (pc[r] \in InPlaces)
    PROVE  InFlightOK'
<1>1. \A g \in Files : InSession(g)' = InSession(g)
  BY SMTT(30), SessionSets
<1> QED
  BY <1>1 DEF InFlightOK, IndInv

\* is counted in,
LEMMA InFlightEnters ==
    ASSUME IndInv, NEW r \in Requests, NEW f \in Files, Moves(r, f), pc[r] \notin InPlaces, pc'[r] \in InPlaces,
           inFlight' = [inFlight EXCEPT ![f] = @ + 1],
           pendingSlots' = IF r \in Async THEN [pendingSlots EXCEPT ![f] = @ + 1] ELSE pendingSlots
    PROVE  /\ InFlightOK' /\ inFlight' \in [Files -> Nat] /\ pendingSlots' \in [Files -> Nat]
<1> USE DEF IndInv
<1> DEFINE S == InSession(f)
<1>1. /\ IsFiniteSet(S) /\ inFlight[f] = Cardinality(S) /\ pendingSlots[f] = Cardinality(S \cap Async)
      /\ inFlight \in [Files -> Nat] /\ pendingSlots \in [Files -> Nat]
  BY DEF InFlightOK, TypeOK
<1>2. InSession(f)' = S \cup {r} /\ r \notin S /\ \A g \in Files : g # f => InSession(g)' = InSession(g)
  BY SessionSets
<1> HIDE DEF S
<1>3. IsFiniteSet(S \cup {r}) /\ Cardinality(S \cup {r}) = Cardinality(S) + 1
  BY <1>1, <1>2, OneMore
<1>4. IsFiniteSet(S \cap Async) /\ r \notin S \cap Async
  BY <1>1, <1>2, FS_Subset
<1>5. Cardinality((S \cap Async) \cup {r}) = Cardinality(S \cap Async) + 1
  BY <1>4, OneMore
<1>6. (S \cup {r}) \cap Async = IF r \in Async THEN (S \cap Async) \cup {r} ELSE S \cap Async
  OBVIOUS
<1>7. pendingSlots'[f] = Cardinality((S \cup {r}) \cap Async) /\ inFlight'[f] = Cardinality(S \cup {r})
  BY <1>1, <1>3, <1>5, <1>6
<1>8. \A g \in Files : g # f => inFlight'[g] = inFlight[g] /\ pendingSlots'[g] = pendingSlots[g]
  BY <1>1
<1>9. InFlightOK'
  BY <1>2, <1>3, <1>7, <1>8 DEF InFlightOK
<1> QED
  BY <1>1, <1>9

\* or is counted out.
LEMMA InFlightLeaves ==
    ASSUME IndInv, NEW r \in Requests, NEW f \in Files, Moves(r, f), pc[r] \in InPlaces, pc'[r] \notin InPlaces,
           inFlight' = [inFlight EXCEPT ![f] = @ - 1],
           pendingSlots' = IF r \in Async THEN [pendingSlots EXCEPT ![f] = @ - 1] ELSE pendingSlots
    PROVE  /\ InFlightOK' /\ inFlight' \in [Files -> Nat] /\ pendingSlots' \in [Files -> Nat]
<1> USE DEF IndInv
<1> DEFINE S == InSession(f)
<1>1. /\ IsFiniteSet(S) /\ inFlight[f] = Cardinality(S) /\ pendingSlots[f] = Cardinality(S \cap Async)
      /\ inFlight \in [Files -> Nat] /\ pendingSlots \in [Files -> Nat]
  BY DEF InFlightOK, TypeOK
<1>2. InSession(f)' = S \ {r} /\ r \in S /\ \A g \in Files : g # f => InSession(g)' = InSession(g)
  BY SessionSets
<1> HIDE DEF S
<1>3. IsFiniteSet(S \ {r}) /\ Cardinality(S \ {r}) = Cardinality(S) - 1 /\ Cardinality(S) - 1 \in Nat
  BY <1>1, <1>2, OneLess
<1>4. IsFiniteSet(S \cap Async)
  BY <1>1, FS_Subset
<1>5. r \in Async => /\ Cardinality((S \cap Async) \ {r}) = Cardinality(S \cap Async) - 1
                     /\ Cardinality(S \cap Async) - 1 \in Nat
  BY <1>2, <1>4, OneLess
<1>6. (S \ {r}) \cap Async = IF r \in Async THEN (S \cap Async) \ {r} ELSE S \cap Async
  OBVIOUS
<1>7. /\ pendingSlots'[f] = Cardinality((S \ {r}) \cap Async) /\ inFlight'[f] = Cardinality(S \ {r})
      /\ pendingSlots'[f] \in Nat /\ inFlight'[f] \in Nat
  BY <1>1, <1>3, <1>5, <1>6
<1>8. \A g \in Files : g # f => inFlight'[g] = inFlight[g] /\ pendingSlots'[g] = pendingSlots[g]
  BY <1>1
<1>9. InFlightOK'
  BY <1>2, <1>3, <1>7, <1>8 DEF InFlightOK
<1> QED
  BY <1>1, <1>7, <1>9

\* The request keeps what it holds of the runtime,
LEMMA HoldsSame ==
    ASSUME IndInv, NEW r \in Requests, NEW f \in Files, Moves(r, f), UNCHANGED <<active, pool, free>>,
           holds'[r] = holds[r]
    PROVE  ActiveOK' /\ PoolOK'
<1>1. \A g \in Files : Holders(g)' = Holders(g)
  BY SessionSets
<1>2. \A g \in Files, p \in Pools : ObjectsOut(g, p)' = ObjectsOut(g, p)
  BY SessionSets
<1> QED
  BY <1>1, <1>2 DEF ActiveOK, PoolOK, IndInv

\* takes a reference,
LEMMA HoldsReference ==
    ASSUME IndInv, NEW r \in Requests, NEW f \in Files, Moves(r, f), UNCHANGED <<pool, free>>,
           holds[r] = "none", holds'[r] = "reference", active' = [active EXCEPT ![f] = @ + 1]
    PROVE  ActiveOK' /\ PoolOK' /\ active' \in [Files -> Nat]
<1> USE DEF IndInv
<1> DEFINE S == Holders(f)
<1>1. IsFiniteSet(S) /\ active[f] = Cardinality(S) /\ active \in [Files -> Nat]
  BY DEF ActiveOK, TypeOK
<1>2. /\ Holders(f)' = S \cup {r} /\ r \notin S /\ \A g \in Files : g # f => Holders(g)' = Holders(g)
      /\ \A g \in Files, p \in Pools : ObjectsOut(g, p)' = ObjectsOut(g, p)
  <2>1. \A p \in Pools : ObjectsOut(f, p)' = ObjectsOut(f, p)
    BY SessionSets
  <2> QED
    BY <2>1, SessionSets
<1> HIDE DEF S
<1>3. IsFiniteSet(S \cup {r}) /\ Cardinality(S \cup {r}) = Cardinality(S) + 1
  BY <1>1, <1>2, OneMore
<1>4. ActiveOK'
  BY <1>1, <1>2, <1>3 DEF ActiveOK
<1>5. PoolOK'
  BY <1>2 DEF PoolOK
<1> QED
  BY <1>1, <1>4, <1>5

\* takes an object, from the free list or a new one,
LEMMA HoldsObject ==
    ASSUME IndInv, NEW r \in Requests, NEW f \in Files, Moves(r, f), UNCHANGED active,
           holds[r] = "reference", holds'[r] = "object",
           \/ free[f][PoolOf(r)] > 0 /\ free' = [free EXCEPT ![f][PoolOf(r)] = @ - 1] /\ UNCHANGED pool
           \/ pool' = [pool EXCEPT ![f][PoolOf(r)] = @ + 1] /\ UNCHANGED free
    PROVE  /\ ActiveOK' /\ PoolOK' /\ free' \in [Files -> [Pools -> Nat]] /\ pool' \in [Files -> [Pools -> Nat]]
<1> USE DEF IndInv
<1> DEFINE p == PoolOf(r)
           S == ObjectsOut(f, p)
<1>1. /\ p \in Pools /\ free \in [Files -> [Pools -> Nat]] /\ pool \in [Files -> [Pools -> Nat]]
      /\ pool[f][p] = free[f][p] + Cardinality(S)
  BY DEF PoolOK, TypeOK, PoolOf, Pools
<1>2. IsFiniteSet(S)
  <2>1. S \subseteq Holders(f) /\ IsFiniteSet(Holders(f))
    BY DEF ObjectsOut, Holders, ActiveOK
  <2> QED
    BY <2>1, FS_Subset
<1>3. /\ ObjectsOut(f, p)' = S \cup {r} /\ r \notin S
      /\ \A g \in Files, q \in Pools : g # f \/ q # p => ObjectsOut(g, q)' = ObjectsOut(g, q)
      /\ \A g \in Files : Holders(g)' = Holders(g)
  <2>1. \A q \in Pools : q # p => ObjectsOut(f, q)' = ObjectsOut(f, q)
    BY SessionSets
  <2>2. ObjectsOut(f, p)' = S \cup {r} /\ r \notin S
    BY <1>1, SessionSets
  <2>3. Holders(f)' = Holders(f)
    BY SessionSets
  <2> QED
    BY <2>1, <2>2, <2>3, SessionSets
<1> HIDE DEF S, p
<1>4. Cardinality(S \cup {r}) = Cardinality(S) + 1 /\ Cardinality(S) \in Nat
  BY <1>2, <1>3, OneMore
<1>5. /\ free' \in [Files -> [Pools -> Nat]] /\ pool' \in [Files -> [Pools -> Nat]]
      /\ pool'[f][p] = free'[f][p] + (Cardinality(S) + 1)
      /\ \A g \in Files, q \in Pools : g # f \/ q # p => pool'[g][q] = pool[g][q] /\ free'[g][q] = free[g][q]
  <2>1. CASE free[f][p] > 0 /\ free' = [free EXCEPT ![f][p] = @ - 1] /\ UNCHANGED pool
    <3>1. free[f][p] - 1 \in Nat /\ free[f][p] \in Nat /\ pool' = pool
      BY <1>1, <2>1
    <3>2. /\ free' \in [Files -> [Pools -> Nat]] /\ free'[f][p] = free[f][p] - 1
          /\ \A g \in Files, q \in Pools : g # f \/ q # p => free'[g][q] = free[g][q]
      BY <1>1, <2>1, <3>1, PoolUpdate
    <3>3. pool'[f][p] = free'[f][p] + (Cardinality(S) + 1)
      BY <1>1, <1>4, <3>1, <3>2
    <3> QED
      BY <1>1, <3>1, <3>2, <3>3
  <2>2. CASE pool' = [pool EXCEPT ![f][p] = @ + 1] /\ UNCHANGED free
    <3>1. pool[f][p] + 1 \in Nat /\ pool[f][p] \in Nat /\ free[f][p] \in Nat /\ free' = free
      BY <1>1, <2>2
    <3>2. /\ pool' \in [Files -> [Pools -> Nat]] /\ pool'[f][p] = pool[f][p] + 1
          /\ \A g \in Files, q \in Pools : g # f \/ q # p => pool'[g][q] = pool[g][q]
      BY <1>1, <2>2, <3>1, PoolUpdate
    <3>3. pool'[f][p] = free'[f][p] + (Cardinality(S) + 1)
      BY <1>1, <1>4, <3>1, <3>2
    <3> QED
      BY <1>1, <3>1, <3>2, <3>3
  <2> QED
    BY <2>1, <2>2 DEF p
<1>6. PoolOK'
  <2> SUFFICES ASSUME NEW g \in Files, NEW q \in Pools
               PROVE  pool'[g][q] = free'[g][q] + Cardinality(ObjectsOut(g, q)')
    BY DEF PoolOK
  <2>1. CASE g = f /\ q = p
    BY <1>3, <1>4, <1>5, <2>1
  <2>2. CASE g # f \/ q # p
    BY <1>3, <1>5, <2>2 DEF PoolOK
  <2> QED
    BY <2>1, <2>2
<1>7. ActiveOK'
  BY <1>3 DEF ActiveOK
<1> QED
  BY <1>5, <1>6, <1>7

\* and gives back all it holds.
LEMMA HoldsNothing ==
    ASSUME IndInv, NEW r \in Requests, NEW f \in Files, Moves(r, f), holds[r] # "none", holds'[r] = "none",
           active' = [active EXCEPT ![f] = @ - 1], UNCHANGED pool,
           free' = IF holds[r] = "object" THEN [free EXCEPT ![f][PoolOf(r)] = @ + 1] ELSE free
    PROVE  ActiveOK' /\ PoolOK' /\ active' \in [Files -> Nat] /\ free' \in [Files -> [Pools -> Nat]]
<1> USE DEF IndInv
<1>1. ActiveOK' /\ active' \in [Files -> Nat]
  <2> DEFINE S == Holders(f)
  <2>1. IsFiniteSet(S) /\ active[f] = Cardinality(S) /\ active \in [Files -> Nat]
    BY DEF ActiveOK, TypeOK
  <2>2. /\ Holders(f)' = S \ {r} /\ r \in S /\ \A g \in Files : g # f => Holders(g)' = Holders(g)
    BY SessionSets
  <2> HIDE DEF S
  <2>3. IsFiniteSet(S \ {r}) /\ Cardinality(S \ {r}) = Cardinality(S) - 1 /\ Cardinality(S) - 1 \in Nat
    BY <2>1, <2>2, OneLess
  <2> QED
    BY <2>1, <2>2, <2>3 DEF ActiveOK
<1> DEFINE p == PoolOf(r)
           S == ObjectsOut(f, p)
<1>2. /\ p \in Pools /\ free \in [Files -> [Pools -> Nat]] /\ pool \in [Files -> [Pools -> Nat]]
      /\ pool[f][p] = free[f][p] + Cardinality(S)
  BY DEF PoolOK, TypeOK, PoolOf, Pools
<1>3. IsFiniteSet(S)
  <2>1. S \subseteq Holders(f) /\ IsFiniteSet(Holders(f))
    BY DEF ObjectsOut, Holders, ActiveOK
  <2> QED
    BY <2>1, FS_Subset
<1>4. /\ ObjectsOut(f, p)' = S \ {r} /\ (r \in S <=> holds[r] = "object")
      /\ \A g \in Files, q \in Pools : g # f \/ q # p => ObjectsOut(g, q)' = ObjectsOut(g, q)
  <2>1. \A q \in Pools : q # p => ObjectsOut(f, q)' = ObjectsOut(f, q)
    BY SessionSets
  <2>2. ObjectsOut(f, p)' = S \ {r} /\ (r \in S <=> holds[r] = "object")
    BY <1>2, SessionSets
  <2> QED
    BY <2>1, <2>2, SessionSets
<1> HIDE DEF S, p
<1>5. holds[r] = "object" => Cardinality(S \ {r}) = Cardinality(S) - 1 /\ Cardinality(S) \in Nat
  BY <1>3, <1>4, OneLess
<1>6. /\ free' \in [Files -> [Pools -> Nat]]
      /\ free'[f][p] = IF holds[r] = "object" THEN free[f][p] + 1 ELSE free[f][p]
      /\ \A g \in Files, q \in Pools : g # f \/ q # p => free'[g][q] = free[g][q]
  BY <1>2 DEF p
<1>7. pool'[f][p] = free'[f][p] + Cardinality(S \ {r})
  <2>1. CASE holds[r] = "object"
    <3>1. /\ Cardinality(S \ {r}) = Cardinality(S) - 1 /\ Cardinality(S) \in Nat /\ free'[f][p] = free[f][p] + 1
          /\ free[f][p] \in Nat /\ pool'[f][p] = pool[f][p]
      BY <1>2, <1>5, <1>6, <2>1
    <3> QED
      BY <1>2, <3>1
  <2>2. CASE holds[r] # "object"
    <3>1. S \ {r} = S
      BY <1>4, <2>2
    <3> QED
      BY <1>2, <1>6, <2>2, <3>1
  <2> QED
    BY <2>1, <2>2
<1>8. PoolOK'
  <2> SUFFICES ASSUME NEW g \in Files, NEW q \in Pools
               PROVE  pool'[g][q] = free'[g][q] + Cardinality(ObjectsOut(g, q)')
    BY DEF PoolOK
  <2>1. CASE g = f /\ q = p
    BY <1>4, <1>7, <2>1
  <2>2. CASE g # f \/ q # p
    BY <1>4, <1>6, <2>2 DEF PoolOK
  <2> QED
    BY <2>1, <2>2
<1> QED
  BY <1>1, <1>6, <1>8

\* The event slots that are reserved stay reserved,
LEMMA EventKept ==
    ASSUME IndInv, NEW r \in Requests, NEW f \in Files, Moves(r, f), UNCHANGED eventSlot,
           r \in EventRequests /\ pc'[r] \in EventPlaces => pc[r] \in EventPlaces
    PROVE  EventSlotReserved'
BY DEF EventSlotReserved, IndInv, Moves, EventPlaces, Requests, Async

\* and a request that gives its object back gives back its own only.
LEMMA EventReleased ==
    ASSUME IndInv, NEW r \in Requests, NEW f \in Files, Moves(r, f), pc'[r] \notin EventPlaces,
           \/ UNCHANGED eventSlot
           \/ eventSlot[f] = r /\ eventSlot' = [eventSlot EXCEPT ![f] = None]
    PROVE  EventSlotReserved'
<1> SUFFICES ASSUME NEW q \in EventRequests, pc'[q] \in EventPlaces PROVE eventSlot'[file'[q]] = q
  BY DEF EventSlotReserved
<1>1. q # r /\ q \in Requests
  BY DEF Requests, Async
<1>2. pc[q] \in EventPlaces /\ file'[q] = file[q] /\ eventSlot[file[q]] = q
  BY <1>1 DEF Moves, EventSlotReserved, IndInv
<1>3. file[q] \in Files
  BY <1>1, <1>2, RequestFile DEF EventPlaces
<1> QED
  BY <1>1, <1>2, <1>3 DEF IndInv, TypeOK

\* Of the other requests nothing changes that RequestOK speaks of.
Others(r) ==
    \A q \in Requests \ {r} :
        /\ completed'[q] = completed[q] /\ completion'[q] = completion[q]
        /\ (q \in calling') = (q \in calling) /\ (irp'[q] = "none") = (irp[q] = "none")

\* A request goes on, and no counter changes.
LEMMA PlainStep ==
    ASSUME IndInv, NEW r \in Requests, NEW f \in Files, Moves(r, f), SessionsKept, RequestOK(r)', Others(r), TypeOK',
           state[f] \notin {"unopened", "Invalid"}, pc[r] # "done", holds'[r] = holds[r],
           UNCHANGED <<inFlight, pendingSlots, eventSlot, active, pool, free>>,
           (pc'[r] \in InPlaces) = (pc[r] \in InPlaces),
           state[f] # "Active" /\ pc[r] \in QuietPlaces \cup {"idle"} => pc'[r] \in QuietPlaces,
           rtState[f] = "none" /\ pc[r] = "idle" => pc'[r] = "done",
           r \in EventRequests /\ pc'[r] \in EventPlaces => pc[r] \in EventPlaces
    PROVE  IndInv'
<1>1. RequestsOK' /\ SessionsOK' /\ QuietOK'
  BY RequestStep DEF Others
<1>2. InFlightOK' /\ ActiveOK' /\ PoolOK' /\ EventSlotReserved'
  BY InFlightSame, HoldsSame, EventKept
<1> QED
  BY <1>1, <1>2 DEF IndInv

\* Only the place of a request changes, or it is completed as well.
LEMMA GoStep ==
    ASSUME IndInv, NEW r \in Requests, NEW p \in Places, pc[r] \notin {"idle", "done"}, pc' = [pc EXCEPT ![r] = p],
           completed' = completed \/ completed' = [completed EXCEPT ![r] = @ + 1],
           UNCHANGED <<deviceVars, sessionVars, watchVars, runtimeVars, file, holds, irpVars, miniportVars>>,
           RequestOK(r)', (p \in InPlaces) = (pc[r] \in InPlaces),
           state[file[r]] # "Active" /\ pc[r] \in QuietPlaces => p \in QuietPlaces,
           r \in EventRequests /\ p \in EventPlaces => pc[r] \in EventPlaces
    PROVE  IndInv'
<1> USE DEF deviceVars, sessionVars, watchVars, runtimeVars, irpVars, miniportVars
<1>1. file[r] \in Files /\ state[file[r]] \notin {"unopened", "Invalid"}
  BY RequestFile
<1>2. PICK f \in Files : f = file[r]
  BY <1>1
<1>3. pc'[r] = p /\ Moves(r, f) /\ Others(r) /\ SessionsKept
  BY <1>2 DEF IndInv, TypeOK, Moves, Others, SessionsKept
<1>4. TypeOK'
  <2>1. pc' \in [Requests -> Places] /\ completed' \in [Requests -> Nat]
    BY DEF IndInv, TypeOK
  <2> QED
    BY <2>1 DEF IndInv, TypeOK
<1> HIDE DEF deviceVars, sessionVars, watchVars, runtimeVars, irpVars, miniportVars
<1>5. UNCHANGED <<inFlight, pendingSlots, eventSlot, active, pool, free, holds>>
  BY DEF sessionVars, runtimeVars
<1> QED
  BY <1>1, <1>2, <1>3, <1>4, <1>5, PlainStep

(***************************************************************************)
(* Requests that only change their place.                                  *)
(***************************************************************************)

\* What a driver thread knows of the request it serves.
LEMMA Served ==
    ASSUME IndInv, NEW r \in Requests
    PROVE  /\ RequestOK(r) /\ pc[r] \in Places
           /\ (r \in SyncRequests) = (r \notin Async)
           /\ r \in EventRequests => r \in Async
           /\ pc \in [Requests -> Places] /\ file \in [Requests -> Files \cup {None}]
           /\ holds \in [Requests -> {"none", "reference", "object"}]
           /\ completed \in [Requests -> Nat] /\ completion \in [Requests -> 0 .. 2]
           /\ irp \in [Requests -> {"none", "sent", "done"}] /\ calling \subseteq Async
BY ConstantsAssumption DEF IndInv, RequestsOK, TypeOK, Requests, Async

\* The places a request may go to from another, within its session.
GoesOn(r, p) ==
    /\ p \in Places /\ (p \in InPlaces) = (pc[r] \in InPlaces)
    /\ pc[r] \in QuietPlaces => p \in QuietPlaces
    /\ r \in EventRequests /\ p \in EventPlaces => pc[r] \in EventPlaces

\* The session is looked at a second time: only an Active one, with its handle,
\* id and runtime, admits the slot.
LEMMA RecheckStateStep == ASSUME IndInv, NEW r \in Requests, RecheckState(r) PROVE IndInv'
<1>1. PICK p \in {"lookup", "failSlot"} :
          pc' = [pc EXCEPT ![r] = p] /\ (state[file[r]] # "Active" => p = "failSlot")
  BY DEF RecheckState, Go, SlotAdmitted, Entered
<1>2. /\ pc[r] = "recheck" /\ UNCHANGED completed
      /\ UNCHANGED <<deviceVars, sessionVars, watchVars, runtimeVars, file, holds, irpVars, miniportVars>>
  BY DEF RecheckState
<1>3. RequestOK(r)'
  BY <1>1, <1>2, Served DEF RequestOK, ObjectPlaces, irpVars
<1>4. /\ p \in Places /\ (p \in InPlaces) = (pc[r] \in InPlaces) /\ p \notin EventPlaces
      /\ p = "failSlot" => p \in QuietPlaces
  BY <1>2 DEF Places, InPlaces, QuietPlaces, EventPlaces
<1> QED
  BY <1>1, <1>2, <1>3, <1>4, GoStep

\* The steps that change only the place of the request.
LEMMA GoOnStep ==
    ASSUME IndInv, NEW r \in Requests, NEW p, GoesOn(r, p), pc[r] \notin {"idle", "done"},
           pc' = [pc EXCEPT ![r] = p], completed' = completed \/ completed' = [completed EXCEPT ![r] = @ + 1],
           UNCHANGED <<deviceVars, sessionVars, watchVars, runtimeVars, file, holds, irpVars, miniportVars>>,
           RequestOK(r)'
    PROVE  IndInv'
BY GoStep DEF GoesOn

\* The runtime is looked up.
LEMMA LookupRuntimeStep == ASSUME IndInv, NEW r \in Requests, LookupRuntime(r) PROVE IndInv'
<1>1. PICK p \in {"reference", FailPlace(r)} : pc' = [pc EXCEPT ![r] = p]
  BY DEF LookupRuntime, Go
<1>2. /\ pc[r] = "lookup" /\ UNCHANGED completed
      /\ UNCHANGED <<deviceVars, sessionVars, watchVars, runtimeVars, file, holds, irpVars, miniportVars>>
  BY DEF LookupRuntime
<1>3. p \in {"reference", "failSlot", "reply"}
  BY <1>1 DEF FailPlace
<1>4. RequestOK(r)'
  BY <1>1, <1>2, Served DEF RequestOK, ObjectPlaces, irpVars, FailPlace
<1>5. GoesOn(r, p)
  BY <1>2, <1>3 DEF GoesOn, Places, InPlaces, QuietPlaces, EventPlaces
<1> QED
  BY <1>1, <1>2, <1>4, <1>5, GoOnStep

\* The limit of the pool is reached, or memory is short.
LEMMA NoObjectStep == ASSUME IndInv, NEW r \in Requests, NoObject(r) PROVE IndInv'
<1>1. /\ pc[r] = "object" /\ UNCHANGED completed /\ pc' = [pc EXCEPT ![r] = "drop"]
      /\ UNCHANGED <<deviceVars, sessionVars, watchVars, runtimeVars, file, holds, irpVars, miniportVars>>
  BY DEF NoObject, Go
<1>2. RequestOK(r)'
  BY <1>1, Served DEF RequestOK, ObjectPlaces, irpVars
<1>3. GoesOn(r, "drop")
  BY <1>1 DEF GoesOn, Places, InPlaces, QuietPlaces, EventPlaces
<1> QED
  BY <1>1, <1>2, <1>3, GoOnStep

\* A command is answered.
LEMMA ReplyStep == ASSUME IndInv, NEW r \in Requests, Reply(r) PROVE IndInv'
<1>1. /\ pc[r] = "reply" /\ completed' = [completed EXCEPT ![r] = @ + 1] /\ pc' = [pc EXCEPT ![r] = "leave"]
      /\ UNCHANGED <<deviceVars, sessionVars, watchVars, runtimeVars, file, holds, irpVars, miniportVars>>
  BY DEF Reply, Go
<1>2. completed'[r] = 1
  BY <1>1, Served DEF RequestOK
<1>3. RequestOK(r)'
  BY <1>1, <1>2, Served DEF RequestOK, ObjectPlaces, irpVars
<1>4. GoesOn(r, "leave")
  BY <1>1 DEF GoesOn, Places, InPlaces, QuietPlaces, EventPlaces
<1> QED
  BY <1>1, <1>3, <1>4, GoOnStep

\* The work item runs.
LEMMA SlotWorkItemStep == ASSUME IndInv, NEW r \in Requests, SlotWorkItem(r) PROVE IndInv'
<1>1. PICK p \in {"dispatch", "complete"} : pc' = [pc EXCEPT ![r] = p]
  BY DEF SlotWorkItem, Go
<1>2. /\ pc[r] = "queued" /\ UNCHANGED completed
      /\ UNCHANGED <<deviceVars, sessionVars, watchVars, runtimeVars, file, holds, irpVars, miniportVars>>
  BY DEF SlotWorkItem
<1>3. RequestOK(r)'
  BY <1>1, <1>2, Served DEF RequestOK, ObjectPlaces, irpVars
<1>4. GoesOn(r, p)
  BY <1>1, <1>2 DEF GoesOn, Places, InPlaces, QuietPlaces, EventPlaces
<1> QED
  BY <1>1, <1>2, <1>3, <1>4, GoOnStep

\* The App's slot is completed.
LEMMA CompleteSlotStep == ASSUME IndInv, NEW r \in Requests, CompleteSlot(r) PROVE IndInv'
<1>1. /\ pc[r] = "complete" /\ completed' = [completed EXCEPT ![r] = @ + 1] /\ pc' = [pc EXCEPT ![r] = "leaveSlot"]
      /\ UNCHANGED <<deviceVars, sessionVars, watchVars, runtimeVars, file, holds, irpVars, miniportVars>>
  BY DEF CompleteSlot, Go
<1>2. completed'[r] = 1
  BY <1>1, Served DEF RequestOK
<1>3. RequestOK(r)'
  BY <1>1, <1>2, Served DEF RequestOK, ObjectPlaces, irpVars
<1>4. GoesOn(r, "leaveSlot")
  BY <1>1 DEF GoesOn, Places, InPlaces, QuietPlaces, EventPlaces
<1> QED
  BY <1>1, <1>3, <1>4, GoOnStep

\* A slot that was not admitted, or got no object, is completed.
LEMMA AnswerStep == ASSUME IndInv, NEW r \in Requests, Answer(r) PROVE IndInv'
<1>1. /\ pc[r] = "answer" /\ completed' = [completed EXCEPT ![r] = @ + 1] /\ pc' = [pc EXCEPT ![r] = "done"]
      /\ UNCHANGED <<deviceVars, sessionVars, watchVars, runtimeVars, file, holds, irpVars, miniportVars>>
  BY DEF Answer, Go
<1>2. completed'[r] = 1
  BY <1>1, Served DEF RequestOK
<1>3. RequestOK(r)'
  BY <1>1, <1>2, Served DEF RequestOK, ObjectPlaces, irpVars
<1>4. GoesOn(r, "done")
  BY <1>1 DEF GoesOn, Places, InPlaces, QuietPlaces, EventPlaces
<1> QED
  BY <1>1, <1>3, <1>4, GoOnStep

(***************************************************************************)
(* Admission.                                                              *)
(***************************************************************************)

\* A command enters its session, or is turned away and completed.
LEMMA AcquireSessionStep ==
    ASSUME IndInv, NEW r \in Requests, NEW f \in Files, AcquireSession(r, f) PROVE IndInv'
<1> DEFINE p == IF Entered(f) THEN "lookup" ELSE "done"
<1>1. /\ pc[r] = "idle" /\ r \in SyncRequests /\ state[f] \notin {"unopened", "Invalid"}
      /\ pc' = [pc EXCEPT ![r] = p] /\ file' = [file EXCEPT ![r] = f]
      /\ completed' = IF Entered(f) THEN completed ELSE [completed EXCEPT ![r] = @ + 1]
      /\ inFlight' = IF Entered(f) THEN [inFlight EXCEPT ![f] = @ + 1] ELSE inFlight
      /\ UNCHANGED <<deviceVars, state, handle, hasId, pendingSlots, eventSlot, watchVars, runtimeVars, holds, irpVars,
                     miniportVars>>
  BY DEF AcquireSession, MayIssue, Go
<1>2. Entered(f) => state[f] = "Active" /\ rtState[f] = "Running"
  BY DEF Entered, IndInv, SessionsOK, SessionOK
<1>3. completed[r] = 0 /\ holds[r] = "none" /\ file[r] = None /\ r \notin Async /\ None \notin Files
  BY <1>1, Served, RequestFile DEF RequestOK
<1>4. p \in {"lookup", "done"} /\ (p = "lookup" <=> Entered(f))
  OBVIOUS
<1> HIDE DEF p
<1>5. completed'[r] = IF p = "lookup" THEN 0 ELSE 1
  BY <1>1, <1>3, <1>4, Served
<1>6. pc'[r] = p /\ file'[r] = f /\ UNCHANGED <<holds, calling, completion, irp, eventSlot, pendingSlots, active, pool, free>>
  BY <1>1, Served DEF irpVars, runtimeVars
<1>7. RequestOK(r)'
  BY <1>1, <1>3, <1>4, <1>5, <1>6, Served DEF RequestOK, ObjectPlaces
<1>8. Moves(r, f) /\ Others(r) /\ SessionsKept
  BY <1>1, <1>6, Served DEF Moves, Others, SessionsKept, watchVars, runtimeVars
<1>9. RequestsOK' /\ SessionsOK' /\ QuietOK'
  BY <1>1, <1>2, <1>4, <1>6, <1>7, <1>8, RequestStep DEF Others, QuietPlaces
<1>10. ActiveOK' /\ PoolOK' /\ EventSlotReserved'
  BY <1>1, <1>3, <1>6, <1>8, HoldsSame, EventKept, Served
<1>11. InFlightOK' /\ inFlight' \in [Files -> Nat]
  <2>1. pc[r] \notin InPlaces /\ (p \in InPlaces <=> p = "lookup")
    BY <1>1, <1>4 DEF InPlaces, Places
  <2>2. CASE Entered(f)
    BY <1>1, <1>3, <1>4, <1>6, <1>8, <2>1, <2>2, InFlightEnters
  <2>3. CASE ~Entered(f)
    BY <1>1, <1>4, <1>6, <1>8, <2>1, <2>3, InFlightSame DEF IndInv, TypeOK
  <2> QED
    BY <2>2, <2>3
<1>12. TypeOK'
  <2>1. pc' \in [Requests -> Places] /\ completed' \in [Requests -> Nat] /\ file' \in [Requests -> Files \cup {None}]
    BY <1>1, <1>4, Served DEF Places
  <2> QED
    BY <1>1, <1>11, <2>1 DEF IndInv, TypeOK, deviceVars, watchVars, runtimeVars, irpVars, miniportVars
<1> QED
  BY <1>9, <1>10, <1>11, <1>12 DEF IndInv

\* A slot looks at the state without the lock.
LEMMA PeekStateStep ==
    ASSUME IndInv, NEW r \in Requests, NEW f \in Files, PeekState(r, f) PROVE IndInv'
<1> DEFINE p == IF state[f] = "Active" THEN "refer" ELSE "done"
<1>1. /\ pc[r] = "idle" /\ r \in Async /\ state[f] \notin {"unopened", "Invalid"}
      /\ pc' = [pc EXCEPT ![r] = p] /\ file' = [file EXCEPT ![r] = f]
      /\ completed' = IF state[f] = "Active" THEN completed ELSE [completed EXCEPT ![r] = @ + 1]
      /\ UNCHANGED <<deviceVars, sessionVars, watchVars, runtimeVars, holds, irpVars, miniportVars>>
  BY DEF PeekState, MayIssue, Go
<1>2. state[f] = "Active" => rtState[f] = "Running"
  BY DEF IndInv, SessionsOK, SessionOK
<1>3. completed[r] = 0 /\ holds[r] = "none" /\ file[r] = None /\ None \notin Files
  BY <1>1, Served, RequestFile DEF RequestOK
<1>4. p \in {"refer", "done"} /\ (p = "refer") = (state[f] = "Active")
  OBVIOUS
<1> HIDE DEF p
<1>5. completed'[r] = IF p = "refer" THEN 0 ELSE 1
  BY <1>1, <1>3, <1>4, Served
<1>6. pc'[r] = p /\ file'[r] = f /\ UNCHANGED <<holds, calling, completion, irp, eventSlot, inFlight, pendingSlots, active, pool, free>>
  BY <1>1, Served DEF irpVars, runtimeVars, sessionVars
<1>7. RequestOK(r)'
  BY <1>1, <1>3, <1>4, <1>5, <1>6, Served DEF RequestOK, ObjectPlaces
<1>8. Moves(r, f) /\ Others(r) /\ SessionsKept
  BY <1>1, <1>6, Served DEF Moves, Others, SessionsKept, sessionVars, watchVars, runtimeVars
<1>9. TypeOK'
  <2>1. pc' \in [Requests -> Places] /\ completed' \in [Requests -> Nat] /\ file' \in [Requests -> Files \cup {None}]
    BY <1>1, <1>4, Served DEF Places
  <2> QED
    BY <1>1, <2>1 DEF IndInv, TypeOK, deviceVars, sessionVars, watchVars, runtimeVars, irpVars, miniportVars
<1>10. p \in QuietPlaces /\ p \notin EventPlaces /\ (p \in InPlaces) = (pc[r] \in InPlaces)
  BY <1>1, <1>4 DEF QuietPlaces, EventPlaces, InPlaces, Places
<1> QED
  BY <1>1, <1>2, <1>4, <1>6, <1>7, <1>8, <1>9, <1>10, PlainStep

\* The slot counts itself in, whatever became of the session meanwhile.
LEMMA ReferenceSlotStep == ASSUME IndInv, NEW r \in Requests, ReferenceSlot(r) PROVE IndInv'
<1>1. /\ pc[r] = "refer" /\ pc' = [pc EXCEPT ![r] = "recheck"]
      /\ inFlight' = [inFlight EXCEPT ![file[r]] = @ + 1] /\ pendingSlots' = [pendingSlots EXCEPT ![file[r]] = @ + 1]
      /\ UNCHANGED <<deviceVars, state, handle, hasId, eventSlot, watchVars, runtimeVars, file, holds, irpVars, completed,
                     miniportVars>>
  BY DEF ReferenceSlot, Go
<1>2. PICK f \in Files : f = file[r]
  BY <1>1, RequestFile
<1>3. r \in Async /\ state[f] \notin {"unopened", "Invalid"}
  BY <1>1, <1>2, RequestFile, Served DEF RequestOK
<1>4. pc'[r] = "recheck" /\ UNCHANGED <<file, holds, calling, completion, irp, completed, eventSlot, active, pool, free>>
  BY <1>1, Served DEF irpVars, runtimeVars
<1>5. RequestOK(r)'
  BY <1>1, <1>4, Served DEF RequestOK, ObjectPlaces
<1>6. Moves(r, f) /\ Others(r) /\ SessionsKept
  BY <1>1, <1>2, <1>4, Served DEF Moves, Others, SessionsKept, watchVars, runtimeVars
<1>7. RequestsOK' /\ SessionsOK' /\ QuietOK'
  BY <1>1, <1>3, <1>4, <1>5, <1>6, RequestStep DEF Others, QuietPlaces
<1>8. ActiveOK' /\ PoolOK' /\ EventSlotReserved'
  <2>1. pc'[r] \notin EventPlaces
    BY <1>4 DEF EventPlaces
  <2> QED
    BY <1>4, <1>6, <2>1, HoldsSame, EventKept
<1>9. InFlightOK' /\ inFlight' \in [Files -> Nat] /\ pendingSlots' \in [Files -> Nat]
  <2>1. pc[r] \notin InPlaces /\ pc'[r] \in InPlaces
    BY <1>1, <1>4 DEF InPlaces, Places
  <2> QED
    BY <1>1, <1>2, <1>3, <1>6, <2>1, InFlightEnters
<1>10. TypeOK'
  <2>1. pc' \in [Requests -> Places]
    BY <1>1, Served DEF Places
  <2> QED
    BY <1>1, <1>9, <2>1 DEF IndInv, TypeOK, deviceVars, watchVars, runtimeVars, irpVars, miniportVars
<1> QED
  BY <1>7, <1>8, <1>9, <1>10 DEF IndInv

(***************************************************************************)
(* The pool objects.                                                       *)
(***************************************************************************)

\* The request references the runtime, which may be closing by now.
LEMMA ReferenceRuntimeStep == ASSUME IndInv, NEW r \in Requests, ReferenceRuntime(r) PROVE IndInv'
<1>1. PICK p \in {"object", "drop"} : pc' = [pc EXCEPT ![r] = p]
  BY DEF ReferenceRuntime, Go
<1>2. /\ pc[r] = "reference" /\ active' = [active EXCEPT ![file[r]] = @ + 1] /\ holds' = [holds EXCEPT ![r] = "reference"]
      /\ UNCHANGED <<deviceVars, sessionVars, watchVars, runtime, rtState, pool, free, file, irpVars, completed, miniportVars>>
  BY DEF ReferenceRuntime
<1>3. PICK f \in Files : f = file[r]
  BY <1>2, RequestFile
<1>4. holds[r] = "none" /\ state[f] \notin {"unopened", "Invalid"}
  BY <1>2, <1>3, RequestFile, Served DEF RequestOK, ObjectPlaces
<1>5. /\ pc'[r] = p /\ holds'[r] = "reference"
      /\ UNCHANGED <<file, calling, completion, irp, completed, inFlight, pendingSlots, eventSlot>>
  BY <1>1, <1>2, Served DEF irpVars, sessionVars
<1>6. RequestOK(r)'
  BY <1>1, <1>2, <1>5, Served DEF RequestOK, ObjectPlaces
<1>7. Moves(r, f) /\ Others(r) /\ SessionsKept
  BY <1>1, <1>2, <1>3, <1>5, Served DEF Moves, Others, SessionsKept, sessionVars, watchVars
<1>8. RequestsOK' /\ SessionsOK' /\ QuietOK'
  BY <1>2, <1>4, <1>5, <1>6, <1>7, RequestStep DEF Others, QuietPlaces
<1>9. InFlightOK' /\ EventSlotReserved'
  <2>1. (pc'[r] \in InPlaces) = (pc[r] \in InPlaces) /\ pc'[r] \notin EventPlaces
    BY <1>1, <1>2, <1>5 DEF InPlaces, Places, EventPlaces
  <2> QED
    BY <1>5, <1>7, <2>1, InFlightSame, EventKept
<1>10. ActiveOK' /\ PoolOK' /\ active' \in [Files -> Nat]
  BY <1>2, <1>3, <1>4, <1>5, <1>7, HoldsReference
<1>11. TypeOK'
  <2>1. pc' \in [Requests -> Places] /\ holds' \in [Requests -> {"none", "reference", "object"}]
    BY <1>1, <1>2, Served DEF Places
  <2> QED
    BY <1>2, <1>10, <2>1 DEF IndInv, TypeOK, deviceVars, sessionVars, watchVars, irpVars, miniportVars
<1> QED
  BY <1>8, <1>9, <1>10, <1>11 DEF IndInv

\* The request takes an object of its pool.
LEMMA TakeObjectStep == ASSUME IndInv, NEW r \in Requests, TakeObject(r) PROVE IndInv'
<1>1. PICK p \in {"send", "reserve", "submit"} :
          /\ pc' = [pc EXCEPT ![r] = p] /\ (p = "send" <=> r \in SyncRequests) /\ (p = "reserve" => r \in EventRequests)
          /\ p = "submit" => r \notin EventRequests
  BY DEF TakeObject, Go
<1>2. /\ pc[r] = "object" /\ holds' = [holds EXCEPT ![r] = "object"]
      /\ \/ /\ free[file[r]][PoolOf(r)] > 0 /\ free' = [free EXCEPT ![file[r]][PoolOf(r)] = @ - 1]
            /\ UNCHANGED pool
         \/ pool' = [pool EXCEPT ![file[r]][PoolOf(r)] = @ + 1] /\ UNCHANGED free
      /\ UNCHANGED <<deviceVars, sessionVars, watchVars, runtime, rtState, active, file, irpVars, completed, miniportVars>>
  BY DEF TakeObject
<1>3. PICK f \in Files : f = file[r]
  BY <1>2, RequestFile
<1>4. holds[r] = "reference" /\ state[f] \notin {"unopened", "Invalid"}
  BY <1>2, <1>3, RequestFile, Served DEF RequestOK, ObjectPlaces
<1>5. /\ pc'[r] = p /\ holds'[r] = "object"
      /\ UNCHANGED <<file, calling, completion, irp, completed, inFlight, pendingSlots, eventSlot>>
  BY <1>1, <1>2, Served DEF irpVars, sessionVars
<1>6. RequestOK(r)'
  BY <1>1, <1>2, <1>5, Served DEF RequestOK, ObjectPlaces
<1>7. Moves(r, f) /\ Others(r) /\ SessionsKept
  BY <1>1, <1>2, <1>3, <1>5, Served DEF Moves, Others, SessionsKept, sessionVars, watchVars
<1>8. RequestsOK' /\ SessionsOK' /\ QuietOK'
  BY <1>2, <1>4, <1>5, <1>6, <1>7, RequestStep DEF Others, QuietPlaces
<1>9. InFlightOK' /\ EventSlotReserved'
  <2>1. (pc'[r] \in InPlaces) = (pc[r] \in InPlaces) /\ (r \in EventRequests => pc'[r] \notin EventPlaces)
    BY <1>1, <1>2, <1>5, Served DEF InPlaces, Places, EventPlaces
  <2> QED
    BY <1>5, <1>7, <2>1, InFlightSame, EventKept
<1>10. ActiveOK' /\ PoolOK' /\ free' \in [Files -> [Pools -> Nat]] /\ pool' \in [Files -> [Pools -> Nat]]
  BY <1>2, <1>3, <1>4, <1>5, <1>7, HoldsObject
<1>11. TypeOK'
  <2>1. pc' \in [Requests -> Places] /\ holds' \in [Requests -> {"none", "reference", "object"}]
    BY <1>1, <1>2, Served DEF Places
  <2> QED
    BY <1>2, <1>10, <2>1 DEF IndInv, TypeOK, deviceVars, sessionVars, watchVars, irpVars, miniportVars
<1> QED
  BY <1>8, <1>9, <1>10, <1>11 DEF IndInv

\* The request gives back what it holds, and its own reservation with it.
LEMMA ReleaseStep ==
    ASSUME IndInv, NEW r \in Requests, NEW p \in Places, pc[r] \in {"drop", "releaseBuffer", "giveBack"},
           ReleaseRuntime(r, p), RequestOK(r)', (p \in InPlaces) = (pc[r] \in InPlaces), p \notin EventPlaces,
           pc[r] \in QuietPlaces => p \in QuietPlaces, holds'[r] = "none",
           UNCHANGED <<deviceVars, state, handle, hasId, inFlight, pendingSlots, watchVars, runtime, rtState, pool, file,
                       irpVars, completed, miniportVars>>
    PROVE  IndInv'
<1>1. PICK f \in Files : f = file[r]
  BY RequestFile
<1>2. /\ pc' = [pc EXCEPT ![r] = p] /\ holds' = [holds EXCEPT ![r] = "none"] /\ active' = [active EXCEPT ![f] = @ - 1]
      /\ free' = IF holds[r] = "object" THEN [free EXCEPT ![f][PoolOf(r)] = @ + 1] ELSE free
      /\ UNCHANGED eventSlot \/ (eventSlot[f] = r /\ eventSlot' = [eventSlot EXCEPT ![f] = None])
  BY <1>1 DEF ReleaseRuntime, Go, ClearsEventSlot
<1>3. holds[r] # "none" /\ state[f] \notin {"unopened", "Invalid"}
  BY <1>1, RequestFile, Served DEF RequestOK, ObjectPlaces
<1>4. /\ pc'[r] = p /\ UNCHANGED <<file, calling, completion, irp, completed, inFlight, pendingSlots, pool>>
  BY <1>2, Served DEF irpVars
<1>5. Moves(r, f) /\ Others(r) /\ SessionsKept
  BY <1>1, <1>2, <1>4, Served DEF Moves, Others, SessionsKept, watchVars
<1>6. RequestsOK' /\ SessionsOK' /\ QuietOK'
  BY <1>3, <1>4, <1>5, RequestStep DEF Others, QuietPlaces
<1>7. InFlightOK' /\ EventSlotReserved'
  BY <1>2, <1>4, <1>5, InFlightSame, EventReleased
<1>8. ActiveOK' /\ PoolOK' /\ active' \in [Files -> Nat] /\ free' \in [Files -> [Pools -> Nat]]
  BY <1>2, <1>3, <1>4, <1>5, HoldsNothing
<1>9. TypeOK'
  <2>1. pc' \in [Requests -> Places] /\ holds' \in [Requests -> {"none", "reference", "object"}]
    BY <1>2, Served
  <2>2. eventSlot' \in [Files -> EventRequests \cup {None}]
    BY <1>2 DEF IndInv, TypeOK
  <2> QED
    BY <1>4, <1>8, <2>1, <2>2 DEF IndInv, TypeOK, deviceVars, watchVars, irpVars, miniportVars
<1> QED
  BY <1>6, <1>7, <1>8, <1>9 DEF IndInv

\* A request gives up,
LEMMA DropObjectStep == ASSUME IndInv, NEW r \in Requests, DropObject(r) PROVE IndInv'
<1>1. /\ pc[r] = "drop" /\ ReleaseRuntime(r, FailPlace(r)) /\ pc' = [pc EXCEPT ![r] = FailPlace(r)]
      /\ holds' = [holds EXCEPT ![r] = "none"]
      /\ UNCHANGED <<deviceVars, state, handle, hasId, inFlight, pendingSlots, watchVars, runtime, rtState, pool, file,
                     irpVars, completed, miniportVars>>
  BY DEF DropObject, ReleaseRuntime, Go
<1>2. FailPlace(r) = IF r \in Async THEN "failSlot" ELSE "reply"
  BY DEF FailPlace
<1>3. RequestOK(r)' /\ holds'[r] = "none"
  BY <1>1, <1>2, Served DEF RequestOK, ObjectPlaces, irpVars
<1>4. /\ FailPlace(r) \in Places /\ (FailPlace(r) \in InPlaces) = (pc[r] \in InPlaces)
      /\ FailPlace(r) \notin EventPlaces /\ pc[r] \notin QuietPlaces
  BY <1>1, <1>2 DEF Places, InPlaces, EventPlaces, QuietPlaces
<1> QED
  BY <1>1, <1>3, <1>4, ReleaseStep

\* a command has its result,
LEMMA ReleaseBufferStep == ASSUME IndInv, NEW r \in Requests, ReleaseBuffer(r) PROVE IndInv'
<1>1. /\ pc[r] = "releaseBuffer" /\ ReleaseRuntime(r, "reply") /\ pc' = [pc EXCEPT ![r] = "reply"]
      /\ holds' = [holds EXCEPT ![r] = "none"]
      /\ UNCHANGED <<deviceVars, state, handle, hasId, inFlight, pendingSlots, watchVars, runtime, rtState, pool, file,
                     irpVars, completed, miniportVars>>
  BY DEF ReleaseBuffer, ReleaseRuntime, Go
<1>2. RequestOK(r)' /\ holds'[r] = "none"
  BY <1>1, Served DEF RequestOK, ObjectPlaces, irpVars
<1>3. /\ "reply" \in Places /\ ("reply" \in InPlaces) = (pc[r] \in InPlaces)
      /\ "reply" \notin EventPlaces /\ pc[r] \notin QuietPlaces
  BY <1>1 DEF Places, InPlaces, EventPlaces, QuietPlaces
<1> QED
  BY <1>1, <1>2, <1>3, ReleaseStep

\* a slot was completed and has left its session.
LEMMA GiveBackStep == ASSUME IndInv, NEW r \in Requests, GiveBack(r) PROVE IndInv'
<1>1. /\ pc[r] = "giveBack" /\ ReleaseRuntime(r, "done") /\ pc' = [pc EXCEPT ![r] = "done"]
      /\ holds' = [holds EXCEPT ![r] = "none"]
      /\ UNCHANGED <<deviceVars, state, handle, hasId, inFlight, pendingSlots, watchVars, runtime, rtState, pool, file,
                     irpVars, completed, miniportVars>>
  BY DEF GiveBack, ReleaseRuntime, Go
<1>2. RequestOK(r)' /\ holds'[r] = "none"
  BY <1>1, Served DEF RequestOK, ObjectPlaces, irpVars
<1>3. /\ "done" \in Places /\ ("done" \in InPlaces) = (pc[r] \in InPlaces)
      /\ "done" \notin EventPlaces /\ "done" \in QuietPlaces
  BY <1>1 DEF Places, InPlaces, EventPlaces, QuietPlaces
<1> QED
  BY <1>1, <1>2, <1>3, ReleaseStep

\* An event slot reserves its target, unless another one has.
LEMMA ReserveEventSlotStep == ASSUME IndInv, NEW r \in Requests, ReserveEventSlot(r) PROVE IndInv'
<1>1. PICK f \in Files : f = file[r]
  BY RequestFile DEF ReserveEventSlot
<1>2. PICK p \in {"submit", "drop"} :
          /\ pc' = [pc EXCEPT ![r] = p]
          /\ \/ p = "submit" /\ eventSlot[f] = None /\ eventSlot' = [eventSlot EXCEPT ![f] = r]
             \/ p = "drop" /\ UNCHANGED eventSlot
  BY <1>1 DEF ReserveEventSlot, Go
<1>3. /\ pc[r] = "reserve"
      /\ UNCHANGED <<deviceVars, state, handle, hasId, inFlight, pendingSlots, watchVars, runtimeVars, file, holds, irpVars,
                     completed, miniportVars>>
  BY DEF ReserveEventSlot
<1>4. r \in EventRequests /\ state[f] \notin {"unopened", "Invalid"}
  BY <1>1, <1>3, RequestFile, Served DEF RequestOK
<1>5. /\ pc'[r] = p /\ UNCHANGED <<file, holds, calling, completion, irp, completed, inFlight, pendingSlots, active, pool, free>>
  BY <1>2, <1>3, Served DEF irpVars, runtimeVars
<1>6. RequestOK(r)'
  BY <1>2, <1>3, <1>5, Served DEF RequestOK, ObjectPlaces
<1>7. Moves(r, f) /\ Others(r) /\ SessionsKept
  BY <1>1, <1>2, <1>3, <1>5, Served DEF Moves, Others, SessionsKept, watchVars, runtimeVars
<1>8. RequestsOK' /\ SessionsOK' /\ QuietOK'
  BY <1>3, <1>4, <1>5, <1>6, <1>7, RequestStep DEF Others, QuietPlaces
<1>9. InFlightOK' /\ ActiveOK' /\ PoolOK'
  <2>1. (pc'[r] \in InPlaces) = (pc[r] \in InPlaces)
    BY <1>2, <1>3, <1>5 DEF InPlaces, Places
  <2> QED
    BY <1>5, <1>7, <2>1, InFlightSame, HoldsSame
<1>10. eventSlot' \in [Files -> EventRequests \cup {None}]
  BY ZenonT(30), <1>2, <1>4 DEF IndInv, TypeOK
<1>11. EventSlotReserved'
  <2> SUFFICES ASSUME NEW q \in EventRequests, pc'[q] \in EventPlaces PROVE eventSlot'[file'[q]] = q
    BY DEF EventSlotReserved
  <2>1. CASE q = r
    <3>1. p = "submit"
      BY <1>2, <1>5, <2>1 DEF EventPlaces
    <3> QED
      BY <1>1, <1>2, <1>5, <2>1, <3>1 DEF IndInv, TypeOK
  <2>2. CASE q # r
    <3>1. q \in Requests /\ None \notin Requests
      BY ConstantsAssumption DEF Requests, Async
    <3>2. pc[q] \in EventPlaces /\ file'[q] = file[q] /\ eventSlot[file[q]] = q
      BY <1>7, <2>2, <3>1 DEF Moves, EventSlotReserved, IndInv
    <3>3. file[q] \in Files
      BY <3>1, <3>2, RequestFile DEF EventPlaces
    <3> QED
      BY <1>2, <3>1, <3>2, <3>3 DEF IndInv, TypeOK
  <2> QED
    BY <2>1, <2>2
<1>12. TypeOK'
  <2>1. pc' \in [Requests -> Places]
    BY <1>2, Served DEF Places
  <2> QED
    BY <1>3, <1>10, <2>1 DEF IndInv, TypeOK, deviceVars, watchVars, runtimeVars, irpVars, miniportVars
<1> QED
  BY <1>8, <1>9, <1>11, <1>12 DEF IndInv

\* The slot is queued for its work item, if the runtime still runs.
LEMMA SubmitWorkItemStep == ASSUME IndInv, NEW r \in Requests, SubmitWorkItem(r) PROVE IndInv'
<1>1. PICK p \in {"queued", "drop"} : pc' = [pc EXCEPT ![r] = p]
  BY DEF SubmitWorkItem, Go
<1>2. /\ pc[r] = "submit" /\ completion' = [completion EXCEPT ![r] = 0]
      /\ UNCHANGED <<deviceVars, sessionVars, watchVars, runtimeVars, file, holds, calling, irp, completed, miniportVars>>
  BY DEF SubmitWorkItem
<1>3. PICK f \in Files : f = file[r]
  BY <1>2, RequestFile
<1>4. state[f] \notin {"unopened", "Invalid"}
  BY <1>2, <1>3, RequestFile
<1>5. /\ pc'[r] = p /\ completion'[r] = 0
      /\ UNCHANGED <<inFlight, pendingSlots, eventSlot, active, pool, free, holds>>
  BY <1>1, <1>2, Served DEF sessionVars, runtimeVars
<1>6. RequestOK(r)'
  BY <1>1, <1>2, <1>5, Served DEF RequestOK, ObjectPlaces
<1>7. Moves(r, f) /\ Others(r) /\ SessionsKept
  BY <1>1, <1>2, <1>3, <1>5, Served DEF Moves, Others, SessionsKept, sessionVars, watchVars, runtimeVars
<1>8. TypeOK'
  <2>1. pc' \in [Requests -> Places] /\ completion' \in [Requests -> 0 .. 2]
    BY <1>1, <1>2, Served DEF Places
  <2> QED
    BY <1>2, <2>1 DEF IndInv, TypeOK, deviceVars, sessionVars, watchVars, runtimeVars, miniportVars
<1>9. (pc'[r] \in InPlaces) = (pc[r] \in InPlaces) /\ pc[r] \notin QuietPlaces \cup {"idle", "done"} /\ pc[r] \in EventPlaces
  BY <1>1, <1>2, <1>5 DEF InPlaces, Places, QuietPlaces, EventPlaces
<1> QED
  BY <1>4, <1>5, <1>6, <1>7, <1>8, <1>9, PlainStep

\* A command leaves its session,
LEMMA ReleaseSessionStep == ASSUME IndInv, NEW r \in Requests, ReleaseSession(r) PROVE IndInv'
<1>1. /\ pc[r] = "leave" /\ pc' = [pc EXCEPT ![r] = "done"] /\ inFlight' = [inFlight EXCEPT ![file[r]] = @ - 1]
      /\ UNCHANGED <<deviceVars, state, handle, hasId, pendingSlots, eventSlot, watchVars, runtimeVars, file, holds, irpVars,
                     completed, miniportVars>>
  BY DEF ReleaseSession, Go
<1>2. PICK f \in Files : f = file[r]
  BY <1>1, RequestFile
<1>3. r \notin Async /\ state[f] \notin {"unopened", "Invalid"}
  BY <1>1, <1>2, RequestFile, Served DEF RequestOK
<1>4. pc'[r] = "done" /\ UNCHANGED <<file, holds, calling, completion, irp, completed, eventSlot, pendingSlots, active, pool, free>>
  BY <1>1, Served DEF irpVars, runtimeVars
<1>5. RequestOK(r)'
  BY <1>1, <1>4, Served DEF RequestOK, ObjectPlaces
<1>6. Moves(r, f) /\ Others(r) /\ SessionsKept
  BY <1>1, <1>2, <1>4, Served DEF Moves, Others, SessionsKept, watchVars, runtimeVars
<1>7. RequestsOK' /\ SessionsOK' /\ QuietOK'
  BY <1>1, <1>3, <1>4, <1>5, <1>6, RequestStep DEF Others, QuietPlaces
<1>8. ActiveOK' /\ PoolOK' /\ EventSlotReserved'
  BY <1>4, <1>6, HoldsSame, EventKept DEF EventPlaces
<1>9. InFlightOK' /\ inFlight' \in [Files -> Nat]
  <2>1. pc[r] \in InPlaces /\ pc'[r] \notin InPlaces
    BY <1>1, <1>4 DEF InPlaces, Places
  <2> QED
    BY <1>1, <1>2, <1>3, <1>4, <1>6, <2>1, InFlightLeaves
<1>10. TypeOK'
  <2>1. pc' \in [Requests -> Places]
    BY <1>1, Served DEF Places
  <2> QED
    BY <1>1, <1>9, <2>1 DEF IndInv, TypeOK, deviceVars, watchVars, runtimeVars, irpVars, miniportVars
<1> QED
  BY <1>7, <1>8, <1>9, <1>10 DEF IndInv

\* and so does a slot, completed or about to be refused.
LEMMA ReleaseSlotStep == ASSUME IndInv, NEW r \in Requests, ReleaseSlot(r) PROVE IndInv'
<1>1. PICK p \in {"giveBack", "answer"} : pc' = [pc EXCEPT ![r] = p] /\ (p = "giveBack" <=> pc[r] = "leaveSlot")
  BY DEF ReleaseSlot, Go
<1>2. /\ pc[r] \in {"leaveSlot", "failSlot"}
      /\ inFlight' = [inFlight EXCEPT ![file[r]] = @ - 1] /\ pendingSlots' = [pendingSlots EXCEPT ![file[r]] = @ - 1]
      /\ UNCHANGED <<deviceVars, state, handle, hasId, eventSlot, watchVars, runtimeVars, file, holds, irpVars, completed,
                     miniportVars>>
  BY DEF ReleaseSlot
<1>3. PICK f \in Files : f = file[r]
  BY <1>2, RequestFile
<1>4. r \in Async /\ state[f] \notin {"unopened", "Invalid"}
  BY <1>2, <1>3, RequestFile, Served DEF RequestOK
<1>5. pc'[r] = p /\ UNCHANGED <<file, holds, calling, completion, irp, completed, eventSlot, active, pool, free>>
  BY <1>1, <1>2, Served DEF irpVars, runtimeVars
<1>6. RequestOK(r)'
  BY <1>1, <1>2, <1>5, Served DEF RequestOK, ObjectPlaces
<1>7. Moves(r, f) /\ Others(r) /\ SessionsKept
  BY <1>1, <1>2, <1>3, <1>5, Served DEF Moves, Others, SessionsKept, watchVars, runtimeVars
<1>8. RequestsOK' /\ SessionsOK' /\ QuietOK'
  BY <1>1, <1>2, <1>4, <1>5, <1>6, <1>7, RequestStep DEF Others, QuietPlaces
<1>9. ActiveOK' /\ PoolOK' /\ EventSlotReserved'
  <2>1. pc'[r] \in EventPlaces => pc[r] \in EventPlaces
    BY <1>1, <1>2, <1>5 DEF EventPlaces
  <2> QED
    BY <1>5, <1>7, <2>1, HoldsSame, EventKept
<1>10. InFlightOK' /\ inFlight' \in [Files -> Nat] /\ pendingSlots' \in [Files -> Nat]
  <2>1. pc[r] \in InPlaces /\ pc'[r] \notin InPlaces
    BY <1>1, <1>2, <1>5 DEF InPlaces, Places
  <2> QED
    BY <1>2, <1>3, <1>4, <1>7, <2>1, InFlightLeaves
<1>11. TypeOK'
  <2>1. pc' \in [Requests -> Places]
    BY <1>1, Served DEF Places
  <2> QED
    BY <1>2, <1>10, <2>1 DEF IndInv, TypeOK, deviceVars, watchVars, runtimeVars, irpVars, miniportVars
<1> QED
  BY <1>8, <1>9, <1>10, <1>11 DEF IndInv

(***************************************************************************)
(* Slots and commands in the miniport.                                     *)
(***************************************************************************)

\* What RequestOK speaks of in irp: a slot sent to the miniport may be done.
IrpSettles == irp' \in [Requests -> {"none", "sent", "done"}] /\ \A q \in Requests : (irp'[q] = "none") = (irp[q] = "none")

\* Commands of the miniport complete posted slots, and no other.
LEMMA CommandIrp ==
    ASSUME IndInv
    PROVE  /\ CompletePosted => IrpSettles
           /\ UNCHANGED irp => IrpSettles
           /\ \A cmd : CommandEffect(cmd) => IrpSettles /\ mpPresent' \in BOOLEAN
<1>1. irp \in [Requests -> {"none", "sent", "done"}] /\ mpPresent \in BOOLEAN
  BY DEF IndInv, TypeOK
<1>2. CompletePosted => IrpSettles
  BY <1>1 DEF CompletePosted, IrpSettles
<1>3. UNCHANGED irp => IrpSettles
  BY <1>1 DEF IrpSettles
<1>4. ASSUME NEW q \in SlotRequests, irp[q] = "sent", irp' = [irp EXCEPT ![q] = "done"] PROVE IrpSettles
  BY <1>1, <1>4 DEF IrpSettles
<1> QED
  BY <1>1, <1>2, <1>3, <1>4 DEF CommandEffect

\* A command of the App is carried out.
LEMMA SendCommandStep == ASSUME IndInv, NEW r \in Requests, SendCommand(r) PROVE IndInv'
<1>1. PICK f \in Files : f = file[r]
  BY RequestFile DEF SendCommand
<1>2. /\ pc[r] = "send" /\ pc' = [pc EXCEPT ![r] = "releaseBuffer"]
      /\ UNCHANGED <<deviceVars, sessionVars, watchVars, runtimeVars, file, holds, calling, completion, completed>>
  BY DEF SendCommand, Go
<1>3. IrpSettles /\ mpPresent' \in BOOLEAN /\ mpSession' \in Files \cup {None}
  BY <1>1, CommandIrp DEF SendCommand, IndInv, TypeOK
<1>4. state[f] \notin {"unopened", "Invalid"}
  BY <1>1, <1>2, RequestFile
<1>5. /\ pc'[r] = "releaseBuffer" /\ (irp'[r] = "none") = (irp[r] = "none")
      /\ UNCHANGED <<inFlight, pendingSlots, eventSlot, active, pool, free, holds>>
  BY <1>2, <1>3, Served DEF sessionVars, runtimeVars, IrpSettles
<1>6. RequestOK(r)'
  BY <1>2, <1>5, Served DEF RequestOK, ObjectPlaces
<1>7. Moves(r, f) /\ Others(r) /\ SessionsKept
  BY <1>1, <1>2, <1>3, <1>5, Served DEF Moves, Others, SessionsKept, sessionVars, watchVars, runtimeVars, IrpSettles
<1>8. TypeOK'
  <2>1. pc' \in [Requests -> Places]
    BY <1>2, Served DEF Places
  <2> QED
    BY <1>2, <1>3, <2>1 DEF IndInv, TypeOK, deviceVars, sessionVars, watchVars, runtimeVars, IrpSettles
<1>9. (pc'[r] \in InPlaces) = (pc[r] \in InPlaces) /\ pc[r] \notin QuietPlaces \cup {"idle", "done"} /\ pc'[r] \notin EventPlaces
  BY <1>2, <1>5 DEF InPlaces, Places, QuietPlaces, EventPlaces
<1> QED
  BY <1>4, <1>5, <1>6, <1>7, <1>8, <1>9, PlainStep

\* A slot in the miniport: request r, posted or about to be, changes its place
\* to p or stays, and what the thread and the routine share changes for r only.
LEMMA SlotStep ==
    ASSUME IndInv, NEW r \in Requests, pc[r] \in {"dispatch", "posted"}, NEW p \in {"posted", "complete"},
           pc' = [pc EXCEPT ![r] = p], RequestOK(r)', irp' \in [Requests -> {"none", "sent", "done"}],
           \A q \in Requests \ {r} :
               completion'[q] = completion[q] /\ (q \in calling') = (q \in calling) /\ irp'[q] = irp[q],
           calling' \subseteq Async, completion' \in [Requests -> 0 .. 2], mpSession' \in Files \cup {None},
           UNCHANGED <<deviceVars, sessionVars, watchVars, runtimeVars, file, holds, completed, mpPresent>>
    PROVE  IndInv'
<1>1. PICK f \in Files : f = file[r]
  BY RequestFile
<1>2. state[f] \notin {"unopened", "Invalid"}
  BY <1>1, RequestFile
<1>3. pc'[r] = p /\ UNCHANGED <<inFlight, pendingSlots, eventSlot, active, pool, free, holds, file, completed>>
  BY Served DEF sessionVars, runtimeVars
<1>4. Moves(r, f) /\ Others(r) /\ SessionsKept
  BY <1>1, <1>3, Served DEF Moves, Others, SessionsKept, sessionVars, watchVars, runtimeVars
<1>5. TypeOK'
  <2>1. pc' \in [Requests -> Places]
    BY Served DEF Places
  <2> QED
    BY <2>1 DEF IndInv, TypeOK, deviceVars, sessionVars, watchVars, runtimeVars, IrpSettles
<1>6. (pc'[r] \in InPlaces) = (pc[r] \in InPlaces) /\ pc[r] \notin QuietPlaces \cup {"idle", "done"} /\ pc[r] \in EventPlaces
  BY <1>3 DEF InPlaces, Places, QuietPlaces, EventPlaces
<1>7. holds'[r] = holds[r]
  BY <1>3
<1> QED
  BY <1>2, <1>3, <1>4, <1>5, <1>6, <1>7, PlainStep

\* The work item calls the miniport,
LEMMA DispatchSlotStep == ASSUME IndInv, NEW r \in Requests, DispatchSlot(r) PROVE IndInv'
<1>1. PICK i \in {"sent", "done"} : irp' = [irp EXCEPT ![r] = i]
  BY DEF DispatchSlot
<1>2. /\ pc[r] = "dispatch" /\ pc' = [pc EXCEPT ![r] = "posted"] /\ calling' = calling \cup {r}
      /\ UNCHANGED <<deviceVars, sessionVars, watchVars, runtimeVars, file, holds, completion, completed, mpPresent>>
  BY DEF DispatchSlot, Go
<1>3. file[r] \in Files
  BY <1>2, RequestFile
<1>4. mpSession' \in Files \cup {None}
  BY <1>3 DEF DispatchSlot, IndInv, TypeOK
<1>5. pc'[r] = "posted" /\ irp'[r] = i /\ r \in Async /\ completion[r] = 0 /\ completion'[r] = 0
  BY <1>1, <1>2, Served DEF RequestOK
<1>6. RequestOK(r)'
  BY <1>1, <1>2, <1>5, Served DEF RequestOK, ObjectPlaces
<1>7. irp' \in [Requests -> {"none", "sent", "done"}] /\ calling' \subseteq Async /\ completion' \in [Requests -> 0 .. 2]
  BY <1>1, <1>2, <1>5, Served
<1>8. \A q \in Requests \ {r} : completion'[q] = completion[q] /\ (q \in calling') = (q \in calling) /\ irp'[q] = irp[q]
  BY <1>1, <1>2, Served
<1> QED
  BY <1>2, <1>4, <1>6, <1>7, <1>8, SlotStep

\* which completes the slot at once or when it has something to say.
LEMMA MiniportCompletesStep == ASSUME IndInv, NEW r \in Requests, MiniportCompletes(r) PROVE IndInv'
<1>1. /\ irp[r] = "sent" /\ irp' = [irp EXCEPT ![r] = "done"]
      /\ UNCHANGED <<deviceVars, sessionVars, watchVars, runtimeVars, pc, file, holds, calling, completion, completed,
                     miniportVars>>
  BY DEF MiniportCompletes
<1>2. pc[r] = "posted" /\ pc' = [pc EXCEPT ![r] = "posted"]
  BY <1>1, Served DEF RequestOK
<1>3. RequestOK(r)'
  BY <1>1, <1>2, Served DEF RequestOK, ObjectPlaces
<1>4. irp' \in [Requests -> {"none", "sent", "done"}] /\ calling' \subseteq Async /\ completion' \in [Requests -> 0 .. 2]
  BY <1>1, Served
<1>5. \A q \in Requests \ {r} : completion'[q] = completion[q] /\ (q \in calling') = (q \in calling) /\ irp'[q] = irp[q]
  BY <1>1, Served
<1>6. mpSession' \in Files \cup {None} /\ UNCHANGED mpPresent
  BY <1>1 DEF IndInv, TypeOK, miniportVars
<1> QED
  BY <1>1, <1>2, <1>3, <1>4, <1>5, <1>6, SlotStep

\* The exchange on CompletionState: the routine completes the request if the
\* thread is through,
LEMMA CompletionRoutineStep == ASSUME IndInv, NEW r \in Requests, CompletionRoutine(r) PROVE IndInv'
<1> DEFINE c == IF completion[r] = 0 THEN 2 ELSE completion[r]
<1>1. /\ irp[r] = "done" /\ irp' = [irp EXCEPT ![r] = "none"] /\ completion' = [completion EXCEPT ![r] = c]
      /\ UNCHANGED <<deviceVars, sessionVars, watchVars, runtimeVars, file, holds, calling, completed, miniportVars>>
  BY DEF CompletionRoutine
<1>2. pc[r] = "posted" /\ completion[r] \in 0 .. 2 /\ (completion[r] = 1) = (r \notin calling) /\ completion[r] # 2
  BY <1>1, Served DEF RequestOK
<1>3. PICK p \in {"posted", "complete"} : pc' = [pc EXCEPT ![r] = p] /\ (p = "complete" <=> completion[r] = 1)
  BY <1>2, Served DEF CompletionRoutine, RoutineOwns, Go
<1>4. c \in 0 .. 2 /\ (r \in calling => c = 2)
  BY <1>2
<1> HIDE DEF c
<1>5. irp'[r] = "none" /\ completion'[r] = c /\ pc'[r] = p /\ calling' = calling /\ holds' = holds /\ file' = file /\ completed' = completed
  BY <1>1, <1>3, Served
<1>6. RequestOK(r)'
  BY <1>2, <1>3, <1>4, <1>5, Served DEF RequestOK, ObjectPlaces
<1>7. irp' \in [Requests -> {"none", "sent", "done"}] /\ calling' \subseteq Async /\ completion' \in [Requests -> 0 .. 2]
  BY <1>1, <1>4, Served
<1>8. \A q \in Requests \ {r} : completion'[q] = completion[q] /\ (q \in calling') = (q \in calling) /\ irp'[q] = irp[q]
  BY <1>1, Served
<1>9. mpSession' \in Files \cup {None} /\ UNCHANGED mpPresent
  BY <1>1 DEF IndInv, TypeOK, miniportVars
<1> QED
  BY <1>1, <1>2, <1>3, <1>6, <1>7, <1>8, <1>9, SlotStep

\* and the thread if the routine came first.
LEMMA SettleDispatchStep == ASSUME IndInv, NEW r \in Requests, SettleDispatch(r) PROVE IndInv'
<1> DEFINE c == IF completion[r] = 2 THEN 2 ELSE 1
<1>1. /\ r \in calling /\ calling' = calling \ {r}
      /\ UNCHANGED <<deviceVars, sessionVars, watchVars, runtimeVars, file, holds, irp, completed, miniportVars>>
  BY DEF SettleDispatch
<1>2. pc[r] = "posted" /\ completion[r] = IF irp[r] = "none" THEN 2 ELSE 0
  BY <1>1, Served DEF RequestOK
<1>3. PICK p \in {"posted", "complete"} : pc' = [pc EXCEPT ![r] = p] /\ (p = "complete" <=> completion[r] = 2)
  BY <1>2, Served DEF SettleDispatch, Go
<1>4. completion' = [completion EXCEPT ![r] = c]
  BY Served DEF SettleDispatch
<1>5. c \in 0 .. 2 /\ (p = "posted" => c = 1 /\ irp[r] # "none") /\ (p = "complete" => irp[r] = "none")
  BY <1>2, <1>3
<1> HIDE DEF c
<1>6. r \notin calling' /\ completion'[r] = c /\ pc'[r] = p /\ irp' = irp /\ holds' = holds /\ file' = file /\ completed' = completed
  BY <1>1, <1>3, <1>4, Served
<1>7. RequestOK(r)'
  BY <1>1, <1>2, <1>3, <1>5, <1>6, Served DEF RequestOK, ObjectPlaces
<1>8. irp' \in [Requests -> {"none", "sent", "done"}] /\ calling' \subseteq Async /\ completion' \in [Requests -> 0 .. 2]
  BY <1>1, <1>4, <1>5, Served
<1>9. \A q \in Requests \ {r} : completion'[q] = completion[q] /\ (q \in calling') = (q \in calling) /\ irp'[q] = irp[q]
  BY <1>1, <1>4, Served
<1>10. mpSession' \in Files \cup {None} /\ UNCHANGED mpPresent
  BY <1>1 DEF IndInv, TypeOK, miniportVars
<1> QED
  BY <1>1, <1>2, <1>3, <1>7, <1>8, <1>9, <1>10, SlotStep

(***************************************************************************)
(* A step of one session.                                                  *)
(***************************************************************************)

\* The requests stay where they are; a posted slot may be completed.
RequestsStay ==
    /\ UNCHANGED <<pc, file, holds, calling, completion, completed, inFlight, pendingSlots, eventSlot, active>>
    /\ IrpSettles

\* The other sessions stay as they are.
ElsewhereKept(f) ==
    \A g \in Files \ {f} :
        /\ state'[g] = state[g] /\ handle'[g] = handle[g] /\ hasId'[g] = hasId[g] /\ armed'[g] = armed[g]
        /\ fresh'[g] = fresh[g] /\ closer'[g] = closer[g] /\ runtime'[g] = runtime[g] /\ rtState'[g] = rtState[g]

\* Only what the session itself may be is left to prove.
LEMMA SessionStep ==
    ASSUME IndInv, NEW f \in Files, RequestsStay, ElsewhereKept(f), TypeOK', PoolOK', SessionOK(f)', QuietAt(f)'
    PROVE  IndInv'
<1>1. RequestsOK'
  <2> SUFFICES ASSUME NEW r \in Requests PROVE RequestOK(r)'
    BY DEF RequestsOK
  <2>1. RequestOK(r) /\ (irp'[r] = "none") = (irp[r] = "none")
    BY DEF RequestsStay, IrpSettles, IndInv, RequestsOK
  <2> QED
    BY <2>1 DEF RequestOK, RequestsStay
<1>2. InFlightOK' /\ ActiveOK' /\ EventSlotReserved'
  <2>1. \A g : InSession(g)' = InSession(g) /\ Holders(g)' = Holders(g)
    BY DEF InSession, Holders, RequestsStay
  <2> QED
    BY <2>1 DEF InFlightOK, ActiveOK, EventSlotReserved, RequestsStay, IndInv
<1>3. SessionsOK'
  <2> SUFFICES ASSUME NEW g \in Files \ {f} PROVE SessionOK(g)'
    BY DEF SessionsOK
  <2>1. SessionOK(g)
    BY DEF IndInv, SessionsOK
  <2> QED
    BY <2>1 DEF SessionOK, ElsewhereKept
<1>4. QuietOK'
  <2> SUFFICES ASSUME NEW g \in Files \ {f} PROVE QuietAt(g)'
    BY DEF QuietOK
  <2>1. QuietAt(g)
    BY DEF IndInv, QuietOK
  <2> QED
    BY <2>1 DEF QuietAt, Quiet, ElsewhereKept, RequestsStay
<1> QED
  BY <1>1, <1>2, <1>3, <1>4 DEF IndInv

\* The pools are as full as before.
LEMMA PoolSame ==
    ASSUME IndInv, UNCHANGED <<pc, file, holds, pool, free>>
    PROVE  PoolOK'
<1>1. \A g, p : ObjectsOut(g, p)' = ObjectsOut(g, p)
  BY DEF ObjectsOut, PoolOf
<1> QED
  BY <1>1 DEF PoolOK, IndInv

\* What is known of a session and of the requests it has.
LEMMA Session ==
    ASSUME IndInv, NEW f \in Files
    PROVE  /\ SessionOK(f) /\ QuietAt(f) /\ state \in [Files -> SessionStates]
           /\ handle \in [Files -> BOOLEAN] /\ hasId \in [Files -> BOOLEAN] /\ armed \in [Files -> BOOLEAN]
           /\ fresh \in [Files -> BOOLEAN] /\ runtime \in [Files -> BOOLEAN]
           /\ rtState \in [Files -> {"none", "Running", "Closing", "freed"}]
           /\ closer \in [Files -> [Closers -> CloserPlaces]]
           /\ {"watchdog", "cleanup"} = Closers
BY DEF IndInv, SessionsOK, QuietOK, TypeOK, Closers

\* A closer moves.
LEMMA CloserStep ==
    ASSUME IndInv, NEW f \in Files, NEW k \in Closers, NEW p \in CloserPlaces, Step(f, k, p)
    PROVE  /\ closer' \in [Files -> [Closers -> CloserPlaces]]
           /\ closer'[f][k] = p /\ \A j \in Closers \ {k} : closer'[f][j] = closer[f][j]
           /\ \A g \in Files \ {f} : closer'[g] = closer[g]
BY DEF IndInv, TypeOK, Step

(***************************************************************************)
(* Opening, heartbeat, watchdog and cleanup.                               *)
(***************************************************************************)

\* The App opens the device,
LEMMA TryOpenStep == ASSUME IndInv, NEW f \in Files, TryOpen(f) PROVE IndInv'
<1>1. /\ state[f] = "unopened" /\ state' = [state EXCEPT ![f] = "Invalid"] /\ openFile' = f
      /\ UNCHANGED <<handle, hasId, inFlight, pendingSlots, eventSlot, watchVars, runtimeVars, requestVars, miniportVars>>
  BY DEF TryOpen
<1>2. RequestsStay /\ UNCHANGED <<pc, file, holds, pool, free>>
  BY <1>1, CommandIrp DEF RequestsStay, runtimeVars, requestVars, irpVars
<1>3. state' \in [Files -> SessionStates] /\ state'[f] = "Invalid" /\ \A g \in Files \ {f} : state'[g] = state[g]
  BY <1>1, Session DEF SessionStates
<1>4. ElsewhereKept(f)
  BY <1>1, <1>3 DEF ElsewhereKept, watchVars, runtimeVars
<1>5. TypeOK'
  BY <1>1, <1>3 DEF IndInv, TypeOK, watchVars, runtimeVars, requestVars, irpVars, miniportVars
<1>6. SessionOK(f)'
  BY <1>1, <1>3, Session DEF SessionOK, watchVars, runtimeVars
<1>7. QuietAt(f)'
  BY <1>1, <1>2, <1>3, Session DEF QuietAt, Quiet, watchVars, runtimeVars
<1> QED
  BY <1>2, <1>4, <1>5, <1>6, <1>7, PoolSame, SessionStep

\* which makes the session Active and watched,
LEMMA OpenSucceedsStep == ASSUME IndInv, NEW f \in Files, OpenSucceeds(f) PROVE IndInv'
<1>1. /\ state[f] = "Invalid" /\ state' = [state EXCEPT ![f] = "Active"]
      /\ handle' = [handle EXCEPT ![f] = TRUE] /\ hasId' = [hasId EXCEPT ![f] = TRUE]
      /\ runtime' = [runtime EXCEPT ![f] = TRUE] /\ rtState' = [rtState EXCEPT ![f] = "Running"]
      /\ armed' = [armed EXCEPT ![f] = TRUE] /\ fresh' = [fresh EXCEPT ![f] = TRUE]
      /\ UNCHANGED <<openFile, inFlight, pendingSlots, eventSlot, beats, closer, active, pool, free, requestVars, miniportVars>>
  BY DEF OpenSucceeds
<1>2. RequestsStay /\ UNCHANGED <<pc, file, holds, pool, free>>
  BY <1>1, CommandIrp DEF RequestsStay, requestVars, irpVars
<1>3. /\ state'[f] = "Active" /\ handle'[f] /\ hasId'[f] /\ runtime'[f] /\ rtState'[f] = "Running" /\ armed'[f] /\ fresh'[f]
      /\ closer'[f] = closer[f]
  BY <1>1, Session
<1>4. ElsewhereKept(f)
  BY <1>1, Session DEF ElsewhereKept
<1>5. TypeOK'
  <2>1. /\ state' \in [Files -> SessionStates] /\ handle' \in [Files -> BOOLEAN] /\ hasId' \in [Files -> BOOLEAN]
        /\ runtime' \in [Files -> BOOLEAN] /\ rtState' \in [Files -> {"none", "Running", "Closing", "freed"}]
        /\ armed' \in [Files -> BOOLEAN] /\ fresh' \in [Files -> BOOLEAN]
    BY <1>1, Session DEF SessionStates
  <2> QED
    BY <1>1, <2>1 DEF IndInv, TypeOK, requestVars, irpVars, miniportVars
<1>6. SessionOK(f)'
  BY <1>1, <1>3, Session DEF SessionOK
<1>7. QuietAt(f)'
  BY <1>1, <1>3, Session DEF QuietAt, SessionOK, Closers
<1> QED
  BY <1>2, <1>4, <1>5, <1>6, <1>7, PoolSame, SessionStep

\* or is refused.
LEMMA OpenFailsStep == ASSUME IndInv, NEW f \in Files, OpenFails(f) PROVE IndInv'
<1>1. /\ state[f] = "Invalid" /\ state' = [state EXCEPT ![f] = "Closed"] /\ openFile' = None
      /\ UNCHANGED <<handle, hasId, inFlight, pendingSlots, eventSlot, watchVars, runtimeVars, requestVars, miniportVars>>
  BY DEF OpenFails
<1>2. RequestsStay /\ UNCHANGED <<pc, file, holds, pool, free>>
  BY <1>1, CommandIrp DEF RequestsStay, runtimeVars, requestVars, irpVars
<1>3. state' \in [Files -> SessionStates] /\ state'[f] = "Closed" /\ \A g \in Files \ {f} : state'[g] = state[g]
  BY <1>1, Session DEF SessionStates
<1>4. ElsewhereKept(f)
  BY <1>1, <1>3 DEF ElsewhereKept, watchVars, runtimeVars
<1>5. TypeOK'
  BY <1>1, <1>3 DEF IndInv, TypeOK, watchVars, runtimeVars, requestVars, irpVars, miniportVars
<1>6. SessionOK(f)'
  BY <1>1, <1>3, Session DEF SessionOK, watchVars, runtimeVars
<1>7. QuietAt(f)'
  BY <1>1, <1>2, <1>3, Session DEF QuietAt, Quiet, watchVars, runtimeVars, RequestsStay
<1> QED
  BY <1>2, <1>4, <1>5, <1>6, <1>7, PoolSame, SessionStep

\* The heartbeat starts the timer anew.
LEMMA HeartbeatStep == ASSUME IndInv, NEW f \in Files, Heartbeat(f) PROVE IndInv'
<1>1. /\ state[f] = "Active" /\ beats' = beats + 1
      /\ fresh' = [fresh EXCEPT ![f] = TRUE] /\ armed' = [armed EXCEPT ![f] = TRUE]
      /\ UNCHANGED <<deviceVars, sessionVars, closer, runtimeVars, requestVars, miniportVars>>
  BY DEF Heartbeat, Entered, TimerAfterHeartbeat
<1>2. RequestsStay /\ UNCHANGED <<pc, file, holds, pool, free>>
  BY <1>1, CommandIrp DEF RequestsStay, sessionVars, runtimeVars, requestVars, irpVars
<1>3. /\ fresh' \in [Files -> BOOLEAN] /\ armed' \in [Files -> BOOLEAN] /\ fresh'[f] /\ armed'[f]
      /\ \A g \in Files \ {f} : fresh'[g] = fresh[g] /\ armed'[g] = armed[g]
  BY <1>1, Session
<1>4. ElsewhereKept(f)
  BY <1>1, <1>3 DEF ElsewhereKept, sessionVars, runtimeVars
<1>5. TypeOK'
  <2>1. beats' \in Nat
    BY <1>1 DEF IndInv, TypeOK
  <2> QED
    BY <1>1, <1>3, <2>1 DEF IndInv, TypeOK, deviceVars, sessionVars, runtimeVars, requestVars, irpVars, miniportVars
<1>6. SessionOK(f)'
  BY <1>1, <1>3, Session DEF SessionOK, sessionVars, runtimeVars
<1>7. QuietAt(f)'
  BY <1>1, <1>2, Session DEF QuietAt, Quiet, sessionVars, runtimeVars, RequestsStay
<1> QED
  BY <1>2, <1>4, <1>5, <1>6, <1>7, PoolSame, SessionStep

\* The timer expires and its callback is queued,
LEMMA TimerExpiresStep == ASSUME IndInv, NEW f \in Files, TimerExpires(f) PROVE IndInv'
<1>1. /\ armed[f] /\ closer[f]["watchdog"] = "idle" /\ closer[f]["cleanup"] # "lock"
      /\ fresh' = [fresh EXCEPT ![f] = FALSE] /\ armed' = [armed EXCEPT ![f] = FALSE] /\ Step(f, "watchdog", "lock")
      /\ UNCHANGED <<deviceVars, sessionVars, beats, runtimeVars, requestVars, miniportVars>>
  BY DEF TimerExpires
<1>2. RequestsStay /\ UNCHANGED <<pc, file, holds, pool, free>>
  BY <1>1, CommandIrp DEF RequestsStay, sessionVars, runtimeVars, requestVars, irpVars
<1>3. /\ fresh' \in [Files -> BOOLEAN] /\ armed' \in [Files -> BOOLEAN] /\ ~fresh'[f] /\ ~armed'[f]
      /\ \A g \in Files \ {f} : fresh'[g] = fresh[g] /\ armed'[g] = armed[g]
  BY <1>1, Session
<1>4. /\ closer' \in [Files -> [Closers -> CloserPlaces]]
      /\ closer'[f]["watchdog"] = "lock" /\ closer'[f]["cleanup"] = closer[f]["cleanup"]
      /\ \A g \in Files \ {f} : closer'[g] = closer[g]
  BY <1>1, CloserStep DEF Closers, CloserPlaces
<1>5. ElsewhereKept(f)
  BY <1>1, <1>3, <1>4 DEF ElsewhereKept, sessionVars, runtimeVars
<1>6. TypeOK'
  BY <1>1, <1>3, <1>4 DEF IndInv, TypeOK, deviceVars, sessionVars, runtimeVars, requestVars, irpVars, miniportVars
<1>7. SessionOK(f)'
  <2>1. SessionOK(f) /\ UNCHANGED <<state, handle, hasId, runtime, rtState>>
    BY <1>1, Session DEF sessionVars, runtimeVars
  <2> QED
    BY <1>1, <1>3, <1>4, <2>1 DEF SessionOK, EndPlaces
<1>8. QuietAt(f)'
  BY <1>1, <1>2, <1>4, Session DEF QuietAt, Quiet, sessionVars, runtimeVars, RequestsStay, Closers
<1> QED
  BY <1>2, <1>5, <1>6, <1>7, <1>8, PoolSame, SessionStep

\* which finds the session silent, or a heartbeat that came in between.
LEMMA WatchdogLocksStep == ASSUME IndInv, NEW f \in Files, WatchdogLocks(f) PROVE IndInv'
<1>1. PICK p \in {"beginClose", "idle"} :
          /\ Step(f, "watchdog", p)
          /\ \/ /\ p = "beginClose" /\ state[f] = "Active" /\ handle[f] /\ hasId[f] /\ ~fresh[f]
                /\ state' = [state EXCEPT ![f] = "Locked"]
             \/ p = "idle" /\ ~(state[f] = "Active" /\ handle[f] /\ hasId[f] /\ ~fresh[f]) /\ UNCHANGED state
  BY DEF WatchdogLocks, Entered
<1>2. /\ closer[f]["watchdog"] = "lock"
      /\ UNCHANGED <<deviceVars, handle, hasId, inFlight, pendingSlots, eventSlot, armed, fresh, beats, runtimeVars,
                     requestVars, miniportVars>>
  BY DEF WatchdogLocks
<1>3. RequestsStay /\ UNCHANGED <<pc, file, holds, pool, free>>
  BY <1>2, CommandIrp DEF RequestsStay, runtimeVars, requestVars, irpVars
<1>4. /\ state' \in [Files -> SessionStates] /\ state'[f] = (IF p = "beginClose" THEN "Locked" ELSE state[f])
      /\ \A g \in Files \ {f} : state'[g] = state[g]
  BY <1>1, Session DEF SessionStates
<1>5. /\ closer' \in [Files -> [Closers -> CloserPlaces]]
      /\ closer'[f]["watchdog"] = p /\ closer'[f]["cleanup"] = closer[f]["cleanup"]
      /\ \A g \in Files \ {f} : closer'[g] = closer[g]
  BY <1>1, CloserStep DEF Closers, CloserPlaces
<1>6. ElsewhereKept(f)
  BY <1>2, <1>4, <1>5 DEF ElsewhereKept, runtimeVars
<1>7. TypeOK'
  BY <1>2, <1>4, <1>5 DEF IndInv, TypeOK, deviceVars, runtimeVars, requestVars, irpVars, miniportVars
<1>8. SessionOK(f)'
  <2>1. SessionOK(f) /\ UNCHANGED <<handle, hasId, armed, fresh, runtime, rtState>>
    BY <1>2, Session DEF runtimeVars
  <2>2. CASE p = "beginClose"
    BY <1>1, <1>2, <1>4, <1>5, <2>1, <2>2 DEF SessionOK, EndPlaces
  <2>3. CASE p = "idle"
    BY <1>1, <1>2, <1>4, <1>5, <2>1, <2>3 DEF SessionOK, EndPlaces
  <2> QED
    BY <2>2, <2>3
<1>9. QuietAt(f)'
  BY <1>1, <1>2, <1>3, <1>4, <1>5, Session DEF QuietAt, Quiet, runtimeVars, RequestsStay, Closers
<1> QED
  BY <1>3, <1>6, <1>7, <1>8, <1>9, PoolSame, SessionStep

\* The last handle is closed,
LEMMA BeginCleanupStep == ASSUME IndInv, NEW f \in Files, BeginCleanup(f) PROVE IndInv'
<1>1. /\ state[f] \in {"Active", "Locked"} /\ closer[f]["cleanup"] = "idle" /\ Step(f, "cleanup", "stopTimer")
      /\ UNCHANGED <<deviceVars, sessionVars, armed, fresh, beats, runtimeVars, requestVars, miniportVars>>
  BY DEF BeginCleanup
<1>2. RequestsStay /\ UNCHANGED <<pc, file, holds, pool, free>>
  BY <1>1, CommandIrp DEF RequestsStay, sessionVars, runtimeVars, requestVars, irpVars
<1>3. /\ closer' \in [Files -> [Closers -> CloserPlaces]]
      /\ closer'[f]["cleanup"] = "stopTimer" /\ closer'[f]["watchdog"] = closer[f]["watchdog"]
      /\ \A g \in Files \ {f} : closer'[g] = closer[g]
  BY <1>1, CloserStep DEF Closers, CloserPlaces
<1>4. ElsewhereKept(f)
  BY <1>1, <1>3 DEF ElsewhereKept, sessionVars, runtimeVars
<1>5. TypeOK'
  BY <1>1, <1>3 DEF IndInv, TypeOK, deviceVars, sessionVars, runtimeVars, requestVars, irpVars, miniportVars
<1>6. SessionOK(f)'
  BY <1>1, <1>3, Session DEF SessionOK, EndPlaces, sessionVars, runtimeVars
<1>7. QuietAt(f)'
  BY <1>1, <1>2, <1>3, Session DEF QuietAt, Quiet, sessionVars, runtimeVars, RequestsStay, Closers
<1> QED
  BY <1>2, <1>4, <1>5, <1>6, <1>7, PoolSame, SessionStep

\* the cleanup waits for a running callback of the timer,
LEMMA StopTimerStep == ASSUME IndInv, NEW f \in Files, StopTimer(f) PROVE IndInv'
<1>1. /\ closer[f]["cleanup"] = "stopTimer" /\ closer[f]["watchdog"] = "idle"
      /\ armed' = [armed EXCEPT ![f] = FALSE] /\ Step(f, "cleanup", "lock")
      /\ UNCHANGED <<deviceVars, sessionVars, fresh, beats, runtimeVars, requestVars, miniportVars>>
  BY DEF StopTimer
<1>2. RequestsStay /\ UNCHANGED <<pc, file, holds, pool, free>>
  BY <1>1, CommandIrp DEF RequestsStay, sessionVars, runtimeVars, requestVars, irpVars
<1>3. armed' \in [Files -> BOOLEAN] /\ ~armed'[f] /\ \A g \in Files \ {f} : armed'[g] = armed[g]
  BY <1>1, Session
<1>4. /\ closer' \in [Files -> [Closers -> CloserPlaces]]
      /\ closer'[f]["cleanup"] = "lock" /\ closer'[f]["watchdog"] = closer[f]["watchdog"]
      /\ \A g \in Files \ {f} : closer'[g] = closer[g]
  BY <1>1, CloserStep DEF Closers, CloserPlaces
<1>5. ElsewhereKept(f)
  BY <1>1, <1>3, <1>4 DEF ElsewhereKept, sessionVars, runtimeVars
<1>6. TypeOK'
  BY <1>1, <1>3, <1>4 DEF IndInv, TypeOK, deviceVars, sessionVars, runtimeVars, requestVars, irpVars, miniportVars
<1>7. SessionOK(f)'
  BY <1>1, <1>3, <1>4, Session DEF SessionOK, EndPlaces, sessionVars, runtimeVars
<1>8. QuietAt(f)'
  BY <1>1, <1>2, <1>4, Session DEF QuietAt, Quiet, sessionVars, runtimeVars, RequestsStay, Closers
<1> QED
  BY <1>2, <1>5, <1>6, <1>7, <1>8, PoolSame, SessionStep

\* and begins to close the session.
LEMMA CleanupLocksStep == ASSUME IndInv, NEW f \in Files, CleanupLocks(f) PROVE IndInv'
<1>1. /\ closer[f]["cleanup"] = "lock" /\ state' = [state EXCEPT ![f] = "Closing"] /\ Step(f, "cleanup", "beginClose")
      /\ UNCHANGED <<deviceVars, handle, hasId, inFlight, pendingSlots, eventSlot, armed, fresh, beats, runtimeVars,
                     requestVars, miniportVars>>
  BY DEF CleanupLocks
<1>2. RequestsStay /\ UNCHANGED <<pc, file, holds, pool, free>>
  BY <1>1, CommandIrp DEF RequestsStay, runtimeVars, requestVars, irpVars
<1>3. state' \in [Files -> SessionStates] /\ state'[f] = "Closing" /\ \A g \in Files \ {f} : state'[g] = state[g]
  BY <1>1, Session DEF SessionStates
<1>4. /\ closer' \in [Files -> [Closers -> CloserPlaces]]
      /\ closer'[f]["cleanup"] = "beginClose" /\ closer'[f]["watchdog"] = closer[f]["watchdog"]
      /\ \A g \in Files \ {f} : closer'[g] = closer[g]
  BY <1>1, CloserStep DEF Closers, CloserPlaces
<1>5. ElsewhereKept(f)
  BY <1>1, <1>3, <1>4 DEF ElsewhereKept, runtimeVars
<1>6. TypeOK'
  BY <1>1, <1>3, <1>4 DEF IndInv, TypeOK, deviceVars, runtimeVars, requestVars, irpVars, miniportVars
<1>7. SessionOK(f)'
  BY <1>1, <1>3, <1>4, Session DEF SessionOK, EndPlaces, runtimeVars
<1>8. QuietAt(f)'
  BY <1>1, <1>2, <1>3, <1>4, Session DEF QuietAt, Quiet, runtimeVars, RequestsStay, Closers
<1> QED
  BY <1>2, <1>5, <1>6, <1>7, <1>8, PoolSame, SessionStep

(***************************************************************************)
(* The close sequence.                                                     *)
(***************************************************************************)

\* The watchdog closes a Locked session, the cleanup a Closing one, and the
\* other of them is not in the close sequence.
LEMMA InCloseSequence ==
    ASSUME IndInv, NEW f \in Files, NEW k \in Closers, closer[f][k] \in EndPlaces
    PROVE  /\ k \in {"watchdog", "cleanup"} /\ state[f] = IF k = "watchdog" THEN "Locked" ELSE "Closing"
           /\ \A j \in Closers \ {k} : closer[f][j] \notin EndPlaces
           /\ closer[f][k] \notin {"drainActive", "drainSlots", "closeHandle"} =>
                  (~runtime[f] => rtState[f] = "freed")
           /\ closer[f][k] \in {"drainSlots", "closeHandle"} => ~runtime[f] /\ rtState[f] = "freed"
           /\ closer[f][k] = "drainActive" => ~runtime[f] /\ rtState[f] = "Closing"
           /\ runtime[f] => handle[f] /\ rtState[f] \in {"Running", "Closing"}
           /\ rtState[f] # "none"
<1>1. SessionOK(f) /\ k \in {"watchdog", "cleanup"} /\ Closers = {"watchdog", "cleanup"} /\ state[f] \in SessionStates
  BY Session DEF Closers
<1>2. CASE k = "watchdog"
  <2>1. state[f] = "Locked" /\ closer[f]["cleanup"] \notin EndPlaces
    BY <1>1, <1>2 DEF SessionOK, EndPlaces, SessionStates
  <2> QED
    BY <1>1, <1>2, <2>1, Session DEF SessionOK, EndPlaces
<1>3. CASE k = "cleanup"
  <2>1. state[f] = "Closing" /\ closer[f]["watchdog"] \notin EndPlaces
    BY <1>1, <1>3 DEF SessionOK, EndPlaces, SessionStates
  <2> QED
    BY <1>1, <1>3, <2>1, Session DEF SessionOK, EndPlaces
<1> QED
  BY <1>1, <1>2, <1>3

\* What SessionOK asks of a session that is in the close sequence at place p.
LEMMA ClosingOK ==
    ASSUME NEW f, NEW w, NEW c, NEW p \in EndPlaces, closer'[f]["watchdog"] = w, closer'[f]["cleanup"] = c,
           \/ state'[f] = "Locked" /\ w = p /\ c \in {"idle", "stopTimer"}
           \/ state'[f] = "Closing" /\ c = p /\ w \in {"idle", "lock"},
           runtime'[f] => handle'[f] /\ rtState'[f] \in {"Running", "Closing"},
           ~handle'[f] => rtState'[f] = "freed", rtState'[f] # "none",
           p = "drainActive" => ~runtime'[f] /\ rtState'[f] = "Closing",
           p \in {"drainSlots", "closeHandle"} => rtState'[f] = "freed",
           p # "drainActive" => runtime'[f] \/ rtState'[f] = "freed"
    PROVE  SessionOK(f)'
BY DEF SessionOK, EndPlaces

\* A closer goes on in the close sequence; the handle, the state and the timer
\* stay as they are.
LEMMA CloseStep ==
    ASSUME IndInv, NEW f \in Files, NEW k \in Closers, closer[f][k] \in EndPlaces, NEW p \in EndPlaces, Step(f, k, p),
           UNCHANGED <<state, handle, hasId, armed, fresh>>,
           \A g \in Files \ {f} : runtime'[g] = runtime[g] /\ rtState'[g] = rtState[g],
           runtime' \in [Files -> BOOLEAN], rtState' \in [Files -> {"none", "Running", "Closing", "freed"}],
           runtime'[f] => handle[f] /\ rtState'[f] \in {"Running", "Closing"},
           ~handle[f] => rtState'[f] = "freed", rtState'[f] # "none",
           p = "drainActive" => ~runtime'[f] /\ rtState'[f] = "Closing",
           p \in {"drainSlots", "closeHandle"} => rtState'[f] = "freed",
           p # "drainActive" => runtime'[f] \/ rtState'[f] = "freed"
    PROVE  /\ ElsewhereKept(f) /\ SessionOK(f)' /\ closer' \in [Files -> [Closers -> CloserPlaces]]
           /\ closer'[f][k] = p /\ \A j \in Closers \ {k} : closer'[f][j] = closer[f][j]
<1>1. /\ closer' \in [Files -> [Closers -> CloserPlaces]]
      /\ closer'[f][k] = p /\ \A j \in Closers \ {k} : closer'[f][j] = closer[f][j]
      /\ \A g \in Files \ {f} : closer'[g] = closer[g]
  BY CloserStep DEF CloserPlaces, EndPlaces
<1>2. ElsewhereKept(f)
  BY <1>1 DEF ElsewhereKept
<1>3. /\ k \in {"watchdog", "cleanup"} /\ Closers = {"watchdog", "cleanup"}
      /\ state[f] = IF k = "watchdog" THEN "Locked" ELSE "Closing"
      /\ \A j \in Closers \ {k} : closer[f][j] \notin EndPlaces
  BY InCloseSequence DEF Closers
<1>4. SessionOK(f)
  BY Session
<1>5. PICK w, c : closer'[f]["watchdog"] = w /\ closer'[f]["cleanup"] = c
  OBVIOUS
<1>6. \/ state'[f] = "Locked" /\ w = p /\ c \in {"idle", "stopTimer"}
      \/ state'[f] = "Closing" /\ c = p /\ w \in {"idle", "lock"}
  <2>1. CASE k = "watchdog"
    BY <1>1, <1>3, <1>4, <1>5, <2>1 DEF SessionOK, EndPlaces
  <2>2. CASE k = "cleanup"
    BY <1>1, <1>3, <1>4, <1>5, <2>2 DEF SessionOK, EndPlaces
  <2> QED
    BY <1>3, <2>1, <2>2
<1>7. SessionOK(f)'
  BY <1>5, <1>6, ClosingOK
<1> QED
  BY <1>1, <1>2, <1>7

\* The runtime takes no more requests,
LEMMA BeginCloseStep == ASSUME IndInv, NEW f \in Files, NEW k \in Closers, BeginClose(f, k) PROVE IndInv'
<1>1. /\ closer[f][k] = "beginClose" /\ Step(f, k, "send")
      /\ rtState' = IF runtime[f] THEN [rtState EXCEPT ![f] = "Closing"] ELSE rtState
      /\ UNCHANGED <<deviceVars, sessionVars, armed, fresh, beats, runtime, active, pool, free, requestVars, miniportVars>>
  BY DEF BeginClose
<1>2. RequestsStay /\ UNCHANGED <<pc, file, holds, pool, free>>
  BY <1>1, CommandIrp DEF RequestsStay, sessionVars, requestVars, irpVars
<1>3. /\ rtState' \in [Files -> {"none", "Running", "Closing", "freed"}]
      /\ rtState'[f] = IF runtime[f] THEN "Closing" ELSE rtState[f]
      /\ \A g \in Files \ {f} : rtState'[g] = rtState[g]
  BY <1>1, Session
<1>4. "send" \in EndPlaces /\ closer[f][k] \in EndPlaces
  BY <1>1 DEF EndPlaces
<1>5. /\ UNCHANGED <<state, handle, hasId, armed, fresh, runtime>> /\ runtime \in [Files -> BOOLEAN]
      /\ runtime[f] => handle[f]
      /\ ~runtime[f] => rtState[f] = "freed"
  BY <1>1, <1>4, InCloseSequence, Session DEF sessionVars
<1>6. rtState'[f] # "none" /\ (runtime'[f] => rtState'[f] = "Closing") /\ (~handle[f] => rtState'[f] = "freed")
  BY <1>3, <1>5
<1>7. /\ ElsewhereKept(f) /\ SessionOK(f)' /\ closer' \in [Files -> [Closers -> CloserPlaces]]
      /\ closer'[f][k] = "send" /\ \A j \in Closers \ {k} : closer'[f][j] = closer[f][j]
  BY <1>1, <1>3, <1>4, <1>5, <1>6, CloseStep
<1>8. TypeOK'
  BY <1>1, <1>3, <1>7 DEF IndInv, TypeOK, deviceVars, sessionVars, requestVars, irpVars, miniportVars
<1>9. QuietAt(f)'
  <2>1. rtState'[f] \in {"none", "freed"} => rtState'[f] = rtState[f]
    BY <1>3
  <2> QED
    BY SMTT(30), <1>2, <1>5, <1>7, <2>1, Session DEF QuietAt, Quiet, RequestsStay
<1> QED
  BY <1>2, <1>7, <1>8, <1>9, PoolSame, SessionStep

\* the miniport drops the session and completes what is posted there,
LEMMA SendSessionCleanupStep ==
    ASSUME IndInv, NEW f \in Files, NEW k \in Closers, SendSessionCleanup(f, k) PROVE IndInv'
<1>1. /\ closer[f][k] = "send" /\ Step(f, k, "drainIo")
      /\ UNCHANGED <<deviceVars, sessionVars, armed, fresh, beats, runtimeVars, pc, file, holds, calling, completion, completed>>
  BY DEF SendSessionCleanup
<1>2. IrpSettles /\ mpPresent' \in BOOLEAN /\ mpSession' \in Files \cup {None}
  BY CommandIrp DEF SendSessionCleanup, IndInv, TypeOK
<1>3. RequestsStay /\ UNCHANGED <<pc, file, holds, pool, free>>
  BY <1>1, <1>2 DEF RequestsStay, sessionVars, runtimeVars
<1>4. "drainIo" \in EndPlaces /\ closer[f][k] \in EndPlaces
  BY <1>1 DEF EndPlaces
<1>5. /\ UNCHANGED <<state, handle, hasId, armed, fresh, runtime, rtState>> /\ runtime \in [Files -> BOOLEAN]
      /\ rtState \in [Files -> {"none", "Running", "Closing", "freed"}]
      /\ runtime[f] => handle[f] /\ rtState[f] \in {"Running", "Closing"}
      /\ (~runtime[f] => rtState[f] = "freed") /\ rtState[f] # "none"
  BY <1>1, <1>4, InCloseSequence, Session DEF sessionVars, runtimeVars
<1>6. /\ ElsewhereKept(f) /\ SessionOK(f)' /\ closer' \in [Files -> [Closers -> CloserPlaces]]
      /\ closer'[f][k] = "drainIo" /\ \A j \in Closers \ {k} : closer'[f][j] = closer[f][j]
  BY <1>1, <1>4, <1>5, CloseStep
<1>7. TypeOK'
  BY <1>1, <1>2, <1>6 DEF IndInv, TypeOK, deviceVars, sessionVars, runtimeVars, IrpSettles
<1>8. QuietAt(f)'
  BY SMTT(30), <1>3, <1>5, <1>6, Session DEF QuietAt, Quiet, RequestsStay
<1> QED
  BY <1>3, <1>6, <1>7, <1>8, PoolSame, SessionStep

\* and whoever counted himself in has left: the session is quiet.
LEMMA DrainInFlightIoStep ==
    ASSUME IndInv, NEW f \in Files, NEW k \in Closers, DrainInFlightIo(f, k) PROVE IndInv'
<1>1. /\ closer[f][k] = "drainIo" /\ inFlight[f] = 0 /\ Step(f, k, "stop")
      /\ UNCHANGED <<deviceVars, sessionVars, armed, fresh, beats, runtimeVars, requestVars, miniportVars>>
  BY DEF DrainInFlightIo, Drained
<1>2. RequestsStay /\ UNCHANGED <<pc, file, holds, pool, free>>
  BY <1>1, CommandIrp DEF RequestsStay, sessionVars, runtimeVars, requestVars, irpVars
<1>3. Quiet(f)
  <2>1. InSession(f) = {}
    BY <1>1, NobodyCounted DEF IndInv, InFlightOK
  <2> SUFFICES ASSUME NEW r \in Requests, file[r] = f PROVE pc[r] \in QuietPlaces
    BY DEF Quiet
  <2>2. pc[r] \notin InPlaces /\ pc[r] \in Places
    BY <2>1, Served DEF InSession
  <2>3. pc[r] # "idle"
    BY RequestFile
  <2> QED
    BY <2>2, <2>3 DEF InPlaces, QuietPlaces
<1>4. "stop" \in EndPlaces /\ closer[f][k] \in EndPlaces
  BY <1>1 DEF EndPlaces
<1>5. /\ UNCHANGED <<state, handle, hasId, armed, fresh, runtime, rtState>> /\ runtime \in [Files -> BOOLEAN]
      /\ rtState \in [Files -> {"none", "Running", "Closing", "freed"}]
      /\ runtime[f] => handle[f] /\ rtState[f] \in {"Running", "Closing"}
      /\ (~runtime[f] => rtState[f] = "freed") /\ rtState[f] # "none"
  BY <1>1, <1>4, InCloseSequence, Session DEF sessionVars, runtimeVars
<1>6. /\ ElsewhereKept(f) /\ SessionOK(f)' /\ closer' \in [Files -> [Closers -> CloserPlaces]]
      /\ closer'[f][k] = "stop" /\ \A j \in Closers \ {k} : closer'[f][j] = closer[f][j]
  BY <1>1, <1>4, <1>5, CloseStep
<1>7. TypeOK'
  BY <1>1, <1>6 DEF IndInv, TypeOK, deviceVars, sessionVars, runtimeVars, requestVars, irpVars, miniportVars
<1>8. QuietAt(f)'
  BY <1>2, <1>3, <1>5, <1>6, Session DEF QuietAt, Quiet, RequestsStay
<1> QED
  BY <1>2, <1>6, <1>7, <1>8, PoolSame, SessionStep

\* Whoever finds the runtime takes it,
LEMMA StopRuntimeStep == ASSUME IndInv, NEW f \in Files, NEW k \in Closers, StopRuntime(f, k) PROVE IndInv'
<1>1. PICK p \in {"drainActive", "drainSlots"} :
          /\ Step(f, k, p)
          /\ \/ /\ p = "drainActive" /\ runtime[f] /\ runtime' = [runtime EXCEPT ![f] = FALSE]
                /\ rtState' = [rtState EXCEPT ![f] = "Closing"]
             \/ p = "drainSlots" /\ ~runtime[f] /\ UNCHANGED <<runtime, rtState>>
  BY DEF StopRuntime
<1>2. /\ closer[f][k] = "stop"
      /\ UNCHANGED <<deviceVars, sessionVars, armed, fresh, beats, active, pool, free, requestVars, miniportVars>>
  BY DEF StopRuntime
<1>3. RequestsStay /\ UNCHANGED <<pc, file, holds, pool, free>>
  BY <1>2, CommandIrp DEF RequestsStay, sessionVars, requestVars, irpVars
<1>4. p \in EndPlaces /\ closer[f][k] \in EndPlaces
  BY <1>1, <1>2 DEF EndPlaces
<1>5. /\ UNCHANGED <<state, handle, hasId, armed, fresh>>
      /\ runtime[f] => handle[f] /\ rtState[f] \in {"Running", "Closing"}
      /\ (~runtime[f] => rtState[f] = "freed") /\ rtState[f] # "none"
  BY <1>2, <1>4, InCloseSequence DEF sessionVars
<1>6. /\ rtState' \in [Files -> {"none", "Running", "Closing", "freed"}] /\ runtime' \in [Files -> BOOLEAN]
      /\ rtState'[f] = (IF p = "drainActive" THEN "Closing" ELSE "freed") /\ ~runtime'[f]
      /\ \A g \in Files \ {f} : runtime'[g] = runtime[g] /\ rtState'[g] = rtState[g]
  BY <1>1, <1>5, Session
<1>7. handle[f] \/ rtState'[f] = "freed"
  BY <1>1, <1>5, <1>6
<1>8. /\ ElsewhereKept(f) /\ SessionOK(f)' /\ closer' \in [Files -> [Closers -> CloserPlaces]]
      /\ closer'[f][k] = p /\ \A j \in Closers \ {k} : closer'[f][j] = closer[f][j]
  BY <1>1, <1>4, <1>5, <1>6, <1>7, CloseStep
<1>9. TypeOK'
  BY <1>2, <1>6, <1>8 DEF IndInv, TypeOK, deviceVars, sessionVars, requestVars, irpVars, miniportVars
<1>10. QuietAt(f)'
  <2>1. rtState'[f] = "freed" => rtState[f] = "freed"
    BY <1>1, <1>5, <1>6
  <2>2. Quiet(f)
    BY <1>2, Session DEF QuietAt
  <2> QED
    BY <1>3, <1>5, <1>6, <2>1, <2>2, Session DEF QuietAt, Quiet, RequestsStay
<1> QED
  BY <1>3, <1>8, <1>9, <1>10, PoolSame, SessionStep

\* and frees it when nobody holds it: no object is out any more.
LEMMA FreeRuntimeStep == ASSUME IndInv, NEW f \in Files, NEW k \in Closers, FreeRuntime(f, k) PROVE IndInv'
<1>1. /\ closer[f][k] = "drainActive" /\ active[f] = 0 /\ Step(f, k, "drainSlots")
      /\ rtState' = [rtState EXCEPT ![f] = "freed"]
      /\ pool' = [pool EXCEPT ![f] = [p \in {"slot", "sync"} |-> @[p] - free[f][p]]]
      /\ free' = [free EXCEPT ![f] = [p \in {"slot", "sync"} |-> 0]]
      /\ UNCHANGED <<deviceVars, sessionVars, armed, fresh, beats, runtime, active, requestVars, miniportVars>>
  BY DEF FreeRuntime, RuntimeIdle
<1>2. RequestsStay /\ UNCHANGED <<pc, file, holds>>
  BY <1>1, CommandIrp DEF RequestsStay, sessionVars, requestVars, irpVars
<1>3. Holders(f) = {}
  BY <1>1, NobodyCounted DEF IndInv, ActiveOK
<1>4. \A p \in Pools : pool[f][p] = free[f][p] /\ Cardinality(ObjectsOut(f, p)) = 0
  <2>1. \A p \in Pools : ObjectsOut(f, p) = {}
    BY <1>3 DEF ObjectsOut, Holders
  <2>2. Cardinality({}) = 0
    BY FS_EmptySet
  <2> SUFFICES ASSUME NEW p \in Pools PROVE pool[f][p] = free[f][p] /\ Cardinality(ObjectsOut(f, p)) = 0
    OBVIOUS
  <2>3. Cardinality(ObjectsOut(f, p)) = 0
    BY <2>1, <2>2
  <2>4. pool[f][p] = free[f][p] + Cardinality(ObjectsOut(f, p)) /\ free[f][p] \in Nat
    BY DEF IndInv, PoolOK, TypeOK
  <2> QED
    BY <2>3, <2>4
<1>5. pool \in [Files -> [Pools -> Nat]] /\ free \in [Files -> [Pools -> Nat]]
  BY DEF IndInv, TypeOK
<1>6. /\ \A p \in Pools : pool'[f][p] = 0 /\ free'[f][p] = 0
      /\ \A g \in Files \ {f} : pool'[g] = pool[g] /\ free'[g] = free[g]
      /\ pool' \in [Files -> [Pools -> Nat]] /\ free' \in [Files -> [Pools -> Nat]]
  <2>1. [p \in {"slot", "sync"} |-> pool[f][p] - free[f][p]] = [p \in Pools |-> 0]
    BY <1>4, <1>5 DEF Pools
  <2>2. pool' = [pool EXCEPT ![f] = [p \in Pools |-> 0]]
    BY <1>1, <2>1
  <2>3. free' = [free EXCEPT ![f] = [p \in Pools |-> 0]]
    BY <1>1 DEF Pools
  <2> QED
    BY <1>5, <2>2, <2>3
<1>7. PoolOK'
  <2>1. \A g, p : ObjectsOut(g, p)' = ObjectsOut(g, p)
    BY <1>2 DEF ObjectsOut, PoolOf
  <2> SUFFICES ASSUME NEW g \in Files, NEW p \in Pools
               PROVE  pool'[g][p] = free'[g][p] + Cardinality(ObjectsOut(g, p))
    BY <2>1 DEF PoolOK
  <2>2. CASE g = f
    BY <1>4, <1>6, <2>2
  <2>3. CASE g # f
    BY <1>6, <2>3 DEF IndInv, PoolOK
  <2> QED
    BY <2>2, <2>3
<1>8. "drainSlots" \in EndPlaces /\ closer[f][k] \in EndPlaces
  BY <1>1 DEF EndPlaces
<1>9. UNCHANGED <<state, handle, hasId, armed, fresh, runtime>> /\ runtime \in [Files -> BOOLEAN] /\ ~runtime[f]
  BY <1>1, <1>8, InCloseSequence, Session DEF sessionVars
<1>10. /\ rtState' \in [Files -> {"none", "Running", "Closing", "freed"}] /\ rtState'[f] = "freed"
       /\ \A g \in Files \ {f} : rtState'[g] = rtState[g]
  BY <1>1, Session
<1>11. /\ ElsewhereKept(f) /\ SessionOK(f)' /\ closer' \in [Files -> [Closers -> CloserPlaces]]
       /\ closer'[f][k] = "drainSlots" /\ \A j \in Closers \ {k} : closer'[f][j] = closer[f][j]
  BY <1>1, <1>8, <1>9, <1>10, CloseStep
<1>12. TypeOK'
  BY <1>1, <1>6, <1>10, <1>11 DEF IndInv, TypeOK, deviceVars, sessionVars, requestVars, irpVars, miniportVars
<1>13. QuietAt(f)'
  <2>1. Quiet(f) /\ \A r \in Requests : file[r] = f => holds[r] = "none"
    BY <1>1, <1>3, Session DEF QuietAt, Holders
  <2> QED
    BY <1>2, <1>9, <1>10, <2>1, Session DEF QuietAt, Quiet, RequestsStay
<1> QED
  BY <1>2, <1>7, <1>11, <1>12, <1>13, SessionStep

\* The slots that left the session are gone,
LEMMA DrainPendingSlotsStep ==
    ASSUME IndInv, NEW f \in Files, NEW k \in Closers, DrainPendingSlots(f, k) PROVE IndInv'
<1>1. /\ closer[f][k] = "drainSlots" /\ Step(f, k, "closeHandle")
      /\ UNCHANGED <<deviceVars, sessionVars, armed, fresh, beats, runtimeVars, requestVars, miniportVars>>
  BY DEF DrainPendingSlots
<1>2. RequestsStay /\ UNCHANGED <<pc, file, holds, pool, free>>
  BY <1>1, CommandIrp DEF RequestsStay, sessionVars, runtimeVars, requestVars, irpVars
<1>3. "closeHandle" \in EndPlaces /\ closer[f][k] \in EndPlaces
  BY <1>1 DEF EndPlaces
<1>4. /\ UNCHANGED <<state, handle, hasId, armed, fresh, runtime, rtState>> /\ runtime \in [Files -> BOOLEAN]
      /\ rtState \in [Files -> {"none", "Running", "Closing", "freed"}] /\ ~runtime[f] /\ rtState[f] = "freed"
  BY <1>1, <1>3, InCloseSequence, Session DEF sessionVars, runtimeVars
<1>5. /\ ElsewhereKept(f) /\ SessionOK(f)' /\ closer' \in [Files -> [Closers -> CloserPlaces]]
      /\ closer'[f][k] = "closeHandle" /\ \A j \in Closers \ {k} : closer'[f][j] = closer[f][j]
  BY <1>1, <1>3, <1>4, CloseStep
<1>6. TypeOK'
  BY <1>1, <1>5 DEF IndInv, TypeOK, deviceVars, sessionVars, runtimeVars, requestVars, irpVars, miniportVars
<1>7. QuietAt(f)'
  BY <1>2, <1>4, <1>5, Session DEF QuietAt, Quiet, RequestsStay
<1> QED
  BY <1>2, <1>5, <1>6, <1>7, PoolSame, SessionStep

\* and the handle is closed, by the watchdog or by the cleanup.
LEMMA CloseHandleStep == ASSUME IndInv, NEW f \in Files, NEW k \in Closers, CloseHandle(f, k) PROVE IndInv'
<1> DEFINE p == IF k = "watchdog" THEN "idle" ELSE "release"
<1>1. /\ closer[f][k] = "closeHandle" /\ handle' = [handle EXCEPT ![f] = FALSE]
      /\ UNCHANGED <<deviceVars, inFlight, pendingSlots, eventSlot, fresh, beats, runtimeVars, requestVars, miniportVars>>
  BY DEF CloseHandle
<1>2. /\ Step(f, k, p)
      /\ \/ /\ k = "watchdog" /\ armed' = [armed EXCEPT ![f] = FALSE] /\ UNCHANGED <<state, hasId>>
         \/ /\ k = "cleanup" /\ hasId' = [hasId EXCEPT ![f] = FALSE] /\ state' = [state EXCEPT ![f] = "Closed"]
            /\ UNCHANGED armed
  BY DEF CloseHandle
<1>3. RequestsStay /\ UNCHANGED <<pc, file, holds, pool, free>>
  BY <1>1, CommandIrp DEF RequestsStay, runtimeVars, requestVars, irpVars
<1>4. closer[f][k] \in EndPlaces
  BY <1>1 DEF EndPlaces
<1>5. /\ state[f] = IF k = "watchdog" THEN "Locked" ELSE "Closing"
      /\ ~runtime[f] /\ rtState[f] = "freed" /\ UNCHANGED <<runtime, rtState>>
      /\ \A j \in Closers \ {k} : closer[f][j] \notin EndPlaces
  BY <1>1, <1>4, InCloseSequence DEF runtimeVars
<1>6. /\ closer' \in [Files -> [Closers -> CloserPlaces]]
      /\ closer'[f][k] = p /\ \A j \in Closers \ {k} : closer'[f][j] = closer[f][j]
      /\ \A g \in Files \ {f} : closer'[g] = closer[g]
  <2>1. p \in CloserPlaces
    BY DEF CloserPlaces
  <2> QED
    BY <1>2, <2>1, CloserStep
<1>7. /\ state' \in [Files -> SessionStates] /\ handle' \in [Files -> BOOLEAN] /\ hasId' \in [Files -> BOOLEAN]
      /\ armed' \in [Files -> BOOLEAN] /\ ~handle'[f]
      /\ state'[f] = IF k = "watchdog" THEN "Locked" ELSE "Closed"
      /\ \A g \in Files \ {f} : state'[g] = state[g] /\ handle'[g] = handle[g] /\ hasId'[g] = hasId[g] /\ armed'[g] = armed[g]
  BY <1>1, <1>2, <1>5, Session DEF SessionStates
<1>8. ElsewhereKept(f)
  BY <1>1, <1>5, <1>6, <1>7 DEF ElsewhereKept
<1>9. SessionOK(f)'
  <2>1. SessionOK(f) /\ k \in {"watchdog", "cleanup"} /\ Closers = {"watchdog", "cleanup"}
    BY Session DEF Closers
  <2>2. CASE k = "watchdog"
    <3>1. closer'[f]["watchdog"] = "idle" /\ closer'[f]["cleanup"] \in {"idle", "stopTimer", "lock"} /\ state'[f] = "Locked"
      BY <1>5, <1>6, <1>7, <2>1, <2>2 DEF SessionOK
    <3> QED
      BY <1>5, <1>7, <3>1 DEF SessionOK, EndPlaces
  <2>3. CASE k = "cleanup"
    <3>1. closer'[f]["cleanup"] = "release" /\ closer'[f]["watchdog"] \in {"idle", "lock"} /\ state'[f] = "Closed"
      BY <1>5, <1>6, <1>7, <2>1, <2>3 DEF SessionOK
    <3> QED
      BY <1>5, <1>7, <3>1 DEF SessionOK, EndPlaces
  <2> QED
    BY <2>1, <2>2, <2>3
<1>10. TypeOK'
  BY <1>1, <1>6, <1>7 DEF IndInv, TypeOK, deviceVars, runtimeVars, requestVars, irpVars, miniportVars
<1>11. QuietAt(f)'
  BY <1>3, <1>5, <1>6, <1>7, Session DEF QuietAt, Quiet, RequestsStay
<1> QED
  BY <1>3, <1>8, <1>9, <1>10, <1>11, PoolSame, SessionStep

\* The next App may open the device.
LEMMA ReleaseDeviceOpenStep == ASSUME IndInv, NEW f \in Files, ReleaseDeviceOpen(f) PROVE IndInv'
<1>1. /\ closer[f]["cleanup"] = "release" /\ Step(f, "cleanup", "done") /\ openFile' \in {None, openFile}
      /\ UNCHANGED <<sessionVars, armed, fresh, beats, runtimeVars, requestVars, miniportVars>>
  BY DEF ReleaseDeviceOpen
<1>2. RequestsStay /\ UNCHANGED <<pc, file, holds, pool, free>>
  BY <1>1, CommandIrp DEF RequestsStay, sessionVars, runtimeVars, requestVars, irpVars
<1>3. /\ closer' \in [Files -> [Closers -> CloserPlaces]]
      /\ closer'[f]["cleanup"] = "done" /\ closer'[f]["watchdog"] = closer[f]["watchdog"]
      /\ \A g \in Files \ {f} : closer'[g] = closer[g]
  BY <1>1, CloserStep DEF Closers, CloserPlaces
<1>4. UNCHANGED <<state, handle, hasId, armed, fresh, runtime, rtState>>
  BY <1>1 DEF sessionVars, runtimeVars
<1>5. ElsewhereKept(f)
  BY <1>3, <1>4 DEF ElsewhereKept
<1>6. TypeOK'
  BY <1>1, <1>3 DEF IndInv, TypeOK, sessionVars, runtimeVars, requestVars, irpVars, miniportVars
<1>7. SessionOK(f)'
  <2>1. SessionOK(f) /\ state[f] = "Closed"
    BY SMTT(30), <1>1, Session DEF SessionOK, SessionStates, EndPlaces
  <2> QED
    BY <1>1, <1>3, <1>4, <2>1 DEF SessionOK, EndPlaces
<1>8. QuietAt(f)'
  BY <1>1, <1>2, <1>3, <1>4, Session DEF QuietAt, Quiet, RequestsStay, Closers
<1> QED
  BY <1>2, <1>5, <1>6, <1>7, <1>8, PoolSame, SessionStep

(***************************************************************************)
(* The invariant of the driver.                                            *)
(***************************************************************************)

\* No file is open and no request was sent.
LEMMA InitIndInv == Init => IndInv
<1> SUFFICES ASSUME Init PROVE IndInv
  OBVIOUS
<1> USE DEF Init
<1>1. TypeOK
  <2>1. /\ openFile \in Files \cup {None} /\ state \in [Files -> SessionStates]
        /\ handle \in [Files -> BOOLEAN] /\ hasId \in [Files -> BOOLEAN]
        /\ inFlight \in [Files -> Nat] /\ pendingSlots \in [Files -> Nat]
        /\ eventSlot \in [Files -> EventRequests \cup {None}]
    BY DEF SessionStates
  <2>2. /\ armed \in [Files -> BOOLEAN] /\ fresh \in [Files -> BOOLEAN] /\ beats \in Nat
        /\ closer \in [Files -> [Closers -> CloserPlaces]]
    BY DEF CloserPlaces
  <2>3. /\ runtime \in [Files -> BOOLEAN] /\ rtState \in [Files -> {"none", "Running", "Closing", "freed"}]
        /\ active \in [Files -> Nat]
        /\ pool \in [Files -> [Pools -> Nat]] /\ free \in [Files -> [Pools -> Nat]]
    BY DEF Pools
  <2>4. /\ pc \in [Requests -> Places] /\ file \in [Requests -> Files \cup {None}]
        /\ holds \in [Requests -> {"none", "reference", "object"}] /\ completed \in [Requests -> Nat]
    BY DEF Places
  <2>5. completion \in [Requests -> 0 .. 2] /\ irp \in [Requests -> {"none", "sent", "done"}]
    OBVIOUS
  <2>6. calling \subseteq Async /\ mpSession \in Files \cup {None} /\ mpPresent \in BOOLEAN
    OBVIOUS
  <2> QED
    BY <2>1, <2>2, <2>3, <2>4, <2>5, <2>6 DEF TypeOK
<1>2. RequestsOK
  BY DEF RequestsOK, RequestOK, ObjectPlaces
<1>3. \A f \in Files : /\ InSession(f) = {} /\ Holders(f) = {}
                       /\ \A p \in Pools : ObjectsOut(f, p) = {}
  BY DEF InSession, Holders, ObjectsOut, InPlaces
<1>4. IsFiniteSet({}) /\ Cardinality({}) = 0 /\ {} \cap Async = {}
  BY FS_EmptySet
<1>5. InFlightOK /\ ActiveOK
  <2>1. \A f \in Files : inFlight[f] = 0 /\ pendingSlots[f] = 0 /\ active[f] = 0
    OBVIOUS
  <2> QED
    BY <1>3, <1>4, <2>1 DEF InFlightOK, ActiveOK
<1>6. PoolOK
  <2> SUFFICES ASSUME NEW f \in Files, NEW p \in Pools
               PROVE  pool[f][p] = free[f][p] + Cardinality(ObjectsOut(f, p))
    BY DEF PoolOK
  <2>1. pool[f][p] = 0 /\ free[f][p] = 0 /\ Cardinality(ObjectsOut(f, p)) = 0
    BY <1>3, <1>4 DEF Pools
  <2> QED
    BY <2>1
<1>7. SessionsOK
  BY DEF SessionsOK, SessionOK, Closers
<1>8. QuietOK
  BY ConstantsAssumption DEF QuietOK, QuietAt, Closers
<1>9. EventSlotReserved
  BY DEF EventSlotReserved, EventPlaces, Requests, Async
<1> QED
  BY <1>1, <1>2, <1>5, <1>6, <1>7, <1>8, <1>9 DEF IndInv

\* A step that changes nothing.
LEMMA StutterIndInv == ASSUME IndInv, UNCHANGED vars PROVE IndInv'
<1> USE DEF vars, deviceVars, sessionVars, watchVars, runtimeVars, requestVars, irpVars, miniportVars
<1>1. TypeOK' /\ EventSlotReserved'
  BY DEF IndInv, TypeOK, EventSlotReserved
<1>2. RequestsOK'
  BY DEF IndInv, RequestsOK, RequestOK
<1>3. InFlightOK' /\ ActiveOK' /\ PoolOK'
  <2>1. \A f, p : InSession(f)' = InSession(f) /\ Holders(f)' = Holders(f) /\ ObjectsOut(f, p)' = ObjectsOut(f, p)
    BY DEF InSession, Holders, ObjectsOut, PoolOf
  <2> QED
    BY <2>1 DEF IndInv, InFlightOK, ActiveOK, PoolOK
<1>4. SessionsOK' /\ QuietOK'
  BY DEF IndInv, SessionsOK, SessionOK, QuietOK, QuietAt, Quiet
<1> QED
  BY <1>1, <1>2, <1>3, <1>4 DEF IndInv

\* Every step of the driver, the App, Windows and the miniport keeps it.
LEMMA NextIndInv == ASSUME IndInv, [Next]_vars PROVE IndInv'
<1>1. CASE UNCHANGED vars
  BY <1>1, StutterIndInv
<1>2. ASSUME NEW f \in Files, Device(f) \/ Heartbeat(f) \/ BeginCleanup(f) \/ Watchdog(f) \/ Cleanup(f) PROVE IndInv'
  BY <1>2, TryOpenStep, OpenSucceedsStep, OpenFailsStep, HeartbeatStep, BeginCleanupStep, TimerExpiresStep,
     WatchdogLocksStep, StopTimerStep, CleanupLocksStep, ReleaseDeviceOpenStep DEF Device, Watchdog, Cleanup
<1>3. ASSUME NEW f \in Files, NEW k \in Closers, Close(f, k) PROVE IndInv'
  BY <1>3, BeginCloseStep, SendSessionCleanupStep, DrainInFlightIoStep, StopRuntimeStep, FreeRuntimeStep,
     DrainPendingSlotsStep, CloseHandleStep DEF Close
<1>4. ASSUME NEW r \in Requests, App(r) PROVE IndInv'
  BY <1>4, AcquireSessionStep, PeekStateStep DEF App
<1>5. ASSUME NEW r \in Requests, Serve(r) PROVE IndInv'
  <2>1. CASE ReferenceSlot(r) \/ RecheckState(r) \/ LookupRuntime(r) \/ ReferenceRuntime(r) \/ TakeObject(r) \/ NoObject(r)
    BY <2>1, ReferenceSlotStep, RecheckStateStep, LookupRuntimeStep, ReferenceRuntimeStep, TakeObjectStep, NoObjectStep
  <2>2. CASE DropObject(r) \/ ReserveEventSlot(r) \/ SubmitWorkItem(r) \/ SendCommand(r) \/ ReleaseBuffer(r) \/ Reply(r)
    BY <2>2, DropObjectStep, ReserveEventSlotStep, SubmitWorkItemStep, SendCommandStep, ReleaseBufferStep, ReplyStep
  <2>3. CASE ReleaseSession(r) \/ SlotWorkItem(r) \/ DispatchSlot(r) \/ SettleDispatch(r)
    BY <2>3, ReleaseSessionStep, SlotWorkItemStep, DispatchSlotStep, SettleDispatchStep
  <2>4. CASE CompleteSlot(r) \/ ReleaseSlot(r) \/ GiveBack(r) \/ Answer(r)
    BY <2>4, CompleteSlotStep, ReleaseSlotStep, GiveBackStep, AnswerStep
  <2> QED
    BY <1>5, <2>1, <2>2, <2>3, <2>4 DEF Serve
<1>6. ASSUME NEW r \in Requests, MiniportCompletes(r) \/ CompletionRoutine(r) PROVE IndInv'
  BY <1>6, MiniportCompletesStep, CompletionRoutineStep
<1> QED
  BY <1>1, <1>2, <1>3, <1>4, <1>5, <1>6 DEF Next

\* Requests, counters, sessions and closers always fit together: the counters
\* of ControlSessionAcquire, ControlSessionAcquireSlot and of the runtime count
\* the requests that are in, and a session that was drained is quiet.
THEOREM Invariance == Spec => []IndInv
<1>1. Init => IndInv
  BY InitIndInv
<1>2. IndInv /\ [Next]_vars => IndInv'
  BY NextIndInv
<1> QED
  BY <1>1, <1>2, PTL DEF Spec

(***************************************************************************)
(* What it means for the App and the miniport.                             *)
(***************************************************************************)

\* The contexts keep their types: no counter of the driver drops below zero.
THEOREM TypeCorrect == Spec => []TypeOK
<1>1. IndInv => TypeOK
  BY DEF IndInv
<1> QED
  BY <1>1, Invariance, PTL

\* Neither ControlCloseMiniportHandle of the watchdog nor that of the cleanup
\* closes the handle under a request that passed the checks of its session.
THEOREM HandleIsOpen == Spec => []HandleOutlivesUse
<1>1. IndInv => HandleOutlivesUse
  <2> SUFFICES ASSUME IndInv, NEW r \in Requests, pc[r] \in UsePlaces PROVE handle[file[r]]
    BY DEF HandleOutlivesUse
  <2>1. PICK f \in Files : f = file[r]
    BY RequestFile DEF UsePlaces
  <2>2. pc[r] \notin QuietPlaces \cup {"done"}
    BY DEF UsePlaces, QuietPlaces
  <2>3. rtState[f] \notin {"freed", "none"}
    BY <2>1, <2>2, Session DEF QuietAt, Quiet
  <2> QED
    BY <2>1, <2>3, Session DEF SessionOK
<1> QED
  BY <1>1, Invariance, PTL

\* ControlTransportRuntimeStop frees the runtime when nobody has or takes a
\* reference to it.
THEOREM RuntimeIsThere == Spec => []RuntimeOutlivesUse
<1>1. IndInv => RuntimeOutlivesUse
  <2> SUFFICES ASSUME IndInv, NEW r \in Requests, holds[r] # "none" \/ pc[r] = "reference"
               PROVE  rtState[file[r]] # "freed"
    BY DEF RuntimeOutlivesUse
  <2>1. pc[r] # "idle"
    BY RequestFile
  <2>2. PICK f \in Files : f = file[r]
    BY <2>1, RequestFile
  <2> QED
    BY SMTT(30), <2>2, Session DEF QuietAt, Quiet, QuietPlaces
<1> QED
  BY <1>1, Invariance, PTL

\* A closed session has no slot in the miniport and no object out.
THEOREM NothingIsOut == Spec => []ClosedMeansReturned
<1>1. IndInv => ClosedMeansReturned
  <2> SUFFICES ASSUME IndInv, NEW f \in Files, state[f] = "Closed", NEW r \in Async, file[r] = f
               PROVE  /\ irp[r] = "none" /\ holds[r] = "none"
                      /\ pc[r] \in {"refer", "recheck", "failSlot", "answer", "done"}
    BY DEF ClosedMeansReturned
  <2>1. r \in Requests /\ RequestOK(r)
    BY Served DEF Requests
  <2>2. rtState[f] \in {"none", "freed"}
    BY Session DEF SessionOK
  <2>3. CASE rtState[f] = "none"
    BY <2>1, <2>3, Session DEF QuietAt, RequestOK, ObjectPlaces
  <2>4. CASE rtState[f] = "freed"
    <3>1. pc[r] \in QuietPlaces /\ holds[r] = "none"
      BY <2>1, <2>4, Session DEF QuietAt, Quiet
    <3> QED
      BY <2>1, <3>1 DEF RequestOK, ObjectPlaces, QuietPlaces
  <2> QED
    BY <2>2, <2>3, <2>4
<1> QED
  BY <1>1, Invariance, PTL

\* The exchange on CompletionState gives every App request one owner.
THEOREM CompletedByOne == Spec => []CompletedOnce
<1>1. IndInv => CompletedOnce
  BY DEF IndInv, RequestsOK, RequestOK, CompletedOnce
<1> QED
  BY <1>1, Invariance, PTL

\* A reservation in PendingEventSlots lasts as long as its event slot, and
\* nobody else clears it.
THEOREM ReservationHolds == Spec => []EventSlotReserved
<1>1. IndInv => EventSlotReserved
  BY DEF IndInv
<1> QED
  BY <1>1, Invariance, PTL

\* Heartbeat and expiry of the one-shot timer leave no Active session
\* unwatched.
THEOREM Watched == Spec => []ActiveIsWatched
<1>1. IndInv => ActiveIsWatched
  BY DEF IndInv, SessionsOK, SessionOK, ActiveIsWatched
<1> QED
  BY <1>1, Invariance, PTL
=============================================================================
