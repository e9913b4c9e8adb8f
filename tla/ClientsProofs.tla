--------------------------- MODULE ClientsProofs ---------------------------
(***************************************************************************)
(* Proofs about Clients.  First the types of both host programs, and with  *)
(* them the invariant of the network beneath (NetClientProofs), are kept   *)
(* by every step of either program (ClientsInv); then what serves a        *)
(* mounted disk is (ServedInv), program by program: the command line's     *)
(* threads under the host mutex, then the desktop's disks.                 *)
(***************************************************************************)
EXTENDS Clients, NetClientProofs, FiniteSetTheorems, SequenceTheorems

(***************************************************************************)
(* Nothing ever goes away: connections, sessions, disks and drafts are     *)
(* only added, so what names one of them goes on naming it.                *)
(***************************************************************************)
Bigger ==
    /\ NetInv'
    /\ Len(conn) <= Len(conn') /\ Len(sess) <= Len(sess')
    /\ Len(disks) <= Len(disks') /\ Len(disks') \in Nat
    /\ Len(drafts) <= Len(drafts') /\ Len(drafts') \in Nat

LEMMA BiggerSets ==
    ASSUME ClientsInv, Bigger
    PROVE  /\ Conns \subseteq Conns' /\ Sessions \subseteq Sessions' /\ Ids0 \subseteq Ids0'
           /\ 0..Len(conn) \subseteq 0..Len(conn') /\ 0..Len(disks) \subseteq 0..Len(disks')
           /\ 1..Len(disks) \subseteq 1..Len(disks') /\ 1..Len(drafts) \subseteq 1..Len(drafts')
           /\ DOMAIN disks = 1..Len(disks) /\ DOMAIN drafts = 1..Len(drafts)
           /\ Conns = 1..Len(conn) /\ Sessions = 1..Len(sess) /\ Ids0 = 0..Len(sess)
           /\ Conns' = 1..Len(conn') /\ Sessions' = 1..Len(sess') /\ Ids0' = 0..Len(sess')
<1>1. conn \in Seq(ConnType) /\ sess \in Seq(SessType) /\ disks \in Seq(DiskType) /\ drafts \in Seq(DraftType)
  BY DEF ClientsInv, TypeOK, NetTypes, CatalogTypes, DeskTypes
<1>2. conn' \in Seq(ConnType) /\ sess' \in Seq(SessType)
  BY DEF Bigger, NetInv, NetTypes
<1>3. /\ Len(conn) \in Nat /\ Len(conn') \in Nat /\ Len(sess) \in Nat /\ Len(sess') \in Nat
      /\ Len(disks) \in Nat /\ Len(drafts) \in Nat
  BY <1>1, <1>2
<1>4. /\ DOMAIN disks = 1..Len(disks) /\ DOMAIN drafts = 1..Len(drafts)
      /\ Conns = 1..Len(conn) /\ Sessions = 1..Len(sess) /\ Ids0 = 0..Len(sess)
      /\ Conns' = 1..Len(conn') /\ Sessions' = 1..Len(sess') /\ Ids0' = 0..Len(sess')
  BY <1>1, <1>2 DEF Conns, Sessions, Ids0
<1>5. \A a, b \in Nat : a <= b => 0..a \subseteq 0..b /\ 1..a \subseteq 1..b
  OBVIOUS
<1> QED
  BY <1>3, <1>4, <1>5 DEF Bigger

LEMMA BackendSame ==
    ASSUME ClientsInv, Bigger, UNCHANGED <<pool, removedQ, managed>> PROVE BackendTypes'
<1>1. MediaType \subseteq MediaType'
  BY BiggerSets DEF MediaType
<1> QED
  BY <1>1, BiggerSets DEF BackendTypes, ClientsInv, TypeOK

LEMMA CliSame ==
    ASSUME ClientsInv, Bigger, UNCHANGED <<mounted, marks, changed, marking, memory, binding>> PROVE CliTypes'
BY BiggerSets DEF CliTypes, MemoryTypes, ClientsInv, TypeOK

LEMMA CatalogSame ==
    ASSUME ClientsInv, Bigger, UNCHANGED <<disks, listing, bin, saved>> PROVE CatalogTypes'
BY DEF CatalogTypes, ClientsInv, TypeOK, DiskType, MountedAt, Listed

LEMMA CmdSame ==
    ASSUME ClientsInv, Bigger, disks' \in Seq(DiskType), drafts' \in Seq(DraftType'), cmd' = cmd
    PROVE  CmdTypes'
<1>1. DOMAIN disks \subseteq DOMAIN disks' /\ DOMAIN drafts \subseteq DOMAIN drafts'
  BY BiggerSets
<1> QED
  BY <1>1 DEF CmdTypes, ClientsInv, TypeOK

LEMMA TaskGrows ==
    ASSUME ClientsInv, Bigger, disks' \in Seq(DiskType)
    PROVE  TaskType \subseteq TaskType' /\ FoundType \subseteq FoundType' /\ DraftType \subseteq DraftType'
<1>1. DOMAIN disks \subseteq DOMAIN disks' /\ Ids0 \subseteq Ids0' /\ Conns \subseteq Conns'
  BY BiggerSets
<1>2. TaskType \subseteq TaskType'
  BY <1>1 DEF TaskType
<1>3. FoundType \subseteq FoundType'
  BY <1>1, <1>2 DEF FoundType
<1>4. DraftType \subseteq DraftType'
  BY <1>1 DEF DraftType
<1> QED
  BY <1>2, <1>3, <1>4

LEMMA DraftsSame ==
    ASSUME ClientsInv, Bigger, disks' \in Seq(DiskType), drafts' = drafts PROVE drafts' \in Seq(DraftType')
<1>1. drafts \in Seq(DraftType) /\ DraftType \subseteq DraftType'
  BY TaskGrows DEF ClientsInv, TypeOK, DeskTypes
<1> QED
  BY <1>1

LEMMA DeskSame ==
    ASSUME ClientsInv, Bigger, disks' \in Seq(DiskType),
           UNCHANGED <<opened, drafts, plan, found, stranded, raced>> PROVE DeskTypes'
<1>1. drafts' \in Seq(DraftType')
  BY DraftsSame
<1>2. /\ TaskType \subseteq TaskType' /\ FoundType \subseteq FoundType'
      /\ Ids0 \subseteq Ids0' /\ Sessions \subseteq Sessions'
  BY BiggerSets, TaskGrows
<1>3. opened' \in [RemoteDisks -> Ids0']
  BY <1>2 DEF DeskTypes, ClientsInv, TypeOK
<1>4. plan' \in [Scanners -> SUBSET TaskType']
  BY <1>2 DEF DeskTypes, ClientsInv, TypeOK
<1>5. found' \in [Scanners -> SUBSET FoundType']
  BY <1>2 DEF DeskTypes, ClientsInv, TypeOK
<1>6. stranded' \subseteq Sessions' /\ raced' \subseteq RemoteDisks
  BY <1>2 DEF DeskTypes, ClientsInv, TypeOK
<1> QED
  BY <1>1, <1>3, <1>4, <1>5, <1>6 DEF DeskTypes

(***************************************************************************)
(* What the host programs do to the network.                               *)
(***************************************************************************)
NetBigger == NetInv' /\ Len(conn) <= Len(conn') /\ Len(sess) <= Len(sess')

LEMMA LenNats == ASSUME NetInv PROVE Len(conn) \in Nat /\ Len(sess) \in Nat
BY DEF NetInv, NetTypes

LEMMA HostNet == ASSUME NetInv, HostStep PROVE NetBigger
<1>1. NetInv' /\ Len(conn) <= Len(conn') /\ Len(sess') = Len(sess)
  BY HostInv DEF HostStep, ConnsLess, SameSessions
<1> QED
  BY <1>1, LenNats DEF NetBigger

LEMMA QuietNet == ASSUME NetInv, UNCHANGED <<conn, sess, gw, job>> PROVE NetBigger
<1>1. ConnsLess /\ SameSessions /\ StillUp
  BY SameConns, QuietSame, SameStillUp DEF Quietly
<1> QED
  BY <1>1, HostNet DEF HostStep, HostJob

\* A step of the library or of the gateway keeps the connections, and the
\* sessions there are.
LEMMA KeepsLength ==
    ASSUME NetInv, NetInv', DOMAIN conn' = DOMAIN conn, DOMAIN sess \subseteq DOMAIN sess'
    PROVE  NetBigger
<1>1. /\ conn \in Seq(ConnType) /\ conn' \in Seq(ConnType) /\ sess \in Seq(SessType) /\ sess' \in Seq(SessType)
  BY DEF NetInv, NetTypes
<1>2. /\ Len(conn) \in Nat /\ Len(sess) \in Nat /\ Len(conn') \in Nat /\ Len(sess') \in Nat
      /\ 1..Len(conn') = 1..Len(conn) /\ 1..Len(sess) \subseteq 1..Len(sess')
  BY <1>1
<1>3. \A a, b \in Nat : 1..a \subseteq 1..b => a <= b
  <2> SUFFICES ASSUME NEW a \in Nat, NEW b \in Nat, 1..a \subseteq 1..b, ~(a <= b) PROVE FALSE
    OBVIOUS
  <2>1. a \in 1..a /\ a \notin 1..b
    OBVIOUS
  <2> QED
    BY <2>1
<1> QED
  BY <1>2, <1>3 DEF NetBigger

LEMMA LibraryNet == ASSUME NetInv, Library PROVE NetBigger
<1>1. DOMAIN conn' = DOMAIN conn
  <2>1. ASSUME NEW t \in Threads, CallerStep(t) PROVE DOMAIN conn' = DOMAIN conn
    BY <2>1, SMTT(30) DEF CallerStep, Send, BeginAuth, StartReturns, FinishReturns, RegisterGrant, OpenReturns, Attach,
       DescribeReturns, IoContinues, IoEnds, Chunk
  <2>2. ASSUME NEW c \in Conns, LoopStep(c) PROVE DOMAIN conn' = DOMAIN conn
    BY <2>2 DEF LoopStep, TakeReply, LoseConnection
  <2> QED
    BY <2>1, <2>2 DEF Library
<1>2. DOMAIN sess' = DOMAIN sess
  <2>1. ASSUME NEW t \in Threads, CallerStep(t) PROVE DOMAIN sess' = DOMAIN sess
    BY <2>1, SMTT(30) DEF CallerStep, Send, BeginAuth, StartReturns, FinishReturns, RegisterGrant, OpenReturns, Attach,
       DescribeReturns, IoContinues, IoEnds, Chunk
  <2>2. ASSUME NEW c \in Conns, LoopStep(c) PROVE DOMAIN sess' = DOMAIN sess
    BY <2>2 DEF LoopStep, TakeReply, LoseConnection
  <2> QED
    BY <2>1, <2>2 DEF Library
<1> QED
  BY <1>1, <1>2, LibraryInv, KeepsLength

LEMMA OutsideNet == ASSUME NetInv, Gateway \/ Trouble PROVE NetBigger
<1>1. DOMAIN conn' = DOMAIN conn
  BY ZenonT(60) DEF Gateway, Trouble, Serve, Refuse, Reply, CloseByGateway, TellChanged, BreakLink
<1>2. DOMAIN sess \subseteq DOMAIN sess'
  <2>1. CASE sess' = sess
    BY <2>1
  <2>2. CASE \E s : sess' = Append(sess, s)
    BY <2>2 DEF NetInv, NetTypes
  <2> QED
    BY <2>1, <2>2, ZenonT(60) DEF Gateway, Trouble, Serve, Refuse, CloseByGateway, TellChanged, BreakLink
<1> QED
  BY <1>1, <1>2, GatewayInv, TroubleInv, KeepsLength, SMTT(30)

LEMMA BeneathNet == ASSUME NetInv, Beneath PROVE NetBigger
BY LibraryNet, OutsideNet DEF Beneath

\* The callbacks of the receive loop, and the media's requests.
LEMMA HandlerNet ==
    ASSUME NetInv, NEW c \in Conns,
           HandleDisconnect(c) \/ \E s \in Sessions : TakeClose(c, s) \/ TakeChanged(c, s)
    PROVE  NetBigger
<1>1. DOMAIN conn' = DOMAIN conn /\ sess' = sess
  BY DEF HandleDisconnect, TakeClose, TakeChanged
<1>2. NetInv'
  BY HandleDisconnectInv, TakeCloseInv, TakeChangedInv
<1> QED
  BY <1>1, <1>2, KeepsLength

LEMMA BeginOpenNet == ASSUME NetInv, NEW t \in Threads, BeginOpen(t) PROVE NetBigger
<1>1. DOMAIN conn' = DOMAIN conn /\ sess' = sess
  BY DEF BeginOpen
<1> QED
  BY <1>1, BeginOpenInv, KeepsLength

LEMMA MediaIoNet == ASSUME NetInv, NEW t \in Threads, MediaIo(t) PROVE NetBigger
<1>1. PICK s : IoStarts(t, s)
  BY DEF MediaIo
<1>2. DOMAIN conn' = DOMAIN conn /\ sess' = sess
  BY <1>1 DEF IoStarts, Chunk
<1> QED
  BY <1>1, <1>2, IoStartsInv, KeepsLength

LEMMA MediaFailsNet == ASSUME NetInv, NEW t \in Threads, NEW s \in Sessions, MediaFails(t, s) PROVE NetBigger
<1>1. IoFails(t, s)
  BY DEF MediaFails
<1>2. DOMAIN conn' = DOMAIN conn /\ DOMAIN sess' = DOMAIN sess
  BY <1>1 DEF IoFails, SessTerminal
<1> QED
  BY <1>1, <1>2, IoFailsInv, KeepsLength

(***************************************************************************)
(* The pooled connection, the beginning and the end of a job, the closing  *)
(* of sessions.                                                            *)
(***************************************************************************)
LEMMA AcquiredHost ==
    ASSUME NetInv, pool \in 0..Len(conn), NEW c, Acquired(c), sess' = sess, gw' = gw
    PROVE  ConnsLess /\ SameSessions /\ StillUp /\ c \in 1..Len(conn') /\ c \in Nat
<1>1. SameSessions
  BY QuietSame DEF Quietly
<1>2. conn \in Seq(ConnType) /\ Len(conn) \in Nat /\ Conns = 1..Len(conn)
  BY DEF NetInv, NetTypes, Conns
<1>3. CASE Up(pool)
  <2>1. c = pool /\ conn' = conn /\ pool # 0
    BY <1>3 DEF Acquired, Up
  <2> QED
    BY <1>1, <1>2, <2>1, SameConns, SameStillUp
<1>4. CASE ~Up(pool)
  <2>1. c = Len(conn) + 1 /\ conn' = Append(conn, NewConnection)
    BY <1>4 DEF Acquired
  <2>2. NewConnection \in ConnType
    <3>1. <<>> \in Seq(Message) /\ 0 \in 0..MaxGrants
      BY NetAssumption DEF NetAssumption
    <3> QED
      BY <3>1 DEF NewConnection, ConnType
  <2>3. /\ conn' \in Seq(ConnType) /\ Len(conn') = Len(conn) + 1 /\ \A e \in Conns : conn'[e] = conn[e]
        /\ conn'[Len(conn) + 1] = NewConnection
    BY <1>2, <2>1, <2>2
  <2>4. \A e \in 1..Len(conn') : e \in Conns \/ e = Len(conn) + 1
    BY <1>2, <2>3
  <2>5. ConnsLess
    <3>1. \A e \in Conns : Lessened(e)
      BY <2>3 DEF Lessened
    <3>2. Len(conn) + 1 \notin Conns /\ Len(conn) <= Len(conn')
      BY <1>2, <2>3
    <3> QED
      BY <2>3, <2>4, <3>1, <3>2 DEF ConnsLess
  <2>6. StillUp
    BY <2>3, SameStillUp
  <2> QED
    BY <1>1, <1>2, <2>1, <2>3, <2>5, <2>6
<1> QED
  BY <1>3, <1>4

LEMMA BeginsHost ==
    ASSUME NetInv, NEW t \in Threads, Idle(t), NEW c \in 1..Len(conn'), c \in Nat, NEW d \in RemoteDisks,
           Begins(t, c, d)
    PROVE  HostJob
<1>1. PICK j \in JobType : j = [IdleJob EXCEPT !.st = "acquired", !.conn = c, !.disk = d]
  <2>1. 0 \in 0..IoChunks
    BY NetAssumption DEF NetAssumption
  <2> QED
    BY <2>1 DEF JobType, IdleJob, JobStates, Before
<1>2. job' = [job EXCEPT ![t] = j]
  BY <1>1 DEF Begins
<1>3. JobOnly(t) /\ job'[t] = j
  BY <1>2, JobSet DEF NetInv
<1>4. ~Waiting(t)
  BY ThreadFacts DEF Idle, JobOK, At, IdleJob, Waiting
<1> QED
  BY <1>1, <1>3, <1>4 DEF HostJob, JobMove

LEMMA ClearHost == ASSUME NetInv, NEW t \in Threads, job[t].st \notin Asking, job' = ClearJob(t) PROVE HostJob
<1>1. JobOnly(t) /\ job'[t] = IdleJob
  BY ClearEffect DEF NetInv
<1>2. ~Waiting(t)
  BY ThreadFacts DEF Waiting
<1> QED
  BY <1>1, <1>2 DEF HostJob, JobMove

\* create_managed_disk is next, remove_disk has begun.
LEMMA StayHost ==
    ASSUME NetInv, NEW t \in Threads, NEW st, job' = StayJob(t, st),
           (At(t, "described") /\ st = "created") \/ (At(t, "idle") /\ st = "removing")
    PROVE  HostJob
<1>1. st \in JobStates
  BY DEF JobStates, After
<1>2. /\ JobOnly(t) /\ job'[t].st = st /\ job'[t].ans = "none"
      /\ job'[t].conn = job[t].conn /\ job'[t].sid = job[t].sid /\ job'[t].disk = job[t].disk
  BY <1>1, StayEffect DEF NetInv
<1>3. ~Waiting(t)
  BY ThreadFacts DEF Waiting, At, Asking
<1> QED
  BY <1>2, <1>3 DEF HostJob, JobMove, Goes

\* close of sessions, and of a connection.
LEMMA CloseHost ==
    ASSUME NetInv, NEW S, NEW r, NEW shut, Close(S, r, shut)
    PROVE  ConnsLess /\ SameSessions /\ StillUp /\ pool' \in {0, pool}
<1>1. sess \in Seq(SessType) /\ Len(sess) \in Nat /\ Sessions = 1..Len(sess)
      /\ conn \in Seq(ConnType) /\ Len(conn) \in Nat /\ Conns = 1..Len(conn)
  BY DEF NetInv, NetTypes, Sessions, Conns
<1>2. SameSessions
  <2>1. ASSUME NEW s \in Sessions
        PROVE  sess'[s] \in SessType /\ sess'[s].conn = sess[s].conn /\ sess'[s].disk = sess[s].disk
    <3>1. sess[s] \in SessType
      BY <1>1
    <3>2. CASE s \in S /\ sess[s].st \in {"granted", "open"}
      <4>1. PICK st \in {"closed", "terminal"} : st = IF Usable(s) THEN "closed" ELSE "terminal"
        OBVIOUS
      <4>2. sess'[s] = [sess[s] EXCEPT !.st = st]
        BY <3>2, <4>1 DEF Close
      <4>3. st \in {"granted", "open", "closed", "terminal"}
        OBVIOUS
      <4>4. PICK q \in SessType : q = [sess[s] EXCEPT !.st = st] /\ q.conn = sess[s].conn /\ q.disk = sess[s].disk
        BY <3>1, <4>3, SessSet
      <4> QED
        BY <4>2, <4>4
    <3>3. CASE ~(s \in S /\ sess[s].st \in {"granted", "open"})
      BY <3>1, <3>3 DEF Close
    <3> QED
      BY <3>2, <3>3
  <2>2. DOMAIN sess' = Sessions
    BY DEF Close
  <2>3. sess' = [s \in Sessions |-> sess'[s]]
    BY DEF Close
  <2>4. sess' \in Seq(SessType) /\ Len(sess') = Len(sess)
    BY <1>1, <2>1, <2>2, <2>3
  <2> QED
    BY <2>1, <2>4 DEF SameSessions
<1>3. ASSUME NEW c \in Conns
      PROVE  /\ conn'[c] \in ConnType /\ Lessened(c)
             /\ ~(c = r /\ shut) => conn'[c].st = conn[c].st
  <2>1. conn[c] \in ConnType /\ conn[c].active \in SUBSET Nat
    BY ConnFields DEF NetInv
  <2>2. PICK A \in SUBSET Nat : A = conn[c].active \ S
    BY <2>1
  <2>3. PICK k \in ConnType : k = [conn[c] EXCEPT !.active = A]
    BY <2>1 DEF ConnType
  <2>4. /\ k.st = conn[c].st /\ k.inbox = conn[c].inbox /\ k.active = A
        /\ k.auth = conn[c].auth /\ k.open = conn[c].open
    BY <2>1, <2>3 DEF ConnType
  <2>5. conn'[c] = IF c = r /\ shut THEN Closed(k) ELSE k
    BY <2>2, <2>3 DEF Close
  <2>6. CASE c = r /\ shut
    <3>1. conn'[c] = Closed(k)
      BY <2>5, <2>6
    <3> QED
      BY <2>2, <2>4, <2>6, <3>1, ClosedEffect DEF Lessened
  <2>7. CASE ~(c = r /\ shut)
    <3>1. conn'[c] = k
      BY <2>5, <2>7
    <3> QED
      BY <2>2, <2>4, <3>1 DEF Lessened
  <2> QED
    BY <2>6, <2>7
<1>4. ConnsLess
  <2>1. conn' = [c \in Conns |-> conn'[c]] /\ DOMAIN conn' = Conns
    BY DEF Close
  <2>2. conn' \in Seq(ConnType) /\ Len(conn') = Len(conn)
    BY <1>1, <1>3, <2>1
  <2> QED
    BY <1>1, <1>3, <2>2 DEF ConnsLess
<1>5. StillUp
  <2>1. ASSUME NEW s \in gw' PROVE conn'[sess[s].conn].st = "up"
    <3>1. s \in gw /\ ~(shut /\ sess[s].conn = r)
      BY DEF Close
    <3>2. s \in Sessions
      BY <3>1 DEF NetInv, NetTypes
    <3>3. sess[s].conn \in Conns /\ Up(sess[s].conn)
      BY <3>1, <3>2 DEF NetInv, SessionsOK, GwOK
    <3> QED
      BY <1>3, <3>1, <3>3 DEF Up
  <2>2. gw' \subseteq gw
    BY DEF Close
  <2> QED
    BY <2>1, <2>2 DEF StillUp
<1>6. pool' \in {0, pool}
  BY DEF Close
<1> QED
  BY <1>2, <1>4, <1>5, <1>6

LEMMA ReleaseHost ==
    ASSUME NetInv, NEW S, NEW r, CloseAndRelease(S, r)
    PROVE  ConnsLess /\ SameSessions /\ StillUp /\ pool' \in {0, pool}
BY CloseHost DEF CloseAndRelease

\* A grant is given back.
GivesGrant(c) == conn' = [conn EXCEPT ![c] = LessGrant(@)]
LEMMA GrantHost ==
    ASSUME NetInv, NEW c \in Conns, GivesGrant(c), sess' = sess, gw' = gw
    PROVE  ConnsLess /\ SameSessions /\ StillUp
<1>1. PICK g \in 0..MaxGrants : g = IF conn[c].grants = 0 THEN 0 ELSE conn[c].grants - 1
  <2>1. conn[c].grants \in 0..MaxGrants
    BY ConnFields DEF NetInv
  <2> QED
    BY <2>1, NetAssumption DEF NetAssumption
<1>2. /\ conn[c].auth \in BOOLEAN /\ conn[c].open \in BOOLEAN /\ conn[c].active \in SUBSET Nat
  BY ConnFields DEF NetInv
<1>3. LessGrant(conn[c]) = [conn[c] EXCEPT !.grants = g]
  BY <1>1, ConnFields DEF LessGrant, NetInv, ConnType
<1>4. conn' = [conn EXCEPT ![c] = Flagged(c, conn[c].auth, conn[c].open, conn[c].active, g)]
  BY <1>3, ConnFields DEF GivesGrant, Flagged, NetInv, ConnType
<1>5. /\ ConnOnly(c) /\ Steady /\ conn'[c].auth = conn[c].auth /\ conn'[c].open = conn[c].open
      /\ conn'[c].active = conn[c].active
  <2>1. PICK a \in BOOLEAN, o \in BOOLEAN, A \in SUBSET Nat :
          a = conn[c].auth /\ o = conn[c].open /\ A = conn[c].active
    BY <1>2
  <2>2. conn' = [conn EXCEPT ![c] = Flagged(c, a, o, A, g)]
    BY <1>4, <2>1
  <2>3. ConnOnly(c) /\ Steady /\ conn'[c].auth = a /\ conn'[c].open = o /\ conn'[c].active = A
    BY <2>2, FlaggedEffect
  <2> QED
    BY <2>1, <2>3
<1>6. Lessened(c)
  BY <1>5 DEF Lessened, Steady
<1> QED
  BY <1>5, <1>6, OneLessened, QuietSame, SameStillUp DEF Quietly, Steady

\* A connection that is closed, with the sessions on it.
LEMMA ClosesHost ==
    ASSUME NetInv, NEW c \in Conns, conn' = [conn EXCEPT ![c] = Closed(@)], sess' = sess,
           gw' = IF Up(c) THEN GwWithout(c) ELSE gw
    PROVE  ConnsLess /\ SameSessions /\ StillUp
<1>1. conn[c] \in ConnType
  BY ConnFields DEF NetInv
<1>2. PICK k \in ConnType : k = Closed(conn[c])
  BY <1>1, ClosedEffect
<1>3. conn' = [conn EXCEPT ![c] = k]
  BY <1>2
<1>4. ConnOnly(c) /\ conn'[c] = k
  BY <1>3, ConnSet DEF NetInv
<1>5. Lessened(c)
  BY <1>1, <1>2, <1>4, ClosedEffect DEF Lessened
<1>6. StillUp
  <2>1. ASSUME NEW s \in gw' PROVE conn'[sess[s].conn].st = "up" /\ s \in gw
    <3>1. s \in gw /\ (Up(c) => sess[s].conn # c)
      BY DEF GwWithout
    <3>2. s \in Sessions
      BY <3>1 DEF NetInv, NetTypes
    <3>3. sess[s].conn \in Conns /\ Up(sess[s].conn)
      BY <3>1, <3>2 DEF NetInv, SessionsOK, GwOK
    <3> QED
      BY <1>4, <3>1, <3>3 DEF ConnOnly, Up
  <2> QED
    BY <2>1 DEF StillUp
<1> QED
  BY <1>4, <1>5, <1>6, OneLessened, QuietSame DEF SameSessions, NetInv, NetTypes

LEMMA SidFacts ==
    ASSUME NetInv, NEW t \in Threads
    PROVE  job[t].sid \in Ids0 /\ (job[t].st \in After => job[t].sid \in Sessions)
<1>1. JobOK(t) /\ SidOK(t) /\ job[t].st \in JobStates
  BY ThreadFacts, JobFields
<1>2. \A s \in Sessions : s \in Ids0
  BY DEF Sessions, Ids0, NetInv, NetTypes
<1>3. 0 \in Ids0
  BY LenNats DEF Ids0
<1>4. job[t].sid = 0 \/ job[t].sid \in Sessions
  BY <1>1 DEF JobOK, SidOK, JobStates, At, Names, Asking, Before, After, IdleJob
<1> QED
  BY <1>1, <1>2, <1>3, <1>4 DEF SidOK, Names

(***************************************************************************)
(* The command line.                                                       *)
(***************************************************************************)
HostThreads == {"shell", "reaper", "io", "ui", "rescan"}
LEMMA ThreadsThere == \A t \in HostThreads : t \in Threads
BY HostAssumption DEF HostAssumption, HostThreads

LEMMA CliFrame ==
    ASSUME ClientsInv, NetBigger, UNCHANGED <<catalogOnly, deskOnly>>
    PROVE  Bigger /\ (BackendTypes' /\ CliTypes' => ClientsInv')
<1>1. disks' = disks /\ drafts' = drafts /\ cmd' = cmd /\ disks \in Seq(DiskType) /\ drafts \in Seq(DraftType)
  BY DEF catalogOnly, deskOnly, netDiskVars, ClientsInv, TypeOK, CatalogTypes, DeskTypes
<1>2. Bigger
  BY <1>1 DEF Bigger, NetBigger
<1>3. drafts' \in Seq(DraftType')
  BY <1>1, <1>2, DraftsSame
<1>4. CatalogTypes'
  BY <1>2, CatalogSame DEF catalogOnly
<1>5. CmdTypes'
  BY <1>1, <1>2, <1>3, CmdSame
<1>6. DeskTypes'
  BY <1>1, <1>2, DeskSame DEF deskOnly, netDiskVars, scanVars, past
<1>7. saved' = listing'
  BY DEF ClientsInv, catalogOnly
<1>8. NetInv' /\ NetTypes'
  BY DEF NetBigger, NetInv
<1> QED
  BY <1>2, <1>4, <1>5, <1>6, <1>7, <1>8 DEF ClientsInv, TypeOK

\* The backend when only its connection changed; the marks and the mounts.
LEMMA PoolTypes ==
    ASSUME ClientsInv, Bigger, UNCHANGED <<removedQ, managed>>, pool' \in 0..Len(conn') PROVE BackendTypes'
<1>1. MediaType \subseteq MediaType'
  BY BiggerSets DEF MediaType
<1> QED
  BY <1>1, BiggerSets DEF BackendTypes, ClientsInv, TypeOK
LEMMA PoolStays == ASSUME ClientsInv, Bigger, pool' \in {0, pool} PROVE pool' \in 0..Len(conn')
<1>1. pool \in 0..Len(conn) /\ 0..Len(conn) \subseteq 0..Len(conn') /\ 0 \in 0..Len(conn)
  BY BiggerSets, LenNats DEF BackendTypes, ClientsInv, TypeOK
<1> QED
  BY <1>1

LEMMA MarkTypes ==
    ASSUME ClientsInv, Bigger, UNCHANGED memVars, mounted' \in [Targets -> Ids0'],
           marks' \subseteq Targets, changed' \subseteq Targets, marking' \subseteq Targets
    PROVE  CliTypes'
BY DEF CliTypes, MemoryTypes, ClientsInv, TypeOK, memVars
LEMMA MountedGrows == ASSUME ClientsInv, Bigger, mounted' = mounted PROVE mounted' \in [Targets -> Ids0']
BY BiggerSets DEF CliTypes, ClientsInv, TypeOK
LEMMA MarksAre == ASSUME ClientsInv PROVE marks \subseteq Targets /\ changed \subseteq Targets /\ marking \subseteq Targets
BY DEF CliTypes, ClientsInv, TypeOK

\* What is unchanged in both programs' handlers.
CliStep == UNCHANGED <<catalogOnly, deskOnly>>

LEMMA CliHandlersInv == ASSUME ClientsInv, CliStep, NEW c \in Conns, CliHandlers(c) PROVE ClientsInv'
<1>1. NetBigger
  BY HandlerNet DEF CliHandlers, CliSessionClosed, CliDataChanged, CliDisconnected, ClientsInv
<1>2. Bigger /\ (BackendTypes' /\ CliTypes' => ClientsInv')
  BY <1>1, CliFrame DEF CliStep
<1>3. UNCHANGED <<pool, removedQ, managed, mounted, memVars>>
  BY DEF CliHandlers, CliSessionClosed, CliDataChanged, CliDisconnected, backendVars
<1>4. BackendTypes'
  BY <1>2, <1>3, BackendSame
<1>5. marks' \subseteq Targets /\ changed' \subseteq Targets /\ marking' \subseteq Targets
  BY MarksAre DEF CliHandlers, CliSessionClosed, CliDataChanged, CliDisconnected
<1> QED
  BY <1>2, <1>3, <1>4, <1>5, MarkTypes, MountedGrows

LEMMA CliMarkInv == ASSUME ClientsInv, CliStep, CliMark PROVE ClientsInv'
<1>1. NetBigger
  BY QuietNet DEF CliMark, netVars, ClientsInv
<1>2. Bigger /\ (BackendTypes' /\ CliTypes' => ClientsInv')
  BY <1>1, CliFrame DEF CliStep
<1>3. UNCHANGED <<pool, removedQ, managed, mounted, memVars>>
  BY DEF CliMark, backendVars
<1>4. marks' \subseteq Targets /\ changed' \subseteq Targets /\ marking' \subseteq Targets
  BY MarksAre DEF CliMark
<1> QED
  BY <1>2, <1>3, <1>4, BackendSame, MarkTypes, MountedGrows

LEMMA CliMediaInv == ASSUME ClientsInv, CliStep, CliIo("io") \/ CliInvalidate("io") PROVE ClientsInv'
<1>1. NetBigger
  BY MediaIoNet, MediaFailsNet, ThreadsThere DEF HostThreads, CliIo, CliInvalidate, ClientsInv
<1>2. Bigger /\ (BackendTypes' /\ CliTypes' => ClientsInv')
  BY <1>1, CliFrame DEF CliStep
<1>3. UNCHANGED <<pool, removedQ, managed, mounted, memVars>>
  BY DEF CliIo, CliInvalidate, cliVars, hostVars, cliOnly, backendVars
<1>4. marks' \subseteq Targets /\ changed' \subseteq Targets /\ marking' \subseteq Targets
  BY MarksAre DEF CliIo, CliInvalidate, cliVars, cliOnly, markVars
<1> QED
  BY <1>2, <1>3, <1>4, BackendSame, MarkTypes, MountedGrows

\* Steps in which the host's own variables stay.
LEMMA CliStays == ASSUME ClientsInv, CliStep, NetBigger, UNCHANGED cliVars PROVE ClientsInv'
<1>1. Bigger /\ (BackendTypes' /\ CliTypes' => ClientsInv')
  BY CliFrame DEF CliStep
<1>2. BackendTypes'
  BY <1>1, BackendSame DEF cliVars, hostVars, backendVars
<1>3. CliTypes'
  BY <1>1, CliSame DEF cliVars, cliOnly, markVars, memVars
<1> QED
  BY <1>1, <1>2, <1>3

LEMMA CliBeneathInv == ASSUME ClientsInv, CliStep, UNCHANGED cliVars, Beneath \/ CliOpen PROVE ClientsInv'
<1>1. NetBigger
  BY BeneathNet, BeginOpenNet, ThreadsThere DEF HostThreads, CliOpen, ClientsInv
<1> QED
  BY <1>1, CliStays

\* acquire_connection, and what a failed mount leaves.
LEMMA CliAuthInv ==
    ASSUME ClientsInv, CliStep, NEW d \in RemoteDisks, NEW t \in Targets, CliAuth(d, t) PROVE ClientsInv'
<1>1. PICK c \in {pool, Len(conn) + 1} : Acquired(c) /\ pool' = c /\ Begins("shell", c, d)
  BY DEF CliAuth
<1>2. ConnsLess /\ SameSessions /\ StillUp /\ c \in 1..Len(conn') /\ c \in Nat
  BY <1>1, AcquiredHost DEF CliAuth, ClientsInv, TypeOK, BackendTypes
<1>3. HostJob
  BY <1>1, <1>2, BeginsHost, ThreadsThere DEF HostThreads, CliAuth, Take, ClientsInv
<1>4. NetBigger
  BY <1>2, <1>3, HostNet DEF HostStep, ClientsInv
<1>5. Bigger /\ (BackendTypes' /\ CliTypes' => ClientsInv')
  BY <1>4, CliFrame DEF CliStep
<1>6. pool' \in 0..Len(conn')
  BY <1>1, <1>2
<1>7. UNCHANGED <<removedQ, managed, mounted, marks, changed, marking, memory, binding>>
  BY DEF CliAuth, backendVars, markVars, memVars
<1> QED
  BY <1>5, <1>6, <1>7, PoolTypes, CliSame

LEMMA CliConnectFailsInv == ASSUME ClientsInv, CliStep, CliConnectFails PROVE ClientsInv'
<1>1. NetBigger
  BY QuietNet DEF CliConnectFails, ClientsInv
<1>2. Bigger /\ (BackendTypes' /\ CliTypes' => ClientsInv')
  BY <1>1, CliFrame DEF CliStep
<1>3. pool' \in 0..Len(conn')
  BY <1>2, PoolStays DEF CliConnectFails
<1> QED
  BY <1>2, <1>3, PoolTypes, CliSame DEF CliConnectFails, backendVars, markVars, memVars

\* A job of the host thread ends, and connections lose what it had.
LEMMA CliEnds ==
    ASSUME ClientsInv, CliStep, NEW who \in HostThreads, job[who].st \notin Asking, job' = ClearJob(who),
           ConnsLess, SameSessions, StillUp, pool' \in {0, pool}, UNCHANGED <<removedQ, managed>>
    PROVE  Bigger /\ (CliTypes' => ClientsInv')
<1>1. NetBigger
  BY ThreadsThere, ClearHost, HostNet DEF HostStep, ClientsInv
<1>2. Bigger /\ (BackendTypes' /\ CliTypes' => ClientsInv')
  BY <1>1, CliFrame DEF CliStep
<1>3. BackendTypes'
  BY <1>2, PoolStays, PoolTypes
<1> QED
  BY <1>2, <1>3

LEMMA QuietHost == ASSUME NetInv, UNCHANGED <<conn, sess, gw>> PROVE ConnsLess /\ SameSessions /\ StillUp
BY SameConns, QuietSame, SameStillUp DEF Quietly

LEMMA CliMountFailsInv == ASSUME ClientsInv, CliStep, CliMountFails PROVE ClientsInv'
<1>1. ConnsLess /\ SameSessions /\ StillUp
  BY QuietHost DEF CliMountFails, ClientsInv
<1>2. job["shell"].st \notin Asking /\ job' = ClearJob("shell") /\ pool' = pool /\ UNCHANGED <<removedQ, managed>>
  BY DEF CliMountFails, At, Asking, backendVars
<1>3. Bigger /\ (CliTypes' => ClientsInv')
  BY <1>1, <1>2, CliEnds DEF HostThreads
<1> QED
  BY <1>3, CliSame DEF CliMountFails, markVars, memVars

LEMMA CliOrphanInv == ASSUME ClientsInv, CliStep, CliOrphan PROVE ClientsInv'
<1> PICK c : c = job["shell"].conn
  OBVIOUS
<1>1. c \in Conns
  BY ThreadFacts, ThreadsThere DEF HostThreads, CliOrphan, At, After, ClientsInv
<1>2. ConnsLess /\ SameSessions /\ StillUp
  BY <1>1, ClosesHost DEF CliOrphan, ClientsInv
<1>3. job["shell"].st \notin Asking /\ job' = ClearJob("shell") /\ pool' = pool /\ UNCHANGED <<removedQ, managed>>
  BY DEF CliOrphan, At, Asking, backendVars
<1>4. Bigger /\ (CliTypes' => ClientsInv')
  BY <1>2, <1>3, CliEnds DEF HostThreads
<1> QED
  BY <1>4, CliSame DEF CliOrphan, markVars, memVars

LEMMA CliAbandonInv == ASSUME ClientsInv, CliStep, CliAbandon PROVE ClientsInv'
<1>1. ConnsLess /\ SameSessions /\ StillUp /\ pool' \in {0, pool}
  BY ReleaseHost DEF CliAbandon, ClientsInv
<1>2. job["shell"].st \notin Asking /\ job' = ClearJob("shell") /\ UNCHANGED <<removedQ, managed>>
  BY DEF CliAbandon, At, Asking, backendVars
<1>3. Bigger /\ (CliTypes' => ClientsInv')
  BY <1>1, <1>2, CliEnds DEF HostThreads
<1>4. marks' \subseteq Targets /\ changed' \subseteq Targets /\ marking' \subseteq Targets
  BY MarksAre DEF CliAbandon
<1> QED
  BY <1>3, <1>4, MarkTypes, MountedGrows DEF CliAbandon

LEMMA CliInsertInv == ASSUME ClientsInv, CliStep, CliInsert PROVE ClientsInv'
<1>1. ConnsLess /\ SameSessions /\ StillUp
  BY QuietHost DEF CliInsert, ClientsInv
<1>2. job["shell"].st \notin Asking /\ job' = ClearJob("shell") /\ pool' = pool /\ UNCHANGED <<removedQ, managed>>
  BY DEF CliInsert, At, Asking, backendVars
<1>3. Bigger /\ (CliTypes' => ClientsInv')
  BY <1>1, <1>2, CliEnds DEF HostThreads
<1>4. mounted' \in [Targets -> Ids0']
  <2>1. job["shell"].sid \in Ids0 /\ Ids0 \subseteq Ids0'
    BY <1>3, SidFacts, ThreadsThere, BiggerSets DEF HostThreads, ClientsInv
  <2> QED
    BY <2>1 DEF CliInsert, ClientsInv, TypeOK, CliTypes
<1> QED
  BY <1>3, <1>4, MarksAre, MarkTypes DEF CliInsert, markVars

\* unbind_target.
LEMMA AreaSet ==
    ASSUME NEW q \in Seq(AreaType), NEW m \in DOMAIN q, NEW a \in AreaType
    PROVE  [q EXCEPT ![m] = a] \in Seq(AreaType) /\ Len([q EXCEPT ![m] = a]) = Len(q)
OBVIOUS

LEMMA UnbindTypes == ASSUME CliTypes, NEW t, Unbind(t) PROVE MemoryTypes'
<1> PICK b : b = binding[t]
  OBVIOUS
<1>1. memory' \in Seq(AreaType) /\ Len(memory') = Len(memory) /\ Len(memory) \in Nat
  <2>1. memory \in Seq(AreaType) /\ Len(memory) \in Nat
    BY DEF CliTypes, MemoryTypes
  <2>2. CASE b = Unbound \/ ~memory[b.smid].live
    BY <2>1, <2>2 DEF Unbind, MemoryWithout
  <2>3. CASE ~(b = Unbound \/ ~memory[b.smid].live)
    <3>1. CASE b.smid \in DOMAIN memory
      <4>1. memory[b.smid] \in AreaType
        BY <2>1, <3>1
      <4>2. PICK B \in SUBSET Targets : B = memory[b.smid].bound \ {t}
        BY <4>1 DEF AreaType
      <4>3. PICK l \in BOOLEAN : l = ~(b.kind = "dedicated" /\ B = {})
        OBVIOUS
      <4>4. [live |-> l, bound |-> B] \in AreaType
        BY DEF AreaType
      <4>5. memory' = [memory EXCEPT ![b.smid] = [live |-> l, bound |-> B]]
        BY <2>3, <4>2, <4>3 DEF Unbind, MemoryWithout
      <4> QED
        BY <2>1, <3>1, <4>4, <4>5, AreaSet
    <3>2. CASE b.smid \notin DOMAIN memory
      <4>1. memory' = memory
        BY <2>1, <2>3, <3>2 DEF Unbind, MemoryWithout
      <4> QED
        BY <2>1, <4>1
    <3> QED
      BY <3>1, <3>2
  <2> QED
    BY <2>2, <2>3
<1>2. binding' \in [Targets -> [kind : {"none", "dedicated", "shared"}, smid : 0..Len(memory)]]
  <2>1. Unbound \in [kind : {"none", "dedicated", "shared"}, smid : 0..Len(memory)]
    BY <1>1 DEF Unbound
  <2> QED
    BY <2>1 DEF CliTypes, MemoryTypes, Unbind
<1> QED
  BY <1>1, <1>2 DEF MemoryTypes

LEMMA CliTakeInv ==
    ASSUME ClientsInv, CliStep, NEW who \in {"shell", "reaper"}, CliTake(who) PROVE ClientsInv'
<1>1. ConnsLess /\ SameSessions /\ StillUp /\ pool' \in {0, pool}
  BY ReleaseHost, QuietHost DEF CliTake, ClientsInv
<1>2. job[who].st \notin Asking /\ job' = ClearJob(who) /\ UNCHANGED <<removedQ, managed>>
  BY DEF CliTake, At, Asking, backendVars
<1>3. Bigger /\ (CliTypes' => ClientsInv')
  BY <1>1, <1>2, CliEnds DEF HostThreads
<1>4. mounted' \in [Targets -> Ids0']
  <2>1. 0 \in Ids0 /\ Ids0 \subseteq Ids0'
    BY <1>3, BiggerSets, LenNats DEF ClientsInv
  <2> QED
    BY <2>1 DEF CliTake, ClientsInv, TypeOK, CliTypes
<1>5. MemoryTypes'
  BY UnbindTypes DEF CliTake, ClientsInv, TypeOK
<1>6. marks' \subseteq Targets /\ changed' \subseteq Targets /\ marking' \subseteq Targets
  BY MarksAre DEF CliTake
<1>7. CliTypes'
  BY <1>4, <1>5, <1>6 DEF CliTypes
<1> QED
  BY <1>3, <1>7

\* remove_managed_disk_with_media begins, a response is polled, Windows is told.
LEMMA CliRemoveInv ==
    ASSUME ClientsInv, CliStep, NEW who \in {"shell", "reaper"}, NEW t \in Targets, CliRemove(who, t)
    PROVE  ClientsInv'
<1>1. HostJob
  BY StayHost, ThreadsThere DEF HostThreads, CliRemove, Take, Idle, At, ClientsInv
<1>2. NetBigger
  BY <1>1, QuietHost, HostNet DEF CliRemove, HostStep, ClientsInv
<1>3. Bigger /\ (BackendTypes' /\ CliTypes' => ClientsInv')
  BY <1>2, CliFrame DEF CliStep
<1>4. BackendTypes'
  <2>1. NoDisk \in MediaType' /\ NoDisk.kind = "none"
    BY <1>3 DEF NoDisk, MediaType, Bigger
  <2>2. MediaType \subseteq MediaType'
    BY <1>3, BiggerSets DEF MediaType
  <2>3. managed' = [managed EXCEPT ![t] = NoDisk] /\ removedQ' \subseteq removedQ \cup {t} /\ pool' = pool
    BY DEF CliRemove
  <2> HIDE DEF MediaType, NoDisk
  <2>4. managed' \in [Targets -> MediaType']
    BY <2>1, <2>2, <2>3 DEF ClientsInv, TypeOK, BackendTypes
  <2>5. \A u \in Targets : managed'[u].kind = "net" => managed'[u].id \in Sessions'
    BY <1>3, <2>1, <2>3, BiggerSets DEF ClientsInv, TypeOK, BackendTypes
  <2> QED
    BY <1>3, <2>3, <2>4, <2>5, PoolStays DEF ClientsInv, TypeOK, BackendTypes
<1> QED
  BY <1>3, <1>4, CliSame DEF CliRemove, markVars, memVars

LEMMA CliPollInv ==
    ASSUME ClientsInv, CliStep, NEW who \in {"shell", "reaper"}, CliPoll(who) PROVE ClientsInv'
<1>1. NetBigger
  BY QuietNet DEF CliPoll, CliNotifyChanged, CliPollRemoved, netVars, ClientsInv
<1>2. Bigger /\ (BackendTypes' /\ CliTypes' => ClientsInv')
  BY <1>1, CliFrame DEF CliStep
<1>3. CASE CliNotifyChanged(who)
  BY <1>2, <1>3, BackendSame, MarkTypes, MountedGrows, MarksAre DEF CliNotifyChanged, backendVars
<1>4. CASE CliPollRemoved(who)
  <2>1. MemoryTypes'
    BY <1>4, UnbindTypes DEF CliPollRemoved, ClientsInv, TypeOK
  <2>2. CliTypes'
    BY <1>2, <1>4, <2>1, MountedGrows, MarksAre DEF CliTypes, CliPollRemoved, markVars
  <2>3. MediaType \subseteq MediaType'
    BY <1>2, BiggerSets DEF MediaType
  <2>4. BackendTypes'
    BY <1>2, <1>4, <2>3, PoolStays, BiggerSets DEF CliPollRemoved, ClientsInv, TypeOK, BackendTypes
  <2> QED
    BY <1>2, <2>2, <2>4
<1> QED
  BY <1>3, <1>4 DEF CliPoll

\* A target that is given a media, in the command line and in the desktop.
LEMMA ServedTypes ==
    ASSUME ClientsInv, Bigger, NEW t \in Targets, NEW k \in {"net", "mem", "file"}, NEW i \in Nat,
           NEW n \in 0..Len(disks), k = "net" => i \in Sessions,
           managed' = [managed EXCEPT ![t] = Media(k, i, n)], removedQ' \subseteq Targets, pool' = pool
    PROVE  BackendTypes'
<1>1. Media(k, i, n) \in MediaType' /\ Media(k, i, n).kind = k /\ Media(k, i, n).id = i
  BY BiggerSets DEF MediaType, Media
<1>2. MediaType \subseteq MediaType'
  BY BiggerSets DEF MediaType
<1>3. managed' \in [Targets -> MediaType']
  BY <1>1, <1>2 DEF ClientsInv, TypeOK, BackendTypes
<1>4. \A u \in Targets : managed'[u].kind = "net" => managed'[u].id \in Sessions'
  BY <1>1, BiggerSets DEF ClientsInv, TypeOK, BackendTypes
<1> QED
  BY <1>3, <1>4, PoolStays DEF BackendTypes

LEMMA MediaSetOutside ==
    ASSUME ClientsInv, Bigger, NEW t, t \notin Targets, NEW d,
           managed' = [managed EXCEPT ![t] = d], UNCHANGED <<removedQ, pool>>
    PROVE  BackendTypes'
<1>1. managed' = managed
  BY DEF ClientsInv, TypeOK, BackendTypes
<1> QED
  BY <1>1, BackendSame

LEMMA CliCreateInv == ASSUME ClientsInv, CliStep, CliCreate PROVE ClientsInv'
<1>1. HostJob
  BY StayHost, ThreadsThere DEF HostThreads, CliCreate, ClientsInv
<1>2. NetBigger
  BY <1>1, QuietHost, HostNet DEF CliCreate, HostStep, ClientsInv
<1>3. Bigger /\ (BackendTypes' /\ CliTypes' => ClientsInv')
  BY <1>2, CliFrame DEF CliStep
<1>4. PICK s \in Sessions : s = job["shell"].sid
  BY SidFacts, ThreadsThere DEF HostThreads, CliCreate, At, After, ClientsInv
<1>5. managed' = [managed EXCEPT ![want] = Media("net", s, 0)] /\ UNCHANGED <<removedQ, pool>>
  BY <1>4 DEF CliCreate, Net
<1>6. BackendTypes'
  <2>1. CASE want \in Targets
    <3>1. s \in Nat /\ 0 \in 0..Len(disks) /\ removedQ \subseteq Targets
      BY DEF Sessions, NetInv, NetTypes, ClientsInv, TypeOK, BackendTypes, CatalogTypes
    <3> QED
      BY <1>3, <1>5, <2>1, <3>1, ServedTypes
  <2>2. CASE want \notin Targets
    BY <1>3, <1>5, <2>2, MediaSetOutside
  <2> QED
    BY <2>1, <2>2
<1> QED
  BY <1>3, <1>6, CliSame DEF CliCreate, markVars, memVars

(***************************************************************************)
(* Memory disks of the command line.                                       *)
(***************************************************************************)
LEMMA AllocateTypes ==
    ASSUME CliTypes, NEW B \in SUBSET Targets, Allocate(B)
    PROVE  memory' \in Seq(AreaType) /\ Len(memory') = Len(memory) + 1 /\ Len(memory) \in Nat
<1>1. [live |-> TRUE, bound |-> B] \in AreaType
  BY DEF AreaType
<1> QED
  BY <1>1 DEF CliTypes, MemoryTypes, Allocate

LEMMA BindTypes ==
    ASSUME CliTypes, memory' \in Seq(AreaType), Len(memory) <= Len(memory'), Len(memory') \in Nat, NEW t,
           NEW k \in {"dedicated", "shared"}, NEW m \in 0..Len(memory'),
           binding' = binding \/ binding' = [binding EXCEPT ![t] = [kind |-> k, smid |-> m]]
    PROVE  MemoryTypes'
<1>1. memory \in Seq(AreaType) /\ Len(memory) \in Nat /\ 0..Len(memory) \subseteq 0..Len(memory')
  BY DEF CliTypes, MemoryTypes
<1>2. [kind |-> k, smid |-> m] \in [kind : {"none", "dedicated", "shared"}, smid : 0..Len(memory')]
  OBVIOUS
<1>3. binding \in [Targets -> [kind : {"none", "dedicated", "shared"}, smid : 0..Len(memory')]]
  BY <1>1 DEF CliTypes, MemoryTypes
<1>4. binding' \in [Targets -> [kind : {"none", "dedicated", "shared"}, smid : 0..Len(memory')]]
  BY <1>2, <1>3
<1> QED
  BY <1>4 DEF MemoryTypes

LEMMA CliLocalInv ==
    ASSUME ClientsInv, CliStep, NetBigger, BackendTypes', MemoryTypes', UNCHANGED <<mounted, markVars>>
    PROVE  ClientsInv'
<1>1. Bigger /\ (BackendTypes' /\ CliTypes' => ClientsInv')
  BY CliFrame DEF CliStep
<1>2. CliTypes'
  BY <1>1, MountedGrows, MarksAre DEF CliTypes, markVars
<1> QED
  BY <1>1, <1>2

LEMMA CliShareInv == ASSUME ClientsInv, CliStep, CliShare PROVE ClientsInv'
<1>1. NetBigger
  BY QuietNet DEF CliShare, netVars, ClientsInv
<1>2. Bigger
  BY <1>1, CliFrame DEF CliStep
<1>3. BackendTypes'
  BY <1>2, BackendSame DEF CliShare, backendVars
<1>4. MemoryTypes'
  BY AllocateTypes, BindTypes DEF CliShare, ClientsInv, TypeOK
<1> QED
  BY <1>1, <1>3, <1>4, CliLocalInv DEF CliShare

LEMMA CliCreateDedicatedInv ==
    ASSUME ClientsInv, CliStep, NEW t \in Targets, CliCreateDedicated(t) PROVE ClientsInv'
<1>1. NetBigger
  BY QuietNet DEF CliCreateDedicated, netVars, ClientsInv
<1>2. Bigger
  BY <1>1, CliFrame DEF CliStep
<1>3. PICK m \in Nat : m = Len(memory) + 1 /\ Len(memory) \in Nat
  BY DEF ClientsInv, TypeOK, CliTypes, MemoryTypes
<1>4. CASE Free(t)
  <2>1. /\ Allocate({t}) /\ binding' = [binding EXCEPT ![t] = [kind |-> "dedicated", smid |-> m]]
        /\ managed' = [managed EXCEPT ![t] = Media("mem", m, 0)] /\ UNCHANGED <<removedQ, pool>>
    BY <1>3, <1>4 DEF CliCreateDedicated, Mem
  <2>2. memory' \in Seq(AreaType) /\ Len(memory') = m
    BY <1>3, <2>1, AllocateTypes DEF ClientsInv, TypeOK
  <2>3. MemoryTypes'
    <3>1. CliTypes /\ Len(memory) <= Len(memory') /\ Len(memory') \in Nat /\ m \in 0..Len(memory')
      BY <1>3, <2>2 DEF ClientsInv, TypeOK
    <3> QED
      BY <2>1, <2>2, <3>1, BindTypes
  <2>4. 0 \in 0..Len(disks) /\ removedQ \subseteq Targets
    BY DEF ClientsInv, TypeOK, BackendTypes, CatalogTypes
  <2>5. BackendTypes'
    BY <1>2, <2>1, <2>4, ServedTypes
  <2> QED
    BY <1>1, <2>3, <2>5, CliLocalInv DEF CliCreateDedicated
<1>5. CASE ~Free(t)
  <2>1. Allocate({}) /\ UNCHANGED <<binding, managed, removedQ, pool>>
    BY <1>5 DEF CliCreateDedicated
  <2>2. memory' \in Seq(AreaType) /\ Len(memory') = m
    BY <1>3, <2>1, AllocateTypes DEF ClientsInv, TypeOK
  <2>3. MemoryTypes'
    BY <1>3, <2>1, <2>2, BindTypes DEF ClientsInv, TypeOK
  <2> QED
    BY <1>1, <1>2, <2>1, <2>3, BackendSame, CliLocalInv DEF CliCreateDedicated
<1> QED
  BY <1>4, <1>5

LEMMA CliCreateSharedInv ==
    ASSUME ClientsInv, CliStep, NEW t \in Targets, NEW m \in DOMAIN memory, CliCreateShared(t, m) PROVE ClientsInv'
<1>1. NetBigger
  BY QuietNet DEF CliCreateShared, netVars, ClientsInv
<1>2. Bigger
  BY <1>1, CliFrame DEF CliStep
<1>3. memory \in Seq(AreaType) /\ Len(memory) \in Nat /\ memory[m] \in AreaType /\ m \in 0..Len(memory) /\ m \in Nat
  BY DEF ClientsInv, TypeOK, CliTypes, MemoryTypes
<1>4. memory' \in Seq(AreaType) /\ Len(memory') = Len(memory)
  <2>1. PICK a \in AreaType : a = [memory[m] EXCEPT !.bound = @ \cup {t}]
    BY <1>3 DEF AreaType
  <2>2. memory' = [memory EXCEPT ![m] = a]
    BY <2>1 DEF CliCreateShared
  <2> QED
    BY <1>3, <2>2, AreaSet
<1>5. MemoryTypes'
  <2>1. CliTypes /\ Len(memory) <= Len(memory') /\ Len(memory') \in Nat /\ m \in 0..Len(memory')
    BY <1>3, <1>4 DEF ClientsInv, TypeOK
  <2>2. binding' = [binding EXCEPT ![t] = [kind |-> "shared", smid |-> m]]
    BY DEF CliCreateShared
  <2> QED
    BY <1>4, <2>1, <2>2, BindTypes
<1>6. 0 \in 0..Len(disks) /\ removedQ \subseteq Targets
  BY DEF ClientsInv, TypeOK, BackendTypes, CatalogTypes
<1>7. managed' = [managed EXCEPT ![t] = Media("mem", m, 0)] /\ UNCHANGED <<removedQ, pool>>
  BY DEF CliCreateShared, Mem
<1>8. BackendTypes'
  BY <1>2, <1>3, <1>6, <1>7, ServedTypes
<1> QED
  BY <1>1, <1>5, <1>8, CliLocalInv DEF CliCreateShared

LEMMA CliRemoveMemoryInv ==
    ASSUME ClientsInv, CliStep, NEW m \in DOMAIN memory, CliRemoveMemory(m) PROVE ClientsInv'
<1>1. NetBigger
  BY QuietNet DEF CliRemoveMemory, netVars, ClientsInv
<1>2. Bigger
  BY <1>1, CliFrame DEF CliStep
<1>3. memory \in Seq(AreaType) /\ Len(memory) \in Nat /\ memory[m] \in AreaType /\ 0 \in 0..Len(memory)
  BY DEF ClientsInv, TypeOK, CliTypes, MemoryTypes
<1>4. memory' \in Seq(AreaType) /\ Len(memory') = Len(memory)
  <2>1. PICK a \in AreaType : a = [memory[m] EXCEPT !.live = FALSE]
    BY <1>3 DEF AreaType
  <2>2. memory' = [memory EXCEPT ![m] = a]
    BY <2>1 DEF CliRemoveMemory
  <2> QED
    BY <1>3, <2>2, AreaSet
<1>5. MemoryTypes'
  BY <1>3, <1>4, BindTypes DEF CliRemoveMemory, ClientsInv, TypeOK
<1> QED
  BY <1>1, <1>2, <1>5, BackendSame, CliLocalInv DEF CliRemoveMemory, backendVars

\* shutdown.
LEMMA CliShutdownInv == ASSUME ClientsInv, CliStep, CliShutdown PROVE ClientsInv'
<1> PICK used : used = {sess[mounted[t]].conn : t \in {u \in Targets : Mounted(u)}}
  OBVIOUS
<1>1. /\ conn' = [c \in Conns |-> IF c \in used THEN Closed(conn[c]) ELSE conn[c]]
      /\ gw' = {s \in gw : sess[s].conn \notin used} /\ sess' = sess /\ job' = job /\ pool' = 0
      /\ managed' = [t \in Targets |-> NoDisk] /\ mounted' = [t \in Targets |-> 0]
      /\ marks' = {} /\ changed' = {} /\ removedQ' = {} /\ marking' = marking
      /\ memory' = [m \in DOMAIN memory |-> [live |-> FALSE, bound |-> {}]]
      /\ binding' = [t \in Targets |-> Unbound]
  BY DEF CliShutdown
<1>2. ASSUME NEW c \in Conns
      PROVE  conn'[c] \in ConnType /\ Lessened(c) /\ (c \notin used => conn'[c].st = conn[c].st)
  <2>1. conn[c] \in ConnType
    BY ConnFields DEF ClientsInv, NetInv
  <2>2. conn'[c] = IF c \in used THEN Closed(conn[c]) ELSE conn[c]
    BY <1>1
  <2>3. CASE c \in used
    <3>1. conn'[c] = Closed(conn[c])
      BY <2>2, <2>3
    <3> QED
      BY <2>1, <2>3, <3>1, ClosedEffect DEF Lessened
  <2>4. CASE c \notin used
    BY <2>1, <2>2, <2>4 DEF Lessened
  <2> QED
    BY <2>3, <2>4
<1>3. ConnsLess
  <2>1. conn \in Seq(ConnType) /\ Len(conn) \in Nat /\ Conns = 1..Len(conn)
    BY DEF ClientsInv, NetInv, NetTypes, Conns
  <2>2. conn' = [c \in Conns |-> conn'[c]] /\ DOMAIN conn' = Conns
    BY <1>1
  <2>3. conn' \in Seq(ConnType) /\ Len(conn') = Len(conn)
    BY <1>2, <2>1, <2>2
  <2> QED
    BY <1>2, <2>1, <2>3 DEF ConnsLess
<1>4. StillUp
  <2>1. ASSUME NEW s \in gw' PROVE conn'[sess[s].conn].st = "up" /\ s \in gw
    <3>1. s \in gw /\ sess[s].conn \notin used
      BY <1>1
    <3>2. s \in Sessions
      BY <3>1 DEF ClientsInv, NetInv, NetTypes
    <3>3. sess[s].conn \in Conns /\ Up(sess[s].conn)
      BY <3>1, <3>2 DEF ClientsInv, NetInv, SessionsOK, GwOK
    <3> QED
      BY <1>2, <3>1, <3>3 DEF Up
  <2> QED
    BY <2>1 DEF StillUp
<1>5. NetBigger
  <2>1. SameSessions
    BY <1>1 DEF SameSessions, ClientsInv, NetInv, NetTypes
  <2> QED
    BY <1>1, <1>3, <1>4, <2>1, HostNet DEF HostStep, HostJob, ClientsInv
<1>6. Bigger /\ (BackendTypes' /\ CliTypes' => ClientsInv')
  BY <1>5, CliFrame DEF CliStep
<1>7. BackendTypes'
  <2>1. NoDisk \in MediaType' /\ NoDisk.kind = "none" /\ 0 \in 0..Len(conn')
    BY <1>6, LenNats DEF NoDisk, MediaType, Bigger, NetInv, NetTypes
  <2> HIDE DEF MediaType, NoDisk
  <2> QED
    BY <1>1, <2>1 DEF BackendTypes
<1>8. CliTypes'
  <2>1. memory \in Seq(AreaType) /\ [live |-> FALSE, bound |-> {}] \in AreaType
    BY DEF ClientsInv, TypeOK, CliTypes, MemoryTypes, AreaType
  <2>2. memory' \in Seq(AreaType) /\ Len(memory') = Len(memory) /\ Len(memory) \in Nat
    <3>1. PICK a \in AreaType : a = [live |-> FALSE, bound |-> {}]
      BY <2>1
    <3>2. memory' = [m \in 1..Len(memory) |-> a] /\ Len(memory) \in Nat
      BY <1>1, <2>1, <3>1
    <3> QED
      BY <3>2
  <2>3. binding' \in [Targets -> [kind : {"none", "dedicated", "shared"}, smid : 0..Len(memory')]]
    BY <1>1, <2>2 DEF Unbound
  <2>4. mounted' \in [Targets -> Ids0']
    BY <1>1, <1>6, BiggerSets, LenNats DEF ClientsInv
  <2> QED
    BY <1>1, <2>2, <2>3, <2>4, MarksAre DEF CliTypes, MemoryTypes
<1> QED
  BY <1>6, <1>7, <1>8

\* Every step of the command line.
LEMMA CliNextInv == ASSUME ClientsInv, CliStep, CliNext PROVE ClientsInv'
<1>1. CASE CliCommand
  BY <1>1, CliAuthInv, CliConnectFailsInv, CliRemoveInv, CliRemoveMemoryInv, CliShareInv, CliCreateDedicatedInv,
     CliCreateSharedInv, CliShutdownInv DEF CliCommand, CliRm, CliCt
<1>2. CASE CliMountStep
  <2>1. CASE CliOpen
    BY <2>1, CliBeneathInv DEF CliOpen
  <2> QED
    BY <1>2, <2>1, CliMountFailsInv, CliOrphanInv, CliCreateInv, CliAbandonInv, CliInsertInv DEF CliMountStep
<1>3. CASE CliMark \/ CliReap("reaper") \/ CliTake("shell") \/ CliTake("reaper") \/ CliPoll("shell") \/ CliPoll("reaper")
  BY <1>3, CliMarkInv, CliRemoveInv, CliTakeInv, CliPollInv DEF CliReap
<1>4. CASE \E c \in Conns : CliHandlers(c)
  BY <1>4, CliHandlersInv
<1>5. CASE CliIo("io") \/ CliInvalidate("io")
  BY <1>5, CliMediaInv
<1>6. CASE Beneath /\ UNCHANGED cliVars
  BY <1>6, CliBeneathInv
<1> QED
  BY <1>1, <1>2, <1>3, <1>4, <1>5, <1>6 DEF CliNext

(***************************************************************************)
(* The desktop client: what a step has to keep.                            *)
(***************************************************************************)
GoodDisk(r) ==
    /\ r \in DiskType
    /\ r.kind = "net" => r.what \in RemoteDisks
    /\ r.st = "mounted" => r.target \in Targets
GoodDisks == disks \in Seq(DiskType) /\ \A n \in DOMAIN disks : GoodDisk(disks[n])
GoodList ==
    /\ listing \in Seq(DOMAIN disks) /\ IsInjective(listing)
    /\ bin \subseteq [id : DOMAIN disks, at : Nat \ {0}]
    /\ \A e \in bin : ~Listed(e.id) /\ \A f \in bin : e.id = f.id => e = f

LEMMA CatalogParts == CatalogTypes <=> GoodDisks /\ GoodList
BY DEF CatalogTypes, GoodDisks, GoodDisk, GoodList, MountedAt

LEMMA NowGood ==
    ASSUME ClientsInv
    PROVE  /\ GoodDisks /\ GoodList /\ disks \in Seq(DiskType) /\ Len(disks) \in Nat /\ DOMAIN disks = 1..Len(disks)
           /\ \A n \in DOMAIN disks : GoodDisk(disks[n])
<1>1. GoodDisks /\ GoodList
  BY CatalogParts DEF ClientsInv, TypeOK
<1> QED
  BY <1>1 DEF GoodDisks

LEMMA DisksMapped ==
    ASSUME ClientsInv, disks' = [n \in DOMAIN disks |-> disks'[n]], \A n \in DOMAIN disks : GoodDisk(disks'[n])
    PROVE  GoodDisks' /\ Len(disks') = Len(disks) /\ DOMAIN disks' = DOMAIN disks
<1>1. disks \in Seq(DiskType) /\ Len(disks) \in Nat /\ DOMAIN disks = 1..Len(disks)
  BY NowGood
<1>2. \A n \in DOMAIN disks : disks'[n] \in DiskType
  BY DEF GoodDisk
<1>3. disks' \in Seq(DiskType) /\ Len(disks') = Len(disks) /\ DOMAIN disks' = DOMAIN disks
  BY <1>1, <1>2
<1> HIDE DEF GoodDisk
<1> QED
  BY <1>3 DEF GoodDisks, GoodDisk, DiskType

LEMMA DiskPut ==
    ASSUME ClientsInv, NEW n \in DOMAIN disks, NEW r, GoodDisk(r), disks' = [disks EXCEPT ![n] = r]
    PROVE  GoodDisks' /\ Len(disks') = Len(disks) /\ DOMAIN disks' = DOMAIN disks
<1>1. \A m \in DOMAIN disks : GoodDisk(disks'[m])
  BY NowGood
<1>2. disks' = [m \in DOMAIN disks |-> disks'[m]]
  BY NowGood
<1> QED
  BY <1>1, <1>2, DisksMapped

LEMMA DisksStay ==
    ASSUME ClientsInv, disks' = disks PROVE GoodDisks' /\ Len(disks') = Len(disks) /\ DOMAIN disks' = DOMAIN disks
BY NowGood DEF GoodDisks, GoodDisk, DiskType

LEMMA ListStays ==
    ASSUME ClientsInv, DOMAIN disks' = DOMAIN disks, UNCHANGED <<listing, bin>> PROVE GoodList'
BY NowGood DEF GoodList, Listed

\* Nothing is made: what there was goes on being named.
LEMMA DeskBigger ==
    ASSUME ClientsInv, NetBigger, Len(disks') = Len(disks), drafts' = drafts PROVE Bigger
BY DEF Bigger, NetBigger, ClientsInv, TypeOK, CatalogTypes, DeskTypes

LEMMA DeskGoes ==
    ASSUME ClientsInv, Bigger, UNCHANGED cliOnly, BackendTypes', GoodDisks', GoodList', CmdTypes', DeskTypes',
           saved' = listing'
    PROVE  ClientsInv'
<1>1. CliTypes'
  BY CliSame DEF cliOnly, markVars, memVars
<1>2. CatalogTypes'
  BY DEF CatalogTypes, GoodDisks, GoodDisk, GoodList, MountedAt
<1>3. NetInv' /\ NetTypes'
  BY DEF Bigger, NetInv
<1> QED
  BY <1>1, <1>2, <1>3 DEF ClientsInv, TypeOK

LEMMA CmdOver == ASSUME cmd' = NoCmd PROVE CmdTypes'
BY DEF CmdTypes, NoCmd

\* The list and what is below it change, the sessions of the desktop do not.
sessionsOfDesk == <<opened, drafts, plan, found, stranded, raced>>
LEMMA CatalogMoves ==
    ASSUME ClientsInv, Bigger, UNCHANGED cliOnly, UNCHANGED sessionsOfDesk, BackendTypes', GoodDisks', GoodList',
           cmd' \in {cmd, NoCmd}, saved' = listing'
    PROVE  ClientsInv'
<1>1. disks' \in Seq(DiskType)
  BY DEF GoodDisks, DiskType
<1>2. DeskTypes'
  BY <1>1, DeskSame DEF sessionsOfDesk
<1>3. drafts' \in Seq(DraftType')
  BY <1>1, DraftsSame DEF sessionsOfDesk
<1>4. CmdTypes'
  BY <1>1, <1>3, CmdSame, CmdOver
<1> QED
  BY <1>2, <1>4, DeskGoes

\* The catalog and the sessions of the desktop stay; cmd may have ended.
catalogOfDesk == <<disks, listing, bin, saved>>
LEMMA CatalogStays ==
    ASSUME ClientsInv, NetBigger, UNCHANGED cliOnly, UNCHANGED sessionsOfDesk, UNCHANGED catalogOfDesk,
           UNCHANGED <<removedQ, managed>>, cmd' \in {cmd, NoCmd}, pool' \in {0, pool} \/ pool' \in 0..Len(conn')
    PROVE  ClientsInv'
<1>1. GoodDisks' /\ Len(disks') = Len(disks) /\ DOMAIN disks' = DOMAIN disks
  BY DisksStay DEF catalogOfDesk
<1>2. Bigger
  BY <1>1, DeskBigger DEF sessionsOfDesk
<1>3. BackendTypes'
  BY <1>2, PoolTypes, PoolStays
<1>4. GoodList' /\ saved' = listing'
  BY <1>1, ListStays DEF catalogOfDesk, ClientsInv
<1> QED
  BY <1>1, <1>2, <1>3, <1>4, CatalogMoves

\* remove_managed_disk_with_media of some targets.
LEMMA RemovedTypes ==
    ASSUME ClientsInv, Bigger, NEW T \in SUBSET Targets, pool' \in 0..Len(conn'), Removed(T) PROVE BackendTypes'
<1>1. NoDisk \in MediaType' /\ NoDisk.kind = "none"
  BY DEF NoDisk, MediaType, Bigger
<1>2. MediaType \subseteq MediaType'
  BY BiggerSets DEF MediaType
<1> HIDE DEF MediaType, NoDisk
<1>3. managed' \in [Targets -> MediaType']
  BY <1>1, <1>2 DEF ClientsInv, TypeOK, BackendTypes, Removed
<1>4. \A u \in Targets : managed'[u].kind = "net" => managed'[u].id \in Sessions'
  BY <1>1, BiggerSets DEF ClientsInv, TypeOK, BackendTypes, Removed
<1>5. removedQ' \subseteq Targets
  BY DEF ClientsInv, TypeOK, BackendTypes, Removed
<1> QED
  BY <1>3, <1>4, <1>5 DEF BackendTypes

\* What comes from the network and from Windows is only queued.
LEMMA DeskHandlersInv == ASSUME ClientsInv, UNCHANGED cliOnly, NEW c \in Conns, DeskHandlers(c) PROVE ClientsInv'
<1>1. NetBigger
  BY HandlerNet DEF DeskHandlers, DeskSessionClosed, DeskDataChanged, DeskDisconnected, ClientsInv
<1>2. UNCHANGED <<sessionsOfDesk, catalogOfDesk, removedQ, managed, cmd, pool>>
  BY DEF DeskHandlers, DeskSessionClosed, DeskDataChanged, DeskDisconnected, sessionsOfDesk, catalogOfDesk,
     hostVars, backendVars, catalogOnly, deskOnly, netDiskVars, scanVars, past
<1> QED
  BY <1>1, <1>2, CatalogStays

LEMMA DeskMediaInv == ASSUME ClientsInv, UNCHANGED cliOnly, DeskIo("io") \/ DeskInvalidate("io") PROVE ClientsInv'
<1>1. NetBigger
  BY MediaIoNet, MediaFailsNet, ThreadsThere DEF HostThreads, DeskIo, DeskInvalidate, ClientsInv
<1>2. UNCHANGED <<sessionsOfDesk, catalogOfDesk, removedQ, managed, cmd, pool>>
  BY DEF DeskIo, DeskInvalidate, sessionsOfDesk, catalogOfDesk,
     hostVars, backendVars, catalogOnly, deskOnly, netDiskVars, scanVars, past
<1> QED
  BY <1>1, <1>2, CatalogStays

LEMMA DeskBeneathInv ==
    ASSUME ClientsInv, UNCHANGED cliOnly, UNCHANGED <<hostVars, catalogOnly, deskOnly>>,
           Beneath \/ \E w \in Scanners : ObserveOpens(w)
    PROVE  ClientsInv'
<1>1. NetBigger
  BY BeneathNet, BeginOpenNet, ThreadsThere DEF HostThreads, Scanners, ObserveOpens, ClientsInv
<1>2. UNCHANGED <<sessionsOfDesk, catalogOfDesk, removedQ, managed, cmd, pool>>
  BY DEF sessionsOfDesk, catalogOfDesk, hostVars, backendVars, catalogOnly, deskOnly, netDiskVars, scanVars, past
<1> QED
  BY <1>1, <1>2, CatalogStays

\* Taking and giving back the catalog mutex, and a file that disappears.
LEMMA DeskLocksInv ==
    ASSUME ClientsInv, UNCHANGED cliOnly,
           DeskLock \/ DeskWatched \/ StartRescan \/ RescanLock \/ (LoseFile /\ UNCHANGED deskOnly)
    PROVE  ClientsInv'
<1>1. NetBigger
  BY QuietNet DEF DeskLock, DeskWatched, StartRescan, RescanLock, LoseFile, netVars, ClientsInv
<1>2. UNCHANGED <<sessionsOfDesk, catalogOfDesk, removedQ, managed, cmd, pool>>
  BY DEF DeskLock, DeskWatched, StartRescan, RescanLock, LoseFile, sessionsOfDesk, catalogOfDesk,
     hostVars, backendVars, catalogOnly, catalogRest, deskOnly, netDiskVars, scanVars, past
<1> QED
  BY <1>1, <1>2, CatalogStays

\* A command of the page names what there is.
LEMMA DeskCommandInv == ASSUME ClientsInv, UNCHANGED cliOnly, DeskCommand PROVE ClientsInv'
<1> PICK op \in Ops : \E n \in Ids(op), d \in DiskArgs(op) : Check(Command(op, n, d)) /\ UNCHANGED deskOnly
  BY DEF DeskCommand
<1>1. PICK n \in Ids(op), d \in DiskArgs(op) : Check(Command(op, n, d)) /\ UNCHANGED deskOnly
  OBVIOUS
<1>2. NetBigger
  BY <1>1, QuietNet DEF Check, netVars, ClientsInv
<1>3. UNCHANGED <<sessionsOfDesk, catalogOfDesk, removedQ, managed, pool, disks, drafts>>
  BY <1>1 DEF Check, sessionsOfDesk, catalogOfDesk, hostVars, backendVars, deskOnly, netDiskVars, scanVars, past
<1>4. GoodDisks' /\ Len(disks') = Len(disks) /\ DOMAIN disks' = DOMAIN disks
  BY <1>3, DisksStay
<1>5. Bigger
  BY <1>2, <1>3, <1>4, DeskBigger
<1>6. cmd' = [op |-> op, id |-> n, disk |-> d]
  BY <1>1 DEF Check, Command
<1>7. CmdTypes'
  <2>1. op \in {"mount", "eject", "delete"} => n \in DOMAIN disks'
    BY <1>3 DEF Ids
  <2>2. op \in {"add", "submit"} => n \in DOMAIN drafts'
    BY <1>3 DEF Ids
  <2>3. (op = "add" => d \in RemoteDisks) /\ (op \in {"file", "newfile"} => d \in Files)
    BY DEF DiskArgs
  <2>4. op \notin {"adopt", "renew"}
    BY DEF Ops
  <2> QED
    BY <1>6, <2>1, <2>2, <2>3, <2>4 DEF CmdTypes
<1>8. BackendTypes'
  BY <1>3, <1>5, BackendSame
<1>9. DeskTypes'
  BY <1>3, <1>4, <1>5, DeskSame DEF sessionsOfDesk, GoodDisks, DiskType
<1>10. GoodList' /\ saved' = listing'
  BY <1>3, <1>4, ListStays DEF catalogOfDesk, ClientsInv
<1> QED
  BY <1>4, <1>5, <1>7, <1>8, <1>9, <1>10, DeskGoes

(***************************************************************************)
(* What becomes of a disk.                                                 *)
(***************************************************************************)
LEMMA InvalidDisk == ASSUME NEW r, GoodDisk(r) PROVE GoodDisk(SetInvalid(r))
BY DEF GoodDisk, DiskType, SetInvalid

LEMMA UnmountedDisk ==
    ASSUME ClientsInv, NEW n \in DOMAIN disks PROVE GoodDisk(SetUnmounted(n)[n])
<1> PICK r : r = disks[n]
  OBVIOUS
<1>1. GoodDisk(r)
  BY NowGood
<1>2. SetUnmounted(n)[n] = [r EXCEPT !.st = "unmounted", !.target = 0]
  BY NowGood DEF SetUnmounted
<1>3. GoodDisk([r EXCEPT !.st = "unmounted", !.target = 0])
  BY <1>1 DEF GoodDisk, DiskType
<1> QED
  BY <1>2, <1>3

LEMMA ProbedDisk == ASSUME NEW r, GoodDisk(r) PROVE GoodDisk(Probed(r))
<1>1. GoodDisk([r EXCEPT !.st = "unmounted", !.target = 0])
  BY DEF GoodDisk, DiskType
<1> QED
  BY <1>1, InvalidDisk DEF Probed

LEMMA DroppedDisk == ASSUME NEW r, GoodDisk(r) PROVE GoodDisk([r EXCEPT !.held = FALSE])
BY DEF GoodDisk, DiskType

LEMMA MountedDisk ==
    ASSUME NEW r, GoodDisk(r), NEW t \in Targets
    PROVE  GoodDisk([r EXCEPT !.st = "mounted", !.target = t, !.held = FALSE])
BY DEF GoodDisk, DiskType

LEMMA NewlyMade ==
    ASSUME NEW k \in {"net", "file", "mem"}, NEW w \in RemoteDisks \cup Files \cup {"ram"},
           k = "net" => w \in RemoteDisks, NEW st \in {"unmounted", "invalid"}
    PROVE  GoodDisk(NewDisk(k, w, st))
BY DEF GoodDisk, DiskType, NewDisk

\* set_mounted.
LEMMA SetMountedGood ==
    ASSUME ClientsInv, NEW n \in DOMAIN disks, NEW t \in Targets, disks' = SetMounted(n, t)
    PROVE  GoodDisks' /\ Len(disks') = Len(disks) /\ DOMAIN disks' = DOMAIN disks
<1> PICK r : r = [disks[n] EXCEPT !.st = "mounted", !.target = t, !.held = FALSE]
  OBVIOUS
<1>1. GoodDisk(r)
  BY NowGood, MountedDisk
<1>2. disks' = [disks EXCEPT ![n] = r]
  BY NowGood DEF SetMounted
<1> QED
  BY <1>1, <1>2, DiskPut

LEMMA EjectedGood ==
    ASSUME ClientsInv, NEW n \in DOMAIN disks, disks' = Ejected(n)
    PROVE  GoodDisks' /\ Len(disks') = Len(disks) /\ DOMAIN disks' = DOMAIN disks
<1> PICK r : r = disks[n]
  OBVIOUS
<1>1. GoodDisk(r)
  BY NowGood
<1>2. CASE disks[n].kind = "mem"
  <2>1. PICK q : q = [r EXCEPT !.st = "unmounted", !.target = 0, !.held = TRUE]
    OBVIOUS
  <2>2. GoodDisk(q)
    BY <1>1, <2>1 DEF GoodDisk, DiskType
  <2>3. disks' = [disks EXCEPT ![n] = q]
    BY <1>2, <2>1, NowGood DEF Ejected, SetUnmounted
  <2> QED
    BY <2>2, <2>3, DiskPut
<1>3. CASE disks[n].kind # "mem"
  <2>1. PICK q : q = Probed([r EXCEPT !.held = FALSE])
    OBVIOUS
  <2>2. GoodDisk(q)
    BY <1>1, <2>1, ProbedDisk, DroppedDisk
  <2>3. disks' = [disks EXCEPT ![n] = q]
    BY <1>3, <2>1 DEF Ejected
  <2> QED
    BY <2>2, <2>3, DiskPut
<1> QED
  BY <1>2, <1>3

LEMMA TargetThere ==
    ASSUME ClientsInv, NEW n \in DOMAIN disks, MountedAt(n) PROVE disks[n].target \in Targets
BY NowGood DEF GoodDisk, MountedAt

(***************************************************************************)
(* create_memory_disk, create_file_disk, create_new_file_disk.             *)
(***************************************************************************)
LEMMA DeskGrows ==
    ASSUME ClientsInv, NetBigger, Len(disks) <= Len(disks'), Len(disks') \in Nat, drafts' = drafts PROVE Bigger
BY DEF Bigger, NetBigger, ClientsInv, TypeOK, DeskTypes

LEMMA InsertGood ==
    ASSUME ClientsInv, NEW r, GoodDisk(r), Insert(r), bin' = bin
    PROVE  GoodDisks' /\ GoodList' /\ saved' = listing' /\ Len(disks) <= Len(disks') /\ Len(disks') \in Nat
<1>1. CASE Saves(Append(listing, Len(disks) + 1)) /\ disks' = Append(disks, r) /\ listing' = Append(listing, Len(disks) + 1)
  <2> PICK n \in Nat : n = Len(disks) /\ DOMAIN disks = 1..n
    BY NowGood
  <2>1. r \in DiskType /\ disks \in Seq(DiskType)
    BY NowGood DEF GoodDisk
  <2>2. /\ disks' \in Seq(DiskType) /\ Len(disks') = n + 1 /\ DOMAIN disks' = 1..(n + 1)
        /\ \A m \in 1..n : disks'[m] = disks[m]
        /\ disks'[n + 1] = r
    BY <1>1, <2>1
  <2>3. \A m \in DOMAIN disks' : GoodDisk(disks'[m])
    BY <2>2, NowGood
  <2>4. GoodDisks'
    BY <2>2, <2>3 DEF GoodDisks, GoodDisk, DiskType
  <2>5. listing \in Seq(1..n) /\ IsInjective(listing)
    BY NowGood DEF GoodList
  <2>6. /\ listing' \in Seq(1..(n + 1)) /\ Len(listing') = Len(listing) + 1 /\ Len(listing) \in Nat
        /\ \A i \in 1..Len(listing) : listing'[i] = listing[i] /\ listing[i] \in 1..n
        /\ listing'[Len(listing) + 1] = n + 1
    BY <1>1, <2>5
  <2> PICK l \in Nat : l = Len(listing) /\ DOMAIN listing = 1..l
    BY <2>5
  <2> PICK new : new = listing'
    OBVIOUS
  <2>13. /\ DOMAIN new = 1..(l + 1) /\ new[l + 1] = n + 1
         /\ \A i \in 1..l : new[i] = listing[i] /\ new[i] \in 1..n
    BY <2>6
  <2>7. IsInjective(new)
    <3>1. ASSUME NEW i \in 1..(l + 1), NEW j \in 1..(l + 1), new[i] = new[j] PROVE i = j
      <4>1. CASE i \in 1..l /\ j \in 1..l
        BY <2>5, <2>13, <3>1, <4>1 DEF IsInjective
      <4>2. CASE i = l + 1 \/ j = l + 1
        BY <2>13, <3>1, <4>2
      <4> QED
        BY <4>1, <4>2
    <3> QED
      BY <2>13, <3>1 DEF IsInjective
  <2>8. \A m : m \in ToSet(new) => m \in ToSet(listing) \/ m = n + 1
    <3>1. ASSUME NEW i \in 1..(l + 1) PROVE new[i] \in ToSet(listing) \/ new[i] = n + 1
      <4>1. i \in 1..l \/ i = l + 1
        OBVIOUS
      <4>2. \A j \in DOMAIN listing : listing[j] \in ToSet(listing)
        BY DEF ToSet
      <4> QED
        BY <2>13, <4>1, <4>2
    <3> QED
      BY <2>13, <3>1 DEF ToSet
  <2>9. \A e \in bin : e.id # n + 1
    BY NowGood DEF GoodList
  <2>10. bin \subseteq [id : 1..n, at : Nat \ {0}] /\ \A e \in bin : ~Listed(e.id) /\ \A f \in bin : e.id = f.id => e = f
    BY NowGood DEF GoodList
  <2>11. GoodList'
    BY <2>2, <2>6, <2>7, <2>8, <2>9, <2>10 DEF GoodList, Listed
  <2>12. saved' = listing'
    BY <1>1 DEF Saves
  <2> QED
    BY <2>2, <2>4, <2>11, <2>12
<1>2. CASE SaveFails /\ UNCHANGED <<disks, listing>>
  <2>1. UNCHANGED <<disks, listing, bin, saved>>
    BY <1>2 DEF SaveFails
  <2> QED
    BY <2>1, DisksStay, ListStays, NowGood DEF ClientsInv
<1> QED
  BY <1>1, <1>2 DEF Insert

LEMMA CreateInv ==
    ASSUME ClientsInv, UNCHANGED cliOnly, UNCHANGED deskOnly, CreateMemory \/ CreateFile \/ CreateNewFile
    PROVE  ClientsInv'
<1>1. NetBigger
  BY QuietNet DEF CreateMemory, CreateFile, CreateNewFile, ClientsInv
<1>2. bin' = bin /\ UNCHANGED <<pool, removedQ, managed, sessionsOfDesk>> /\ cmd' = NoCmd
  BY DEF CreateMemory, CreateFile, CreateNewFile, Done, hostVars, backendVars, deskOnly, netDiskVars, scanVars, past,
     sessionsOfDesk
<1>3. \/ \E r : GoodDisk(r) /\ Insert(r)
      \/ UNCHANGED <<disks, listing, saved>>
  <2>1. CASE CreateMemory
    BY <2>1, NewlyMade DEF CreateMemory
  <2>2. CASE CreateFile
    <3>1. cmd.disk \in Files
      BY <2>2 DEF CreateFile, Runs, ClientsInv, TypeOK, CmdTypes
    <3> QED
      BY <2>2, <3>1, NewlyMade DEF CreateFile, Probe
  <2>3. CASE CreateNewFile
    <3>1. cmd.disk \in Files
      BY <2>3 DEF CreateNewFile, Runs, ClientsInv, TypeOK, CmdTypes
    <3> QED
      BY <2>3, <3>1, NewlyMade DEF CreateNewFile
  <2> QED
    BY <2>1, <2>2, <2>3
<1>4. GoodDisks' /\ GoodList' /\ saved' = listing' /\ Len(disks) <= Len(disks') /\ Len(disks') \in Nat
  <2>1. CASE UNCHANGED <<disks, listing, saved>>
    BY <1>2, <2>1, DisksStay, ListStays, NowGood DEF ClientsInv
  <2> QED
    BY <1>2, <1>3, <2>1, InsertGood
<1>5. Bigger
  BY <1>1, <1>2, <1>4, DeskGrows DEF sessionsOfDesk
<1>6. BackendTypes'
  BY <1>2, <1>5, BackendSame
<1> QED
  BY <1>2, <1>4, <1>5, <1>6, CatalogMoves

(***************************************************************************)
(* Local disks: mount_local_disk, eject_local_disk, delete_disk,           *)
(* undo_delete_disk, commit_deleted_disk.                                  *)
(***************************************************************************)
LEMMA MountLocalInv == ASSUME ClientsInv, UNCHANGED cliOnly, UNCHANGED deskOnly, MountLocal PROVE ClientsInv'
<1> PICK n : n = cmd.id
  OBVIOUS
<1> PICK r : r = disks[n]
  OBVIOUS
<1>1. NetBigger
  BY QuietNet DEF MountLocal, Refused, netVars, ClientsInv
<1>2. UNCHANGED <<pool, removedQ, listing, bin, saved, sessionsOfDesk>> /\ cmd' = NoCmd
  BY DEF MountLocal, Refused, Done, hostVars, backendVars, deskOnly, netDiskVars, scanVars, past, sessionsOfDesk
<1>3. n \in DOMAIN disks
  BY DEF MountLocal, Runs, ClientsInv, TypeOK, CmdTypes
<1>4. GoodDisk(r)
  BY <1>3, NowGood
<1>5. \/ \E t \in Targets : Serves(t, Media(r.kind, 0, n)) /\ disks' = SetMounted(n, t) /\ Local(n)
      \/ disks' = [disks EXCEPT ![n].held = TRUE] /\ managed' = managed
      \/ disks' = disks /\ managed' = managed
  BY DEF MountLocal, Refused, hostVars, backendVars
<1>6. GoodDisks' /\ Len(disks') = Len(disks) /\ DOMAIN disks' = DOMAIN disks
  <2>1. CASE disks' = [disks EXCEPT ![n].held = TRUE]
    <3>1. PICK q : q = [r EXCEPT !.held = TRUE]
      OBVIOUS
    <3>2. GoodDisk(q)
      BY <1>4, <3>1 DEF GoodDisk, DiskType
    <3>3. disks' = [disks EXCEPT ![n] = q]
      BY <2>1, <3>1
    <3> QED
      BY <1>3, <3>2, <3>3, DiskPut
  <2> QED
    BY <1>3, <1>5, <2>1, DisksStay, SetMountedGood
<1>7. Bigger
  BY <1>1, <1>2, <1>6, DeskBigger DEF sessionsOfDesk
<1>8. BackendTypes'
  <2>1. ASSUME NEW t \in Targets, Serves(t, Media(r.kind, 0, n)), Local(n) PROVE BackendTypes'
    <3>1. PICK k \in {"file", "mem"} : k = r.kind
      BY <1>4, <2>1 DEF Local, GoodDisk, DiskType
    <3>2. n \in 0..Len(disks) /\ removedQ \subseteq Targets
      BY <1>3, NowGood DEF ClientsInv, TypeOK, BackendTypes
    <3>3. managed' = [managed EXCEPT ![t] = Media(k, 0, n)]
      BY <2>1, <3>1 DEF Serves
    <3> QED
      BY <1>2, <1>7, <3>2, <3>3, ServedTypes
  <2> QED
    BY <1>2, <1>5, <1>7, <2>1, BackendSame
<1>9. GoodList' /\ saved' = listing'
  BY <1>2, <1>6, ListStays DEF ClientsInv
<1> QED
  BY <1>2, <1>6, <1>7, <1>8, <1>9, CatalogMoves

LEMMA EjectLocalInv == ASSUME ClientsInv, UNCHANGED cliOnly, UNCHANGED deskOnly, EjectLocal PROVE ClientsInv'
<1> PICK n : n = cmd.id
  OBVIOUS
<1>1. NetBigger
  BY QuietNet DEF EjectLocal, Refused, netVars, ClientsInv
<1>2. UNCHANGED <<pool, listing, bin, saved, sessionsOfDesk>> /\ cmd' = NoCmd
  BY DEF EjectLocal, Refused, Done, hostVars, backendVars, deskOnly, netDiskVars, scanVars, past, sessionsOfDesk
<1>3. n \in DOMAIN disks
  BY DEF EjectLocal, Runs, ClientsInv, TypeOK, CmdTypes
<1>5. \/ MountedAt(n) /\ Removed({disks[n].target}) /\ disks' = Ejected(n)
      \/ UNCHANGED <<disks, managed, removedQ>>
  BY DEF EjectLocal, Refused, hostVars, backendVars
<1>6. GoodDisks' /\ Len(disks') = Len(disks) /\ DOMAIN disks' = DOMAIN disks
  BY <1>3, <1>5, DisksStay, EjectedGood
<1>7. Bigger
  BY <1>1, <1>2, <1>6, DeskBigger DEF sessionsOfDesk
<1>8. BackendTypes'
  <2>1. pool' \in 0..Len(conn')
    BY <1>2, <1>7, PoolStays
  <2> QED
    BY <1>2, <1>3, <1>5, <1>7, <2>1, BackendSame, RemovedTypes, TargetThere
<1>9. GoodList' /\ saved' = listing'
  BY <1>2, <1>6, ListStays DEF ClientsInv
<1> QED
  BY <1>2, <1>6, <1>7, <1>8, <1>9, CatalogMoves

\* A disk leaves the list, and comes back to it.
LEMMA PartIs ==
    ASSUME NEW S, NEW s \in Seq(S), NEW a \in Nat \ {0}, NEW b \in 0..Len(s), NEW c \in Nat, c = b - a + 1,
           NEW x, x = SubSeq(s, a, b)
    PROVE  x \in Seq(S) /\ Len(x) = c /\ \A j \in 1..c : x[j] = s[a + j - 1]
<1>1. \A i \in a..b : i \in 1..Len(s)
  OBVIOUS
<1>2. \A i \in a..b : s[i] \in S
  BY <1>1
<1>3. a \in Int /\ b \in Int
  OBVIOUS
<1>4. /\ x \in Seq(S)
      /\ Len(x) = IF a <= b THEN b - a + 1 ELSE 0
      /\ \A i \in 1..(b - a + 1) : x[i] = s[a + i - 1]
  BY <1>2, <1>3, SubSeqProperties
<1> QED
  BY <1>4

LEMMA GlueFacts ==
    ASSUME NEW S, NEW x \in Seq(S), NEW y \in Seq(S), NEW u \in Nat, NEW v \in Nat, u = Len(x), v = Len(y),
           NEW z, z = x \o y
    PROVE  z \in Seq(S) /\ Len(z) = u + v /\ \A j \in 1..(u + v) : z[j] = IF j <= u THEN x[j] ELSE y[j - u]
BY ConcatProperties, Zenon

LEMMA RemoveFacts ==
    ASSUME NEW S, NEW s \in Seq(S), IsInjective(s), NEW i \in DOMAIN s
    PROVE  /\ RemoveAt(s, i) \in Seq(S) /\ IsInjective(RemoveAt(s, i))
           /\ ToSet(RemoveAt(s, i)) = ToSet(s) \ {s[i]}
<1>r. PICK r : r = RemoveAt(s, i)
  OBVIOUS
<1> PICK l \in Nat : l = Len(s) /\ DOMAIN s = 1..l
  OBVIOUS
<1>1. i \in 1..l
  OBVIOUS
<1>x. PICK x, y : x = SubSeq(s, 1, i - 1) /\ y = SubSeq(s, i + 1, l)
  OBVIOUS
<1>u. PICK u \in Nat, v \in Nat : u = i - 1 /\ v = l - i
  BY <1>1
<1> USE <1>u
<1>2. x \in Seq(S) /\ Len(x) = u /\ \A j \in 1..u : x[j] = s[j]
  <2>1. 1 \in Nat \ {0} /\ u \in 0..Len(s) /\ u = u - 1 + 1 /\ \A j \in 1..u : 1 + j - 1 = j
    BY <1>1
  <2>2. x = SubSeq(s, 1, u)
    BY <1>x
  <2> QED
    BY <2>1, <2>2, PartIs
<1>3. y \in Seq(S) /\ Len(y) = v /\ \A j \in 1..v : y[j] = s[i + j]
  <2>1. i + 1 \in Nat \ {0} /\ l \in 0..Len(s) /\ v = l - (i + 1) + 1 /\ \A j \in 1..v : (i + 1) + j - 1 = i + j
    BY <1>1
  <2>2. PICK k \in Nat \ {0} : k = i + 1
    BY <2>1
  <2>3. y = SubSeq(s, k, l) /\ v = l - k + 1
    BY <1>x, <2>1, <2>2
  <2>4. y \in Seq(S) /\ Len(y) = v /\ \A j \in 1..v : y[j] = s[k + j - 1]
    <3>1. l \in 0..Len(s)
      BY <2>1
    <3> QED
      BY ONLY s \in Seq(S), k \in Nat \ {0}, v \in Nat, <2>3, <3>1, PartIs
  <2> QED
    BY <2>1, <2>2, <2>4
<1>10. r = x \o y
  BY <1>r, <1>x DEF RemoveAt
<1>9. /\ r \in Seq(S) /\ Len(r) = u + v /\ u + v = l - 1
      /\ \A j \in 1..(u + v) : r[j] = IF j <= u THEN x[j] ELSE y[j - u]
  <2>1. /\ r \in Seq(S) /\ Len(r) = u + v
        /\ \A j \in 1..(u + v) : r[j] = IF j <= u THEN x[j] ELSE y[j - u]
    <3>1. x \in Seq(S) /\ y \in Seq(S) /\ u \in Nat /\ v \in Nat /\ u = Len(x) /\ v = Len(y) /\ r = x \o y
      BY <1>2, <1>3, <1>10
    <3> QED
      BY ONLY <3>1, GlueFacts, SMTT(30)
  <2>2. u + v = l - 1
    BY ONLY <1>1, <1>u, l \in Nat
  <2> QED
    BY <2>1, <2>2
<1>4. /\ r \in Seq(S) /\ DOMAIN r = 1..(l - 1)
      /\ \A j \in 1..(l - 1) : /\ j < i => r[j] = s[j]
                               /\ ~(j < i) => r[j] = s[j + 1]
  <2>1. ASSUME NEW j \in 1..(l - 1) PROVE (j < i => r[j] = s[j]) /\ (~(j < i) => r[j] = s[j + 1])
    <3>1. CASE j < i
      <4>1. j \in 1..u
        BY <3>1
      <4> QED
        BY <1>2, <1>9, <3>1, <4>1
    <3>2. CASE ~(j < i)
      <4>1. j - u \in 1..v /\ ~(j <= u) /\ i + (j - u) = j + 1
        BY <1>1, <3>2
      <4> QED
        BY <1>3, <1>9, <3>2, <4>1
    <3> QED
      BY <3>1, <3>2
  <2>2. r \in Seq(S) /\ Len(r) = l - 1
    BY <1>9
  <2> QED
    BY <2>1, <2>2
<1>5. ASSUME NEW j \in 1..(l - 1), NEW k \in 1..(l - 1), r[j] = r[k] PROVE j = k
  <2>1. PICK p \in 1..l : r[j] = s[p] /\ p = IF j < i THEN j ELSE j + 1
    BY <1>1, <1>4
  <2>2. PICK q \in 1..l : r[k] = s[q] /\ q = IF k < i THEN k ELSE k + 1
    BY <1>1, <1>4
  <2>3. p = q
    BY <1>5, <2>1, <2>2 DEF IsInjective
  <2> QED
    BY <1>1, <2>1, <2>2, <2>3
<1>6. IsInjective(r)
  BY <1>4, <1>5 DEF IsInjective
<1>7. ToSet(r) \subseteq ToSet(s) \ {s[i]}
  <2>1. ASSUME NEW j \in 1..(l - 1) PROVE r[j] \in ToSet(s) \ {s[i]}
    <3>1. PICK p \in 1..l : r[j] = s[p] /\ p # i
      <4>1. CASE j < i
        BY <1>1, <1>4, <4>1, SMTT(30)
      <4>2. CASE ~(j < i)
        <5>1. j + 1 \in 1..l /\ j + 1 # i
          BY <1>1, <4>2
        <5> QED
          BY <1>4, <4>2, <5>1
      <4> QED
        BY <4>1, <4>2
    <3>2. s[p] # s[i] /\ s[p] \in ToSet(s)
      BY <1>1, <3>1 DEF IsInjective, ToSet
    <3> QED
      BY <3>1, <3>2
  <2> QED
    BY <1>4, <2>1 DEF ToSet
<1>8. ToSet(s) \ {s[i]} \subseteq ToSet(r)
  <2>1. ASSUME NEW p \in 1..l, s[p] # s[i] PROVE s[p] \in ToSet(r)
    <3>1. PICK j \in 1..(l - 1) : r[j] = s[p]
      <4>1. CASE p < i
        BY <1>1, <1>4, <4>1, SMTT(30)
      <4>2. CASE p > i
        <5>1. p - 1 \in 1..(l - 1) /\ ~(p - 1 < i) /\ (p - 1) + 1 = p
          BY <1>1, <4>2
        <5> QED
          BY <1>4, <5>1
      <4> QED
        BY <1>1, <2>1, <4>1, <4>2
    <3> QED
      BY <1>4, <3>1 DEF ToSet
  <2> QED
    BY <2>1 DEF ToSet
<1> QED
  BY <1>4, <1>6, <1>7, <1>8, <1>r

LEMMA InsertFacts ==
    ASSUME NEW S, NEW s \in Seq(S), IsInjective(s), NEW i \in 1..(Len(s) + 1), NEW e \in S,
           e \notin ToSet(s)
    PROVE  /\ InsertAt(s, i, e) \in Seq(S) /\ IsInjective(InsertAt(s, i, e))
           /\ ToSet(InsertAt(s, i, e)) = ToSet(s) \cup {e}
<1>r. PICK r : r = InsertAt(s, i, e)
  OBVIOUS
<1> PICK l \in Nat : l = Len(s) /\ DOMAIN s = 1..l
  OBVIOUS
<1>1. i \in 1..(l + 1) /\ \A p \in 1..l : s[p] # e /\ s[p] \in ToSet(s)
  BY DEF ToSet
<1>x. PICK x, y : x = SubSeq(s, 1, i - 1) /\ y = SubSeq(s, i, l)
  OBVIOUS
<1>u. i - 1 \in Nat /\ l - i + 1 \in Nat
  BY <1>1
<1> PICK u \in Nat, v \in Nat : u = i - 1 /\ v = l - i + 1
  BY <1>u
<1>2. x \in Seq(S) /\ Len(x) = u /\ \A j \in 1..u : x[j] = s[j]
  <2>1. 1 \in Nat \ {0} /\ u \in 0..Len(s) /\ u = u - 1 + 1 /\ \A j \in 1..u : 1 + j - 1 = j
    BY <1>1
  <2>2. x = SubSeq(s, 1, u)
    BY <1>x
  <2> QED
    BY <2>1, <2>2, PartIs
<1>3. y \in Seq(S) /\ Len(y) = v /\ \A j \in 1..v : y[j] = s[i + j - 1]
  <2>1. i \in Nat \ {0} /\ l \in 0..Len(s) /\ v = l - i + 1
    BY <1>1
  <2>2. y = SubSeq(s, i, l)
    BY <1>x
  <2> QED
    BY <2>1, <2>2, PartIs
<1>4. PICK a : a = x \o <<e>>
  OBVIOUS
<1>5. a \in Seq(S) /\ Len(a) = i /\ a[i] = e /\ \A j \in 1..u : a[j] = s[j]
  <2>1. <<e>> \in Seq(S) /\ Len(<<e>>) = 1 /\ <<e>>[1] = e
    OBVIOUS
  <2>4. PICK w \in Seq(S) : w = <<e>> /\ Len(w) = 1 /\ w[1] = e
    BY <2>1
  <2>2. a \in Seq(S) /\ Len(a) = u + 1 /\ \A j \in 1..(u + 1) : a[j] = IF j <= u THEN x[j] ELSE w[j - u]
    <3>1. 1 \in Nat /\ a = x \o w
      BY <1>4, <2>4
    <3> QED
      BY <1>2, <2>4, <3>1, GlueFacts
  <2>3. i = u + 1 /\ ~(i <= u) /\ i - u = 1 /\ i \in 1..(u + 1) /\ \A j \in 1..u : j <= u /\ j \in 1..(u + 1)
    BY <1>1
  <2> QED
    BY <1>2, <2>2, <2>3, <2>4
<1>13. r = a \o y
  BY <1>4, <1>r, <1>x DEF InsertAt
<1>12. /\ r \in Seq(S) /\ Len(r) = i + v /\ i + v = l + 1
       /\ \A j \in 1..(i + v) : r[j] = IF j <= i THEN a[j] ELSE y[j - i]
  <2>1. i \in Nat
    BY <1>1
  <2>2. /\ r \in Seq(S) /\ Len(r) = i + v
        /\ \A j \in 1..(i + v) : r[j] = IF j <= i THEN a[j] ELSE y[j - i]
    <3>1. i = Len(a) /\ v = Len(y) /\ a \in Seq(S) /\ y \in Seq(S)
      BY <1>3, <1>5
    <3> QED
      <4>1. PICK k \in Nat, m \in Nat : k = Len(a) /\ m = Len(y) /\ k = i /\ m = v
        BY <2>1, <3>1
      <4>2. r \in Seq(S) /\ Len(r) = k + m /\ \A j \in 1..(k + m) : r[j] = IF j <= k THEN a[j] ELSE y[j - k]
        BY ONLY <1>13, <3>1, <4>1, GlueFacts
      <4> QED
        BY <4>1, <4>2
  <2>3. i + v = l + 1
    BY <1>1
  <2> QED
    BY <2>2, <2>3
<1>6. /\ r \in Seq(S) /\ DOMAIN r = 1..(l + 1) /\ r[i] = e
      /\ \A j \in 1..(l + 1) : /\ j < i => r[j] = s[j]
                               /\ j > i => r[j] = s[j - 1]
  <2>1. ASSUME NEW j \in 1..(l + 1), j < i PROVE r[j] = s[j]
    <3>1. j \in 1..u /\ j <= i
      BY <1>1, <2>1
    <3> QED
      BY <1>5, <1>12, <3>1
  <2>2. ASSUME NEW j \in 1..(l + 1), j > i PROVE r[j] = s[j - 1]
    <3>1. j - i \in 1..v /\ ~(j <= i) /\ i + (j - i) - 1 = j - 1
      BY <1>1, <2>2
    <3> QED
      BY <1>3, <1>12, <3>1
  <2>3. r[i] = e
    <3>1. i <= i /\ i \in 1..(i + v)
      BY <1>1
    <3> QED
      BY <1>5, <1>12, <3>1
  <2>4. r \in Seq(S) /\ Len(r) = l + 1
    BY <1>12
  <2> QED
    BY <2>1, <2>2, <2>3, <2>4
<1>7. ASSUME NEW j \in 1..(l + 1)
      PROVE  j = i \/ \E p \in 1..l : r[j] = s[p] /\ p = IF j < i THEN j ELSE j - 1
  BY <1>1, <1>6
<1>8. ASSUME NEW j \in 1..(l + 1), NEW k \in 1..(l + 1), r[j] = r[k] PROVE j = k
  <2>1. CASE j = i \/ k = i
    BY <1>1, <1>6, <1>7, <1>8, <2>1
  <2>2. CASE j # i /\ k # i
    <3>1. PICK p \in 1..l : r[j] = s[p] /\ p = IF j < i THEN j ELSE j - 1
      BY <1>7, <2>2
    <3>2. PICK q \in 1..l : r[k] = s[q] /\ q = IF k < i THEN k ELSE k - 1
      BY <1>7, <2>2
    <3>3. p = q
      BY <1>8, <3>1, <3>2 DEF IsInjective
    <3> QED
      BY <1>1, <2>2, <3>1, <3>2, <3>3
  <2> QED
    BY <2>1, <2>2
<1>9. IsInjective(r)
  BY <1>6, <1>8 DEF IsInjective
<1>10. ToSet(r) \subseteq ToSet(s) \cup {e}
  <2>1. ASSUME NEW j \in 1..(l + 1) PROVE r[j] \in ToSet(s) \cup {e}
    BY <1>1, <1>6, <1>7
  <2> QED
    BY <1>6, <2>1 DEF ToSet
<1>11. ToSet(s) \cup {e} \subseteq ToSet(r)
  <2>1. \A j \in 1..(l + 1) : r[j] \in ToSet(r)
    BY <1>6 DEF ToSet
  <2>2. ASSUME NEW p \in 1..l PROVE s[p] \in ToSet(r)
    <3>1. CASE p < i
      BY <1>6, <2>1, <3>1
    <3>2. CASE ~(p < i)
      <4>1. p + 1 \in 1..(l + 1) /\ p + 1 > i /\ (p + 1) - 1 = p
        BY <1>1, <3>2
      <4> QED
        BY <1>6, <2>1, <4>1
    <3> QED
      BY <3>1, <3>2
  <2>3. e \in ToSet(r)
    BY <1>1, <1>6, <2>1
  <2> QED
    BY <2>2, <2>3 DEF ToSet
<1> QED
  BY <1>6, <1>9, <1>10, <1>11, <1>r

LEMMA DropsGood ==
    ASSUME ClientsInv, NEW n, Listed(n), Drops(n)
    PROVE  /\ listing' \in Seq(DOMAIN disks) /\ IsInjective(listing') /\ saved' = listing'
           /\ bin' \subseteq [id : DOMAIN disks, at : Nat \ {0}]
           /\ \A e \in bin' : e.id \notin ToSet(listing') /\ \A f \in bin' : e.id = f.id => e = f
<1> PICK i : i = Place(n)
  OBVIOUS
<1>1. listing \in Seq(DOMAIN disks) /\ IsInjective(listing)
  BY NowGood DEF GoodList
<1>2. /\ bin \subseteq [id : DOMAIN disks, at : Nat \ {0}]
      /\ \A e \in bin : e.id \notin ToSet(listing) /\ \A f \in bin : e.id = f.id => e = f
  BY NowGood DEF GoodList, Listed
<1>3. i \in DOMAIN listing /\ listing[i] = n /\ i \in Nat \ {0}
  <2>1. \E j \in DOMAIN listing : listing[j] = n
    BY DEF Listed, ToSet
  <2>2. i \in DOMAIN listing /\ listing[i] = n
    BY <2>1 DEF Place
  <2> QED
    BY <1>1, <2>2
<1>4. n \in DOMAIN disks /\ n \in ToSet(listing)
  BY <1>1, <1>3 DEF Listed
<1> PICK r : r = RemoveAt(listing, i)
  OBVIOUS
<1>5. r \in Seq(DOMAIN disks) /\ IsInjective(r) /\ ToSet(r) = ToSet(listing) \ {n}
  BY <1>1, <1>3, RemoveFacts
<1>6. CASE saved' = r /\ listing' = r /\ bin' = bin \cup {[id |-> n, at |-> i]}
  BY <1>2, <1>3, <1>4, <1>5, <1>6
<1>7. CASE UNCHANGED <<listing, bin, saved>>
  BY <1>1, <1>2, <1>7 DEF ClientsInv
<1> QED
  BY <1>6, <1>7 DEF Drops, Saves, SaveFails

LEMMA ListMoved ==
    ASSUME ClientsInv, DOMAIN disks' = DOMAIN disks, listing' \in Seq(DOMAIN disks), IsInjective(listing'),
           bin' \subseteq [id : DOMAIN disks, at : Nat \ {0}],
           \A e \in bin' : e.id \notin ToSet(listing') /\ \A f \in bin' : e.id = f.id => e = f
    PROVE  GoodList'
BY DEF GoodList, Listed

LEMMA DeleteLocalInv == ASSUME ClientsInv, UNCHANGED cliOnly, UNCHANGED deskOnly, DeleteLocal PROVE ClientsInv'
<1> PICK n : n = cmd.id
  OBVIOUS
<1>1. NetBigger
  BY QuietNet DEF DeleteLocal, Refused, netVars, ClientsInv
<1>2. UNCHANGED <<pool, sessionsOfDesk>> /\ cmd' = NoCmd
  BY DEF DeleteLocal, Refused, Done, hostVars, backendVars, deskOnly, netDiskVars, scanVars, past, sessionsOfDesk
<1>3. n \in DOMAIN disks
  BY DEF DeleteLocal, Runs, ClientsInv, TypeOK, CmdTypes
<1>4. \/ /\ Listed(n) /\ Drops(n)
         /\ \/ MountedAt(n) /\ Removed({disks[n].target}) /\ disks' = Ejected(n)
            \/ UNCHANGED <<managed, removedQ, disks>>
      \/ UNCHANGED <<disks, managed, removedQ, listing, bin, saved>>
  BY DEF DeleteLocal, Refused, hostVars, backendVars
<1>6. GoodDisks' /\ Len(disks') = Len(disks) /\ DOMAIN disks' = DOMAIN disks
  BY <1>3, <1>4, DisksStay, EjectedGood
<1>7. Bigger
  BY <1>1, <1>2, <1>6, DeskBigger DEF sessionsOfDesk
<1>8. BackendTypes'
  <2>1. pool' \in 0..Len(conn')
    BY <1>2, <1>7, PoolStays
  <2> QED
    BY <1>2, <1>3, <1>4, <1>7, <2>1, BackendSame, RemovedTypes, TargetThere
<1>9. GoodList' /\ saved' = listing'
  <2>1. CASE Listed(n) /\ Drops(n)
    BY <1>6, <2>1, DropsGood, ListMoved
  <2>2. CASE UNCHANGED <<listing, bin, saved>>
    BY <1>6, <2>2, ListStays DEF ClientsInv
  <2> QED
    BY <1>4, <2>1, <2>2
<1> QED
  BY <1>2, <1>6, <1>7, <1>8, <1>9, CatalogMoves

\* restore_removed_runtime, or it is gone for good.
LEMMA UndoInv ==
    ASSUME ClientsInv, UNCHANGED cliOnly, UNCHANGED deskOnly, UndoDelete \/ CommitDelete PROVE ClientsInv'
<1>1. NetBigger
  BY QuietNet DEF UndoDelete, CommitDelete, netVars, ClientsInv
<1>2. UNCHANGED <<pool, managed, removedQ, disks, sessionsOfDesk>> /\ cmd' = NoCmd
  BY DEF UndoDelete, CommitDelete, Done, hostVars, backendVars, deskOnly, netDiskVars, scanVars, past, sessionsOfDesk
<1>3. GoodDisks' /\ Len(disks') = Len(disks) /\ DOMAIN disks' = DOMAIN disks
  BY <1>2, DisksStay
<1>4. Bigger
  BY <1>1, <1>2, <1>3, DeskBigger DEF sessionsOfDesk
<1>5. BackendTypes'
  BY <1>2, <1>4, BackendSame
<1>6. listing \in Seq(DOMAIN disks) /\ IsInjective(listing) /\ Len(listing) \in Nat
  BY NowGood DEF GoodList
<1>7. /\ bin \subseteq [id : DOMAIN disks, at : Nat \ {0}]
      /\ \A e \in bin : e.id \notin ToSet(listing) /\ \A f \in bin : e.id = f.id => e = f
  BY NowGood DEF GoodList, Listed
<1>8. GoodList' /\ saved' = listing'
  <2>1. ASSUME NEW e \in bin, Saves(PutBack(e)), listing' = PutBack(e), bin' = bin \ {e}
        PROVE  GoodList' /\ saved' = listing'
    <3>1. e.id \in DOMAIN disks /\ e.at \in Nat \ {0} /\ e.id \notin ToSet(listing)
      BY <1>7
    <3>2. PICK i \in 1..(Len(listing) + 1) : i = IF e.at > Len(listing) THEN Len(listing) + 1 ELSE e.at
      BY <1>6, <3>1
    <3>3. listing' = InsertAt(listing, i, e.id)
      BY <2>1, <3>2 DEF PutBack
    <3>4. /\ listing' \in Seq(DOMAIN disks) /\ IsInjective(listing')
          /\ ToSet(listing') = ToSet(listing) \cup {e.id}
      BY <1>6, <3>1, <3>3, InsertFacts
    <3>5. \A f \in bin' : f.id \notin ToSet(listing') /\ \A g \in bin' : f.id = g.id => f = g
      BY <1>7, <2>1, <3>4
    <3> QED
      BY <1>3, <1>7, <2>1, <3>4, <3>5, ListMoved DEF Saves
  <2>2. CASE UNCHANGED <<listing, bin, saved>>
    BY <1>3, <2>2, ListStays DEF ClientsInv
  <2>3. CASE CommitDelete
    <3>1. bin' \subseteq bin /\ UNCHANGED <<listing, saved>>
      BY <2>3 DEF CommitDelete
    <3>2. \A f \in bin' : f.id \notin ToSet(listing') /\ \A g \in bin' : f.id = g.id => f = g
      BY <1>7, <3>1
    <3> QED
      BY <1>3, <1>6, <1>7, <3>1, <3>2, ListMoved DEF ClientsInv
  <2> QED
    BY <2>1, <2>2, <2>3 DEF UndoDelete, SaveFails
<1> QED
  BY <1>2, <1>3, <1>4, <1>5, <1>8, CatalogMoves

(***************************************************************************)
(* Disks the backend lost, and the program started again.                  *)
(***************************************************************************)
LEMMA DetachedGood ==
    ASSUME ClientsInv, NEW T, disks' = Detached(T)
    PROVE  GoodDisks' /\ Len(disks') = Len(disks) /\ DOMAIN disks' = DOMAIN disks
<1>1. ASSUME NEW n \in DOMAIN disks PROVE GoodDisk(disks'[n])
  <2>1. GoodDisk(disks[n]) /\ disks[n].kind \in {"net", "file", "mem"}
    BY NowGood DEF GoodDisk, DiskType
  <2>2. disks'[n] \in {disks[n], SetUnmounted(n)[n], SetInvalid(disks[n]), Probed(disks[n])}
    BY <2>1 DEF Detached
  <2> QED
    BY <2>1, <2>2, UnmountedDisk, InvalidDisk, ProbedDisk
<1>2. disks' = [n \in DOMAIN disks |-> disks'[n]]
  BY DEF Detached
<1> QED
  BY <1>1, <1>2, DisksMapped

LEMMA DeskWatchInv == ASSUME ClientsInv, UNCHANGED cliOnly, DeskWatch PROVE ClientsInv'
<1>1. NetBigger
  BY QuietNet DEF DeskWatch, ClientsInv
<1>2. UNCHANGED <<pool, listing, bin, saved, sessionsOfDesk>> /\ cmd' = cmd
  BY DEF DeskWatch, netDiskVars, scanVars, past, sessionsOfDesk
<1>3. \/ \E T : disks' = Detached(T)
      \/ disks' = disks
  BY DEF DeskWatch, BackendSync
<1>4. GoodDisks' /\ Len(disks') = Len(disks) /\ DOMAIN disks' = DOMAIN disks
  BY <1>3, DetachedGood, DisksStay
<1>5. Bigger
  BY <1>1, <1>2, <1>4, DeskBigger DEF sessionsOfDesk
<1>6. BackendTypes'
  <2>1. pool' \in 0..Len(conn') /\ MediaType \subseteq MediaType'
    BY <1>2, <1>5, PoolStays, BiggerSets DEF MediaType
  <2>2. CASE removedQ' = {} /\ managed' = managed
    BY <1>5, <2>1, <2>2, BiggerSets DEF BackendTypes, ClientsInv, TypeOK
  <2>3. CASE removedQ' = {} /\ managed' = [t \in Targets |-> NoDisk]
    <3>1. NoDisk \in MediaType' /\ NoDisk.kind = "none"
      BY <1>5 DEF NoDisk, MediaType, Bigger
    <3> HIDE DEF NoDisk, MediaType
    <3> QED
      BY <2>1, <2>3, <3>1 DEF BackendTypes
  <2>4. CASE UNCHANGED <<managed, removedQ>>
    BY <1>2, <1>5, <2>4, BackendSame
  <2> QED
    BY <2>2, <2>3, <2>4 DEF DeskWatch, BackendSync
<1>7. GoodList' /\ saved' = listing'
  BY <1>2, <1>4, ListStays DEF ClientsInv
<1> QED
  BY <1>2, <1>4, <1>5, <1>6, <1>7, CatalogMoves

LEMMA RestoredGood ==
    ASSUME NEW list, NEW n \in Nat, NEW kept, DOMAIN kept = 1..n,
           \A m \in 1..n : /\ kept[m].kind \in {"net", "file", "mem"}
                           /\ kept[m].what \in RemoteDisks \cup Files \cup {"ram"}
                           /\ kept[m].kind = "net" => kept[m].what \in RemoteDisks
    PROVE  /\ Restored(list, kept) \in Seq(DiskType) /\ Len(Restored(list, kept)) = n
           /\ \A m \in 1..n : GoodDisk(Restored(list, kept)[m])
<1> PICK r : r = Restored(list, kept)
  OBVIOUS
<1>1. ASSUME NEW m \in 1..n PROVE GoodDisk(r[m])
  <2> PICK rt : rt = NewDisk(kept[m].kind, kept[m].what, "unmounted")
    OBVIOUS
  <2>1. GoodDisk(rt)
    BY NewlyMade
  <2>2. r[m] \in {rt, SetInvalid(rt), Probed(rt)}
    BY DEF Restored
  <2> QED
    BY <2>1, <2>2, InvalidDisk, ProbedDisk
<1>2. r = [m \in 1..n |-> r[m]]
  BY DEF Restored
<1>3. \A m \in 1..n : r[m] \in DiskType
  BY <1>1 DEF GoodDisk
<1>4. r \in Seq(DiskType) /\ Len(r) = n
  BY <1>2, <1>3
<1> QED
  BY <1>1, <1>4

LEMMA RestartInv == ASSUME ClientsInv, UNCHANGED cliOnly, UNCHANGED deskOnly, Restart PROVE ClientsInv'
<1>1. NetBigger
  BY QuietNet DEF Restart, ClientsInv
<1>2. UNCHANGED <<pool, sessionsOfDesk>> /\ cmd' = NoCmd
  BY DEF Restart, deskOnly, netDiskVars, scanVars, past, sessionsOfDesk
<1>3. /\ disks' = Restored(saved, disks) /\ listing' = saved /\ saved' = saved /\ bin' = {}
      /\ managed' = [t \in Targets |-> NoDisk] /\ removedQ' = {}
  BY DEF Restart
<1>4. GoodDisks' /\ Len(disks') = Len(disks) /\ DOMAIN disks' = DOMAIN disks
  <2> PICK n \in Nat : n = Len(disks) /\ DOMAIN disks = 1..n
    BY NowGood
  <2>1. \A m \in 1..n : /\ disks[m].kind \in {"net", "file", "mem"}
                        /\ disks[m].what \in RemoteDisks \cup Files \cup {"ram"}
                        /\ disks[m].kind = "net" => disks[m].what \in RemoteDisks
    BY NowGood DEF GoodDisk, DiskType
  <2>2. disks' \in Seq(DiskType) /\ Len(disks') = n /\ \A m \in 1..n : GoodDisk(disks'[m])
    BY <1>3, <2>1, RestoredGood
  <2>3. DOMAIN disks' = 1..n
    BY <2>2
  <2> QED
    BY <2>2, <2>3, SMTT(30) DEF GoodDisks, GoodDisk, DiskType
<1>5. Bigger
  BY <1>1, <1>2, <1>4, DeskBigger DEF sessionsOfDesk
<1>6. BackendTypes'
  <2>1. NoDisk \in MediaType' /\ NoDisk.kind = "none"
    BY <1>5 DEF NoDisk, MediaType, Bigger
  <2>2. pool' \in 0..Len(conn')
    BY <1>2, <1>5, PoolStays
  <2> HIDE DEF NoDisk, MediaType
  <2> QED
    BY <1>3, <2>1, <2>2 DEF BackendTypes
<1>7. GoodList' /\ saved' = listing'
  BY <1>3, <1>4, NowGood, ListMoved DEF ClientsInv, GoodList
<1> QED
  BY <1>2, <1>4, <1>5, <1>6, <1>7, CatalogMoves

(***************************************************************************)
(* Network disks of the desktop and their sessions.                        *)
(***************************************************************************)
LEMMA ReleaseNet ==
    ASSUME NetInv, NEW S, NEW r, NEW shut, Close(S, r, shut) \/ CloseAndRelease(S, r), job' = job
    PROVE  NetBigger /\ pool' \in {0, pool}
<1>1. ConnsLess /\ SameSessions /\ StillUp /\ pool' \in {0, pool}
  BY CloseHost, ReleaseHost
<1> QED
  BY <1>1, HostNet DEF HostStep, HostJob

LEMMA NowSessions ==
    ASSUME ClientsInv
    PROVE  /\ opened \in [RemoteDisks -> Ids0] /\ drafts \in Seq(DraftType) /\ Len(drafts) \in Nat
           /\ DOMAIN drafts = 1..Len(drafts) /\ \A k \in DOMAIN drafts : drafts[k] \in DraftType
           /\ 0 \in Ids0 /\ plan \in [Scanners -> SUBSET TaskType] /\ found \in [Scanners -> SUBSET FoundType]
           /\ stranded \subseteq Sessions /\ raced \subseteq RemoteDisks /\ Ids0 = {0} \cup Sessions
<1>1. Len(sess) \in Nat /\ Ids0 = 0..Len(sess) /\ Sessions = 1..Len(sess)
  BY LenNats DEF ClientsInv, Ids0, Sessions, NetInv, NetTypes
<1> QED
  BY <1>1 DEF ClientsInv, TypeOK, DeskTypes

\* The drafts of the same places; one of them changed.
LEMMA DraftsMapped ==
    ASSUME ClientsInv, drafts' = [k \in DOMAIN drafts |-> drafts'[k]], \A k \in DOMAIN drafts : drafts'[k] \in DraftType
    PROVE  drafts' \in Seq(DraftType) /\ Len(drafts') = Len(drafts)
BY NowSessions
LEMMA DraftPut ==
    ASSUME ClientsInv, NEW k \in DOMAIN drafts, NEW r \in DraftType, drafts' = [drafts EXCEPT ![k] = r]
    PROVE  drafts' \in Seq(DraftType) /\ Len(drafts') = Len(drafts)
<1>1. /\ \A j \in DOMAIN drafts : drafts'[j] \in DraftType
      /\ drafts' = [j \in DOMAIN drafts |-> drafts'[j]]
  BY NowSessions
<1> QED
  BY <1>1, DraftsMapped

LEMMA DraftsBigger ==
    ASSUME ClientsInv, NetBigger, GoodDisks', Len(disks) <= Len(disks'), Len(disks') \in Nat, drafts' \in Seq(DraftType),
           Len(drafts) <= Len(drafts')
    PROVE  Bigger /\ drafts' \in Seq(DraftType')
<1>1. Bigger
  BY DEF Bigger, NetBigger
<1>2. disks' \in Seq(DiskType)
  BY DEF GoodDisks, DiskType
<1>3. DraftType \subseteq DraftType'
  BY <1>1, <1>2, TaskGrows
<1> QED
  BY <1>1, <1>3

LEMMA DeskParts ==
    ASSUME ClientsInv, Bigger, GoodDisks', drafts' \in Seq(DraftType'), opened' \in [RemoteDisks -> Ids0],
           stranded' \subseteq Sessions, raced' \subseteq RemoteDisks,
           plan' \in [Scanners -> SUBSET TaskType], found' \in [Scanners -> SUBSET FoundType]
    PROVE  DeskTypes'
<1>1. disks' \in Seq(DiskType)
  BY DEF GoodDisks, DiskType
<1>2. /\ TaskType \subseteq TaskType' /\ FoundType \subseteq FoundType'
      /\ Ids0 \subseteq Ids0' /\ Sessions \subseteq Sessions'
  BY <1>1, BiggerSets, TaskGrows
<1>3. opened' \in [RemoteDisks -> Ids0']
  BY <1>2
<1>4. plan' \in [Scanners -> SUBSET TaskType']
  BY <1>2
<1>5. found' \in [Scanners -> SUBSET FoundType']
  BY <1>2
<1>6. stranded' \subseteq Sessions' /\ raced' \subseteq RemoteDisks
  BY <1>2
<1> QED
  BY <1>3, <1>4, <1>5, <1>6 DEF DeskTypes

\* A step that ends or changes sessions, while the catalog keeps its disks.
SameDisks == GoodDisks' /\ Len(disks') = Len(disks) /\ DOMAIN disks' = DOMAIN disks
LEMMA SessionsMove ==
    ASSUME ClientsInv, Bigger, UNCHANGED cliOnly, BackendTypes', SameDisks, GoodList', saved' = listing',
           cmd' \in {cmd, NoCmd}, drafts' \in Seq(DraftType'), opened' \in [RemoteDisks -> Ids0],
           stranded' \subseteq Sessions, UNCHANGED raced,
           plan' \in [Scanners -> SUBSET TaskType], found' \in [Scanners -> SUBSET FoundType]
    PROVE  ClientsInv'
<1>1. DeskTypes'
  BY DeskParts, NowSessions DEF SameDisks
<1>2. disks' \in Seq(DiskType)
  BY DEF SameDisks, GoodDisks, DiskType
<1>3. CmdTypes'
  BY <1>2, CmdSame, CmdOver
<1> QED
  BY <1>1, <1>3, DeskGoes DEF SameDisks

LEMMA DetachesTypes ==
    ASSUME ClientsInv, Bigger, NEW N \in SUBSET DOMAIN disks, pool' \in 0..Len(conn'), Detaches(N)
    PROVE  BackendTypes'
<1>1. PICK failed \in SUBSET TargetsOf(N) : Removed(TargetsOf(N) \ failed)
  BY DEF Detaches
<1>2. TargetsOf(N) \subseteq Targets
  BY TargetThere DEF TargetsOf
<1> QED
  BY <1>1, <1>2, RemovedTypes

LEMMA OpenedLess ==
    ASSUME ClientsInv, NEW K, opened' = [d \in RemoteDisks |-> IF d \in K THEN 0 ELSE opened[d]]
    PROVE  opened' \in [RemoteDisks -> Ids0]
BY NowSessions

LEMMA DraftsWithoutTypes ==
    ASSUME ClientsInv, NEW S, drafts' = DraftsWithout(S)
    PROVE  drafts' \in Seq(DraftType) /\ Len(drafts') = Len(drafts)
<1>1. ASSUME NEW k \in DOMAIN drafts PROVE drafts'[k] \in DraftType
  <2>1. drafts[k] \in DraftType /\ drafts[k].items \in [RemoteDisks -> Ids0]
    BY NowSessions DEF DraftType
  <2>2. PICK items \in [RemoteDisks -> Ids0] :
          items = [d \in RemoteDisks |-> IF drafts[k].items[d] \in S THEN 0 ELSE drafts[k].items[d]]
    BY <2>1, NowSessions
  <2>3. drafts'[k] = [drafts[k] EXCEPT !.items = items]
    BY <2>2 DEF DraftsWithout
  <2> QED
    BY <2>1, <2>2, <2>3 DEF DraftType
<1>2. drafts' = [k \in DOMAIN drafts |-> drafts'[k]]
  BY DEF DraftsWithout
<1> QED
  BY <1>1, <1>2, DraftsMapped

LEMMA InvalidSet ==
    ASSUME ClientsInv, NEW N, disks' = [n \in DOMAIN disks |-> IF n \in N THEN SetInvalid(disks[n]) ELSE disks[n]]
    PROVE  SameDisks
<1>1. ASSUME NEW n \in DOMAIN disks PROVE GoodDisk(disks'[n])
  BY NowGood, InvalidDisk
<1>2. disks' = [n \in DOMAIN disks |-> disks'[n]]
  OBVIOUS
<1> QED
  BY <1>1, <1>2, DisksMapped DEF SameDisks

LEMMA InvalidOne ==
    ASSUME ClientsInv, NEW n \in DOMAIN disks, disks' = [disks EXCEPT ![n] = SetInvalid(@)]
    PROVE  SameDisks
<1>1. PICK r : r = SetInvalid(disks[n])
  OBVIOUS
<1>2. GoodDisk(r)
  BY <1>1, NowGood, InvalidDisk
<1>3. disks' = [disks EXCEPT ![n] = r]
  BY <1>1
<1> QED
  BY <1>2, <1>3, DiskPut DEF SameDisks

LEMMA DeskSyncInv == ASSUME ClientsInv, UNCHANGED cliOnly, DeskSync PROVE ClientsInv'
<1> PICK e : e = Head(todo)
  OBVIOUS
<1> PICK K : K = KeysOf(e)
  OBVIOUS
<1> PICK S : S = ItemsOf(e)
  OBVIOUS
<1>1. /\ Detaches(DisksOf(K)) /\ drafts' = DraftsWithout(S)
      /\ disks' = [n \in DOMAIN disks |-> IF n \in DisksOf(K) THEN SetInvalid(disks[n]) ELSE disks[n]]
      /\ opened' = [d \in RemoteDisks |-> IF d \in K THEN 0 ELSE opened[d]]
      /\ UNCHANGED <<job, listing, bin, saved, cmd, plan, found, stranded, raced>>
      /\ \/ UNCHANGED <<sess, conn, gw, pool>>
         \/ \E T : CloseAndRelease(T, pool)
  BY DEF DeskSync, scanVars, past
<1>2. NetBigger /\ pool' \in {0, pool}
  BY <1>1, QuietNet, ReleaseNet DEF ClientsInv
<1>3. SameDisks
  BY <1>1, InvalidSet
<1>4. drafts' \in Seq(DraftType) /\ Len(drafts') = Len(drafts) /\ Len(disks') \in Nat
  BY <1>1, <1>3, DraftsWithoutTypes, NowGood DEF SameDisks
<1>5. Bigger /\ drafts' \in Seq(DraftType')
  BY <1>2, <1>3, <1>4, DraftsBigger, NowSessions, NowGood DEF SameDisks
<1>6. BackendTypes'
  BY <1>1, <1>2, <1>5, DetachesTypes, PoolStays DEF DisksOf
<1>7. GoodList' /\ saved' = listing'
  BY <1>1, <1>3, ListStays DEF SameDisks, ClientsInv
<1>8. opened' \in [RemoteDisks -> Ids0]
  BY <1>1, OpenedLess
<1> QED
  BY <1>1, <1>3, <1>5, <1>6, <1>7, <1>8, SessionsMove, NowSessions

LEMMA SessionUsable == ASSUME ClientsInv, NEW s, Usable(s) PROVE s \in Sessions /\ s \in Nat
BY DEF Usable, Sessions, ClientsInv, NetInv, NetTypes

LEMMA OpenedForgets ==
    ASSUME ClientsInv, NEW d, opened' = [opened EXCEPT ![d] = 0] PROVE opened' \in [RemoteDisks -> Ids0]
BY NowSessions

LEMMA CmdNames ==
    ASSUME ClientsInv, NEW op, Runs(op)
    PROVE  /\ op \in {"mount", "eject", "delete"} => cmd.id \in DOMAIN disks
           /\ op \in {"add", "submit", "adopt"} => cmd.id \in DOMAIN drafts
           /\ op = "add" => cmd.disk \in RemoteDisks
BY DEF Runs, ClientsInv, TypeOK, CmdTypes

\* mount_network_disk with a usable session, or refused.
LEMMA MountNetworkInv ==
    ASSUME ClientsInv, UNCHANGED cliOnly, MountNetwork \/ MountRefused PROVE ClientsInv'
<1> PICK n : n = cmd.id
  OBVIOUS
<1> PICK s : s = opened[disks[n].what]
  OBVIOUS
<1>1. NetBigger
  BY QuietNet DEF MountNetwork, MountRefused, NetFinished, ClientsInv
<1>2. UNCHANGED <<pool, removedQ, listing, bin, saved, sessionsOfDesk>> /\ cmd' = NoCmd
  BY DEF MountNetwork, MountRefused, NetFinished, Finished, Done, scanVars, past, sessionsOfDesk
<1>3. n \in DOMAIN disks
  BY CmdNames DEF MountNetwork, MountRefused
<1>4. \/ Usable(s) /\ \E t \in Targets : Serves(t, Media("net", s, n)) /\ disks' = SetMounted(n, t)
      \/ UNCHANGED <<managed, disks>>
  BY DEF MountNetwork, MountRefused
<1>5. SameDisks
  BY <1>3, <1>4, DisksStay, SetMountedGood DEF SameDisks
<1>6. Bigger
  BY <1>1, <1>2, <1>5, DeskBigger DEF sessionsOfDesk, SameDisks
<1>7. BackendTypes'
  <2>1. ASSUME NEW t \in Targets, Serves(t, Media("net", s, n)), Usable(s) PROVE BackendTypes'
    <3>1. s \in Sessions /\ s \in Nat /\ n \in 0..Len(disks) /\ removedQ \subseteq Targets
      BY <1>3, <2>1, SessionUsable, NowGood DEF ClientsInv, TypeOK, BackendTypes
    <3>2. managed' = [managed EXCEPT ![t] = Media("net", s, n)]
      BY <2>1 DEF Serves
    <3> QED
      BY <1>2, <1>6, <3>1, <3>2, ServedTypes
  <2> QED
    BY <1>2, <1>4, <1>6, <2>1, BackendSame
<1>8. GoodList' /\ saved' = listing'
  BY <1>2, <1>5, ListStays DEF SameDisks, ClientsInv
<1> QED
  BY <1>2, <1>5, <1>6, <1>7, <1>8, CatalogMoves DEF SameDisks

\* The session is forgotten.
LEMMA MountMissesInv == ASSUME ClientsInv, UNCHANGED cliOnly, MountMisses PROVE ClientsInv'
<1> PICK n : n = cmd.id
  OBVIOUS
<1>1. /\ disks' = [disks EXCEPT ![n] = SetInvalid(@)] /\ opened' = [opened EXCEPT ![disks[n].what] = 0]
      /\ UNCHANGED <<job, listing, bin, saved, drafts, plan, found, stranded, raced, removedQ, managed>>
      /\ cmd' = NoCmd
      /\ UNCHANGED <<sess, conn, gw, pool>> \/ CloseAndRelease({}, pool)
  BY DEF MountMisses, Finished, Done, scanVars, past, backendVars
<1>2. n \in DOMAIN disks
  BY CmdNames DEF MountMisses
<1>3. NetBigger /\ pool' \in {0, pool}
  BY <1>1, QuietNet, ReleaseNet DEF ClientsInv
<1>4. SameDisks
  BY <1>1, <1>2, InvalidOne
<1>5. Bigger
  BY <1>1, <1>3, <1>4, DeskBigger DEF SameDisks
<1>6. drafts' \in Seq(DraftType')
  BY <1>1, <1>4, <1>5, DraftsSame DEF SameDisks, GoodDisks, DiskType
<1>7. BackendTypes'
  BY <1>1, <1>3, <1>5, PoolStays, PoolTypes
<1>8. GoodList' /\ saved' = listing'
  BY <1>1, <1>4, ListStays DEF SameDisks, ClientsInv
<1>9. opened' \in [RemoteDisks -> Ids0]
  BY <1>1, OpenedForgets
<1> QED
  BY <1>1, <1>4, <1>5, <1>6, <1>7, <1>8, <1>9, SessionsMove, NowSessions

LEMMA EjectNetworkInv == ASSUME ClientsInv, UNCHANGED cliOnly, EjectNetwork PROVE ClientsInv'
<1> PICK n : n = cmd.id
  OBVIOUS
<1>1. NetBigger
  BY QuietNet DEF EjectNetwork, NetFinished, ClientsInv
<1>2. UNCHANGED <<pool, listing, bin, saved, sessionsOfDesk>> /\ cmd' = NoCmd
  BY DEF EjectNetwork, NetFinished, Finished, Done, scanVars, past, sessionsOfDesk
<1>3. n \in DOMAIN disks
  BY CmdNames DEF EjectNetwork
<1>4. \/ MountedAt(n) /\ Removed({disks[n].target}) /\ disks' = SetUnmounted(n)
      \/ UNCHANGED <<disks, managed, removedQ>>
  BY DEF EjectNetwork
<1>5. SameDisks
  <2>1. ASSUME disks' = SetUnmounted(n) PROVE SameDisks
    <3>1. PICK r : r = SetUnmounted(n)[n]
      OBVIOUS
    <3>2. GoodDisk(r)
      BY <1>3, <3>1, UnmountedDisk
    <3>3. disks' = [disks EXCEPT ![n] = r]
      BY <1>3, <2>1, <3>1, NowGood DEF SetUnmounted
    <3> QED
      BY <1>3, <3>2, <3>3, DiskPut DEF SameDisks
  <2> QED
    BY <1>4, <2>1, DisksStay DEF SameDisks
<1>6. Bigger
  BY <1>1, <1>2, <1>5, DeskBigger DEF sessionsOfDesk, SameDisks
<1>7. BackendTypes'
  <2>1. pool' \in 0..Len(conn')
    BY <1>2, <1>6, PoolStays
  <2> QED
    BY <1>2, <1>3, <1>4, <1>6, <2>1, BackendSame, RemovedTypes, TargetThere
<1>8. GoodList' /\ saved' = listing'
  BY <1>2, <1>5, ListStays DEF SameDisks, ClientsInv
<1> QED
  BY <1>2, <1>5, <1>6, <1>7, <1>8, CatalogMoves DEF SameDisks

LEMMA DeleteNetworkInv == ASSUME ClientsInv, UNCHANGED cliOnly, DeleteNetwork PROVE ClientsInv'
<1> PICK n : n = cmd.id
  OBVIOUS
<1>1. n \in DOMAIN disks /\ Listed(n)
  BY CmdNames DEF DeleteNetwork, IsNet
<1>2. UNCHANGED <<job, drafts, plan, found, stranded, raced>> /\ cmd' = NoCmd
  BY DEF DeleteNetwork, Done, scanVars, past
<1>3. CASE /\ disks' = [disks EXCEPT ![n] = SetInvalid(@)] /\ opened' = [opened EXCEPT ![disks[n].what] = 0]
           /\ (\E S, shut : Close(S, pool, shut)) /\ Drops(n)
           /\ (MountedAt(n) /\ Removed({disks[n].target})) \/ UNCHANGED <<managed, removedQ>>
  <2>1. NetBigger /\ pool' \in {0, pool}
    BY <1>2, <1>3, ReleaseNet DEF ClientsInv
  <2>2. SameDisks
    BY <1>1, <1>3, InvalidOne
  <2>3. Bigger
    BY <1>2, <2>1, <2>2, DeskBigger DEF SameDisks
  <2>4. drafts' \in Seq(DraftType')
    BY <1>2, <2>2, <2>3, DraftsSame DEF SameDisks, GoodDisks, DiskType
  <2>5. BackendTypes'
    BY <1>1, <1>3, <2>1, <2>3, PoolStays, PoolTypes, RemovedTypes, TargetThere
  <2>6. GoodList' /\ saved' = listing'
    BY <1>1, <1>3, <2>2, DropsGood, ListMoved DEF SameDisks
  <2>7. opened' \in [RemoteDisks -> Ids0]
    BY <1>3, OpenedForgets
  <2> QED
    BY <1>2, <2>2, <2>3, <2>4, <2>5, <2>6, <2>7, SessionsMove, NowSessions
<1>4. CASE UNCHANGED <<managed, removedQ, disks, opened, conn, sess, gw, pool, listing, bin, saved>>
  <2>1. NetBigger
    BY <1>2, <1>4, QuietNet DEF ClientsInv
  <2> QED
    BY <1>2, <1>4, <2>1, CatalogStays DEF sessionsOfDesk, catalogOfDesk
<1> QED
  BY <1>3, <1>4 DEF DeleteNetwork

(***************************************************************************)
(* Drafts.                                                                 *)
(***************************************************************************)
LEMMA AcquiredNet ==
    ASSUME ClientsInv, NEW c, Acquired(c), pool' = c, UNCHANGED <<sess, gw, job>>
    PROVE  NetBigger /\ pool' \in 1..Len(conn')
<1>1. ConnsLess /\ SameSessions /\ StillUp /\ c \in 1..Len(conn')
  BY AcquiredHost DEF ClientsInv, TypeOK, BackendTypes
<1> QED
  BY <1>1, HostNet DEF HostStep, HostJob, ClientsInv

\* Only the drafts and the connections change.
LEMMA DraftsMove ==
    ASSUME ClientsInv, NetBigger, UNCHANGED cliOnly, UNCHANGED <<catalogOfDesk, opened, plan, found, raced>>,
           UNCHANGED <<removedQ, managed>>, cmd' \in {cmd, NoCmd}, pool' \in {0, pool} \/ pool' \in 0..Len(conn'),
           drafts' \in Seq(DraftType), Len(drafts) = Len(drafts'), stranded' \subseteq Sessions
    PROVE  ClientsInv'
<1>1. SameDisks
  BY DisksStay DEF SameDisks, catalogOfDesk
<1>2. Bigger /\ drafts' \in Seq(DraftType')
  BY <1>1, DraftsBigger, NowSessions, NowGood DEF SameDisks
<1>3. BackendTypes'
  BY <1>2, PoolStays, PoolTypes
<1>4. GoodList' /\ saved' = listing'
  BY <1>1, ListStays DEF SameDisks, catalogOfDesk, ClientsInv
<1> QED
  BY <1>1, <1>2, <1>3, <1>4, SessionsMove, NowSessions

LEMMA TestConnectionInv == ASSUME ClientsInv, UNCHANGED cliOnly, TestConnection PROVE ClientsInv'
<1>1. PICK c : Acquired(c) /\ pool' = c
  BY DEF TestConnection
<1>2. NetBigger /\ pool' \in 1..Len(conn')
  BY <1>1, AcquiredNet DEF TestConnection
<1>3. UNCHANGED <<sessionsOfDesk, catalogOfDesk, removedQ, managed, cmd>>
  BY DEF TestConnection, DraftStep, sessionsOfDesk, catalogOfDesk, backendVars, catalogOnly, netDiskVars, scanVars, past
<1> QED
  BY <1>2, <1>3, CatalogStays

\* create_network_draft.
LEMMA NewDraftInv == ASSUME ClientsInv, UNCHANGED cliOnly, NewDraft PROVE ClientsInv'
<1>1. PICK c : Acquired(c) /\ pool' = c /\ drafts' = Append(drafts, [live |-> TRUE, conn |-> c, items |-> NoItems])
  BY DEF NewDraft
<1>2. NetBigger /\ pool' \in 1..Len(conn')
  BY <1>1, AcquiredNet DEF NewDraft
<1>3. UNCHANGED <<opened, plan, found, stranded, raced, disks, listing, bin, saved, removedQ, managed, cmd>>
  BY DEF NewDraft, DraftStep, backendVars, catalogOnly, scanVars, past
<1>4. SameDisks
  BY <1>3, DisksStay DEF SameDisks
<1> PICK r : r = [live |-> TRUE, conn |-> c, items |-> NoItems]
  OBVIOUS
<1>5. /\ Len(drafts') = Len(drafts) + 1 /\ Len(drafts) <= Len(drafts') /\ Len(drafts') \in Nat
      /\ \A S : DraftType \subseteq S /\ r \in S => drafts' \in Seq(S)
  <2>1. PICK S : S = DraftType \cup {r}
    OBVIOUS
  <2>2. drafts \in Seq(S) /\ r \in S
    BY <2>1, NowSessions
  <2>3. Len(drafts') = Len(drafts) + 1
    BY <1>1, <2>2, AppendProperties
  <2>4. ASSUME NEW R, DraftType \subseteq R, r \in R PROVE drafts' \in Seq(R)
    <3>1. drafts \in Seq(R)
      BY <2>4, NowSessions
    <3> QED
      BY <1>1, <2>4, <3>1, AppendProperties
  <2>5. \A R : DraftType \subseteq R /\ r \in R => drafts' \in Seq(R)
    BY <2>4, Zenon
  <2>6. Len(drafts) \in Nat
    BY NowSessions
  <2>7. Len(drafts) <= Len(drafts') /\ Len(drafts') \in Nat
    BY <2>3, <2>6
  <2> QED
    BY <2>3, <2>5, <2>7, Zenon
<1>6. Bigger
  BY <1>2, <1>4, <1>5, NowGood DEF Bigger, NetBigger, SameDisks
<1>7. disks' \in Seq(DiskType)
  BY <1>4 DEF SameDisks, GoodDisks, DiskType
<1>8. r \in DraftType'
  <2>1. c \in Conns' /\ 0 \in Ids0'
    BY <1>1, <1>2, <1>6, BiggerSets, NowSessions
  <2> QED
    BY <2>1 DEF DraftType, NoItems
<1>9. drafts' \in Seq(DraftType')
  BY <1>5, <1>6, <1>7, <1>8, TaskGrows
<1>10. BackendTypes'
  BY <1>2, <1>3, <1>6, PoolTypes
<1>11. GoodList' /\ saved' = listing'
  BY <1>3, <1>4, ListStays DEF SameDisks, ClientsInv
<1> QED
  BY <1>3, <1>4, <1>6, <1>9, <1>10, <1>11, SessionsMove, NowSessions

LEMMA DraftChanged ==
    ASSUME ClientsInv, NEW k \in DOMAIN drafts, NEW l \in BOOLEAN, NEW items \in [RemoteDisks -> Ids0],
           drafts' = [drafts EXCEPT ![k] = [drafts[k] EXCEPT !.live = l, !.items = items]]
    PROVE  drafts' \in Seq(DraftType) /\ Len(drafts') = Len(drafts)
<1>1. PICK r \in DraftType : r = [drafts[k] EXCEPT !.live = l, !.items = items]
  BY NowSessions DEF DraftType
<1> QED
  BY <1>1, DraftPut

LEMMA ItemSet ==
    ASSUME ClientsInv, NEW k \in DOMAIN drafts, NEW d, NEW s \in Ids0, drafts' = [drafts EXCEPT ![k].items[d] = s]
    PROVE  drafts' \in Seq(DraftType) /\ Len(drafts') = Len(drafts)
<1>1. drafts[k] \in DraftType /\ drafts[k].items \in [RemoteDisks -> Ids0]
  BY NowSessions DEF DraftType
<1>2. PICK items \in [RemoteDisks -> Ids0] : items = [drafts[k].items EXCEPT ![d] = s]
  BY <1>1
<1>3. PICK r \in DraftType : r = [drafts[k] EXCEPT !.items = items]
  BY <1>1, <1>2 DEF DraftType
<1>4. drafts' = [drafts EXCEPT ![k] = r]
  BY <1>2, <1>3
<1> QED
  BY <1>3, <1>4, DraftPut

LEMMA DisposedDraft ==
    ASSUME ClientsInv, NEW k \in DOMAIN drafts, drafts' = Disposed(k)
    PROVE  drafts' \in Seq(DraftType) /\ Len(drafts') = Len(drafts)
<1>1. NoItems \in [RemoteDisks -> Ids0]
  BY NowSessions DEF NoItems
<1>2. PICK r \in DraftType : r = [drafts[k] EXCEPT !.live = FALSE, !.items = NoItems]
  BY <1>1, NowSessions DEF DraftType
<1>3. drafts' = [drafts EXCEPT ![k] = r]
  BY <1>2 DEF Disposed
<1> QED
  BY <1>3, DraftPut

LEMMA DraftCommandInv == ASSUME ClientsInv, UNCHANGED cliOnly, DraftCommand PROVE ClientsInv'
<1>1. CASE TestConnection \/ NewDraft
  BY <1>1, TestConnectionInv, NewDraftInv
<1>2. ASSUME NEW k \in DOMAIN drafts, DisposeDraft(k) PROVE ClientsInv'
  <2>1. NetBigger /\ pool' \in {0, pool}
    BY <1>2, ReleaseNet DEF DisposeDraft, ClientsInv
  <2>2. drafts' \in Seq(DraftType) /\ Len(drafts') = Len(drafts)
    BY <1>2, DisposedDraft DEF DisposeDraft
  <2>3. UNCHANGED <<catalogOfDesk, opened, plan, found, stranded, raced, removedQ, managed, cmd>>
    BY <1>2 DEF DisposeDraft, catalogOfDesk, catalogOnly, backendVars, scanVars, past
  <2> QED
    BY <2>1, <2>2, <2>3, DraftsMove, NowSessions
<1>3. ASSUME NEW k \in DOMAIN drafts, NEW d \in RemoteDisks, RemoveItem(k, d) PROVE ClientsInv'
  <2>1. NetBigger /\ pool' \in {0, pool}
    BY <1>3, ReleaseNet DEF RemoveItem, ClientsInv
  <2>2. drafts' \in Seq(DraftType) /\ Len(drafts') = Len(drafts)
    BY <1>3, ItemSet, NowSessions DEF RemoveItem
  <2>3. UNCHANGED <<catalogOfDesk, opened, plan, found, stranded, raced, removedQ, managed, cmd>>
    BY <1>3 DEF RemoveItem, DraftStep, catalogOfDesk, catalogOnly, backendVars, scanVars, past
  <2> QED
    BY <2>1, <2>2, <2>3, DraftsMove, NowSessions
<1> QED
  BY <1>1, <1>2, <1>3 DEF DraftCommand

(***************************************************************************)
(* add_network_draft_item.                                                 *)
(***************************************************************************)
LEMMA UiThere == "ui" \in Threads /\ "rescan" \in Threads /\ \A w \in Scanners : w \in Threads
BY ThreadsThere DEF HostThreads, Scanners

\* A job of a desktop thread ends.
LEMMA ClearNet ==
    ASSUME NetInv, NEW t \in Threads, job[t].st \notin Asking, job' = ClearJob(t), ConnsLess, SameSessions, StillUp
    PROVE  NetBigger
BY ClearHost, HostNet DEF HostStep

LEMMA AddStartsInv == ASSUME ClientsInv, UNCHANGED cliOnly, AddStarts PROVE ClientsInv'
<1> PICK c : c = drafts[cmd.id].conn
  OBVIOUS
<1>1. /\ Idle("ui") /\ Begins("ui", c, cmd.disk) /\ UNCHANGED <<conn, sess, gw, hostVars, catalogOnly, deskOnly>>
      /\ cmd.id \in DOMAIN drafts /\ cmd.disk \in RemoteDisks
  BY CmdNames DEF AddStarts
<1>2. c \in 1..Len(conn') /\ c \in Nat
  <2>1. c \in Conns /\ Conns = 1..Len(conn) /\ Len(conn) \in Nat
    BY <1>1, NowSessions, LenNats DEF DraftType, Conns, ClientsInv, NetInv, NetTypes
  <2> QED
    BY <1>1, <2>1
<1>3. HostJob
  BY <1>1, <1>2, UiThere, BeginsHost DEF ClientsInv
<1>4. NetBigger
  BY <1>1, <1>3, QuietHost, HostNet DEF HostStep, ClientsInv
<1>5. UNCHANGED <<sessionsOfDesk, catalogOfDesk, removedQ, managed, cmd, pool>>
  BY <1>1 DEF sessionsOfDesk, catalogOfDesk, hostVars, backendVars, catalogOnly, deskOnly, netDiskVars, scanVars, past
<1> QED
  BY <1>4, <1>5, CatalogStays

LEMMA AddOpensInv == ASSUME ClientsInv, UNCHANGED cliOnly, AddOpens PROVE ClientsInv'
<1> PICK c : c = job["ui"].conn
  OBVIOUS
<1>1. At("ui", "authed") /\ UNCHANGED <<hostVars, deskOnly>>
  BY DEF AddOpens, AddsAt
<1>2. c \in Conns
  BY <1>1, ThreadFacts, UiThere DEF At, Before, ClientsInv
<1>3. CASE GivesGrant(c) /\ UNCHANGED <<sess, gw, disks, listing, bin, saved>> /\ job' = ClearJob("ui") /\ cmd' = NoCmd
  <2>1. ConnsLess /\ SameSessions /\ StillUp
    BY <1>2, <1>3, GrantHost DEF ClientsInv
  <2>2. NetBigger
    BY <1>1, <1>3, <2>1, UiThere, ClearNet DEF At, Asking, ClientsInv
  <2>3. UNCHANGED <<sessionsOfDesk, catalogOfDesk, removedQ, managed, pool>>
    BY <1>1, <1>3 DEF sessionsOfDesk, catalogOfDesk, hostVars, backendVars, deskOnly, netDiskVars, scanVars, past
  <2> QED
    BY <1>3, <2>2, <2>3, CatalogStays
<1>4. CASE BeginOpen("ui") /\ UNCHANGED catalogOnly
  <2>1. NetBigger
    BY <1>4, UiThere, BeginOpenNet DEF ClientsInv
  <2>2. UNCHANGED <<sessionsOfDesk, catalogOfDesk, removedQ, managed, pool, cmd>>
    BY <1>1, <1>4 DEF sessionsOfDesk, catalogOfDesk, hostVars, backendVars, catalogOnly, deskOnly, netDiskVars, scanVars, past
  <2> QED
    BY <2>1, <2>2, CatalogStays
<1> QED
  BY <1>3, <1>4 DEF AddOpens, AddEnds, Done, GivesGrant

LEMMA AddEndsInv == ASSUME ClientsInv, UNCHANGED cliOnly, AddFails \/ AddAbandons \/ AddInserts PROVE ClientsInv'
<1>1. job' = ClearJob("ui") /\ cmd' = NoCmd /\ job["ui"].st \notin Asking
  BY DEF AddFails, AddAbandons, AddInserts, AddEnds, Done, AddsAt, At, Idle, Asking
<1>2. UNCHANGED <<removedQ, managed, opened, catalogOfDesk, plan, found, raced>>
  BY DEF AddFails, AddAbandons, AddInserts, AddVars, backendVars, catalogOfDesk, scanVars, past
<1>3. ConnsLess /\ SameSessions /\ StillUp /\ pool' \in {0, pool}
  BY QuietHost, ReleaseHost, CloseHost DEF AddFails, AddAbandons, AddInserts, ClientsInv
<1>4. NetBigger
  BY <1>1, <1>3, UiThere, ClearNet DEF ClientsInv
<1>5. drafts' \in Seq(DraftType) /\ Len(drafts') = Len(drafts) /\ stranded' \subseteq Sessions
  <2>1. CASE AddFails \/ AddAbandons
    BY <2>1, NowSessions DEF AddFails, AddAbandons, past
  <2>2. CASE AddInserts
    <3> PICK s, k, d : s = job["ui"].sid /\ k = cmd.id /\ d = cmd.disk
      OBVIOUS
    <3>1. s \in Sessions /\ s \in Ids0
      BY <2>2, SidFacts, UiThere DEF AddInserts, AddsAt, At, After, ClientsInv
    <3>2. k \in DOMAIN drafts
      BY <2>2 DEF AddInserts, AddsAt, ClientsInv, TypeOK, CmdTypes
    <3>3. CASE drafts' = [drafts EXCEPT ![k].items[d] = s] /\ UNCHANGED stranded
      BY <3>1, <3>2, <3>3, ItemSet, NowSessions
    <3>4. CASE stranded' = stranded \cup {s} /\ UNCHANGED drafts
      BY <3>1, <3>4, NowSessions
    <3> QED
      BY <2>2, <3>3, <3>4 DEF AddInserts
  <2> QED
    BY <2>1, <2>2
<1> QED
  BY <1>1, <1>2, <1>3, <1>4, <1>5, DraftsMove

(***************************************************************************)
(* submit_network_draft.                                                   *)
(***************************************************************************)
LEMMA AnyOrder ==
    ASSUME NEW K, IsFiniteSet(K)
    PROVE  Cardinality(K) \in Nat /\ SetToSeq(K) \in [1..Cardinality(K) -> K]
<1>1. Cardinality(K) \in Nat /\ ExistsBijection(1..Cardinality(K), K)
  BY FS_CardinalityType
<1>2. PICK g : g \in [1..Cardinality(K) -> K] /\ IsInjective(g)
  BY <1>1 DEF ExistsBijection, Bijection, Injection, IsInjective
<1>3. \E f \in [1..Cardinality(K) -> K] : IsInjective(f)
  BY <1>2
<1> QED
  BY <1>1, <1>3 DEF SetToSeq

LEMMA DisksForGood ==
    ASSUME ClientsInv, NEW K \in SUBSET RemoteDisks, NEW q, q = Cardinality(K)
    PROVE  /\ q \in Nat /\ DisksFor(K) \in Seq(DiskType) /\ Len(DisksFor(K)) = q
           /\ \A i \in 1..q : GoodDisk(DisksFor(K)[i])
<1>1. IsFiniteSet(K)
  BY HostAssumption, FS_Subset DEF HostAssumption
<1>2. q \in Nat /\ SetToSeq(K) \in [1..q -> K]
  BY <1>1, AnyOrder
<1>3. ASSUME NEW i \in 1..q PROVE GoodDisk(NewDisk("net", SetToSeq(K)[i], "unmounted"))
  <2>1. SetToSeq(K)[i] \in RemoteDisks
    BY <1>2
  <2> QED
    BY <2>1, NewlyMade
<1>4. DisksFor(K) = [i \in 1..q |-> NewDisk("net", SetToSeq(K)[i], "unmounted")]
  BY DEF DisksFor
<1>5. \A i \in 1..q : NewDisk("net", SetToSeq(K)[i], "unmounted") \in DiskType
  BY <1>3 DEF GoodDisk
<1> QED
  BY <1>2, <1>3, <1>4, <1>5

LEMMA DisksJoin ==
    ASSUME ClientsInv, NEW K \in SUBSET RemoteDisks, NEW q, q = Cardinality(K), disks' = disks \o DisksFor(K)
    PROVE  GoodDisks' /\ q \in Nat /\ Len(disks') = Len(disks) + q /\ DOMAIN disks' = 1..(Len(disks) + q)
<1> PICK m \in Nat : m = Len(disks) /\ DOMAIN disks = 1..m
  BY NowGood
<1> PICK D : D = DisksFor(K)
  OBVIOUS
<1>1. q \in Nat /\ D \in Seq(DiskType) /\ Len(D) = q /\ \A i \in 1..q : GoodDisk(D[i])
  BY DisksForGood
<1>2. disks \in Seq(DiskType) /\ \A n \in 1..m : GoodDisk(disks[n])
  BY NowGood
<1>3. PICK z : z = disks \o D
  OBVIOUS
<1>4. z \in Seq(DiskType) /\ Len(z) = m + q /\ \A j \in 1..(m + q) : z[j] = IF j <= m THEN disks[j] ELSE D[j - m]
  BY <1>1, <1>2, <1>3, GlueFacts
<1>5. disks' = z
  BY <1>3
<1>6. \A j \in 1..(m + q) : GoodDisk(z[j])
  <2>1. ASSUME NEW j \in 1..(m + q) PROVE GoodDisk(z[j])
    <3>1. CASE j <= m
      BY <1>2, <1>4, <3>1
    <3>2. CASE ~(j <= m)
      <4>1. j - m \in 1..q
        BY <1>1, <3>2
      <4> QED
        BY <1>1, <1>4, <3>2, <4>1
    <3> QED
      BY <3>1, <3>2
  <2> QED
    BY <2>1
<1>7. DOMAIN z = 1..(m + q)
  BY <1>4
<1>8. GoodDisks'
  BY <1>4, <1>5, <1>6, <1>7 DEF GoodDisks, GoodDisk, DiskType
<1> QED
  BY <1>1, <1>4, <1>5, <1>7, <1>8

LEMMA ListJoin ==
    ASSUME ClientsInv, NEW q \in Nat, NEW m, m = Len(disks), DOMAIN disks' = 1..(m + q),
           listing' = listing \o [i \in 1..q |-> m + i], bin' = bin
    PROVE  GoodList'
<1>m. m \in Nat /\ DOMAIN disks = 1..m
  BY NowGood
<1> PICK E : E = [i \in 1..q |-> m + i]
  OBVIOUS
<1>1. E \in Seq(1..(m + q)) /\ Len(E) = q /\ \A i \in 1..q : E[i] = m + i
  BY <1>m
<1>2. listing \in Seq(1..m) /\ IsInjective(listing)
  BY <1>m, NowGood DEF GoodList
<1> PICK l \in Nat : l = Len(listing) /\ DOMAIN listing = 1..l
  BY <1>2
<1>3. listing \in Seq(1..(m + q)) /\ \A i \in 1..l : listing[i] \in 1..m
  BY <1>m, <1>2
<1>4. PICK z : z = listing \o E
  OBVIOUS
<1>5. z \in Seq(1..(m + q)) /\ Len(z) = l + q /\ \A j \in 1..(l + q) : z[j] = IF j <= l THEN listing[j] ELSE E[j - l]
  BY <1>1, <1>3, <1>4, GlueFacts
<1>6. /\ \A j \in 1..l : z[j] = listing[j] /\ z[j] \in 1..m
      /\ \A j \in (l + 1)..(l + q) : z[j] = m + (j - l)
      /\ DOMAIN z = 1..(l + q)
  <2>1. \A j \in 1..l : j \in 1..(l + q) /\ j <= l
    OBVIOUS
  <2>2. \A j \in (l + 1)..(l + q) : j \in 1..(l + q) /\ ~(j <= l) /\ j - l \in 1..q
    OBVIOUS
  <2> QED
    BY <1>1, <1>3, <1>5, <2>1, <2>2
<1>7. ASSUME NEW i \in 1..(l + q), NEW j \in 1..(l + q), z[i] = z[j] PROVE i = j
  <2>1. /\ i \in 1..l \/ i \in (l + 1)..(l + q)
        /\ j \in 1..l \/ j \in (l + 1)..(l + q)
    OBVIOUS
  <2>2. CASE i \in 1..l /\ j \in 1..l
    BY <1>2, <1>6, <1>7, <2>2 DEF IsInjective
  <2>3. CASE i \in (l + 1)..(l + q) /\ j \in (l + 1)..(l + q)
    BY <1>m, <1>6, <1>7, <2>3
  <2>4. CASE i \in 1..l /\ j \in (l + 1)..(l + q)
    BY <1>m, <1>6, <1>7, <2>4
  <2>5. CASE j \in 1..l /\ i \in (l + 1)..(l + q)
    BY <1>m, <1>6, <1>7, <2>5
  <2> QED
    BY <2>1, <2>2, <2>3, <2>4, <2>5
<1>8. IsInjective(z)
  BY <1>6, <1>7 DEF IsInjective
<1>9. \A n \in 1..m : n \in ToSet(z) => n \in ToSet(listing)
  <2>1. ASSUME NEW j \in 1..(l + q), z[j] \in 1..m PROVE z[j] \in ToSet(listing)
    <3>1. j \in 1..l
      <4>1. CASE j \in (l + 1)..(l + q)
        <5>1. z[j] = m + (j - l) /\ j - l \in 1..q
          BY <1>6, <4>1
        <5>2. z[j] \in 1..m
          BY <2>1
        <5> QED
          BY <1>m, <5>1, <5>2
      <4> QED
        BY <4>1
    <3> QED
      BY <1>6, <3>1 DEF ToSet
  <2> QED
    BY <1>6, <2>1 DEF ToSet
<1>10. bin \subseteq [id : 1..m, at : Nat \ {0}] /\ \A e \in bin : e.id \notin ToSet(listing) /\ \A f \in bin : e.id = f.id => e = f
  BY <1>m, NowGood DEF GoodList, Listed
<1>11. bin \subseteq [id : 1..(m + q), at : Nat \ {0}]
  BY <1>m, <1>10
<1> QED
  BY <1>4, <1>5, <1>8, <1>9, <1>10, <1>11 DEF GoodList, Listed

LEMMA SubmitInv == ASSUME ClientsInv, UNCHANGED cliOnly, Submit PROVE ClientsInv'
<1> PICK k : k = cmd.id
  OBVIOUS
<1>1. UNCHANGED <<conn, sess, gw, job, pool, removedQ, managed, bin, opened, drafts, plan, found, stranded>>
  BY DEF Submit, hostVars, backendVars, netDiskVars, scanVars
<1>2. NetBigger /\ k \in DOMAIN drafts
  BY <1>1, QuietNet, CmdNames DEF Submit, ClientsInv
<1>3. Keys(k) \in SUBSET RemoteDisks
  BY DEF Keys
<1>4. CASE /\ Saves(listing \o [i \in 1..Cardinality(Keys(k)) |-> Len(disks) + i])
           /\ listing' = listing \o [i \in 1..Cardinality(Keys(k)) |-> Len(disks) + i]
           /\ disks' = disks \o DisksFor(Keys(k)) /\ raced' \in {raced, raced \cup Keys(k)}
           /\ cmd' = Command("adopt", cmd.id, cmd.disk) /\ cmd.op = "submit"
  <2> PICK q : q = Cardinality(Keys(k))
    OBVIOUS
  <2>1. GoodDisks' /\ q \in Nat /\ Len(disks') = Len(disks) + q /\ DOMAIN disks' = 1..(Len(disks) + q)
    BY <1>3, <1>4, DisksJoin
  <2>2. Len(disks) \in Nat
    BY NowGood
  <2>3. Bigger
    BY <1>1, <1>2, <2>1, <2>2, DeskGrows
  <2>4. GoodList' /\ saved' = listing'
    BY <1>1, <1>4, <2>1, <2>2, ListJoin DEF Saves
  <2>5. BackendTypes'
    BY <1>1, <2>3, BackendSame
  <2>6. disks' \in Seq(DiskType)
    BY <2>1 DEF GoodDisks, DiskType
  <2>7. drafts' \in Seq(DraftType')
    BY <1>1, <2>3, <2>6, DraftsSame
  <2>8. DeskTypes'
    BY <1>1, <1>3, <1>4, <2>1, <2>3, <2>7, DeskParts, NowSessions
  <2>9. CmdTypes'
    <3>2. cmd'.op = "adopt" /\ cmd'.id = cmd.id
      BY <1>4 DEF Command
    <3>3. drafts' = drafts
      BY <1>1
    <3> QED
      BY <1>2, <3>2, <3>3 DEF CmdTypes
  <2> QED
    BY <2>1, <2>3, <2>4, <2>5, <2>8, <2>9, DeskGoes
<1>5. CASE UNCHANGED <<disks, listing, saved, raced>> /\ cmd' = NoCmd
  <2>1. UNCHANGED <<sessionsOfDesk, catalogOfDesk>>
    BY <1>1, <1>5 DEF sessionsOfDesk, catalogOfDesk
  <2> QED
    BY <1>1, <1>2, <1>5, <2>1, CatalogStays
<1> QED
  BY <1>4, <1>5 DEF Submit, Runs, Done, SaveFails

(***************************************************************************)
(* The tasks of a rescan.                                                  *)
(***************************************************************************)
LEMMA TasksTyped == ASSUME ClientsInv PROVE Tasks \in SUBSET TaskType
<1>1. ASSUME NEW n \in DisksOf(RemoteDisks)
      PROVE  [id |-> n, disk |-> disks[n].what, mounted |-> MountedAt(n), stale |-> 0] \in TaskType
  <2>1. n \in DOMAIN disks /\ disks[n].what \in RemoteDisks /\ 0 \in Ids0 /\ MountedAt(n) \in BOOLEAN
    BY <1>1, NowSessions DEF DisksOf, MountedAt
  <2> QED
    BY <2>1 DEF TaskType
<1> QED
  BY <1>1 DEF Tasks

LEMMA PlanSet ==
    ASSUME ClientsInv, NEW w, NEW T \in SUBSET TaskType, plan' = [plan EXCEPT ![w] = T]
    PROVE  plan' \in [Scanners -> SUBSET TaskType]
BY NowSessions

LEMMA AdoptInv == ASSUME ClientsInv, UNCHANGED cliOnly, Adopt PROVE ClientsInv'
<1> PICK k : k = cmd.id
  OBVIOUS
<1>1. UNCHANGED <<conn, sess, gw, job, pool, removedQ, managed, disks, listing, bin, saved, found, raced>>
  BY DEF Adopt, netVars, hostVars, backendVars
<1>2. NetBigger /\ k \in DOMAIN drafts
  BY <1>1, QuietNet, CmdNames DEF Adopt, ClientsInv
<1>3. SameDisks
  BY <1>1, DisksStay DEF SameDisks
<1>4. GoodList' /\ saved' = listing'
  BY <1>1, <1>3, ListStays DEF SameDisks, ClientsInv
<1>5. CASE /\ opened' = [d \in RemoteDisks |-> IF d \in Keys(k) THEN drafts[k].items[d] ELSE opened[d]]
           /\ stranded' = stranded \cup {opened[d] : d \in {j \in Keys(k) : opened[j] # 0}}
           /\ drafts' = Disposed(k) /\ plan' = [plan EXCEPT !["ui"] = Tasks]
           /\ cmd' = Command("renew", cmd.id, cmd.disk)
  <2>1. drafts' \in Seq(DraftType) /\ Len(drafts') = Len(drafts)
    BY <1>2, <1>5, DisposedDraft
  <2>2. Bigger /\ drafts' \in Seq(DraftType')
    BY <1>2, <1>3, <2>1, DraftsBigger, NowSessions, NowGood DEF SameDisks
  <2>3. BackendTypes'
    BY <1>1, <2>2, BackendSame
  <2>4. opened' \in [RemoteDisks -> Ids0]
    <3>1. drafts[k].items \in [RemoteDisks -> Ids0]
      BY <1>2, NowSessions DEF DraftType
    <3> QED
      BY <1>5, <3>1, NowSessions
  <2>5. stranded' \subseteq Sessions
    BY <1>5, NowSessions DEF Keys
  <2>6. plan' \in [Scanners -> SUBSET TaskType]
    BY <1>5, TasksTyped, PlanSet
  <2>7. DeskTypes'
    BY <1>1, <1>3, <2>2, <2>4, <2>5, <2>6, DeskParts, NowSessions DEF SameDisks
  <2>8. CmdTypes'
    <3>1. cmd'.op = "renew" /\ cmd'.id = cmd.id
      BY <1>5 DEF Command
    <3>2. DOMAIN drafts' = DOMAIN drafts
      BY <2>1, NowSessions
    <3> QED
      BY <1>2, <3>1, <3>2 DEF CmdTypes
  <2> QED
    BY <1>3, <1>4, <2>2, <2>3, <2>7, <2>8, DeskGoes DEF SameDisks
<1>6. CASE UNCHANGED <<netDiskVars, plan, stranded>> /\ cmd' = NoCmd
  <2>1. UNCHANGED <<sessionsOfDesk, catalogOfDesk>>
    BY <1>1, <1>6 DEF sessionsOfDesk, catalogOfDesk, netDiskVars
  <2> QED
    BY <1>1, <1>2, <1>6, <2>1, CatalogStays
<1> QED
  BY <1>5, <1>6 DEF Adopt, Done

(***************************************************************************)
(* rescan_network_runtimes, and the worker of start_runtime_rescan.        *)
(***************************************************************************)
LEMMA RescannedGood ==
    ASSUME ClientsInv, disks' = RescannedLocal PROVE SameDisks
<1>1. ASSUME NEW n \in DOMAIN disks PROVE GoodDisk(disks'[n])
  <2>1. disks'[n] \in {disks[n], SetInvalid(disks[n]), Probed(disks[n])}
    BY DEF RescannedLocal
  <2> QED
    BY <2>1, NowGood, InvalidDisk, ProbedDisk
<1>2. disks' = [n \in DOMAIN disks |-> disks'[n]]
  BY DEF RescannedLocal
<1> QED
  BY <1>1, <1>2, DisksMapped DEF SameDisks

LEMMA RescanLocalInv == ASSUME ClientsInv, UNCHANGED cliOnly, RescanLocal PROVE ClientsInv'
<1>1. /\ disks' = RescannedLocal
      /\ UNCHANGED <<conn, sess, gw, job, pool, listing, bin, cmd, opened, drafts, found, stranded, raced>>
      /\ plan' = [plan EXCEPT !["rescan"] = Tasks] \/ plan' = plan
      /\ saved' = listing \/ saved' = saved
  BY DEF RescanLocal, netDiskVars, past
<1>2. PICK T \in SUBSET LostTargets : Removed(T)
  BY DEF RescanLocal
<1>3. NetBigger
  BY <1>1, QuietNet DEF ClientsInv
<1>4. SameDisks
  BY <1>1, RescannedGood
<1>5. Bigger
  BY <1>1, <1>3, <1>4, DeskBigger DEF SameDisks
<1>6. T \in SUBSET Targets
  BY TargetThere DEF LostTargets
<1>7. BackendTypes'
  BY <1>1, <1>2, <1>5, <1>6, RemovedTypes, PoolStays
<1>8. GoodList' /\ saved' = listing'
  BY <1>1, <1>4, ListStays DEF SameDisks, ClientsInv
<1>9. plan' \in [Scanners -> SUBSET TaskType]
  BY <1>1, TasksTyped, PlanSet, NowSessions
<1>10. drafts' \in Seq(DraftType')
  BY <1>1, <1>4, <1>5, DraftsSame DEF SameDisks, GoodDisks, DiskType
<1> QED
  BY <1>1, <1>4, <1>5, <1>7, <1>8, <1>9, <1>10, SessionsMove, NowSessions

\* A task of the plan, and what it becomes.
LEMMA FirstTask ==
    ASSUME ClientsInv, NEW w \in Scanners, NEW task \in FirstOf(plan[w])
    PROVE  /\ task \in plan[w] /\ plan[w] \in SUBSET TaskType /\ task \in TaskType
           /\ task.disk \in RemoteDisks /\ opened[task.disk] \in Ids0
           /\ \A s \in Ids0 : Stale(task, s) \in TaskType
<1>1. task \in plan[w] /\ plan[w] \in SUBSET TaskType
  BY NowSessions DEF FirstOf
<1>2. task \in TaskType
  BY <1>1
<1>3. task.disk \in RemoteDisks /\ \A s \in Ids0 : Stale(task, s) \in TaskType
  BY <1>2 DEF TaskType, Stale
<1> QED
  BY <1>1, <1>2, <1>3, NowSessions

LEMMA FoundSet ==
    ASSUME ClientsInv, NEW w \in Scanners, NEW task \in TaskType, NEW s \in Ids0,
           NEW source \in {"existing", "fresh", "failure"},
           found' = [found EXCEPT ![w] = @ \cup {[task |-> task, sid |-> s, source |-> source]}]
    PROVE  found' \in [Scanners -> SUBSET FoundType]
<1>1. PICK o : o = [task |-> task, sid |-> s, source |-> source]
  OBVIOUS
<1>2. o \in FoundType
  BY <1>1 DEF FoundType
<1>3. found' = [found EXCEPT ![w] = @ \cup {o}]
  BY <1>1
<1> QED
  BY <1>2, <1>3, NowSessions

LEMMA PlanLess ==
    ASSUME ClientsInv, NEW w \in Scanners, NEW task, plan' = [plan EXCEPT ![w] = @ \ {task}]
    PROVE  plan' \in [Scanners -> SUBSET TaskType]
BY NowSessions

\* A rescan observes: the catalog and the sessions of the desktop stay.
LEMMA ScansOn ==
    ASSUME ClientsInv, NetBigger, UNCHANGED cliOnly, UNCHANGED catalogOfDesk,
           UNCHANGED <<opened, drafts, stranded, raced, removedQ, managed, cmd>>,
           pool' \in {0, pool} \/ pool' \in 0..Len(conn'),
           plan' \in [Scanners -> SUBSET TaskType], found' \in [Scanners -> SUBSET FoundType]
    PROVE  ClientsInv'
<1>1. SameDisks
  BY DisksStay DEF SameDisks, catalogOfDesk
<1>2. Bigger
  BY <1>1, DeskBigger DEF SameDisks
<1>3. BackendTypes'
  BY <1>2, PoolStays, PoolTypes
<1>4. GoodList' /\ saved' = listing'
  BY <1>1, ListStays DEF SameDisks, catalogOfDesk, ClientsInv
<1>5. drafts' \in Seq(DraftType')
  BY <1>1, <1>2, DraftsSame DEF SameDisks, GoodDisks, DiskType
<1> QED
  BY <1>1, <1>2, <1>3, <1>4, <1>5, SessionsMove, NowSessions

LEMMA ObserveInv == ASSUME ClientsInv, UNCHANGED cliOnly, NEW w \in Scanners, Observe(w) PROVE ClientsInv'
<1>1. /\ UNCHANGED <<catalogOfDesk, opened, drafts, stranded, raced, removedQ, managed, cmd>>
      /\ Idle(w)
  BY DEF Observe, ScanVars, catalogOfDesk, backendVars, netDiskVars, past
<1>2. PICK task \in FirstOf(plan[w]) :
         LET s == opened[task.disk] IN
         IF Usable(s)
         THEN Observed(w, task, s, "existing") /\ UNCHANGED <<netVars, pool>>
         ELSE /\ plan' = [plan EXCEPT ![w] = (@ \ {task}) \cup {Stale(task, s)}]
              /\ UNCHANGED found /\ RoomForSession
              /\ \E c \in {pool, Len(conn) + 1} : Acquired(c) /\ pool' = c /\ Begins(w, c, task.disk)
              /\ UNCHANGED <<sess, gw, notices, faults>>
  BY DEF Observe
<1> PICK s : s = opened[task.disk]
  OBVIOUS
<1>3. task \in TaskType /\ task.disk \in RemoteDisks /\ s \in Ids0 /\ Stale(task, s) \in TaskType
  BY FirstTask
<1>4. CASE Observed(w, task, s, "existing") /\ UNCHANGED <<netVars, pool>>
  <2>1. NetBigger
    BY <1>4, QuietNet DEF netVars, ClientsInv
  <2>2. plan' \in [Scanners -> SUBSET TaskType] /\ found' \in [Scanners -> SUBSET FoundType]
    BY <1>3, <1>4, PlanLess, FoundSet DEF Observed
  <2> QED
    BY <1>1, <1>4, <2>1, <2>2, ScansOn
<1>5. ASSUME NEW c, Acquired(c), pool' = c, Begins(w, c, task.disk), UNCHANGED <<sess, gw, found>>,
             plan' = [plan EXCEPT ![w] = (@ \ {task}) \cup {Stale(task, s)}]
      PROVE  ClientsInv'
  <2>1. ConnsLess /\ SameSessions /\ StillUp /\ c \in 1..Len(conn') /\ c \in Nat
    BY <1>5, AcquiredHost DEF ClientsInv, TypeOK, BackendTypes
  <2> PICK d \in RemoteDisks : d = task.disk
    BY <1>3
  <2>2. HostJob
    BY <1>1, <1>5, <2>1, UiThere, BeginsHost DEF ClientsInv
  <2>3. NetBigger
    BY <2>1, <2>2, HostNet DEF HostStep, ClientsInv
  <2>4. pool' \in 0..Len(conn')
    BY <1>5, <2>1
  <2>5. plan' \in [Scanners -> SUBSET TaskType]
    BY <1>3, <1>5, NowSessions
  <2> QED
    BY <1>1, <1>5, <2>3, <2>4, <2>5, ScansOn, NowSessions
<1> QED
  BY <1>2, <1>4, <1>5

LEMMA ObserveFailsInv == ASSUME ClientsInv, UNCHANGED cliOnly, NEW w \in Scanners, ObserveFails(w) PROVE ClientsInv'
<1>1. UNCHANGED <<catalogOfDesk, opened, drafts, stranded, raced, removedQ, managed, cmd, sess, gw, pool>>
  BY DEF ObserveFails, ScanVars, catalogOfDesk, backendVars, netDiskVars, past
<1>2. PICK task \in FirstOf(plan[w]) :
         LET s == opened[task.disk] IN
         \/ /\ Idle(w) /\ ~Up(pool) /\ ~Usable(s)
            /\ found' = [found EXCEPT ![w] = @ \cup {[task |-> Stale(task, s), sid |-> 0, source |-> "failure"]}]
            /\ plan' = [plan EXCEPT ![w] = @ \ {task}] /\ UNCHANGED <<conn, job>>
         \/ /\ At(w, "authed") /\ Observed(w, task, 0, "failure") /\ job' = ClearJob(w)
            /\ conn' = [conn EXCEPT ![job[w].conn] = LessGrant(@)]
  BY DEF ObserveFails
<1> PICK s : s = opened[task.disk]
  OBVIOUS
<1> PICK c : c = job[w].conn
  OBVIOUS
<1>3. /\ task \in TaskType /\ task.disk \in RemoteDisks /\ s \in Ids0 /\ Stale(task, s) \in TaskType
      /\ 0 \in Ids0 /\ w \in Threads
  BY FirstTask, NowSessions, UiThere
<1>4. PICK other : other = Stale(task, s)
  OBVIOUS
<1>5. \E t \in TaskType : found' = [found EXCEPT ![w] = @ \cup {[task |-> t, sid |-> 0, source |-> "failure"]}]
  <2>1. \/ found' = [found EXCEPT ![w] = @ \cup {[task |-> task, sid |-> 0, source |-> "failure"]}]
        \/ found' = [found EXCEPT ![w] = @ \cup {[task |-> other, sid |-> 0, source |-> "failure"]}]
    BY <1>2, <1>4 DEF Observed
  <2> QED
    BY <1>3, <1>4, <2>1
<1>6. found' \in [Scanners -> SUBSET FoundType]
  BY <1>3, <1>5, FoundSet
<1>7. plan' \in [Scanners -> SUBSET TaskType]
  <2>1. plan' = [plan EXCEPT ![w] = @ \ {task}]
    BY <1>2 DEF Observed
  <2> QED
    BY <2>1, PlanLess
<1>8. NetBigger
  <2>1. CASE UNCHANGED <<conn, job>>
    BY <1>1, <2>1, QuietNet DEF ClientsInv
  <2>2. CASE At(w, "authed") /\ job' = ClearJob(w) /\ GivesGrant(c)
    <3>1. c \in Conns
      BY <1>3, <2>2, ThreadFacts DEF At, Before, ClientsInv
    <3>2. ConnsLess /\ SameSessions /\ StillUp
      BY <1>1, <2>2, <3>1, GrantHost DEF ClientsInv
    <3> QED
      BY <1>3, <2>2, <3>2, ClearNet DEF At, Asking, ClientsInv
  <2> QED
    BY <1>2, <2>1, <2>2 DEF GivesGrant
<1> QED
  BY <1>1, <1>6, <1>7, <1>8, ScansOn

LEMMA ObserveEndsInv == ASSUME ClientsInv, UNCHANGED cliOnly, NEW w \in Scanners, ObserveEnds(w) PROVE ClientsInv'
<1>1. /\ UNCHANGED <<catalogOfDesk, opened, drafts, stranded, raced, removedQ, managed, cmd>>
      /\ job[w].st \in {"failed", "orphan", "undescribed", "described"} /\ job' = ClearJob(w)
      /\ \/ CloseAndRelease({job[w].sid}, pool)
         \/ UNCHANGED <<conn, sess, gw, pool>>
  BY DEF ObserveEnds, ScanVars, catalogOfDesk, backendVars, netDiskVars, past
<1>2. PICK task \in FirstOf(plan[w]) :
         IF At(w, "described") THEN Observed(w, task, job[w].sid, "fresh") ELSE Observed(w, task, 0, "failure")
  BY DEF ObserveEnds
<1>3. task \in TaskType /\ 0 \in Ids0 /\ job[w].sid \in Ids0 /\ w \in Threads
  BY FirstTask, NowSessions, UiThere, SidFacts DEF ClientsInv
<1>4. found' \in [Scanners -> SUBSET FoundType] /\ plan' \in [Scanners -> SUBSET TaskType]
  <2>1. PICK sid : sid = job[w].sid
    OBVIOUS
  <2>2. CASE Observed(w, task, sid, "fresh")
    BY <1>3, <2>1, <2>2, FoundSet, PlanLess DEF Observed
  <2>3. CASE Observed(w, task, 0, "failure")
    BY <1>3, <2>3, FoundSet, PlanLess DEF Observed
  <2> QED
    BY <1>2, <2>1, <2>2, <2>3
<1>5. ConnsLess /\ SameSessions /\ StillUp /\ pool' \in {0, pool}
  BY <1>1, ReleaseHost, QuietHost DEF ClientsInv
<1>6. NetBigger
  BY <1>1, <1>3, <1>5, ClearNet DEF Asking, ClientsInv
<1> QED
  BY <1>1, <1>4, <1>5, <1>6, ScansOn

(***************************************************************************)
(* commit_server_actions.                                                  *)
(***************************************************************************)
LEMMA AppliedGood ==
    ASSUME ClientsInv, NEW F, disks' = Applied(F) PROVE SameDisks
<1>1. ASSUME NEW n \in DOMAIN disks PROVE GoodDisk(disks'[n])
  <2>1. disks'[n] \in {disks[n], SetUnmounted(n)[n], SetInvalid(disks[n])}
    BY DEF Applied
  <2> QED
    BY <2>1, NowGood, InvalidDisk, UnmountedDisk
<1>2. disks' = [n \in DOMAIN disks |-> disks'[n]]
  BY DEF Applied
<1> QED
  BY <1>1, <1>2, DisksMapped DEF SameDisks

LEMMA CommitInv == ASSUME ClientsInv, UNCHANGED cliOnly, NEW w \in Scanners, Commit(w) PROVE ClientsInv'
<1> PICK F : F = found[w]
  OBVIOUS
<1> PICK left : left = [d \in RemoteDisks |-> IF d \in Forgets(F) THEN 0 ELSE opened[d]]
  OBVIOUS
<1> PICK fresh : fresh = {o.task.disk : o \in Inserts(F)}
  OBVIOUS
<1>1. /\ UNCHANGED <<job, listing, bin, plan, drafts, raced>> /\ cmd' \in {cmd, NoCmd}
      /\ \/ UNCHANGED <<conn, sess, gw, pool>>
         \/ CloseAndRelease(Closes(F), pool)
      /\ opened' = [d \in RemoteDisks |->
                      IF d \in fresh THEN (CHOOSE o \in Inserts(F) : o.task.disk = d).sid ELSE left[d]]
      /\ stranded' = stranded \cup {left[d] : d \in {e \in fresh : left[e] # 0}}
      /\ Detaches(Touched(F)) /\ disks' = Applied(F)
      /\ saved' = listing \/ saved' = saved
      /\ found' = [found EXCEPT ![w] = {}]
  BY DEF Commit, Done
<1>2. F \in SUBSET FoundType
  BY NowSessions
<1>3. NetBigger /\ pool' \in {0, pool}
  BY <1>1, QuietNet, ReleaseNet DEF ClientsInv
<1>4. SameDisks
  BY <1>1, AppliedGood
<1>5. Bigger
  BY <1>1, <1>3, <1>4, DeskBigger DEF SameDisks
<1>6. Touched(F) \in SUBSET DOMAIN disks
  BY <1>2 DEF Touched, FoundType, TaskType
<1>7. BackendTypes'
  BY <1>1, <1>3, <1>5, <1>6, DetachesTypes, PoolStays
<1>8. GoodList' /\ saved' = listing'
  BY <1>1, <1>4, ListStays DEF SameDisks, ClientsInv
<1>9. drafts' \in Seq(DraftType')
  BY <1>1, <1>4, <1>5, DraftsSame DEF SameDisks, GoodDisks, DiskType
<1>10. left \in [RemoteDisks -> Ids0]
  BY NowSessions
<1>11. Inserts(F) \subseteq FoundType
  BY <1>2 DEF Inserts
<1>12. fresh \subseteq RemoteDisks
  BY <1>11 DEF FoundType, TaskType
<1>13. opened' \in [RemoteDisks -> Ids0]
  <2>1. ASSUME NEW d \in fresh PROVE (CHOOSE o \in Inserts(F) : o.task.disk = d).sid \in Ids0
    <3>1. PICK o : o = CHOOSE p \in Inserts(F) : p.task.disk = d
      OBVIOUS
    <3>2. \E p \in Inserts(F) : p.task.disk = d
      OBVIOUS
    <3>3. o \in Inserts(F)
      BY <3>1, <3>2
    <3>4. o.sid \in Ids0
      BY <1>11, <3>3 DEF FoundType
    <3> QED
      BY <3>1, <3>4
  <2> QED
    BY <1>1, <1>10, <2>1
<1>14. stranded' \subseteq Sessions
  BY <1>1, <1>10, <1>12, NowSessions
<1>15. found' \in [Scanners -> SUBSET FoundType]
  BY <1>1, NowSessions
<1> QED
  BY <1>1, <1>4, <1>5, <1>7, <1>8, <1>9, <1>13, <1>14, <1>15, SessionsMove, NowSessions

(***************************************************************************)
(* Every step of the desktop client; the start; the theorems.              *)
(***************************************************************************)
LEMMA LocalCommandInv ==
    ASSUME ClientsInv, UNCHANGED cliOnly, UNCHANGED deskOnly, LocalCommand PROVE ClientsInv'
BY CreateInv, MountLocalInv, EjectLocalInv, DeleteLocalInv, UndoInv DEF LocalCommand

LEMMA NetCommandInv == ASSUME ClientsInv, UNCHANGED cliOnly, NetCommand PROVE ClientsInv'
BY MountNetworkInv, MountMissesInv, EjectNetworkInv, DeleteNetworkInv, AddStartsInv, AddOpensInv, AddEndsInv,
   SubmitInv, AdoptInv DEF NetCommand

LEMMA RescanInv == ASSUME ClientsInv, UNCHANGED cliOnly, Rescan PROVE ClientsInv'
<1>1. CASE StartRescan \/ RescanLock
  BY <1>1, DeskLocksInv
<1>2. CASE RescanLocal
  BY <1>2, RescanLocalInv
<1>3. ASSUME NEW w \in Scanners, Observe(w) \/ ObserveFails(w) \/ ObserveOpens(w) \/ ObserveEnds(w) \/ Commit(w)
      PROVE  ClientsInv'
  <2>1. CASE ObserveOpens(w)
    <3>1. UNCHANGED <<hostVars, catalogOnly, deskOnly>>
      BY <2>1 DEF ObserveOpens
    <3> QED
      BY <2>1, <3>1, DeskBeneathInv
  <2> QED
    BY <1>3, <2>1, ObserveInv, ObserveFailsInv, ObserveEndsInv, CommitInv
<1> QED
  BY <1>1, <1>2, <1>3 DEF Rescan

LEMMA DesktopNextInv == ASSUME ClientsInv, UNCHANGED cliOnly, DesktopNext PROVE ClientsInv'
<1>1. CASE DeskCommand \/ DeskWatch \/ DeskSync
  BY <1>1, DeskCommandInv, DeskWatchInv, DeskSyncInv
<1>2. CASE DeskLock \/ DeskWatched \/ (LoseFile /\ UNCHANGED deskOnly)
  BY <1>2, DeskLocksInv
<1>3. CASE NetCommand \/ DraftCommand \/ Rescan
  BY <1>3, NetCommandInv, DraftCommandInv, RescanInv
<1>4. CASE (LocalCommand \/ Restart) /\ UNCHANGED deskOnly
  BY <1>4, LocalCommandInv, RestartInv
<1>5. CASE \E c \in Conns : DeskHandlers(c)
  BY <1>5, DeskHandlersInv
<1>6. CASE DeskIo("io") \/ DeskInvalidate("io")
  BY <1>6, DeskMediaInv
<1>7. CASE Beneath /\ UNCHANGED <<hostVars, catalogOnly, deskOnly>>
  BY <1>7, DeskBeneathInv
<1> QED
  BY <1>1, <1>2, <1>3, <1>4, <1>5, <1>6, <1>7 DEF DesktopNext

LEMMA StutterInv == ASSUME ClientsInv, UNCHANGED vars PROVE ClientsInv'
<1>1. NetBigger
  BY QuietNet DEF vars, netVars, ClientsInv
<1>2. UNCHANGED <<cliOnly, sessionsOfDesk, catalogOfDesk, removedQ, managed, cmd, pool>>
  BY DEF vars, sessionsOfDesk, catalogOfDesk, hostVars, backendVars, catalogOnly, deskOnly, netDiskVars, scanVars, past
<1> QED
  BY <1>1, <1>2, CatalogStays

LEMMA NextInv == ASSUME ClientsInv, [Next]_vars PROVE ClientsInv'
<1>1. CASE CliNext /\ UNCHANGED <<catalogOnly, deskOnly>>
  BY <1>1, CliNextInv DEF CliStep
<1>2. CASE DesktopNext /\ UNCHANGED cliOnly
  BY <1>2, DesktopNextInv
<1> QED
  BY <1>1, <1>2, StutterInv DEF Next

LEMMA StartsTyped == ASSUME Init PROVE ClientsInv
<1>1. PICK w \in Workloads : HostInit(w) /\ CliInit /\ CatalogInit(w) /\ DesktopInit
  BY DEF Init
<1>2. NetInv
  BY <1>1, NetInitInv DEF HostInit
<1>3. conn = <<>> /\ sess = <<>> /\ Len(conn) = 0 /\ Len(sess) = 0 /\ Ids0 = {0} /\ Sessions = {}
  BY <1>1 DEF HostInit, NetInit, Ids0, Sessions
<1> PICK ds : ds = w.disks
  OBVIOUS
<1>4. /\ ds \in Seq([kind : {"net", "file", "mem"}, what : RemoteDisks \cup Files \cup {"ram"}])
      /\ \A n \in DOMAIN ds : ds[n].kind = "net" => ds[n].what \in RemoteDisks
  BY CatalogAssumption DEF CatalogAssumption
<1> PICK l \in Nat : l = Len(ds) /\ DOMAIN ds = 1..l
  BY <1>4
<1>5. listing = [n \in 1..l |-> n] /\ saved = listing /\ disks = Restored(listing, ds) /\ bin = {} /\ cmd = NoCmd
  BY <1>1 DEF CatalogInit
<1>6. \A m \in 1..l : /\ ds[m].kind \in {"net", "file", "mem"}
                      /\ ds[m].what \in RemoteDisks \cup Files \cup {"ram"}
                      /\ ds[m].kind = "net" => ds[m].what \in RemoteDisks
  <2>1. ASSUME NEW m \in 1..l
        PROVE  ds[m] \in [kind : {"net", "file", "mem"}, what : RemoteDisks \cup Files \cup {"ram"}]
    <3>1. \A R, q : q \in Seq(R) => \A i \in DOMAIN q : q[i] \in R
      OBVIOUS
    <3>2. m \in DOMAIN ds
      BY <2>1
    <3> QED
      BY <1>4, <3>1, <3>2, Zenon
  <2>2. ASSUME NEW r \in [kind : {"net", "file", "mem"}, what : RemoteDisks \cup Files \cup {"ram"}]
        PROVE  r.kind \in {"net", "file", "mem"} /\ r.what \in RemoteDisks \cup Files \cup {"ram"}
    OBVIOUS
  <2>3. ASSUME NEW m \in 1..l
        PROVE  /\ ds[m].kind \in {"net", "file", "mem"}
               /\ ds[m].what \in RemoteDisks \cup Files \cup {"ram"}
               /\ ds[m].kind = "net" => ds[m].what \in RemoteDisks
    BY <1>4, <2>1, <2>2
  <2> QED
    BY <2>3
<1>7. disks \in Seq(DiskType) /\ Len(disks) = l /\ \A m \in 1..l : GoodDisk(disks[m])
  <2>1. PICK r : r = Restored(listing, ds)
    OBVIOUS
  <2>2. r \in Seq(DiskType) /\ Len(r) = l /\ \A m \in 1..l : GoodDisk(r[m])
    <3>1. DOMAIN ds = 1..l
      OBVIOUS
    <3>2. /\ Restored(listing, ds) \in Seq(DiskType) /\ Len(Restored(listing, ds)) = l
          /\ \A m \in 1..l : GoodDisk(Restored(listing, ds)[m])
      BY ONLY <1>6, <3>1, l \in Nat, RestoredGood, Zenon
    <3> QED
      BY <2>1, <3>2
  <2> QED
    BY <1>5, <2>1, <2>2
<1>8. DOMAIN disks = 1..l
  BY <1>7
<1>9. GoodDisks
  BY <1>7, <1>8 DEF GoodDisks
<1>10. GoodList
  <2>1. listing \in Seq(1..l) /\ IsInjective(listing)
    BY <1>5 DEF IsInjective
  <2> QED
    BY <1>5, <1>8, <2>1 DEF GoodList
<1>11. CatalogTypes
  BY <1>9, <1>10, CatalogParts
<1>12. BackendTypes
  <2>1. NoDisk \in MediaType /\ NoDisk.kind = "none"
    BY <1>7 DEF NoDisk, MediaType
  <2>2. managed = [t \in Targets |-> NoDisk] /\ removedQ = {} /\ pool = 0
    BY <1>1 DEF HostInit
  <2> HIDE DEF NoDisk, MediaType
  <2> QED
    BY <1>3, <2>1, <2>2 DEF BackendTypes
<1>13. CliTypes
  <2>1. memory = <<>> /\ binding = [t \in Targets |-> Unbound] /\ mounted = [t \in Targets |-> 0]
        /\ marks = {} /\ changed = {} /\ marking = {}
    BY <1>1 DEF CliInit
  <2>2. MemoryTypes
    BY <2>1 DEF MemoryTypes, Unbound
  <2> QED
    BY <1>3, <2>1, <2>2 DEF CliTypes
<1>14. CmdTypes
  BY <1>5 DEF CmdTypes, NoCmd
<1>15. DeskTypes
  BY <1>1, <1>3 DEF DeskTypes, DesktopInit, NoItems
<1> QED
  BY <1>2, <1>5, <1>11, <1>12, <1>13, <1>14, <1>15 DEF ClientsInv, TypeOK, NetInv

\* The invariant that carries the others holds throughout every behaviour of
\* either program: whatever the order of commands, callbacks of the receive
\* loop, rescans and failures.
THEOREM ClientsInvariant == Spec => []ClientsInv
BY StartsTyped, NextInv, PTL DEF Spec

\* Every session, target, disk, draft and memory area that a table of the two
\* programs names is one there is, and no disk is listed twice or both listed
\* and in the bin (DiskCatalogState, OpenedSessionTable, DraftStore, CliHost).
THEOREM TypesHold == Spec => []TypeOK
<1>1. ClientsInv => TypeOK
  BY DEF ClientsInv
<1> QED
  BY <1>1, ClientsInvariant, PTL

\* Whoever waits for an answer of the gateway has someone to answer it: the
\* gateway, the receive loop, or the failure of the connection (NetClient).
THEOREM WaitersAreReleased == Spec => []WaiterHasReleaser
<1>1. ClientsInv => WaiterHasReleaser
  BY DEF ClientsInv, NetInv
<1> QED
  BY <1>1, ClientsInvariant, PTL

\* The saved list is the list: each command saves what it changes, or undoes
\* its change when the save fails (save_client_state).
THEOREM ListIsSaved == Spec => []SavedAgrees
<1>1. ClientsInv => SavedAgrees
  BY DEF ClientsInv, SavedAgrees
<1> QED
  BY <1>1, ClientsInvariant, PTL

(***************************************************************************)
(* What serves a mounted disk.  A step of network-core or of the gateway   *)
(* neither begins nor ends what a host thread does about a disk, and the   *)
(* disk of a session never changes.                                        *)
(***************************************************************************)
AboutDisk == {"idle", "created", "removing"}
JobQuiet(t) ==
    /\ job[t].st \in AboutDisk => job'[t].st = job[t].st /\ job'[t].sid = job[t].sid /\ job'[t].disk = job[t].disk
    /\ job'[t].st \in {"created", "removing"} => job'[t].st = job[t].st
    /\ job[t].st \notin {"idle", "io"} => job'[t].st \notin {"idle", "io"}
SessKept == \A s \in Sessions : s \in DOMAIN sess' /\ sess'[s].disk = sess[s].disk

LEMMA OneQuiet ==
    ASSUME NEW t \in Threads, JobOnly(t), job[t].st \notin AboutDisk, job'[t].st \notin {"created", "removing"},
           job[t].st = "io" \/ job'[t].st \notin {"idle", "io"}
    PROVE  \A u \in Threads : JobQuiet(u)
BY DEF JobOnly, JobQuiet

LEMMA SameQuiet == ASSUME job' = job PROVE \A u \in Threads : JobQuiet(u)
BY DEF JobQuiet

\* Only the answer of some threads changes, or what the answer brings.
LEMMA AnswerQuiet ==
    ASSUME \A u \in Threads : \/ job'[u] = job[u]
                              \/ job'[u].st = job[u].st /\ job[u].st \notin AboutDisk
                              \/ job'[u].st = job[u].st /\ job'[u].sid = job[u].sid /\ job'[u].disk = job[u].disk
    PROVE  \A u \in Threads : JobQuiet(u)
BY DEF JobQuiet

LEMMA SameKept == ASSUME sess' = sess PROVE SessKept
BY DEF SessKept, Sessions

LEMMA StateKept ==
    ASSUME sess \in Seq(SessType), NEW s \in Sessions, NEW st \in {"granted", "open", "closed", "terminal"},
           sess' = [sess EXCEPT ![s].st = st]
    PROVE  SessKept
<1> PICK q : q = [sess[s] EXCEPT !.st = st]
  OBVIOUS
<1>1. sess[s] \in SessType
  BY DEF Sessions
<1>2. q.disk = sess[s].disk
  BY <1>1, SessSet
<1>3. sess' = [sess EXCEPT ![s] = q]
  OBVIOUS
<1> QED
  BY <1>2, <1>3 DEF SessKept, Sessions

LEMMA CallerQuiet ==
    ASSUME NetInv, NEW t \in Threads, CallerStep(t) PROVE SessKept /\ \A u \in Threads : JobQuiet(u)
<1>1. NetTypes /\ job \in [Threads -> JobType]
  BY DEF NetInv, NetTypes
<1>2. CASE Send(t)
  <2>1. \A u \in Threads : /\ u # t => job'[u] = job[u]
                           /\ job'[t].st = job[t].st /\ job'[t].sid = job[t].sid /\ job'[t].disk = job[t].disk
    BY <1>1, <1>2 DEF Send, JobType
  <2>2. sess' = sess
    BY <1>2 DEF Send
  <2> QED
    BY <2>1, <2>2, AnswerQuiet, SameKept
<1>3. CASE BeginAuth(t) \/ StartReturns(t) \/ FinishReturns(t) \/ RegisterGrant(t) \/ OpenReturns(t) \/ DescribeReturns(t)
  <2>1. /\ job[t].st \notin AboutDisk /\ sess' = sess
        /\ \E st \in {"failed", "granting", "authed", "opened", "described", "undescribed", "start", "finish"} :
              job' = StayJob(t, st) \/ job' = Request(t, st)
    BY <1>3 DEF BeginAuth, StartReturns, FinishReturns, RegisterGrant, OpenReturns, DescribeReturns, At, AboutDisk
  <2>2. PICK st \in {"failed", "granting", "authed", "opened", "described", "undescribed", "start", "finish"} :
              job' = StayJob(t, st) \/ job' = Request(t, st)
    BY <2>1
  <2>3. st \in JobStates
    BY DEF JobStates, Before, After, Asking
  <2>4. JobOnly(t) /\ job'[t].st = st
    BY <1>1, <2>2, <2>3, StayEffect, RequestEffect
  <2> QED
    BY <2>1, <2>4, OneQuiet, SameKept
<1>4. CASE Attach(t)
  <2>1. At(t, "opened") /\ (job' = Request(t, "describe") \/ job' = StayJob(t, "orphan"))
    BY <1>4 DEF Attach
  <2>2. JobOnly(t) /\ job'[t].st \in {"describe", "orphan"}
    BY <1>1, <2>1, StayEffect, RequestEffect DEF JobStates, Before, After, Asking
  <2>3. SessKept
    <3>1. sess' = sess \/ sess' = [sess EXCEPT ![job[t].sid].st = "open"]
      BY <1>4 DEF Attach
    <3>2. sess \in Seq(SessType) /\ job[t].sid \in Sessions
      BY <1>1, <2>1, ThreadFacts DEF NetTypes, SidOK, Names, After, At
    <3> QED
      BY <3>1, <3>2, StateKept, SameKept
  <2> QED
    BY <2>1, <2>2, <2>3, OneQuiet DEF At, AboutDisk
<1>5. CASE IoContinues(t) \/ IoEnds(t)
  <2>1. At(t, "io") /\ sess' = sess
    BY <1>5 DEF IoContinues, IoEnds, IoReturned, Chunk
  <2>2. JobOnly(t) /\ job'[t].st \in {"io", "idle"}
    <3>1. CASE IoEnds(t)
      BY <1>1, <3>1, ClearEffect DEF IoEnds, IdleJob
    <3>2. CASE IoContinues(t)
      <4> PICK j : j = [st |-> "io", ans |-> "pending", conn |-> sess[job[t].sid].conn, disk |-> "none",
                        sid |-> job[t].sid, left |-> job[t].left - 1]
        OBVIOUS
      <4>1. job' = [job EXCEPT ![t] = j] /\ job[t].left > 1 /\ job[t].sid \in Sessions
        BY <3>2 DEF IoContinues, Chunk, Usable
      <4>2. job[t] \in JobType /\ sess[job[t].sid] \in SessType
        BY <1>1, <4>1 DEF NetTypes, Sessions
      <4>3. job[t].left - 1 \in 0..IoChunks /\ job[t].sid \in Nat /\ sess[job[t].sid].conn \in Nat
        BY <4>1, <4>2, NetAssumption DEF JobType, SessType, NetAssumption
      <4>4. j \in JobType /\ j.st = "io"
        BY <4>3 DEF JobType, JobStates, Asking
      <4> QED
        BY <1>1, <4>1, <4>4, JobSet
    <3> QED
      BY <1>5, <3>1, <3>2
  <2> QED
    BY <2>1, <2>2, OneQuiet, SameKept DEF At, AboutDisk
<1> QED
  BY <1>2, <1>3, <1>4, <1>5 DEF CallerStep

LEMMA LoopQuiet ==
    ASSUME NetInv, NEW c \in Conns,
           TakeReply(c) \/ LoseConnection(c) \/ HandleDisconnect(c)
               \/ \E s \in Sessions : TakeClose(c, s) \/ TakeChanged(c, s)
    PROVE  SessKept /\ \A u \in Threads : JobQuiet(u)
<1>1. job \in [Threads -> JobType]
  BY SMTT(30) DEF NetInv, NetTypes
<1>2. sess' = sess
  BY DEF TakeReply, LoseConnection, HandleDisconnect, TakeClose, TakeChanged
<1>3. CASE TakeReply(c)
  <2> PICK m : m = Head(conn[c].inbox)
    OBVIOUS
  <2>1. /\ Up(c) /\ conn[c].inbox # <<>> /\ m.kind = "reply"
        /\ job' = [job EXCEPT ![m.to].ans = m.ans, ![m.to].sid = IF m.sid = 0 THEN @ ELSE m.sid]
    BY <1>3 DEF TakeReply, Arrives
  <2>2. conn[c].inbox \in Seq(Message)
    BY ConnFields DEF NetInv
  <2>3. 1 \in DOMAIN conn[c].inbox /\ m = conn[c].inbox[1]
    BY <2>1, <2>2
  <2>4. ASSUME NEW u \in Threads, u = m.to PROVE job'[u].st = job[u].st /\ job[u].st \notin AboutDisk
    <3>1. job[u].ans = "served"
      BY <2>1, <2>3, <2>4 DEF InboxOK, ReplyAt, NetInv
    <3>2. job[u].st \in Asking
      BY <3>1, ThreadFacts
    <3> PICK a, b : a = m.ans /\ b = IF m.sid = 0 THEN job[u].sid ELSE m.sid
      BY ZenonT(30)
    <3>3. job' = [job EXCEPT ![u] = [job[u] EXCEPT !.ans = a, !.sid = b]]
      BY <2>1, <2>4, ZenonT(30)
    <3>4. job'[u] = [job[u] EXCEPT !.ans = a, !.sid = b] /\ job[u] \in JobType
      BY <1>1, <3>3, SMTT(30)
    <3>5. job'[u].st = job[u].st
      BY <3>4, SMTT(30) DEF JobType
    <3> QED
      BY <3>2, <3>5, SMTT(30) DEF Asking, AboutDisk
  <2>5. \A u \in Threads : u # m.to => job'[u] = job[u]
    BY <1>1, <2>1
  <2> QED
    BY <1>2, <2>4, <2>5, AnswerQuiet, SameKept
<1>4. CASE HandleDisconnect(c)
  <2>1. \A u \in Threads : job'[u] = job[u] \/ job'[u] = [job[u] EXCEPT !.ans = "lost"]
    BY <1>4 DEF HandleDisconnect
  <2>2. \A u \in Threads : job'[u].st = job[u].st /\ job'[u].sid = job[u].sid /\ job'[u].disk = job[u].disk
    BY <1>1, <2>1, ZenonT(60) DEF JobType
  <2> QED
    BY <1>2, <2>2, AnswerQuiet, SameKept
<1> QED
  BY <1>2, <1>3, <1>4, SameQuiet, SameKept DEF LoseConnection, TakeClose, TakeChanged

LEMMA OutsideQuiet ==
    ASSUME NetInv, Gateway \/ Trouble PROVE SessKept /\ \A u \in Threads : JobQuiet(u)
<1>1. job \in [Threads -> JobType] /\ sess \in Seq(SessType)
  BY DEF NetInv, NetTypes
<1>2. sess' = sess \/ \E r : sess' = Append(sess, r)
  BY ZenonT(60) DEF Gateway, Trouble, Serve, Refuse, CloseByGateway, TellChanged, BreakLink
<1>3. SessKept
  BY <1>1, <1>2, SMTT(30) DEF SessKept, Sessions
<1>4. job' = job \/ \E t \in Threads : job' = [job EXCEPT ![t].ans = "served"]
  BY ZenonT(60) DEF Gateway, Trouble, Serve, Refuse, Reply, CloseByGateway, TellChanged, BreakLink
<1>5. ASSUME NEW u \in Threads
      PROVE  job'[u] = job[u] \/ (job'[u].st = job[u].st /\ job'[u].sid = job[u].sid /\ job'[u].disk = job[u].disk)
  <2>1. CASE job' = job
    BY <2>1
  <2>2. ASSUME NEW t \in Threads, job' = [job EXCEPT ![t].ans = "served"]
        PROVE  job'[u] = job[u] \/ (job'[u].st = job[u].st /\ job'[u].sid = job[u].sid /\ job'[u].disk = job[u].disk)
    <3>1. job'[u] = job[u] \/ job'[u] = [job[u] EXCEPT !.ans = "served"]
      BY <1>1, <2>2
    <3>2. job[u] \in JobType
      BY <1>1
    <3> QED
      BY <3>1, <3>2 DEF JobType
  <2> QED
    BY <1>4, <2>1, <2>2
<1> QED
  BY <1>3, <1>5, AnswerQuiet

LEMMA BeneathQuiet == ASSUME NetInv, Beneath PROVE SessKept /\ \A u \in Threads : JobQuiet(u)
BY CallerQuiet, LoopQuiet, OutsideQuiet DEF Beneath, Library, LoopStep

\* The requests of the media, made by the thread of the backend.
LEMMA MediaQuiet ==
    ASSUME NetInv, MediaIo("io") \/ \E s \in Sessions : MediaFails("io", s), "io" \in Threads
    PROVE  SessKept /\ \A u \in Threads \ {"io"} : JobQuiet(u)
<1>1. job \in [Threads -> JobType] /\ sess \in Seq(SessType) /\ NetTypes
  BY DEF NetInv, NetTypes
<1>2. sess' = sess \/ \E s \in Sessions : sess' = SessTerminal(s)
  BY DEF MediaIo, MediaFails, IoStarts, IoFails, Chunk
<1>3. SessKept
  BY <1>1, <1>2, StateKept, SameKept DEF SessTerminal
<1>4. \E j : job' = [job EXCEPT !["io"] = j]
  BY DEF MediaIo, MediaFails, IoStarts, IoFails, Chunk, ClearJob
<1>5. \A u \in Threads \ {"io"} : job'[u] = job[u]
  BY <1>1, <1>4
<1> QED
  BY <1>3, <1>5 DEF JobQuiet

(***************************************************************************)
(* The command line: the mounted disks, and who has the host mutex.        *)
(***************************************************************************)
LEMMA MountedSession ==
    ASSUME ClientsInv, NEW t \in Targets, Mounted(t) PROVE mounted[t] \in Sessions
BY NowSessions DEF ClientsInv, TypeOK, CliTypes, Mounted

\* A target serves a disk or a session, or nothing.
LEMMA NetIsServed == \A s : Net(s) # NoDisk
BY DEF Net, Media, NoDisk

\* The thread that has something under way is the one with the mutex.
LEMMA HeldBy ==
    ASSUME CliServing, NEW who \in {"shell", "reaper"}, NEW other \in {"shell", "reaper"}, other # who,
           ~Idle(who)
    PROVE  /\ host = who /\ want \in Targets /\ Idle(other)
           /\ \A t \in Targets : Mounted(t) => managed[t] = Net(mounted[t]) \/ (want = t /\ At(who, "removing"))
BY DEF CliServing, HostHeld, Idle, At

LEMMA HeldByNone ==
    ASSUME CliServing, host = "none"
    PROVE  /\ Idle("shell") /\ Idle("reaper")
           /\ \A t \in Targets : Mounted(t) => managed[t] = Net(mounted[t])
BY DEF CliServing, HostHeld, Idle, At

\* What is mounted afterwards was mounted before.
LEMMA BackendsKept ==
    ASSUME ClientsInv, CliBackends, SessKept, backendOf' = backendOf,
           \A t \in Targets : mounted'[t] = mounted[t] \/ mounted'[t] = 0
    PROVE  CliBackends' /\ \A d : ~IsDuplicate(d) => ~IsDuplicate(d)'
<1>1. ASSUME NEW t \in Targets, Mounted(t)'
      PROVE  Mounted(t) /\ mounted'[t] = mounted[t] /\ sess'[mounted[t]].disk = sess[mounted[t]].disk
  <2>1. Mounted(t) /\ mounted'[t] = mounted[t]
    BY <1>1 DEF Mounted
  <2> QED
    BY <2>1, MountedSession DEF SessKept
<1> QED
  BY <1>1 DEF CliBackends, IsDuplicate

\* A step beside the disks: the mutex, the list and the backend stay.
LEMMA CliKeeps ==
    ASSUME ClientsInv, CliServing, SessKept, JobQuiet("shell"), JobQuiet("reaper"),
           UNCHANGED <<host, want, mounted, managed, backendOf>>
    PROVE  CliServing'
<1>1. CliBackends' /\ \A d : ~IsDuplicate(d) => ~IsDuplicate(d)'
  BY BackendsKept DEF CliServing
<1>2. HostHeld' /\ (host' # "none" => want' \in Targets)
  BY DEF CliServing, HostHeld, Idle, JobQuiet, AboutDisk
<1>3. \A t \in Targets : Mounted(t)' =>
          managed'[t] = Net(mounted'[t])
          \/ (want' = t /\ (job'["shell"].st = "removing" \/ job'["reaper"].st = "removing"))
  BY DEF CliServing, Mounted, At, JobQuiet, AboutDisk
<1>4. job'["shell"].st = "created" =>
          managed'[want'] = Net(job'["shell"].sid) /\ ~IsDuplicate(job["shell"].disk)'
  <2> PICK d : d = job["shell"].disk
    OBVIOUS
  <2> SUFFICES ASSUME job'["shell"].st = "created"
               PROVE  managed'[want'] = Net(job'["shell"].sid) /\ ~IsDuplicate(job["shell"].disk)'
    OBVIOUS
  <2>1. job["shell"].st = "created" /\ job'["shell"].sid = job["shell"].sid /\ job'["shell"].disk = d
    BY DEF JobQuiet, AboutDisk
  <2>2. managed[want] = Net(job["shell"].sid) /\ ~IsDuplicate(d)
    BY <2>1 DEF CliServing, At
  <2>3. ~IsDuplicate(d)'
    BY <1>1, <2>2
  <2>4. IsDuplicate(job["shell"].disk)' <=> IsDuplicate(d)'
    BY <2>1 DEF IsDuplicate
  <2> QED
    BY <2>1, <2>2, <2>3, <2>4
<1> QED
  BY <1>1, <1>2, <1>3, <1>4 DEF CliServing, At

LEMMA HostKeeps == ASSUME ClientsInv, SameSessions PROVE SessKept
BY DEF SameSessions, SessKept, Sessions, ClientsInv, NetInv, NetTypes

LEMMA CliThreads == "shell" \in Threads /\ "reaper" \in Threads /\ "io" \in Threads
BY ThreadsThere DEF HostThreads

\* The steps that have no part in a mount or a removal.
LEMMA CliQuietServes ==
    ASSUME ClientsInv, CliServing,
           \/ Beneath /\ UNCHANGED cliVars
           \/ CliOpen \/ CliMark \/ CliConnectFails \/ CliShare \/ CliIo("io") \/ CliInvalidate("io")
           \/ \E c \in Conns : CliHandlers(c)
           \/ \E m \in DOMAIN memory : CliRemoveMemory(m)
           \/ \E who \in {"shell", "reaper"} : CliPoll(who)
    PROVE  CliServing'
<1>1. UNCHANGED <<host, want, mounted, managed, backendOf>>
  BY DEF cliVars, hostVars, cliOnly, lockVars, backendVars, CliOpen, CliMark, CliConnectFails, CliShare, CliIo,
         CliInvalidate, CliHandlers, CliSessionClosed, CliDataChanged, CliDisconnected, CliRemoveMemory, CliPoll,
         CliNotifyChanged, CliPollRemoved
<1>2. CASE Beneath
  BY <1>1, <1>2, BeneathQuiet, CliKeeps, CliThreads DEF ClientsInv
<1>3. CASE CliMark \/ CliConnectFails \/ CliShare \/ (\E m \in DOMAIN memory : CliRemoveMemory(m))
               \/ \E who \in {"shell", "reaper"} : CliPoll(who)
  <2>1. job' = job /\ sess' = sess
    BY <1>3 DEF CliMark, CliConnectFails, CliShare, CliRemoveMemory, CliPoll, CliNotifyChanged, CliPollRemoved, netVars
  <2> QED
    BY <1>1, <2>1, SameKept, SameQuiet, CliKeeps, CliThreads
<1>4. CASE CliIo("io") \/ CliInvalidate("io")
  <2>1. SessKept /\ JobQuiet("shell") /\ JobQuiet("reaper")
    BY <1>4, MediaQuiet, CliThreads DEF CliIo, CliInvalidate, ClientsInv
  <2> QED
    BY <1>1, <2>1, CliKeeps
<1>5. CASE \E c \in Conns : CliHandlers(c)
  BY <1>1, <1>5, LoopQuiet, CliKeeps, CliThreads
     DEF CliHandlers, CliSessionClosed, CliDataChanged, CliDisconnected, ClientsInv
<1>6. CASE CliOpen
  <2>1. SessKept /\ JobQuiet("shell") /\ JobQuiet("reaper")
    <3>1. At("shell", "authed") /\ sess' = sess /\ (job' = StayJob("shell", "failed") \/ job' = Request("shell", "open"))
      BY <1>6 DEF CliOpen, BeginOpen
    <3>2. JobOnly("shell") /\ job'["shell"].st \in {"failed", "open"}
      BY <3>1, CliThreads, StayEffect, RequestEffect DEF ClientsInv, NetInv, JobStates, Asking
    <3> QED
      BY <3>1, <3>2, CliThreads, OneQuiet, SameKept DEF At, AboutDisk
  <2> QED
    BY <1>1, <2>1, CliKeeps
<1> QED
  BY <1>2, <1>3, <1>4, <1>5, <1>6

\* The mutex is free afterwards, and so is the thread that had it.
LEMMA CliFrees ==
    ASSUME ClientsInv, CliServing, NEW who \in {"shell", "reaper"}, ~Idle(who), job' = ClearJob(who),
           host' = "none", want' = 0, CliBackends',
           \A t \in Targets : Mounted(t)' => managed'[t] = Net(mounted'[t])
    PROVE  CliServing'
<1>1. PICK other \in {"shell", "reaper"} : other # who
  OBVIOUS
<1>2. who \in Threads /\ other \in Threads
  BY CliThreads
<1>3. job'[who] = IdleJob /\ job'[other] = job[other]
  BY <1>1, <1>2, ClearEffect DEF JobOnly, ClientsInv, NetInv
<1>4. Idle(who)' /\ Idle(other)'
  BY <1>1, <1>3, HeldBy DEF Idle, IdleJob
<1>5. Idle("shell")' /\ Idle("reaper")'
  BY <1>1, <1>4
<1> QED
  BY <1>5 DEF CliServing, HostHeld, Idle, At

LEMMA CliMountEnds ==
    ASSUME ClientsInv, CliServing, CliMountFails \/ CliOrphan \/ CliAbandon PROVE CliServing'
<1>1. ~Idle("shell") /\ ~At("shell", "removing") /\ job' = ClearJob("shell")
  BY DEF CliMountFails, CliOrphan, CliAbandon, Idle, At
<1>2. host' = "none" /\ want' = 0 /\ UNCHANGED <<mounted, managed, backendOf>>
  BY DEF CliMountFails, CliOrphan, CliAbandon, Unlock, backendVars
<1>3. SessKept
  <2>1. CASE CliAbandon
    BY <2>1, ReleaseHost, HostKeeps DEF CliAbandon, ClientsInv
  <2> QED
    BY <2>1, SameKept DEF CliMountFails, CliOrphan
<1>4. CliBackends'
  BY <1>2, <1>3, BackendsKept DEF CliServing
<1>5. \A t \in Targets : Mounted(t)' => managed'[t] = Net(mounted'[t])
  BY <1>1, <1>2, HeldBy DEF Mounted
<1> QED
  BY <1>1, <1>2, <1>4, <1>5, CliFrees

LEMMA CliAuthServes ==
    ASSUME ClientsInv, CliServing, NEW d \in RemoteDisks, NEW t \in Targets, CliAuth(d, t) PROVE CliServing'
<1>1. host = "none" /\ host' = "shell" /\ want' = t /\ UNCHANGED <<mounted, managed, backendOf, sess>>
  BY DEF CliAuth, Take, backendVars
<1>2. PICK c : Begins("shell", c, d)
  BY DEF CliAuth
<1>3. job'["shell"].st = "acquired" /\ job'["reaper"] = job["reaper"]
  <2> PICK j : j = [IdleJob EXCEPT !.st = "acquired", !.conn = c, !.disk = d]
    OBVIOUS
  <2>1. job' = [job EXCEPT !["shell"] = j] /\ j.st = "acquired"
    BY <1>2 DEF Begins, IdleJob
  <2> QED
    BY <2>1, CliThreads DEF ClientsInv, NetInv, NetTypes
<1>4. CliBackends'
  BY <1>1, BackendsKept, SameKept DEF CliServing
<1>5. \A u \in Targets : Mounted(u)' => managed'[u] = Net(mounted'[u])
  BY <1>1, HeldByNone DEF Mounted
<1>6. HostHeld'
  BY <1>1, <1>3, HeldByNone DEF HostHeld, Idle
<1> QED
  BY <1>1, <1>3, <1>4, <1>5, <1>6 DEF CliServing, At

LEMMA CliCreateServes == ASSUME ClientsInv, CliServing, CliCreate PROVE CliServing'
<1> PICK d, s : d = job["shell"].disk /\ s = job["shell"].sid
  OBVIOUS
<1>1. At("shell", "described") /\ ~Idle("shell") /\ ~IsDuplicate(d) /\ Free(want)
  BY DEF CliCreate, At, Idle
<1>2. /\ managed' = [managed EXCEPT ![want] = Net(s)] /\ job' = StayJob("shell", "created")
      /\ UNCHANGED <<host, want, mounted, backendOf, sess>>
  BY DEF CliCreate, lockVars
<1>3. host = "shell" /\ want \in Targets /\ Idle("reaper") /\ \A t \in Targets : Mounted(t) => managed[t] = Net(mounted[t])
  BY <1>1, HeldBy DEF At
<1>4. /\ job'["shell"].st = "created" /\ job'["shell"].sid = s /\ job'["shell"].disk = d
      /\ job'["reaper"] = job["reaper"]
  BY <1>2, CliThreads, StayEffect DEF JobOnly, JobStates, After, ClientsInv, NetInv
<1>5. managed'[want] = Net(s) /\ \A t \in Targets : t # want => managed'[t] = managed[t]
  BY <1>2, <1>3 DEF ClientsInv, TypeOK, BackendTypes
<1>6. \A t \in Targets : Mounted(t)' => managed'[t] = Net(mounted'[t])
  BY <1>1, <1>2, <1>3, <1>5, NetIsServed DEF Mounted, Free
<1>7. CliBackends' /\ ~IsDuplicate(d)'
  BY <1>1, <1>2, BackendsKept, SameKept DEF CliServing
<1>8. ~IsDuplicate(job["shell"].disk)'
  BY <1>4, <1>7 DEF IsDuplicate
<1>9. HostHeld'
  BY <1>2, <1>3, <1>4 DEF HostHeld, Idle
<1> QED
  BY <1>2, <1>3, <1>4, <1>5, <1>6, <1>7, <1>8, <1>9 DEF CliServing, At

\* ensure_unique_mount still holds of what is inserted.
LEMMA CliInsertServes == ASSUME ClientsInv, CliServing, CliInsert PROVE CliServing'
<1> PICK s : s = job["shell"].sid
  OBVIOUS
<1>1. At("shell", "created") /\ ~Idle("shell") /\ job' = ClearJob("shell") /\ host' = "none" /\ want' = 0
  BY DEF CliInsert, Unlock, At, Idle
<1>2. mounted' = [mounted EXCEPT ![want] = s] /\ UNCHANGED <<sess, managed, backendOf>>
  BY DEF CliInsert, backendVars
<1>3. want \in Targets /\ \A t \in Targets : Mounted(t) => managed[t] = Net(mounted[t])
  BY <1>1, HeldBy DEF At
<1>4. managed[want] = Net(s) /\ ~IsDuplicate(job["shell"].disk)
  BY <1>1 DEF CliServing
<1>5. sess[s].disk = job["shell"].disk
  BY <1>1, CliThreads, ThreadFacts DEF ClientsInv, SidOK, Names, After, At
<1>6. mounted'[want] = s /\ \A t \in Targets : t # want => mounted'[t] = mounted[t]
  BY <1>2, <1>3 DEF ClientsInv, TypeOK, CliTypes
<1>7. \A t \in Targets : Mounted(t)' => managed'[t] = Net(mounted'[t])
  BY <1>2, <1>3, <1>4, <1>6 DEF Mounted
<1>8. CliBackends'
  <2>1. ASSUME NEW t \in Targets, t # want, Mounted(t)'
        PROVE  /\ Mounted(t) /\ mounted'[t] = mounted[t]
               /\ backendOf[sess[mounted[t]].disk].id # backendOf[sess[s].disk].id
    BY <1>4, <1>5, <1>6, <2>1 DEF IsDuplicate, Mounted
  <2>2. ASSUME NEW t \in Targets, NEW u \in Targets, t # u, Mounted(t)', Mounted(u)'
        PROVE  backendOf[sess[mounted'[t]].disk].id # backendOf[sess[mounted'[u]].disk].id
    <3>1. CASE t = want
      BY <1>6, <2>1, <2>2, <3>1
    <3>2. CASE u = want
      BY <1>6, <2>1, <2>2, <3>2
    <3>3. CASE t # want /\ u # want
      BY <2>1, <2>2, <3>3 DEF CliServing, CliBackends
    <3> QED
      BY <3>1, <3>2, <3>3
  <2> QED
    BY <1>2, <2>2 DEF CliBackends
<1> QED
  BY <1>1, <1>7, <1>8, CliFrees

LEMMA CliRemoveServes ==
    ASSUME ClientsInv, CliServing, NEW who \in {"shell", "reaper"}, NEW t \in Targets, CliRemove(who, t)
    PROVE  CliServing'
<1>1. host = "none" /\ Idle(who) /\ job' = StayJob(who, "removing") /\ managed' = [managed EXCEPT ![t] = NoDisk]
  BY DEF CliRemove, Take
<1>2. host' = who /\ want' = t /\ UNCHANGED <<mounted, backendOf, sess>>
  BY DEF CliRemove
<1>3. PICK other \in {"shell", "reaper"} : other # who
  OBVIOUS
<1>4. job'[who].st = "removing" /\ job'[other] = job[other] /\ Idle(other)
  BY <1>1, <1>3, CliThreads, StayEffect, HeldByNone DEF JobOnly, JobStates, ClientsInv, NetInv
<1>5. CliBackends'
  BY <1>2, BackendsKept, SameKept DEF CliServing
<1>6. \A u \in Targets : u # t => managed'[u] = managed[u]
  BY <1>1 DEF ClientsInv, TypeOK, BackendTypes
<1>7. \A u \in Targets : Mounted(u)' => managed'[u] = Net(mounted'[u]) \/ u = t
  BY <1>1, <1>2, <1>6, HeldByNone DEF Mounted
<1>8. HostHeld' /\ (job'["shell"].st = "removing" \/ job'["reaper"].st = "removing") /\ job'["shell"].st # "created"
  BY <1>2, <1>3, <1>4 DEF HostHeld, Idle
<1> QED
  BY <1>2, <1>5, <1>7, <1>8 DEF CliServing, At

LEMMA CliTakeServes ==
    ASSUME ClientsInv, CliServing, NEW who \in {"shell", "reaper"}, CliTake(who) PROVE CliServing'
<1>1. At(who, "removing") /\ ~Idle(who) /\ job' = ClearJob(who) /\ host' = "none" /\ want' = 0
  BY DEF CliTake, Unlock, At, Idle
<1>2. mounted' = [mounted EXCEPT ![want] = 0] /\ UNCHANGED <<managed, backendOf>>
  BY DEF CliTake, backendVars
<1>3. SessKept
  BY ReleaseHost, HostKeeps, SameKept DEF CliTake, ClientsInv
<1>4. \A t \in Targets : mounted'[t] = IF t = want THEN 0 ELSE mounted[t]
  BY <1>2 DEF ClientsInv, TypeOK, CliTypes
<1>5. CliBackends'
  BY <1>2, <1>3, <1>4, BackendsKept DEF CliServing
<1>6. PICK other \in {"shell", "reaper"} : other # who
  OBVIOUS
<1>7. \A t \in Targets : Mounted(t)' => managed'[t] = Net(mounted'[t])
  BY <1>1, <1>2, <1>4, <1>6, HeldBy DEF Mounted
<1> QED
  BY <1>1, <1>5, <1>7, CliFrees

\* With the mutex free, a disk at a free target, or none any more.
LEMMA CliLocalServes ==
    ASSUME ClientsInv, CliServing, host = "none", UNCHANGED <<host, job, sess, backendOf>>,
           \A t \in Targets : mounted'[t] \in {mounted[t], 0},
           \A t \in Targets : Mounted(t)' => managed'[t] = managed[t]
    PROVE  CliServing'
<1>1. CliBackends'
  BY BackendsKept, SameKept DEF CliServing
<1>2. \A t \in Targets : Mounted(t)' => managed'[t] = Net(mounted'[t])
  BY HeldByNone DEF Mounted
<1> QED
  BY <1>1, <1>2, HeldByNone DEF CliServing, HostHeld, Idle, At

LEMMA CliCtServes == ASSUME ClientsInv, CliServing, CliCt \/ CliShutdown PROVE CliServing'
<1>1. host = "none" /\ UNCHANGED <<host, job, sess, backendOf>>
  BY DEF CliCt, CliCreateDedicated, CliCreateShared, CliShutdown, Take, netVars, lockVars
<1>2. CASE CliShutdown
  <2>1. \A t \in Targets : mounted'[t] = 0
    BY <1>2 DEF CliShutdown
  <2> QED
    BY <1>1, <2>1, CliLocalServes DEF Mounted
<1>3. CASE CliCt
  <2>1. mounted' = mounted
    BY <1>3 DEF CliCt, CliCreateDedicated, CliCreateShared
  <2>2. PICK t \in Targets : managed' = managed \/ (Free(t) /\ \E d : managed' = [managed EXCEPT ![t] = d])
    BY <1>3 DEF CliCt, CliCreateDedicated, CliCreateShared
  <2>3. \A u \in Targets : managed'[u] = managed[u] \/ (u = t /\ Free(t))
    BY <2>2 DEF ClientsInv, TypeOK, BackendTypes
  <2>4. \A u \in Targets : Mounted(u) => ~Free(u)
    BY <1>1, HeldByNone, NetIsServed DEF Free
  <2>5. \A u \in Targets : mounted'[u] \in {mounted[u], 0} /\ (Mounted(u)' => managed'[u] = managed[u])
    BY <2>1, <2>3, <2>4 DEF Mounted
  <2> QED
    BY <1>1, <2>5, CliLocalServes
<1> QED
  BY <1>2, <1>3

\* The desktop's part of ServedInv says nothing of the command line.
LEMMA CliOnlyServes ==
    ASSUME ServedInv, "cli" \in uses, uses' = uses, CliStep PROVE OneProgram' /\ DeskServing'
<1>1. UNCHANGED <<disks, listing, plan, found>>
  BY DEF CliStep, catalogOnly, deskOnly, scanVars
<1>2. /\ "desktop" \notin uses /\ \A n \in DOMAIN disks : ~MountedAt(n)
      /\ \A w \in Scanners : plan[w] = {}
  BY DEF ServedInv, OneProgram
<1>3. OneProgram'
  BY <1>1, <1>2 DEF OneProgram, MountedAt
<1>4. \A n \in DOMAIN disks' : ~MountedAt(n)'
  BY <1>1, <1>2 DEF MountedAt
<1>5. DeskServed'
  BY <1>1, <1>4 DEF DeskServed, ServedInv, DeskServing
<1> QED
  BY <1>1, <1>3, <1>4, <1>5 DEF DeskServing, ServedInv, OfNet

LEMMA CliNextServes == ASSUME ServedInv, CliStep, CliNext PROVE ServedInv'
<1>1. ClientsInv /\ CliServing
  BY DEF ServedInv
<1>2. ClientsInv'
  BY <1>1, CliNextInv
<1>3. OneProgram' /\ DeskServing'
  BY CliOnlyServes DEF CliNext
<1>4. CliServing'
  <2>1. CASE CliCommand
    BY <1>1, <2>1, CliAuthServes, CliQuietServes, CliRemoveServes, CliCtServes DEF CliCommand, CliRm
  <2>2. CASE CliMountStep
    BY <1>1, <2>2, CliQuietServes, CliMountEnds, CliCreateServes, CliInsertServes DEF CliMountStep
  <2>3. CASE CliReap("reaper") \/ CliTake("shell") \/ CliTake("reaper")
    BY <1>1, <2>3, CliRemoveServes, CliTakeServes DEF CliReap
  <2>4. CASE CliMark \/ CliPoll("shell") \/ CliPoll("reaper") \/ (\E c \in Conns : CliHandlers(c))
             \/ CliIo("io") \/ CliInvalidate("io") \/ (Beneath /\ UNCHANGED cliVars)
    BY <1>1, <2>4, CliQuietServes
  <2> QED
    BY <2>1, <2>2, <2>3, <2>4 DEF CliNext
<1> QED
  BY <1>2, <1>3, <1>4 DEF ServedInv

(***************************************************************************)
(* The desktop: a disk that is not mounted has its media, and one that is  *)
(* stays with the target it was mounted at.                                *)
(***************************************************************************)
SettledDisk(r) ==
    /\ r.st # "mounted" /\ (r.st = "invalid" => ~r.held)
    /\ r.kind = "mem" /\ r.st = "unmounted" => r.held
ServedDisk(n) ==
    IF MountedAt(n)
    THEN /\ Listed(n) /\ ~disks[n].held
         /\ managed[disks[n].target].kind = disks[n].kind /\ managed[disks[n].target].of = n
    ELSE SettledDisk(disks[n])
KeptDisk(n) ==
    /\ n \in DOMAIN disks /\ disks'[n] = disks[n]
    /\ MountedAt(n) => Listed(n)' /\ managed'[disks[n].target] = managed[disks[n].target]
KindsKept == \A n \in DOMAIN disks : n \in DOMAIN disks' /\ disks'[n].kind = disks[n].kind
NetTask(task) == task.id \in DOMAIN disks /\ OfNet(task)
TasksKept == \A w \in Scanners : (\A task \in plan'[w] : NetTask(task)) /\ \A o \in found'[w] : NetTask(o.task)

LEMMA NowServed ==
    ASSUME ServedInv
    PROVE  /\ ClientsInv /\ \A n \in DOMAIN disks : ServedDisk(n)
           /\ \A w \in Scanners : (\A task \in plan[w] : NetTask(task)) /\ \A o \in found[w] : NetTask(o.task)
<1>1. ClientsInv /\ DeskServing
  BY DEF ServedInv
<1>2. \A n \in DOMAIN disks : ServedDisk(n)
  BY <1>1 DEF DeskServing, DeskServed, ServedDisk, SettledDisk, MountedAt
<1>3. \A w \in Scanners : (\A task \in plan[w] : task \in TaskType) /\ \A o \in found[w] : o.task \in TaskType
  BY <1>1, NowSessions DEF FoundType
<1>4. \A task \in TaskType : task.id \in DOMAIN disks
  BY DEF TaskType
<1> QED
  BY <1>1, <1>2, <1>3, <1>4 DEF DeskServing, NetTask

LEMMA ScansStay == ASSUME ServedInv, UNCHANGED <<plan, found>> PROVE TasksKept
BY NowServed DEF TasksKept

\* Each disk is as it was, has its media, or is served.
LEMMA DisksServe ==
    ASSUME ServedInv, KindsKept, TasksKept,
           \A n \in DOMAIN disks' : KeptDisk(n) \/ SettledDisk(disks'[n]) \/ ServedDisk(n)'
    PROVE  DeskServing'
<1>1. ASSUME NEW n \in DOMAIN disks' PROVE ServedDisk(n)'
  <2>1. CASE KeptDisk(n)
    BY <2>1, NowServed DEF KeptDisk, ServedDisk, MountedAt
  <2>2. CASE SettledDisk(disks'[n])
    BY <2>2 DEF SettledDisk, ServedDisk, MountedAt
  <2> QED
    BY <1>1, <2>1, <2>2
<1>2. DeskServed' /\ \A n \in DOMAIN disks' : MountedAt(n)' => Listed(n)'
  BY <1>1 DEF DeskServed, ServedDisk, SettledDisk, MountedAt
<1>3. ASSUME NEW task, NetTask(task) PROVE OfNet(task)'
  BY <1>3 DEF KindsKept, NetTask, OfNet
<1> QED
  BY <1>2, <1>3 DEF DeskServing, TasksKept

\* A target serves at most one disk.
LEMMA TargetsApart ==
    ASSUME ServedInv, NEW n \in DOMAIN disks, NEW m \in DOMAIN disks, MountedAt(n), MountedAt(m),
           disks[n].target = disks[m].target
    PROVE  n = m
BY NowServed DEF ServedDisk

LEMMA MountedNotFree ==
    ASSUME ServedInv, NEW n \in DOMAIN disks, MountedAt(n) PROVE disks[n].target \in Targets /\ ~Free(disks[n].target)
<1>1. disks[n].kind \in {"net", "file", "mem"}
  BY NowServed, NowGood DEF GoodDisk, DiskType
<1> QED
  BY <1>1, NowServed, TargetThere DEF ServedDisk, Free, NoDisk

\* What is removed from the backend is of disks that change.
LEMMA OthersKept ==
    ASSUME ServedInv, NEW N, NEW T \in SUBSET TargetsOf(N), Removed(T),
           N \subseteq DOMAIN disks,
           NEW n \in DOMAIN disks, n \notin N, disks'[n] = disks[n], Listed(n) => Listed(n)'
    PROVE  KeptDisk(n)
<1>1. ASSUME MountedAt(n) PROVE Listed(n) /\ managed'[disks[n].target] = managed[disks[n].target]
  <2>1. Listed(n) /\ disks[n].target \in Targets
    BY <1>1, NowServed, TargetThere DEF ServedDisk
  <2>2. disks[n].target \notin T
    BY <1>1, TargetsApart DEF TargetsOf
  <2> QED
    BY <2>1, <2>2 DEF Removed
<1> QED
  BY <1>1 DEF KeptDisk

LEMMA DetachServes ==
    ASSUME ServedInv, KindsKept, TasksKept, NEW N, NEW T \in SUBSET TargetsOf(N), Removed(T),
           N \subseteq DOMAIN disks, DOMAIN disks' = DOMAIN disks,
           \A n \in N : SettledDisk(disks'[n]),
           \A n \in DOMAIN disks \ N : disks'[n] = disks[n] /\ (Listed(n) => Listed(n)')
    PROVE  DeskServing'
<1>1. \A n \in DOMAIN disks' : KeptDisk(n) \/ SettledDisk(disks'[n])
  BY OthersKept
<1> QED
  BY <1>1, DisksServe

\* Nothing is taken from the backend, and nothing leaves the list.
LEMMA GrowsServes ==
    ASSUME ServedInv, TasksKept, managed' = managed, \A n \in DOMAIN disks : n \in DOMAIN disks',
           \A n \in DOMAIN disks : Listed(n) => Listed(n)' \/ ~MountedAt(n),
           \A n \in DOMAIN disks : disks'[n] = disks[n],
           \A n \in DOMAIN disks' : n \in DOMAIN disks \/ SettledDisk(disks'[n])
    PROVE  DeskServing'
<1>1. KindsKept
  BY DEF KindsKept
<1>2. \A n \in DOMAIN disks : MountedAt(n) => Listed(n)
  BY NowServed DEF ServedDisk
<1>3. \A n \in DOMAIN disks' : KeptDisk(n) \/ SettledDisk(disks'[n])
  BY <1>2 DEF KeptDisk
<1> QED
  BY <1>1, <1>3, DisksServe

LEMMA DeskRests ==
    ASSUME ServedInv, TasksKept, UNCHANGED <<managed, disks, listing>> PROVE DeskServing'
BY GrowsServes DEF Listed

\* What becomes of a disk that is not mounted any more.
LEMMA InvalidSettled == ASSUME NEW r, GoodDisk(r) PROVE SettledDisk(SetInvalid(r)) /\ SetInvalid(r).kind = r.kind
BY DEF GoodDisk, DiskType, SetInvalid, SettledDisk

LEMMA UnmountedSettled ==
    ASSUME ClientsInv, NEW n \in DOMAIN disks
    PROVE  /\ SetUnmounted(n)[n].kind = disks[n].kind
           /\ disks[n].kind # "mem" => SettledDisk(SetUnmounted(n)[n])
<1> PICK r : r = disks[n]
  OBVIOUS
<1>1. GoodDisk(r)
  BY NowGood
<1>2. SetUnmounted(n)[n] = [r EXCEPT !.st = "unmounted", !.target = 0]
  BY NowGood DEF SetUnmounted
<1>3. [r EXCEPT !.st = "unmounted", !.target = 0].kind = r.kind
      /\ (r.kind # "mem" => SettledDisk([r EXCEPT !.st = "unmounted", !.target = 0]))
  BY <1>1 DEF GoodDisk, DiskType, SettledDisk
<1> QED
  BY <1>2, <1>3

LEMMA ProbedSettled ==
    ASSUME NEW r, GoodDisk(r), r.kind # "mem" PROVE SettledDisk(Probed(r)) /\ Probed(r).kind = r.kind
<1>1. [r EXCEPT !.st = "unmounted", !.target = 0].kind = r.kind /\ SettledDisk([r EXCEPT !.st = "unmounted", !.target = 0])
  BY DEF GoodDisk, DiskType, SettledDisk
<1> QED
  BY <1>1, InvalidSettled DEF Probed

LEMMA NewSettled ==
    ASSUME NEW k \in {"net", "file", "mem"}, NEW w, NEW st \in {"unmounted", "invalid"}, st = "invalid" => k = "file"
    PROVE  SettledDisk(NewDisk(k, w, st))
BY DEF NewDisk, SettledDisk

LEMMA EjectedSettled ==
    ASSUME ClientsInv, NEW n \in DOMAIN disks, disks' = Ejected(n)
    PROVE  /\ SettledDisk(disks'[n]) /\ DOMAIN disks' = DOMAIN disks /\ disks'[n].kind = disks[n].kind
           /\ \A m \in DOMAIN disks : m # n => disks'[m] = disks[m]
<1> PICK r : r = disks[n]
  OBVIOUS
<1>1. GoodDisk(r)
  BY NowGood
<1>2. CASE disks[n].kind = "mem"
  <2>1. PICK q : q = [r EXCEPT !.st = "unmounted", !.target = 0, !.held = TRUE]
    OBVIOUS
  <2>2. SettledDisk(q) /\ q.kind = r.kind
    BY <1>1, <2>1 DEF GoodDisk, DiskType, SettledDisk
  <2>3. disks' = [disks EXCEPT ![n] = q]
    BY <1>2, <2>1, NowGood DEF Ejected, SetUnmounted
  <2> QED
    BY <2>2, <2>3, NowGood
<1>3. CASE disks[n].kind # "mem"
  <2>1. PICK q : q = Probed([r EXCEPT !.held = FALSE])
    OBVIOUS
  <2>2. SettledDisk(q) /\ q.kind = r.kind
    <3>1. [r EXCEPT !.held = FALSE].kind = r.kind
      BY <1>1 DEF GoodDisk, DiskType
    <3> QED
      BY <1>1, <1>3, <2>1, <3>1, ProbedSettled, DroppedDisk
  <2>3. disks' = [disks EXCEPT ![n] = q]
    BY <1>3, <2>1 DEF Ejected
  <2> QED
    BY <2>2, <2>3, NowGood
<1> QED
  BY <1>2, <1>3

LEMMA OnePut ==
    ASSUME ClientsInv, NEW n \in DOMAIN disks, NEW r, disks' = [disks EXCEPT ![n] = r]
    PROVE  /\ DOMAIN disks' = DOMAIN disks /\ disks'[n] = r
           /\ \A m \in DOMAIN disks : m # n => disks'[m] = disks[m]
BY NowGood

\* set_mounted of a disk whose media was given to a free target.
LEMMA MountServes ==
    ASSUME ServedInv, TasksKept, NEW n \in DOMAIN disks, NEW t \in Targets, Listed(n), Free(t), ~MountedAt(n),
           NEW i, Serves(t, Media(disks[n].kind, i, n)), disks' = SetMounted(n, t), listing' = listing
    PROVE  DeskServing'
<1> PICK k, r : k = disks[n].kind /\ r = [disks[n] EXCEPT !.st = "mounted", !.target = t, !.held = FALSE]
  OBVIOUS
<1>1. GoodDisk(disks[n]) /\ ClientsInv
  BY NowServed, NowGood
<1>2. r.st = "mounted" /\ r.target = t /\ r.held = FALSE /\ r.kind = k
  BY <1>1 DEF GoodDisk, DiskType
<1>3. disks' = [disks EXCEPT ![n] = r]
  BY <1>1, NowGood DEF SetMounted
<1>4. DOMAIN disks' = DOMAIN disks /\ disks'[n] = r /\ \A m \in DOMAIN disks : m # n => disks'[m] = disks[m]
  BY <1>1, <1>3, OnePut
<1>5. managed'[t].kind = k /\ managed'[t].of = n /\ \A u \in Targets : u # t => managed'[u] = managed[u]
  BY <1>1 DEF Serves, Media, ClientsInv, TypeOK, BackendTypes
<1>6. ServedDisk(n)'
  BY <1>2, <1>4, <1>5 DEF ServedDisk, MountedAt, Listed
<1>7. ASSUME NEW m \in DOMAIN disks, m # n PROVE KeptDisk(m)
  <2>1. ASSUME MountedAt(m) PROVE Listed(m) /\ disks[m].target \in Targets /\ disks[m].target # t
    BY <2>1, NowServed, MountedNotFree DEF ServedDisk
  <2>2. Listed(m)' <=> Listed(m)
    BY DEF Listed
  <2>3. MountedAt(m) => Listed(m)' /\ managed'[disks[m].target] = managed[disks[m].target]
    BY <1>5, <2>1, <2>2
  <2> QED
    BY <1>4, <1>7, <2>3 DEF KeptDisk
<1>8. KindsKept
  BY <1>2, <1>4 DEF KindsKept
<1> QED
  BY <1>4, <1>6, <1>7, <1>8, DisksServe

\* A disk is ejected; it may leave the list with that.
LEMMA EjectServes ==
    ASSUME ServedInv, TasksKept, NEW n \in DOMAIN disks, MountedAt(n), Removed({disks[n].target}),
           SettledDisk(disks'[n]), DOMAIN disks' = DOMAIN disks, disks'[n].kind = disks[n].kind,
           \A m \in DOMAIN disks : m # n => disks'[m] = disks[m] /\ (Listed(m) => Listed(m)')
    PROVE  DeskServing'
<1>1. {disks[n].target} \subseteq TargetsOf({n})
  BY DEF TargetsOf
<1>2. KindsKept
  BY DEF KindsKept
<1> QED
  BY <1>1, <1>2, DetachServes

LEMMA DropsListed ==
    ASSUME ClientsInv, NEW n, Listed(n), Drops(n)
    PROVE  \A m : m # n /\ Listed(m) => Listed(m)'
<1> PICK i : i = Place(n)
  OBVIOUS
<1>1. listing \in Seq(DOMAIN disks) /\ IsInjective(listing)
  BY NowGood DEF GoodList
<1>2. i \in DOMAIN listing /\ listing[i] = n
  <2>1. \E j \in DOMAIN listing : listing[j] = n
    BY DEF Listed, ToSet
  <2> QED
    BY <2>1 DEF Place
<1>3. ToSet(RemoveAt(listing, i)) = ToSet(listing) \ {n}
  BY <1>1, <1>2, RemoveFacts
<1>4. listing' = RemoveAt(listing, i) \/ listing' = listing
  BY DEF Drops, Saves, SaveFails
<1> QED
  BY <1>3, <1>4 DEF Listed

LEMMA PutBackListed ==
    ASSUME ClientsInv, NEW e \in bin, listing' = PutBack(e) PROVE \A m : Listed(m) => Listed(m)'
<1>1. listing \in Seq(DOMAIN disks) /\ IsInjective(listing) /\ Len(listing) \in Nat
  BY NowGood DEF GoodList
<1>2. e.id \in DOMAIN disks /\ e.at \in Nat \ {0} /\ e.id \notin ToSet(listing)
  BY NowGood DEF GoodList, Listed
<1>3. PICK i \in 1..(Len(listing) + 1) : i = IF e.at > Len(listing) THEN Len(listing) + 1 ELSE e.at
  BY <1>1, <1>2
<1>4. listing' = InsertAt(listing, i, e.id)
  BY <1>3 DEF PutBack
<1>5. ToSet(InsertAt(listing, i, e.id)) = ToSet(listing) \cup {e.id}
  BY <1>1, <1>2, <1>3, InsertFacts
<1> QED
  BY <1>4, <1>5 DEF Listed

(***************************************************************************)
(* The commands on local disks, the backend that is lost, and the restart. *)
(***************************************************************************)
LEMMA InsertServes ==
    ASSUME ServedInv, TasksKept, NEW r, SettledDisk(r), Insert(r), managed' = managed PROVE DeskServing'
<1>1. CASE disks' = Append(disks, r) /\ listing' = Append(listing, Len(disks) + 1)
  <2> PICK n \in Nat : n = Len(disks) /\ DOMAIN disks = 1..n
    BY NowServed, NowGood
  <2>1. /\ DOMAIN disks' = 1..(n + 1) /\ disks'[n + 1] = r
        /\ \A m \in 1..n : disks'[m] = disks[m]
    <3>1. disks \in Seq(DiskType)
      BY NowServed, NowGood
    <3> QED
      BY <1>1, <3>1
  <2>2. \A m : Listed(m) => Listed(m)'
    <3> PICK l \in Nat : l = Len(listing) /\ DOMAIN listing = 1..l
      BY NowServed, NowGood DEF GoodList
    <3>1. listing \in Seq(DOMAIN disks)
      BY NowServed, NowGood DEF GoodList
    <3>2. DOMAIN listing' = 1..(l + 1) /\ \A i \in 1..l : listing'[i] = listing[i]
      BY <1>1, <3>1
    <3>3. \A i \in DOMAIN listing : i \in DOMAIN listing' /\ listing'[i] = listing[i]
      BY <3>2
    <3> HIDE DEF Insert
    <3> QED
      BY ONLY <3>3 DEF Listed, ToSet
  <2>3. \A m \in DOMAIN disks' : m \in DOMAIN disks \/ SettledDisk(disks'[m])
    BY <2>1
  <2>4. \A m \in DOMAIN disks : m \in DOMAIN disks' /\ disks'[m] = disks[m]
    BY <2>1
  <2> QED
    BY <2>2, <2>3, <2>4, GrowsServes
<1>2. CASE UNCHANGED <<disks, listing>>
  BY <1>2, DeskRests
<1> QED
  BY <1>1, <1>2 DEF Insert

LEMMA CreateServes ==
    ASSUME ServedInv, UNCHANGED deskOnly, CreateMemory \/ CreateFile \/ CreateNewFile PROVE DeskServing'
<1>1. TasksKept
  BY ScansStay DEF deskOnly, scanVars
<1>2. managed' = managed
  BY DEF CreateMemory, CreateFile, CreateNewFile, hostVars, backendVars
<1>3. \/ \E r : SettledDisk(r) /\ Insert(r)
      \/ UNCHANGED <<disks, listing>>
  <2>1. CASE CreateMemory
    BY <2>1, NewSettled DEF CreateMemory
  <2>2. CASE CreateFile
    BY <2>2, NewSettled DEF CreateFile, Probe
  <2>3. CASE CreateNewFile
    BY <2>3, NewSettled DEF CreateNewFile
  <2> QED
    BY <2>1, <2>2, <2>3
<1> QED
  BY <1>1, <1>2, <1>3, InsertServes, DeskRests

LEMMA MountLocalServes == ASSUME ServedInv, UNCHANGED deskOnly, MountLocal PROVE DeskServing'
<1> PICK n : n = cmd.id
  OBVIOUS
<1> PICK r : r = disks[n]
  OBVIOUS
<1>1. TasksKept
  BY ScansStay DEF deskOnly, scanVars
<1>2. ClientsInv /\ listing' = listing
  BY NowServed DEF MountLocal, Refused
<1>3. n \in DOMAIN disks
  BY <1>2 DEF MountLocal, Runs, ClientsInv, TypeOK, CmdTypes
<1>4. \/ \E t \in Targets : /\ Listed(n) /\ Free(t) /\ Serves(t, Media(disks[n].kind, 0, n)) /\ disks' = SetMounted(n, t)
                            /\ ~MountedAt(n)
      \/ disks' = [disks EXCEPT ![n].held = TRUE] /\ managed' = managed /\ disks[n].st = "unmounted"
      \/ disks' = disks /\ managed' = managed
  BY DEF MountLocal, Refused, hostVars, backendVars, FirstFree, MountedAt
<1>5. CASE disks' = [disks EXCEPT ![n].held = TRUE] /\ managed' = managed /\ disks[n].st = "unmounted"
  <2> PICK q : q = [r EXCEPT !.held = TRUE]
    OBVIOUS
  <2>1. SettledDisk(q) /\ q.kind = r.kind
    <3>1. GoodDisk(r)
      BY <1>2, <1>3, NowGood
    <3> QED
      BY <1>5, <3>1 DEF GoodDisk, DiskType, SettledDisk
  <2>2. disks' = [disks EXCEPT ![n] = q]
    BY <1>5
  <2>3. DOMAIN disks' = DOMAIN disks /\ disks'[n] = q /\ \A m \in DOMAIN disks : m # n => disks'[m] = disks[m]
    BY <1>2, <1>3, <2>2, OnePut
  <2>4. \A m \in DOMAIN disks : m # n => KeptDisk(m)
    BY <1>2, <1>5, <2>3, NowServed DEF KeptDisk, ServedDisk, Listed
  <2>5. KindsKept
    BY <2>1, <2>3 DEF KindsKept
  <2> QED
    BY <1>1, <2>1, <2>3, <2>4, <2>5, DisksServe
<1> QED
  BY <1>1, <1>2, <1>3, <1>4, <1>5, MountServes, DeskRests

LEMMA EjectLocalServes == ASSUME ServedInv, UNCHANGED deskOnly, EjectLocal PROVE DeskServing'
<1> PICK n : n = cmd.id
  OBVIOUS
<1>1. TasksKept
  BY ScansStay DEF deskOnly, scanVars
<1>2. ClientsInv /\ listing' = listing
  BY NowServed DEF EjectLocal, Refused
<1>3. n \in DOMAIN disks
  BY <1>2 DEF EjectLocal, Runs, ClientsInv, TypeOK, CmdTypes
<1>4. \/ MountedAt(n) /\ Removed({disks[n].target}) /\ disks' = Ejected(n)
      \/ UNCHANGED <<disks, managed>>
  BY DEF EjectLocal, Refused, hostVars, backendVars
<1>5. CASE MountedAt(n) /\ Removed({disks[n].target}) /\ disks' = Ejected(n)
  <2>1. \A m : Listed(m) => Listed(m)'
    BY <1>2 DEF Listed
  <2> QED
    BY <1>1, <1>2, <1>3, <1>5, <2>1, EjectedSettled, EjectServes
<1> QED
  BY <1>1, <1>2, <1>4, <1>5, DeskRests

LEMMA DeleteLocalServes == ASSUME ServedInv, UNCHANGED deskOnly, DeleteLocal PROVE DeskServing'
<1> PICK n : n = cmd.id
  OBVIOUS
<1>1. TasksKept
  BY ScansStay DEF deskOnly, scanVars
<1>2. ClientsInv
  BY NowServed
<1>3. n \in DOMAIN disks
  BY <1>2 DEF DeleteLocal, Runs, ClientsInv, TypeOK, CmdTypes
<1>4. \/ /\ Listed(n) /\ Drops(n)
         /\ IF MountedAt(n) THEN Removed({disks[n].target}) /\ disks' = Ejected(n) ELSE UNCHANGED <<managed, disks>>
      \/ UNCHANGED <<disks, managed, listing>>
  BY DEF DeleteLocal, Refused, hostVars, backendVars
<1>5. CASE /\ Listed(n) /\ Drops(n)
           /\ IF MountedAt(n) THEN Removed({disks[n].target}) /\ disks' = Ejected(n) ELSE UNCHANGED <<managed, disks>>
  <2>1. \A m : m # n /\ Listed(m) => Listed(m)'
    BY <1>2, <1>5, DropsListed
  <2>2. CASE MountedAt(n)
    BY <1>1, <1>2, <1>3, <1>5, <2>1, <2>2, EjectedSettled, EjectServes
  <2>3. CASE ~MountedAt(n)
    BY <1>1, <1>5, <2>1, <2>3, GrowsServes
  <2> QED
    BY <2>2, <2>3
<1> QED
  BY <1>1, <1>4, <1>5, DeskRests

LEMMA UndoServes == ASSUME ServedInv, UNCHANGED deskOnly, UndoDelete \/ CommitDelete PROVE DeskServing'
<1>1. TasksKept
  BY ScansStay DEF deskOnly, scanVars
<1>2. ClientsInv /\ UNCHANGED <<disks, managed>>
  BY NowServed DEF UndoDelete, CommitDelete, hostVars, backendVars
<1>3. listing' = listing \/ \E e \in bin : listing' = PutBack(e)
  BY DEF UndoDelete, CommitDelete
<1>4. \A m : Listed(m) => Listed(m)'
  <2>1. CASE listing' = listing
    BY <2>1 DEF Listed
  <2> QED
    BY <1>2, <1>3, <2>1, PutBackListed
<1> QED
  BY <1>1, <1>2, <1>4, GrowsServes

LEMMA LocalServes == ASSUME ServedInv, UNCHANGED deskOnly, LocalCommand PROVE DeskServing'
BY CreateServes, MountLocalServes, EjectLocalServes, DeleteLocalServes, UndoServes DEF LocalCommand

\* drain_disk_responses, and the loss of the backend.
LEMMA DetachedSettled ==
    ASSUME ClientsInv, NEW T, disks' = Detached(T)
    PROVE  /\ DOMAIN disks' = DOMAIN disks
           /\ \A n \in DOMAIN disks : disks'[n].kind = disks[n].kind
           /\ \A n \in DOMAIN disks :
                 IF Listed(n) /\ MountedAt(n) /\ disks[n].target \in T THEN SettledDisk(disks'[n])
                 ELSE disks'[n] = disks[n]
<1>1. DOMAIN disks' = DOMAIN disks
  BY DEF Detached
<1>2. ASSUME NEW n \in DOMAIN disks
      PROVE  /\ disks'[n].kind = disks[n].kind
             /\ IF Listed(n) /\ MountedAt(n) /\ disks[n].target \in T THEN SettledDisk(disks'[n])
                ELSE disks'[n] = disks[n]
  <2>1. GoodDisk(disks[n]) /\ disks[n].kind \in {"net", "file", "mem"}
    BY NowGood DEF GoodDisk, DiskType
  <2>2. CASE ~(Listed(n) /\ MountedAt(n) /\ disks[n].target \in T)
    BY <2>2 DEF Detached
  <2>3. CASE Listed(n) /\ MountedAt(n) /\ disks[n].target \in T
    <3>1. /\ disks[n].kind = "net" => disks'[n] = SetUnmounted(n)[n]
          /\ disks[n].kind = "mem" => disks'[n] = SetInvalid(disks[n])
          /\ disks[n].kind = "file" => disks'[n] = Probed(disks[n])
      BY <2>3 DEF Detached
    <3> QED
      BY <2>1, <2>3, <3>1, UnmountedSettled, InvalidSettled, ProbedSettled
  <2> QED
    BY <2>2, <2>3
<1> QED
  BY <1>1, <1>2

LEMMA DeskWatchServes == ASSUME ServedInv, DeskWatch PROVE DeskServing'
<1>1. TasksKept /\ ClientsInv /\ listing' = listing
  BY ScansStay, NowServed DEF DeskWatch, scanVars
<1>2. \A n : Listed(n)' <=> Listed(n)
  BY <1>1 DEF Listed
<1>3. \A n \in DOMAIN disks : MountedAt(n) => Listed(n) /\ disks[n].target \in Targets
  BY <1>1, NowServed, TargetThere DEF ServedDisk
<1>4. ASSUME NEW T, disks' = Detached(T), managed' = managed \/ T = Targets PROVE DeskServing'
  <2>1. KindsKept /\ DOMAIN disks' = DOMAIN disks
    BY <1>1, <1>4, DetachedSettled DEF KindsKept
  <2>2. ASSUME NEW n \in DOMAIN disks PROVE KeptDisk(n) \/ SettledDisk(disks'[n])
    <3>1. CASE Listed(n) /\ MountedAt(n) /\ disks[n].target \in T
      BY <1>1, <1>4, <3>1, DetachedSettled
    <3>2. CASE ~(Listed(n) /\ MountedAt(n) /\ disks[n].target \in T)
      <4>1. disks'[n] = disks[n]
        BY <1>1, <1>4, <3>2, DetachedSettled
      <4>2. MountedAt(n) => managed' = managed /\ Listed(n)'
        BY <1>2, <1>3, <1>4, <3>2
      <4> QED
        BY <4>1, <4>2 DEF KeptDisk
    <3> QED
      BY <3>1, <3>2
  <2> QED
    BY <1>1, <2>1, <2>2, DisksServe
<1>5. \/ disks' = Detached(removedQ) /\ managed' = managed
      \/ disks' = Detached(Targets)
      \/ UNCHANGED <<disks, managed>>
  BY DEF DeskWatch, BackendSync
<1> QED
  BY <1>1, <1>4, <1>5, DeskRests

\* restore_client_state.
LEMMA RestoredSettled ==
    ASSUME NEW list, NEW kept, NEW m \in DOMAIN kept, kept[m].kind \in {"net", "file", "mem"},
           kept[m].what \in RemoteDisks \cup Files \cup {"ram"}, kept[m].kind = "net" => kept[m].what \in RemoteDisks
    PROVE  /\ DOMAIN Restored(list, kept) = DOMAIN kept /\ SettledDisk(Restored(list, kept)[m])
           /\ Restored(list, kept)[m].kind = kept[m].kind
<1> PICK r : r = Restored(list, kept)
  OBVIOUS
<1> PICK rt : rt = NewDisk(kept[m].kind, kept[m].what, "unmounted")
  OBVIOUS
<1>1. GoodDisk(rt) /\ SettledDisk(rt)
  BY NewlyMade, NewSettled
<1>2. rt.kind = kept[m].kind
  BY DEF NewDisk
<1>3. DOMAIN r = DOMAIN kept /\ (r[m] \in {rt, SetInvalid(rt)} \/ (r[m] = Probed(rt) /\ rt.kind = "file"))
  BY <1>2 DEF Restored
<1> QED
  BY <1>1, <1>2, <1>3, InvalidSettled, ProbedSettled

LEMMA RestartServes == ASSUME ServedInv, UNCHANGED deskOnly, Restart PROVE DeskServing'
<1>1. TasksKept
  BY ScansStay DEF deskOnly, scanVars
<1>2. disks' = Restored(saved, disks)
  BY DEF Restart
<1>3. \A n \in DOMAIN disks : /\ disks[n].kind \in {"net", "file", "mem"}
                              /\ disks[n].what \in RemoteDisks \cup Files \cup {"ram"}
                              /\ disks[n].kind = "net" => disks[n].what \in RemoteDisks
  BY NowServed, NowGood DEF GoodDisk, DiskType
<1>4. DOMAIN disks' = DOMAIN disks
  BY <1>2 DEF Restored
<1>5. \A n \in DOMAIN disks : SettledDisk(disks'[n]) /\ disks'[n].kind = disks[n].kind
  BY <1>2, <1>3, RestoredSettled
<1> QED
  BY <1>1, <1>4, <1>5, DisksServe DEF KindsKept

(***************************************************************************)
(* Network disks.                                                          *)
(***************************************************************************)
LEMMA DetachesIs ==
    ASSUME NEW N, Detaches(N) PROVE \E T \in SUBSET TargetsOf(N) : Removed(T)
BY DEF Detaches

LEMMA DeskSyncServes == ASSUME ServedInv, DeskSync PROVE DeskServing'
<1> PICK N : N = DisksOf(KeysOf(Head(todo)))
  OBVIOUS
<1>1. Detaches(N) /\ disks' = [n \in DOMAIN disks |-> IF n \in N THEN SetInvalid(disks[n]) ELSE disks[n]]
  BY DEF DeskSync
<1>2. TasksKept /\ listing' = listing
  BY ScansStay DEF DeskSync, scanVars
<1>3. N \subseteq DOMAIN disks /\ DOMAIN disks' = DOMAIN disks
  BY <1>1 DEF DisksOf
<1>4. \A n \in DOMAIN disks : GoodDisk(disks[n])
  BY NowServed, NowGood
<1>5. \A n \in N : SettledDisk(disks'[n]) /\ disks'[n].kind = disks[n].kind
  BY <1>1, <1>3, <1>4, InvalidSettled
<1>6. \A n \in DOMAIN disks \ N : disks'[n] = disks[n] /\ (Listed(n) => Listed(n)')
  BY <1>1, <1>2 DEF Listed
<1>7. KindsKept
  BY <1>3, <1>5, <1>6 DEF KindsKept
<1>8. PICK T \in SUBSET TargetsOf(N) : Removed(T)
  BY <1>1, DetachesIs
<1> QED
  BY <1>2, <1>3, <1>5, <1>6, <1>7, <1>8, DetachServes

LEMMA MountNetworkServes == ASSUME ServedInv, MountNetwork \/ MountRefused PROVE DeskServing'
<1> PICK n : n = cmd.id
  OBVIOUS
<1>1. TasksKept /\ listing' = listing
  BY ScansStay DEF MountNetwork, MountRefused, NetFinished, Finished, scanVars
<1>2. \/ /\ IsNet(n) /\ disks[n].st = "unmounted"
         /\ \E t \in Targets : Free(t) /\ Serves(t, Media("net", opened[disks[n].what], n)) /\ disks' = SetMounted(n, t)
      \/ UNCHANGED <<managed, disks>>
  BY DEF MountNetwork, MountRefused, FirstFree
<1>3. ASSUME IsNet(n) PROVE n \in DOMAIN disks /\ Listed(n) /\ disks[n].kind = "net"
  <2>1. listing \in Seq(DOMAIN disks)
    BY NowServed, NowGood DEF GoodList
  <2> QED
    BY <1>3, <2>1 DEF IsNet, Listed, ToSet
<1> QED
  BY <1>1, <1>2, <1>3, MountServes, DeskRests DEF MountedAt

\* The disk is in the list, so it is in the catalog.
LEMMA NetThere == ASSUME ServedInv, NEW n, IsNet(n) PROVE n \in DOMAIN disks /\ Listed(n) /\ disks[n].kind = "net"
<1>1. listing \in Seq(DOMAIN disks)
  BY NowServed, NowGood DEF GoodList
<1> QED
  BY <1>1 DEF IsNet, Listed, ToSet

\* A disk that is not mounted becomes invalid, or is ejected as it becomes so;
\* it may leave the list.
LEMMA InvalidServes ==
    ASSUME ServedInv, TasksKept, NEW n \in DOMAIN disks, disks' = [disks EXCEPT ![n] = SetInvalid(@)],
           \A m : m # n /\ Listed(m) => Listed(m)',
           IF MountedAt(n) THEN Removed({disks[n].target}) ELSE managed' = managed
    PROVE  DeskServing'
<1> PICK r : r = SetInvalid(disks[n])
  OBVIOUS
<1>1. ClientsInv /\ SettledDisk(r) /\ r.kind = disks[n].kind
  BY NowServed, NowGood, InvalidSettled
<1>2. disks' = [disks EXCEPT ![n] = r]
  OBVIOUS
<1>3. DOMAIN disks' = DOMAIN disks /\ disks'[n] = r /\ \A m \in DOMAIN disks : m # n => disks'[m] = disks[m]
  BY <1>1, <1>2, OnePut
<1>4. CASE MountedAt(n)
  BY <1>1, <1>3, <1>4, EjectServes
<1>5. CASE ~MountedAt(n)
  <2>1. \A m \in DOMAIN disks : m # n => KeptDisk(m)
    BY <1>3, <1>5, NowServed DEF KeptDisk, ServedDisk
  <2>2. KindsKept
    BY <1>1, <1>3 DEF KindsKept
  <2> QED
    BY <1>1, <1>3, <2>1, <2>2, DisksServe
<1> QED
  BY <1>4, <1>5

LEMMA MountMissesServes == ASSUME ServedInv, MountMisses PROVE DeskServing'
<1> PICK n : n = cmd.id
  OBVIOUS
<1>1. TasksKept /\ listing' = listing /\ managed' = managed
  BY ScansStay DEF MountMisses, Finished, scanVars, backendVars
<1>2. n \in DOMAIN disks /\ ~MountedAt(n) /\ disks' = [disks EXCEPT ![n] = SetInvalid(@)]
  BY NetThere DEF MountMisses, MountedAt
<1> QED
  BY <1>1, <1>2, InvalidServes DEF Listed

LEMMA EjectNetworkServes == ASSUME ServedInv, EjectNetwork PROVE DeskServing'
<1> PICK n : n = cmd.id
  OBVIOUS
<1>1. TasksKept /\ listing' = listing
  BY ScansStay DEF EjectNetwork, NetFinished, Finished, scanVars
<1>2. n \in DOMAIN disks /\ disks[n].kind = "net"
  BY NetThere DEF EjectNetwork
<1>3. CASE MountedAt(n) /\ Removed({disks[n].target}) /\ disks' = SetUnmounted(n)
  <2> PICK r : r = SetUnmounted(n)[n]
    OBVIOUS
  <2>1. SettledDisk(r) /\ r.kind = disks[n].kind
    BY <1>2, NowServed, UnmountedSettled
  <2>2. disks' = [disks EXCEPT ![n] = r]
    BY <1>2, <1>3, NowServed, NowGood DEF SetUnmounted
  <2>3. DOMAIN disks' = DOMAIN disks /\ disks'[n] = r /\ \A m \in DOMAIN disks : m # n => disks'[m] = disks[m]
    BY <1>2, <2>2, NowServed, OnePut
  <2>4. \A m : Listed(m) => Listed(m)'
    BY <1>1 DEF Listed
  <2> QED
    BY <1>1, <1>2, <1>3, <2>1, <2>3, <2>4, EjectServes
<1>4. CASE UNCHANGED <<disks, managed>>
  BY <1>1, <1>4, DeskRests
<1> QED
  BY <1>3, <1>4 DEF EjectNetwork

LEMMA DeleteNetworkServes == ASSUME ServedInv, DeleteNetwork PROVE DeskServing'
<1> PICK n : n = cmd.id
  OBVIOUS
<1>1. TasksKept
  BY ScansStay DEF DeleteNetwork, scanVars
<1>2. n \in DOMAIN disks /\ Listed(n)
  BY NetThere DEF DeleteNetwork
<1>3. CASE UNCHANGED <<managed, disks, listing>>
  BY <1>1, <1>3, DeskRests
<1>4. CASE /\ IF MountedAt(n) THEN Removed({disks[n].target}) ELSE managed' = managed
           /\ disks' = [disks EXCEPT ![n] = SetInvalid(@)] /\ Drops(n)
  <2>1. \A m : m # n /\ Listed(m) => Listed(m)'
    BY <1>2, <1>4, NowServed, DropsListed
  <2> QED
    BY <1>1, <1>2, <1>4, <2>1, InvalidServes
<1> QED
  BY <1>3, <1>4 DEF DeleteNetwork

\* submit_network_draft: the new disks are not mounted.
LEMMA SubmitServes == ASSUME ServedInv, Submit PROVE DeskServing'
<1> PICK k : k = cmd.id
  OBVIOUS
<1> PICK q, m : q = Cardinality(Keys(k)) /\ m = Len(disks)
  OBVIOUS
<1>1. TasksKept /\ managed' = managed
  BY ScansStay DEF Submit, hostVars, backendVars, scanVars
<1>2. CASE UNCHANGED <<disks, listing>>
  BY <1>1, <1>2, DeskRests
<1>3. CASE listing' = listing \o [i \in 1..q |-> m + i] /\ disks' = disks \o DisksFor(Keys(k))
  <2> PICK K \in SUBSET RemoteDisks : K = Keys(k)
    BY DEF Keys
  <2> PICK D : D = DisksFor(K)
    OBVIOUS
  <2>1. q \in Nat /\ D \in Seq(DiskType) /\ Len(D) = q
    BY NowServed, DisksForGood
  <2>2. disks \in Seq(DiskType) /\ m \in Nat /\ DOMAIN disks = 1..m
    BY NowServed, NowGood
  <2>3. \A i \in 1..q : SettledDisk(D[i])
    <3>1. D = [i \in 1..q |-> NewDisk("net", SetToSeq(K)[i], "unmounted")]
      BY DEF DisksFor
    <3> QED
      BY <3>1, NewSettled
  <2>4. DOMAIN disks' = 1..(m + q) /\ \A j \in 1..(m + q) : disks'[j] = IF j <= m THEN disks[j] ELSE D[j - m]
    BY <1>3, <2>1, <2>2, GlueFacts
  <2>5. \A j \in DOMAIN disks : j \in DOMAIN disks' /\ disks'[j] = disks[j]
    BY <2>1, <2>2, <2>4
  <2>6. ASSUME NEW j \in DOMAIN disks', j \notin DOMAIN disks PROVE SettledDisk(disks'[j])
    <3>1. j - m \in 1..q /\ disks'[j] = D[j - m]
      BY <2>1, <2>2, <2>4, <2>6
    <3> QED
      BY <2>3, <3>1
  <2>7. \A n : Listed(n) => Listed(n)'
    <3> PICK E : E = [i \in 1..q |-> m + i]
      OBVIOUS
    <3>1. listing \in Seq(Nat)
      <4>1. listing \in Seq(1..m)
        BY <2>2, NowServed, NowGood DEF GoodList
      <4> QED
        BY <2>2, <4>1
    <3>m. m \in Nat /\ q \in Nat
      BY <2>1, <2>2
    <3>4. E \in Seq(Nat) /\ Len(E) = q
      BY <3>m
    <3>2. listing' = listing \o E
      BY <1>3
    <3> PICK l \in Nat : l = Len(listing) /\ DOMAIN listing = 1..l
      BY <3>1
    <3>5. /\ DOMAIN listing' = 1..(l + q)
          /\ \A j \in 1..(l + q) : listing'[j] = IF j <= l THEN listing[j] ELSE E[j - l]
      BY <2>1, <3>1, <3>2, <3>4, GlueFacts
    <3>3. \A i \in DOMAIN listing : i \in DOMAIN listing' /\ listing'[i] = listing[i]
      BY <2>1, <3>5
    <3> QED
      BY ONLY <3>3 DEF Listed, ToSet
  <2> QED
    BY <1>1, <2>5, <2>6, <2>7, GrowsServes
<1> QED
  BY <1>2, <1>3 DEF Submit

\* The tasks of a rescan are for network disks of the list.
LEMMA TasksOfNet == ASSUME ServedInv, NEW task \in Tasks PROVE NetTask(task)
<1>1. PICK n \in DisksOf(RemoteDisks) :
        task = [id |-> n, disk |-> disks[n].what, mounted |-> MountedAt(n), stale |-> 0]
  BY DEF Tasks
<1>2. task.id = n /\ n \in DOMAIN disks /\ IsNet(n)
  BY <1>1 DEF DisksOf
<1> QED
  BY <1>2 DEF NetTask, OfNet, IsNet

LEMMA PlanServes ==
    ASSUME ServedInv, NEW w \in Scanners, NEW P, plan' = [plan EXCEPT ![w] = P] \/ plan' = plan,
           \A task \in P : NetTask(task), found' = found
    PROVE  TasksKept
<1>1. plan \in [Scanners -> SUBSET TaskType]
  BY NowServed, NowSessions
<1>2. \A v \in Scanners : plan'[v] = plan[v] \/ (v = w /\ plan'[v] = P)
  BY <1>1
<1> QED
  BY <1>2, NowServed DEF TasksKept

LEMMA AdoptServes == ASSUME ServedInv, Adopt PROVE DeskServing'
<1>1. UNCHANGED <<managed, disks, listing, found>>
  BY DEF Adopt, hostVars, backendVars
<1>2. plan' = [plan EXCEPT !["ui"] = Tasks] \/ plan' = plan
  BY DEF Adopt
<1>3. TasksKept
  <2>1. "ui" \in Scanners
    BY DEF Scanners
  <2> QED
    BY <1>1, <1>2, <2>1, PlanServes, TasksOfNet
<1> QED
  BY <1>1, <1>3, DeskRests

\* What the disks know nothing of.
DeskLeaves ==
    \/ DeskCommand \/ DeskLock \/ DeskWatched \/ DraftCommand \/ (LoseFile /\ UNCHANGED deskOnly)
    \/ AddStarts \/ AddOpens \/ AddFails \/ AddAbandons \/ AddInserts
    \/ StartRescan \/ RescanLock \/ (\E w \in Scanners : ObserveOpens(w))
    \/ (\E c \in Conns : DeskHandlers(c)) \/ DeskIo("io") \/ DeskInvalidate("io")
    \/ Beneath /\ UNCHANGED <<hostVars, catalogOnly, deskOnly>>

LEMMA LeavesServes == ASSUME ServedInv, DeskLeaves PROVE DeskServing'
<1> USE DEF scanVars, deskOnly, catalogOnly, catalogRest, backendVars, hostVars
<1>1. ASSUME DeskCommand \/ DeskLock \/ DeskWatched \/ (LoseFile /\ UNCHANGED deskOnly) \/ StartRescan \/ RescanLock
      PROVE  UNCHANGED <<managed, disks, listing, plan, found>>
  BY <1>1 DEF DeskCommand, Check, DeskLock, DeskWatched, LoseFile, StartRescan, RescanLock, BeginSync
<1>2. ASSUME AddStarts \/ AddOpens \/ AddFails \/ AddAbandons \/ AddInserts
      PROVE  UNCHANGED <<managed, disks, listing, plan, found>>
  BY <1>2 DEF AddStarts, AddOpens, AddFails, AddAbandons, AddInserts, AddVars
<1>3. ASSUME DraftCommand PROVE UNCHANGED <<managed, disks, listing, plan, found>>
  <2>1. ASSUME NEW k, DisposeDraft(k) \/ \E d \in RemoteDisks : RemoveItem(k, d)
        PROVE  UNCHANGED <<managed, disks, listing, plan, found>>
    BY <2>1 DEF DisposeDraft, RemoveItem, DraftStep
  <2> QED
    BY <1>3, <2>1 DEF DraftCommand, TestConnection, NewDraft, DraftStep
<1>4. ASSUME NEW w, ObserveOpens(w) PROVE UNCHANGED <<managed, disks, listing, plan, found>>
  BY <1>4 DEF ObserveOpens
<1>5. ASSUME NEW c, DeskHandlers(c) PROVE UNCHANGED <<managed, disks, listing, plan, found>>
  BY <1>5 DEF DeskHandlers, DeskSessionClosed, DeskDataChanged, DeskDisconnected
<1>6. ASSUME DeskIo("io") \/ DeskInvalidate("io") PROVE UNCHANGED <<managed, disks, listing, plan, found>>
  BY <1>6 DEF DeskIo, DeskInvalidate
<1>7. UNCHANGED <<managed, disks, listing, plan, found>>
  BY <1>1, <1>2, <1>3, <1>4, <1>5, <1>6 DEF DeskLeaves
<1> QED
  BY <1>7, ScansStay, DeskRests

\* The local stage of a rescan: the disks that are lost are removed from the
\* backend, where that succeeds.
LEMMA RescanLocalServes == ASSUME ServedInv, RescanLocal PROVE DeskServing'
<1> DEFINE N == {n \in DOMAIN disks : Listed(n) /\ disks[n].kind = "file" /\ (Lost(n) \/ ~MountedAt(n))}
<1>1. /\ disks' = RescannedLocal /\ listing' = listing /\ found' = found
      /\ plan' = [plan EXCEPT !["rescan"] = Tasks] \/ plan' = plan
  BY DEF RescanLocal
<1>2. PICK T \in SUBSET LostTargets : Removed(T)
  BY DEF RescanLocal
<1>3. TasksKept
  <2>1. "rescan" \in Scanners
    BY DEF Scanners
  <2> QED
    BY <1>1, <2>1, PlanServes, TasksOfNet
<1>4. T \in SUBSET TargetsOf(N)
  BY DEF LostTargets, TargetsOf, Lost
<1>5. DOMAIN disks' = DOMAIN disks
  BY <1>1 DEF RescannedLocal
<1>6. ASSUME NEW n \in DOMAIN disks, n \in N PROVE SettledDisk(disks'[n]) /\ disks'[n].kind = disks[n].kind
  <2>1. disks'[n] = IF Lost(n) THEN SetInvalid(disks[n]) ELSE Probed(disks[n])
    BY <1>1, <1>6 DEF RescannedLocal
  <2>2. GoodDisk(disks[n]) /\ disks[n].kind = "file"
    BY <1>6, NowServed, NowGood
  <2> QED
    BY <2>1, <2>2, InvalidSettled, ProbedSettled
<1>7. ASSUME NEW n \in DOMAIN disks, n \notin N PROVE disks'[n] = disks[n] /\ (Listed(n) => Listed(n)')
  BY <1>1, <1>7 DEF RescannedLocal, Listed
<1>8. KindsKept
  BY <1>5, <1>6, <1>7 DEF KindsKept
<1>9. N \subseteq DOMAIN disks
  OBVIOUS
<1> HIDE DEF N
<1> QED
  BY <1>2, <1>3, <1>4, <1>5, <1>6, <1>7, <1>8, <1>9, DetachServes

\* A task of the plan is observed, or marked as stale.
LEMMA FirstOfNet ==
    ASSUME ServedInv, NEW w \in Scanners, NEW task \in FirstOf(plan[w])
    PROVE  NetTask(task) /\ \A s : NetTask(Stale(task, s))
<1>1. NetTask(task) /\ task \in TaskType
  BY NowServed, FirstTask
<1>2. \A s : Stale(task, s).id = task.id
  BY <1>1 DEF Stale, TaskType
<1> QED
  BY <1>1, <1>2 DEF NetTask, OfNet

LEMMA TakesTask ==
    ASSUME ServedInv, NEW w \in Scanners, NEW task \in FirstOf(plan[w]), NEW now, now = task \/ \E x : now = Stale(task, x),
           NEW s, NEW source, plan' = [plan EXCEPT ![w] = @ \ {task}],
           found' = [found EXCEPT ![w] = @ \cup {[task |-> now, sid |-> s, source |-> source]}]
    PROVE  TasksKept
<1> PICK P, F : P = plan[w] \ {task} /\ F = found[w] \cup {[task |-> now, sid |-> s, source |-> source]}
  OBVIOUS
<1>1. plan \in [Scanners -> SUBSET TaskType] /\ found \in [Scanners -> SUBSET FoundType]
  BY NowServed, NowSessions
<1>2. NetTask(now)
  BY FirstOfNet
<1>3. (\A other \in P : NetTask(other)) /\ \A o \in F : o \in found[w] \/ o.task = now
  BY NowServed
<1>4. \A v \in Scanners : (plan'[v] = plan[v] \/ (v = w /\ plan'[v] = P)) /\ (found'[v] = found[v] \/ (v = w /\ found'[v] = F))
  BY <1>1
<1> QED
  BY <1>2, <1>3, <1>4, NowServed DEF TasksKept

LEMMA ObserveServes ==
    ASSUME ServedInv, NEW w \in Scanners, Observe(w) \/ ObserveFails(w) \/ ObserveEnds(w) PROVE DeskServing'
<1>1. UNCHANGED <<managed, disks, listing>>
  BY DEF Observe, ObserveFails, ObserveEnds, ScanVars, backendVars
<1>2. CASE Observe(w)
  <2>1. PICK task \in FirstOf(plan[w]) :
          LET s == opened[task.disk] IN
          \/ Observed(w, task, s, "existing")
          \/ plan' = [plan EXCEPT ![w] = (@ \ {task}) \cup {Stale(task, s)}] /\ found' = found
    BY <1>2 DEF Observe
  <2> PICK s : s = opened[task.disk]
    OBVIOUS
  <2>2. CASE Observed(w, task, s, "existing")
    BY <1>1, <2>2, TakesTask, DeskRests DEF Observed
  <2>3. CASE plan' = [plan EXCEPT ![w] = (@ \ {task}) \cup {Stale(task, s)}] /\ found' = found
    <3> PICK P : P = (plan[w] \ {task}) \cup {Stale(task, s)}
      OBVIOUS
    <3>1. plan' = [plan EXCEPT ![w] = P] /\ \A other \in P : NetTask(other)
      BY <2>3, NowServed, FirstOfNet
    <3> QED
      BY <1>1, <2>3, <3>1, PlanServes, DeskRests
  <2> QED
    BY <2>1, <2>2, <2>3
<1>3. CASE ObserveFails(w)
  <2>1. PICK task \in FirstOf(plan[w]) :
          LET s == opened[task.disk] IN
          \/ /\ found' = [found EXCEPT ![w] = @ \cup {[task |-> Stale(task, s), sid |-> 0, source |-> "failure"]}]
             /\ plan' = [plan EXCEPT ![w] = @ \ {task}]
          \/ Observed(w, task, 0, "failure")
    BY <1>3 DEF ObserveFails
  <2>2. CASE Observed(w, task, 0, "failure")
    BY <1>1, <2>2, TakesTask, DeskRests DEF Observed
  <2>3. CASE ~Observed(w, task, 0, "failure")
    BY <1>1, <2>1, <2>3, TakesTask, DeskRests
  <2> QED
    BY <2>2, <2>3
<1>4. CASE ObserveEnds(w)
  <2>1. PICK task \in FirstOf(plan[w]), s \in {job[w].sid, 0}, source \in {"fresh", "failure"} : Observed(w, task, s, source)
    BY <1>4 DEF ObserveEnds
  <2> QED
    BY <1>1, <2>1, TakesTask, DeskRests DEF Observed
<1> QED
  BY <1>2, <1>3, <1>4

\* The commit changes disks of the network only.
LEMMA CommitServes == ASSUME ServedInv, NEW w \in Scanners, Commit(w) PROVE DeskServing'
<1> PICK F : F = found[w]
  OBVIOUS
<1> PICK N : N = Touched(F)
  OBVIOUS
<1>1. /\ Detaches(N) /\ disks' = Applied(F) /\ found' = [found EXCEPT ![w] = {}] /\ UNCHANGED <<listing, plan>>
  BY DEF Commit
<1>2. \A o \in F : NetTask(o.task)
  BY NowServed
<1>3. \A n \in N : n \in DOMAIN disks /\ disks[n].kind = "net"
  BY <1>2 DEF Touched, NetTask, OfNet
<1>4. TasksKept
  <2>1. \A v \in Scanners : found'[v] = found[v] \/ found'[v] = {}
    BY <1>1, NowServed, NowSessions
  <2> QED
    BY <1>1, <2>1, NowServed DEF TasksKept
<1>5. DOMAIN disks' = DOMAIN disks
  BY <1>1 DEF Applied
<1>6. ASSUME NEW n \in N PROVE SettledDisk(disks'[n]) /\ disks'[n].kind = disks[n].kind
  <2>1. disks'[n] = SetUnmounted(n)[n] \/ disks'[n] = SetInvalid(disks[n])
    BY <1>1, <1>3, <1>6 DEF Applied
  <2> QED
    BY <1>3, <1>6, <2>1, NowServed, NowGood, UnmountedSettled, InvalidSettled
<1>7. \A n \in DOMAIN disks \ N : disks'[n] = disks[n] /\ (Listed(n) => Listed(n)')
  BY <1>1 DEF Applied, Listed
<1>8. KindsKept
  BY <1>5, <1>6, <1>7 DEF KindsKept
<1>9. PICK T \in SUBSET TargetsOf(N) : Removed(T)
  BY <1>1, DetachesIs
<1> QED
  BY <1>3, <1>4, <1>5, <1>6, <1>7, <1>8, <1>9, DetachServes

LEMMA DesktopServes == ASSUME ServedInv, DesktopNext PROVE DeskServing'
<1>1. CASE DeskLeaves
  BY <1>1, LeavesServes
<1>2. CASE DeskWatch \/ DeskSync \/ MountNetwork \/ MountMisses \/ MountRefused \/ EjectNetwork \/ DeleteNetwork \/ Submit \/ Adopt
  BY <1>2, DeskWatchServes, DeskSyncServes, MountNetworkServes, MountMissesServes, EjectNetworkServes,
     DeleteNetworkServes, SubmitServes, AdoptServes
<1>3. CASE RescanLocal \/ \E w \in Scanners : Observe(w) \/ ObserveFails(w) \/ ObserveEnds(w) \/ Commit(w)
  BY <1>3, RescanLocalServes, ObserveServes, CommitServes
<1>4. CASE UNCHANGED deskOnly /\ (LocalCommand \/ Restart)
  BY <1>4, LocalServes, RestartServes
<1> QED
  BY <1>1, <1>2, <1>3, <1>4 DEF DesktopNext, NetCommand, Rescan, DeskLeaves

(***************************************************************************)
(* The desktop leaves the command line's threads idle.                     *)
(***************************************************************************)
CliIdle == Idle("shell") /\ Idle("reaper")

LEMMA ScannerIdle ==
    ASSUME ServedInv, CliIdle, NEW w \in {"ui", "rescan"}, NEW j, job' = [job EXCEPT ![w] = j] PROVE CliIdle'
<1>1. job'["shell"] = job["shell"] /\ job'["reaper"] = job["reaper"]
  BY NowServed DEF ClientsInv, NetInv, NetTypes
<1> QED
  BY <1>1 DEF CliIdle, Idle

LEMMA BeneathIdle ==
    ASSUME ServedInv, CliIdle,
           Beneath \/ MediaIo("io") \/ (\E s \in Sessions : MediaFails("io", s))
               \/ \E c \in Conns : HandleDisconnect(c) \/ \E s \in Sessions : TakeClose(c, s) \/ TakeChanged(c, s)
    PROVE  CliIdle'
<1>1. "shell" \in Threads /\ "reaper" \in Threads /\ "io" \in Threads /\ NetInv
  BY HostAssumption, NowServed DEF HostAssumption, ClientsInv
<1>2. JobQuiet("shell") /\ JobQuiet("reaper")
  BY <1>1, BeneathQuiet, MediaQuiet, LoopQuiet
<1> QED
  BY <1>2 DEF CliIdle, Idle, JobQuiet, AboutDisk

LEMMA DesktopIdle == ASSUME ServedInv, CliIdle, DesktopNext PROVE CliIdle'
<1> USE DEF netVars, Locked
<1>1. ASSUME job' = job PROVE CliIdle'
  BY <1>1 DEF CliIdle, Idle
<1>2. CASE DeskCommand \/ DeskLock \/ DeskWatch \/ DeskWatched \/ DeskSync \/ LoseFile \/ Restart
  BY <1>1, <1>2 DEF DeskCommand, Check, DeskLock, DeskWatch, DeskWatched, DeskSync, LoseFile, Restart
<1>3. CASE LocalCommand
  BY <1>1, <1>3 DEF LocalCommand, CreateMemory, CreateFile, CreateNewFile, MountLocal, EjectLocal, DeleteLocal, Refused,
     UndoDelete, CommitDelete
<1>4. CASE MountNetwork \/ MountMisses \/ MountRefused \/ EjectNetwork \/ DeleteNetwork \/ Submit \/ Adopt
  BY <1>1, <1>4 DEF MountNetwork, MountMisses, MountRefused, EjectNetwork, DeleteNetwork, Submit, Adopt, NetFinished
<1>5. CASE AddStarts \/ AddOpens \/ AddFails \/ AddAbandons \/ AddInserts
  <2>1. job' = job \/ \E j : job' = [job EXCEPT !["ui"] = j]
    BY <1>5 DEF AddStarts, AddOpens, AddFails, AddAbandons, AddInserts, AddEnds, BeginOpen, Begins, ClearJob, StayJob, Request
  <2> QED
    BY <1>1, <2>1, ScannerIdle
<1>6. CASE DraftCommand
  <2>1. ASSUME NEW k, DisposeDraft(k) \/ \E d \in RemoteDisks : RemoveItem(k, d) PROVE job' = job
    BY <2>1 DEF DisposeDraft, RemoveItem
  <2> QED
    BY <1>1, <1>6, <2>1 DEF DraftCommand, TestConnection, NewDraft
<1>7. CASE StartRescan \/ RescanLock \/ RescanLocal
  BY <1>1, <1>7 DEF StartRescan, RescanLock, RescanLocal
<1>8. CASE \E w \in Scanners : Observe(w) \/ ObserveFails(w) \/ ObserveOpens(w) \/ ObserveEnds(w) \/ Commit(w)
  <2>1. PICK w \in Scanners : Observe(w) \/ ObserveFails(w) \/ ObserveOpens(w) \/ ObserveEnds(w) \/ Commit(w)
    BY <1>8
  <2>2. CASE Observe(w)
    <3>1. job' = job \/ \E c, d : Begins(w, c, d)
      BY <2>2 DEF Observe
    <3>2. job' = job \/ \E j : job' = [job EXCEPT ![w] = j]
      BY <3>1 DEF Begins
    <3> QED
      BY <1>1, <3>2, ScannerIdle DEF Scanners
  <2>3. CASE ~Observe(w)
    <3>1. job' = job \/ \E j : job' = [job EXCEPT ![w] = j]
      BY <2>1, <2>3 DEF ObserveFails, ObserveOpens, ObserveEnds, Commit, BeginOpen, ClearJob, StayJob, Request
    <3> QED
      BY <1>1, <3>1, ScannerIdle DEF Scanners
  <2> QED
    BY <2>2, <2>3
<1>9. CASE \E c \in Conns : DeskHandlers(c)
  <2>1. PICK c \in Conns : HandleDisconnect(c) \/ \E s \in Sessions : TakeClose(c, s) \/ TakeChanged(c, s)
    BY <1>9 DEF DeskHandlers, DeskSessionClosed, DeskDataChanged, DeskDisconnected
  <2> QED
    BY <2>1, BeneathIdle
<1>10. CASE DeskIo("io") \/ DeskInvalidate("io") \/ Beneath
  BY <1>10, BeneathIdle DEF DeskIo, DeskInvalidate
<1> HIDE DEF netVars, Locked
<1> QED
  BY <1>2, <1>3, <1>4, <1>5, <1>6, <1>7, <1>8, <1>9, <1>10 DEF DesktopNext, NetCommand, Rescan

\* Then nothing of it is mounted, and nothing is under way.
LEMMA DesktopOnlyServes ==
    ASSUME ServedInv, UNCHANGED cliOnly, DesktopNext PROVE OneProgram' /\ CliServing'
<1>1. "desktop" \in uses /\ uses' = uses /\ UNCHANGED <<host, want, mounted>>
  BY DEF DesktopNext, cliOnly, lockVars
<1>2. CliIdle /\ "cli" \notin uses /\ \A t \in Targets : ~Mounted(t)
  BY <1>1 DEF ServedInv, OneProgram, CliIdle
<1>3. CliIdle'
  BY <1>2, DesktopIdle
<1>4. \A t \in Targets : ~Mounted(t)'
  BY <1>1, <1>2 DEF Mounted
<1>5. OneProgram'
  BY <1>1, <1>2, <1>3, <1>4 DEF OneProgram, CliIdle
<1>6. HostHeld' /\ (host' # "none" => want' \in Targets) /\ ~At("shell", "created")'
  BY <1>1, <1>3 DEF HostHeld, CliIdle, Idle, At, ServedInv, CliServing
<1>7. CliBackends'
  BY <1>4 DEF CliBackends
<1> QED
  BY <1>4, <1>5, <1>6, <1>7 DEF CliServing

LEMMA StutterServes == ASSUME ServedInv, UNCHANGED vars PROVE ServedInv'
<1>1. ClientsInv'
  BY StutterInv, NowServed
<1>2. DeskServing'
  BY ScansStay, DeskRests DEF vars, hostVars, backendVars, catalogOnly, deskOnly, scanVars
<1>3. UNCHANGED <<uses, job, mounted, disks, host, want, managed, sess, backendOf, plan>>
  BY DEF vars, netVars, hostVars, backendVars, cliOnly, lockVars, catalogOnly, deskOnly, scanVars
<1>4. OneProgram'
  BY <1>3 DEF ServedInv, OneProgram, Idle, Mounted, MountedAt
<1>5. CliBackends'
  BY <1>3 DEF ServedInv, CliServing, CliBackends, Mounted
<1>6. ~At("shell", "created") \/ ~IsDuplicate(job["shell"].disk)
  BY DEF ServedInv, CliServing
<1>7. IsDuplicate(job["shell"].disk)' = IsDuplicate(job["shell"].disk)
  BY <1>3 DEF IsDuplicate, Mounted
<1>8. CliServing'
  BY <1>3, <1>5, <1>7 DEF ServedInv, CliServing, HostHeld, Idle, At, Mounted
<1> QED
  BY <1>1, <1>2, <1>4, <1>8 DEF ServedInv

LEMMA NextServes == ASSUME ServedInv, [Next]_vars PROVE ServedInv'
<1>1. CASE CliNext /\ UNCHANGED <<catalogOnly, deskOnly>>
  BY <1>1, CliNextServes DEF CliStep
<1>2. CASE DesktopNext /\ UNCHANGED cliOnly
  BY <1>2, DesktopServes, DesktopOnlyServes, DesktopNextInv, NowServed DEF ServedInv
<1> QED
  BY <1>1, <1>2, StutterServes DEF Next

LEMMA StartsServed == ASSUME Init PROVE ServedInv
<1>1. PICK w \in Workloads : HostInit(w) /\ CliInit /\ CatalogInit(w) /\ DesktopInit
  BY DEF Init
<1>2. ClientsInv
  BY StartsTyped
<1>3. /\ uses = w.uses /\ job = [t \in Threads |-> IdleJob] /\ host = "none" /\ mounted = [t \in Targets |-> 0]
      /\ disks = Restored(listing, w.disks)
  BY <1>1 DEF HostInit, NetInit, CliInit, CatalogInit
<1>4. Idle("shell") /\ Idle("reaper") /\ \A t \in Targets : ~Mounted(t)
  BY <1>3, HostAssumption DEF Idle, IdleJob, Mounted, HostAssumption
<1> PICK ds : ds = w.disks
  OBVIOUS
<1> PICK l \in Nat : l = Len(ds) /\ DOMAIN ds = 1..l
  BY CatalogAssumption DEF CatalogAssumption
<1>5. \A m \in 1..l : /\ ds[m].kind \in {"net", "file", "mem"}
                      /\ ds[m].what \in RemoteDisks \cup Files \cup {"ram"}
                      /\ ds[m].kind = "net" => ds[m].what \in RemoteDisks
  <2>1. ds \in Seq([kind : {"net", "file", "mem"}, what : RemoteDisks \cup Files \cup {"ram"}])
        /\ \A n \in DOMAIN ds : ds[n].kind = "net" => ds[n].what \in RemoteDisks
    BY CatalogAssumption DEF CatalogAssumption
  <2>2. ASSUME NEW r \in [kind : {"net", "file", "mem"}, what : RemoteDisks \cup Files \cup {"ram"}]
        PROVE  r.kind \in {"net", "file", "mem"} /\ r.what \in RemoteDisks \cup Files \cup {"ram"}
    OBVIOUS
  <2>3. ASSUME NEW m \in 1..l
        PROVE  ds[m] \in [kind : {"net", "file", "mem"}, what : RemoteDisks \cup Files \cup {"ram"}]
    <3>1. \A R, q : q \in Seq(R) => \A i \in DOMAIN q : q[i] \in R
      OBVIOUS
    <3>2. m \in DOMAIN ds
      BY <2>3
    <3> QED
      BY <2>1, <3>1, <3>2, Zenon
  <2> QED
    BY <2>1, <2>2, <2>3
<1>6. \A n \in DOMAIN disks : SettledDisk(disks[n])
  <2>1. disks = Restored(listing, ds)
    BY <1>3
  <2>2. DOMAIN Restored(listing, ds) = 1..l
    BY DEF Restored
  <2>3. ASSUME NEW n \in 1..l PROVE SettledDisk(Restored(listing, ds)[n])
    BY <1>5, RestoredSettled, Zenon
  <2> QED
    BY <2>1, <2>2, <2>3
<1>7. DeskServing
  <2>1. \A n \in DOMAIN disks : ~MountedAt(n)
    BY <1>6 DEF SettledDisk, MountedAt
  <2>2. \A v \in Scanners : plan[v] = {} /\ found[v] = {}
    BY <1>1 DEF DesktopInit
  <2> QED
    BY <1>6, <2>1, <2>2 DEF DeskServing, DeskServed, SettledDisk
<1>8. OneProgram
  <2>1. \A v \in Scanners : plan[v] = {}
    BY <1>1 DEF DesktopInit
  <2> QED
    BY <1>3, <1>4, <1>6, <2>1, HostAssumption DEF OneProgram, HostAssumption, SettledDisk, MountedAt
<1>9. CliServing
  BY <1>3, <1>4 DEF CliServing, HostHeld, At, Idle, CliBackends
<1> QED
  BY <1>2, <1>7, <1>8, <1>9 DEF ServedInv

\* What serves a mounted disk is kept throughout every behaviour of either
\* program: whatever the order of commands, callbacks, rescans and failures.
THEOREM ServedInvariant == Spec => []ServedInv
BY StartsServed, NextServes, PTL DEF Spec

\* A mounted disk of the command line is served from the session it was mounted
\* with unless remove_disk is taking it away, one of the desktop by the media
\* made for it; and a memory disk of the desktop that is not mounted still has
\* its content (MountTable, DiskRuntime and the BackendContext agree).
THEOREM MountedAreServed == Spec => []MountedIsServed
<1>1. ASSUME ServedInv PROVE MountedIsServed
  <2>1. HostHeld /\ \A t \in Targets : Mounted(t) =>
          managed[t] = Net(mounted[t]) \/ (want = t /\ (At("shell", "removing") \/ At("reaper", "removing")))
    BY <1>1 DEF ServedInv, CliServing
  <2>2. At("shell", "removing") \/ At("reaper", "removing") => host # "none"
    BY <2>1 DEF HostHeld, At, Idle
  <2> QED
    BY <1>1, <2>1, <2>2 DEF MountedIsServed, CliServed, ServedInv, DeskServing
<1> QED
  BY <1>1, ServedInvariant, PTL

\* The command line never mounts two sessions of one backend: what
\* ensure_unique_mount checked still holds when create_managed_disk is done.
THEOREM MountsAreApart == Spec => []CliBackends
<1>1. ServedInv => CliBackends
  BY DEF ServedInv, CliServing
<1> QED
  BY <1>1, ServedInvariant, PTL
=============================================================================
