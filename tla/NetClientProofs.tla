-------------------------- MODULE NetClientProofs --------------------------
(***************************************************************************)
(* Proofs about NetClient: what each of its actions does to the invariant  *)
(* NetInv, and what any step of a host program may do that keeps it.  The  *)
(* two host programs are put together with this in ClientsProofs.          *)
(***************************************************************************)
EXTENDS NetClient, TLAPS

(***************************************************************************)
(* What a step does, as the proofs see it.                                 *)
(***************************************************************************)

\* Only the job of t, only connection c.
JobOnly(t) == job' \in [Threads -> JobType] /\ \A u \in Threads : u # t => job'[u] = job[u]
ConnOnly(c) ==
    /\ conn' \in Seq(ConnType) /\ Len(conn') = Len(conn)
    /\ \A e \in Conns : e # c => conn'[e] = conn[e]

\* Every inbox stays, and so does what a connection is; sessions keep what they
\* are of.
Steady ==
    /\ conn' \in Seq(ConnType) /\ Len(conn') = Len(conn)
    /\ \A c \in Conns : conn'[c].st = conn[c].st /\ conn'[c].inbox = conn[c].inbox
SameSessions ==
    /\ sess' \in Seq(SessType) /\ Len(sess') = Len(sess)
    /\ \A s \in Sessions : sess'[s].conn = sess[s].conn /\ sess'[s].disk = sess[s].disk

\* The fields of a connection and of a job.
LEMMA ConnFields ==
    ASSUME NetTypes, NEW c \in Conns
    PROVE  /\ conn[c] \in ConnType /\ c \in Nat /\ c # 0 /\ Conns = 1..Len(conn) /\ Len(conn) \in Nat
           /\ conn[c].inbox \in Seq(Message) /\ conn[c].auth \in BOOLEAN /\ conn[c].open \in BOOLEAN
           /\ conn[c].active \in SUBSET Nat /\ conn[c].grants \in 0..MaxGrants /\ conn[c].bad \in BOOLEAN
           /\ conn[c].st \in {"up", "down", "dead"}
<1>1. conn[c] \in ConnType /\ c \in Nat /\ c # 0 /\ Conns = 1..Len(conn) /\ Len(conn) \in Nat
  BY DEF NetTypes, Conns
<1> QED
  BY <1>1 DEF ConnType

LEMMA JobFields ==
    ASSUME NetTypes, NEW t \in Threads
    PROVE  /\ job[t] \in JobType /\ job[t].st \in JobStates /\ job[t].conn \in Nat /\ job[t].sid \in Nat
           /\ job[t].left \in 0..IoChunks /\ job[t].disk \in RemoteDisks \cup {"none"}
BY DEF NetTypes, JobType

\* A change of one connection, of one job.
LEMMA ConnSet ==
    ASSUME NetTypes, NEW c \in Conns, NEW cn \in ConnType, conn' = [conn EXCEPT ![c] = cn]
    PROVE  ConnOnly(c) /\ conn'[c] = cn
BY DEF ConnOnly, NetTypes, Conns

LEMMA SessSet ==
    ASSUME NEW q \in SessType, NEW st \in {"granted", "open", "closed", "terminal"}
    PROVE  /\ [q EXCEPT !.st = st] \in SessType /\ [q EXCEPT !.st = st].st = st
           /\ [q EXCEPT !.st = st].conn = q.conn /\ [q EXCEPT !.st = st].disk = q.disk
BY DEF SessType

LEMMA JobSet ==
    ASSUME NetTypes, NEW t \in Threads, NEW j \in JobType, job' = [job EXCEPT ![t] = j]
    PROVE  JobOnly(t) /\ job'[t] = j
BY DEF JobOnly, NetTypes

\* A request, and a thread's own step.
LEMMA RequestEffect ==
    ASSUME NetTypes, NEW t \in Threads, NEW st \in JobStates, job' = Request(t, st)
    PROVE  /\ JobOnly(t) /\ job'[t].st = st /\ job'[t].ans = "pending"
           /\ job'[t].conn = job[t].conn /\ job'[t].sid = job[t].sid /\ job'[t].disk = job[t].disk
BY DEF JobOnly, NetTypes, Request, JobType

LEMMA StayEffect ==
    ASSUME NetTypes, NEW t \in Threads, NEW st \in JobStates, job' = StayJob(t, st)
    PROVE  /\ JobOnly(t) /\ job'[t].st = st /\ job'[t].ans = "none"
           /\ job'[t].conn = job[t].conn /\ job'[t].sid = job[t].sid /\ job'[t].disk = job[t].disk
BY DEF JobOnly, NetTypes, StayJob, JobType

LEMMA ClearEffect ==
    ASSUME NetTypes, NEW t \in Threads, job' = ClearJob(t)
    PROVE  JobOnly(t) /\ job'[t] = IdleJob
BY NetAssumption DEF JobOnly, NetTypes, ClearJob, JobType, IdleJob, JobStates

\* A thread with a request out has a connection.
LEMMA AskingHasConn ==
    ASSUME JobsOK, NEW t \in Threads, job[t].ans # "none" \/ job[t].st \in Before \cup After \cup Asking
    PROVE  job[t].conn \in Conns
<1>1. job[t].st \notin {"idle", "removing"}
  BY DEF JobsOK, JobOK, Asking, Before, After
<1> QED
  BY <1>1 DEF JobsOK, JobOK

(***************************************************************************)
(* Waiters and inboxes: a step that leaves every inbox and in which t      *)
(* neither was nor becomes one to whom a reply is under way.               *)
(***************************************************************************)
LEMMA SteadyWaiters ==
    ASSUME NetInv, Steady, NEW t \in Threads, JobOnly(t),
           job[t].ans # "served", job'[t].ans # "served",
           job'[t].ans = "sent" => job'[t].conn \in Conns /\ conn[job'[t].conn].st # "dead"
    PROVE  InboxOK' /\ WaiterHasReleaser'
<1>1. Conns' = Conns
  BY DEF Conns, Steady, NetInv, NetTypes
<1>2. \A c \in Conns : (Up(c))' = Up(c)
  BY DEF Steady, Up
<1>3. \A c \in Conns : \A i, u : ReplyAt(c, i, u)' = ReplyAt(c, i, u)
  BY DEF ReplyAt, Steady
<1>4. InboxOK'
  BY <1>1, <1>2, <1>3 DEF InboxOK, NetInv, JobOnly, Steady
<1>5. WaiterHasReleaser'
  <2>1. \A u \in Threads : job[u].ans \in {"sent", "served"} => job[u].conn \in Conns
    BY AskingHasConn DEF NetInv
  <2> QED
    BY <1>1, <2>1 DEF WaiterHasReleaser, NetInv, JobOnly, Steady
<1> QED
  BY <1>4, <1>5

(***************************************************************************)
(* Sessions: the same step.                                                *)
(***************************************************************************)
LEMMA SteadySessions ==
    ASSUME NetInv, Steady, SameSessions, NEW t \in Threads, JobOnly(t),
           job[t].ans # "served", JobOK(t)', SidOK(t)',
           \A c \in Conns : \A s \in conn'[c].active :
               s \in conn[c].active \/ (s \in Sessions /\ sess[s].conn = c)
    PROVE  JobsOK' /\ SessionsOK' /\ SidsOK'
<1>1. Conns' = Conns /\ Sessions' = Sessions
  BY DEF Conns, Sessions, Steady, SameSessions, NetInv, NetTypes
<1>2. \A c \in Conns : (Up(c))' = Up(c)
  BY DEF Steady, Up
<1>3. \A u \in Threads : \A s : u # t => Names(u, s)' = Names(u, s)
  BY <1>1 DEF Names, SameSessions, JobOnly
<1>4. JobsOK'
  <2>1. ASSUME NEW u \in Threads, u # t PROVE JobOK(u)'
    <3>1. JobOK(u) /\ job'[u] = job[u]
      BY <2>1 DEF NetInv, JobsOK, JobOnly
    <3> QED
      BY <1>1, <3>1 DEF JobOK, At
  <2> QED
    BY <2>1 DEF JobsOK
<1>5. SidsOK'
  <2>1. ASSUME NEW u \in Threads, u # t PROVE SidOK(u)'
    <3>1. SidOK(u) /\ job'[u] = job[u]
      BY <2>1 DEF NetInv, SidsOK, JobOnly
    <3>2. At(u, "failed") => job[u].conn \in Conns
      BY DEF NetInv, JobsOK, JobOK, At
    <3> QED
      BY <1>1, <1>2, <1>3, <2>1, <3>1, <3>2 DEF SidOK, At, SameSessions
  <2> QED
    BY <2>1 DEF SidsOK
<1>6. SessionsOK'
  <2>1. \A s \in Sessions : sess'[s].conn \in Conns
    BY DEF SessionsOK, NetInv, SameSessions
  <2>2. \A c \in Conns : \A s \in conn'[c].active : s \in Sessions /\ sess'[s].conn = c
    BY DEF SessionsOK, NetInv, SameSessions
  <2>3. ASSUME NEW c \in Conns, NEW i \in DOMAIN conn[c].inbox, NEW m, m = conn[c].inbox[i]
        PROVE  IF m.kind # "reply" THEN m.sid \in Sessions /\ sess'[m.sid].conn = c
               ELSE IF job'[m.to].st = "open" /\ m.ans = "ok" THEN Names(m.to, m.sid)' ELSE m.sid = 0
    <3>1. IF m.kind # "reply" THEN m.sid \in Sessions /\ sess[m.sid].conn = c
          ELSE IF At(m.to, "open") /\ m.ans = "ok" THEN Names(m.to, m.sid) ELSE m.sid = 0
      BY <2>3 DEF SessionsOK, NetInv
    <3>2. CASE m.kind # "reply"
      BY <3>1, <3>2 DEF SameSessions
    <3>3. CASE m.kind = "reply"
      <4>1. m \in Message
        BY <2>3, ConnFields DEF NetInv
      <4>2. m.to \in Threads
        BY <3>3, <4>1 DEF Message
      <4>3. m.to # t
        BY <2>3, <3>3, <4>2 DEF NetInv, InboxOK, ReplyAt
      <4>4. job'[m.to] = job[m.to]
        BY <4>2, <4>3 DEF JobOnly
      <4> QED
        BY <1>3, <3>1, <3>3, <4>2, <4>3, <4>4 DEF At
    <3> QED
      BY <3>2, <3>3
  <2> QED
    BY <1>1, <2>1, <2>2, <2>3 DEF SessionsOK, Steady, At
<1> QED
  BY <1>4, <1>5, <1>6

(***************************************************************************)
(* The lifecycle: a step that leaves the flags of a connection, and in     *)
(* which t does not begin anything.                                        *)
(***************************************************************************)
LEMMA SteadyLifecycle ==
    ASSUME NetInv, Steady, NEW t \in Threads, JobOnly(t),
           \A c \in Conns : conn'[c].auth = conn[c].auth /\ conn'[c].open = conn[c].open,
           job'[t].st \notin {"start", "finish", "open"} \/ (job'[t].st = job[t].st /\ job'[t].conn = job[t].conn)
                \/ (job[t].st = "start" /\ job'[t].st = "finish" /\ job'[t].conn = job[t].conn)
    PROVE  LifecycleOK'
<1>1. Conns' = Conns
  BY DEF Conns, Steady, NetInv, NetTypes
<1>2. \A c \in Conns : (Up(c))' = Up(c)
  BY DEF Steady, Up
<1>3. \A c, u : u \in Threads /\ Beginning(u, c)' => Beginning(u, c)
  BY DEF Beginning, JobOnly
<1>4. \A c \in Conns, u \in Threads : Beginning(u, c)' => (At(u, "open")' <=> At(u, "open"))
  BY DEF Beginning, JobOnly, At
<1> QED
  BY <1>1, <1>2, <1>3, <1>4 DEF LifecycleOK, NetInv

\* A session of the gateway keeps its connection, which stays connected.
LEMMA SteadyGw == ASSUME NetInv, Steady, SameSessions, gw' \subseteq gw PROVE GwOK'
<1> SUFFICES ASSUME NEW s \in gw' PROVE Up(sess[s].conn)'
  BY DEF GwOK
<1>1. s \in gw /\ s \in Sessions /\ Up(sess[s].conn) /\ sess'[s].conn = sess[s].conn
  BY DEF NetInv, NetTypes, GwOK, SameSessions
<1>2. sess[s].conn \in Conns
  BY <1>1 DEF NetInv, SessionsOK
<1> QED
  BY <1>1, <1>2 DEF Up, Steady

\* The two together.
LEMMA SteadyStep ==
    ASSUME NetInv, Steady, SameSessions, NEW t \in Threads, JobOnly(t),
           job[t].ans # "served", job'[t].ans # "served",
           job'[t].ans = "sent" => job'[t].conn \in Conns /\ conn[job'[t].conn].st # "dead",
           JobOK(t)', SidOK(t)', LifecycleOK', gw' \subseteq gw,
           \A c \in Conns : \A s \in conn'[c].active :
               s \in conn[c].active \/ (s \in Sessions /\ sess[s].conn = c)
    PROVE  NetInv'
<1>1. InboxOK' /\ WaiterHasReleaser'
  BY SteadyWaiters
<1>2. JobsOK' /\ SessionsOK' /\ SidsOK'
  BY SteadySessions
<1>3. NetTypes'
  BY DEF NetInv, NetTypes, Steady, SameSessions, JobOnly, Sessions
<1>4. GwOK'
  BY SteadyGw
<1> QED
  BY <1>1, <1>2, <1>3, <1>4 DEF NetInv

\* A step of t that changes no more than the flags of one connection.
Quietly == sess' = sess /\ gw' = gw
LEMMA QuietSame == ASSUME NetInv, Quietly PROVE SameSessions /\ gw' \subseteq gw
BY DEF Quietly, SameSessions, NetInv, NetTypes

LEMMA ConnSteady ==
    ASSUME NetInv, NEW c \in Conns, ConnOnly(c), conn'[c].st = conn[c].st, conn'[c].inbox = conn[c].inbox
    PROVE  Steady
BY DEF ConnOnly, Steady
LEMMA SameSteady == ASSUME NetInv, conn' = conn PROVE Steady
BY DEF Steady, NetInv, NetTypes

\* What Names and Up say of t after such a step.
LEMMA NamesStay ==
    ASSUME NetInv, Steady, SameSessions, NEW t \in Threads,
           job'[t].conn = job[t].conn, job'[t].disk = job[t].disk
    PROVE  /\ Conns' = Conns /\ Sessions' = Sessions
           /\ \A s : Names(t, s)' <=> Names(t, s)
           /\ \A c \in Conns : Up(c)' <=> Up(c)
<1>1. Conns' = Conns /\ Sessions' = Sessions
  BY DEF Conns, Sessions, Steady, SameSessions, NetInv, NetTypes
<1>2. \A s : Names(t, s)' <=> Names(t, s)
  BY <1>1 DEF Names, SameSessions
<1>3. \A c \in Conns : Up(c)' <=> Up(c)
  BY DEF Up, Steady
<1> QED
  BY <1>1, <1>2, <1>3

\* One thread changes the flags of its connection.
LEMMA FlagLifecycle ==
    ASSUME NetInv, Steady, NEW t \in Threads, JobOnly(t), NEW c \in Conns, ConnOnly(c),
           job[t].conn = c, job'[t].conn = c,
           Up(c) => \A u \in Threads : u # t => ~Beginning(u, c),
           Up(c) => ~(conn'[c].auth /\ conn'[c].open),
           Up(c) /\ job'[t].st \in {"start", "finish", "open"}
               => IF job'[t].st = "open" THEN conn'[c].open ELSE conn'[c].auth
    PROVE  LifecycleOK'
<1>1. Conns' = Conns
  BY DEF Conns, ConnOnly, NetInv, NetTypes
<1>2. \A e \in Conns : Up(e)' <=> Up(e)
  BY DEF Up, Steady
<1>3. ASSUME NEW e \in Conns, Up(e)', e # c
      PROVE  /\ ~(conn'[e].auth /\ conn'[e].open)
             /\ \A u \in Threads : Beginning(u, e)' =>
                  /\ IF At(u, "open")' THEN conn'[e].open ELSE conn'[e].auth
                  /\ \A v \in Threads : Beginning(v, e)' => u = v
  <2>1. conn'[e] = conn[e] /\ Up(e)
    BY <1>2, <1>3 DEF ConnOnly
  <2>2. \A u \in Threads : Beginning(u, e)' => Beginning(u, e) /\ u # t
    BY <1>3 DEF Beginning, JobOnly
  <2>3. \A u \in Threads : u # t => (At(u, "open")' <=> At(u, "open"))
    BY DEF At, JobOnly
  <2> QED
    BY <2>1, <2>2, <2>3 DEF NetInv, LifecycleOK
<1>4. ASSUME Up(c)'
      PROVE  /\ ~(conn'[c].auth /\ conn'[c].open)
             /\ \A u \in Threads : Beginning(u, c)' =>
                  /\ IF At(u, "open")' THEN conn'[c].open ELSE conn'[c].auth
                  /\ \A v \in Threads : Beginning(v, c)' => u = v
  <2>1. Up(c)
    BY <1>2, <1>4
  <2>2. \A u \in Threads : Beginning(u, c)' => u = t
    BY <2>1 DEF Beginning, JobOnly
  <2>3. Beginning(t, c)' => IF At(t, "open")' THEN conn'[c].open ELSE conn'[c].auth
    BY <2>1 DEF Beginning, At
  <2> QED
    BY <2>1, <2>2, <2>3
<1> QED
  BY <1>1, <1>3, <1>4 DEF LifecycleOK

\* The connection of t with other flags; its grants and sessions may change too.
Flagged(c, auth, open, active, grants) ==
    [conn[c] EXCEPT !.auth = auth, !.open = open, !.active = active, !.grants = grants]
LEMMA FlaggedEffect ==
    ASSUME NetInv, NEW c \in Conns, NEW auth \in BOOLEAN, NEW open \in BOOLEAN,
           NEW active \in SUBSET Nat, NEW grants \in 0..MaxGrants,
           conn' = [conn EXCEPT ![c] = Flagged(c, auth, open, active, grants)]
    PROVE  /\ ConnOnly(c) /\ Steady
           /\ conn'[c].auth = auth /\ conn'[c].open = open /\ conn'[c].active = active
<1> DEFINE cn == Flagged(c, auth, open, active, grants)
<1>1. conn[c] \in ConnType
  BY ConnFields DEF NetInv
<1>2. /\ cn \in ConnType /\ cn.auth = auth /\ cn.open = open /\ cn.active = active
      /\ cn.st = conn[c].st /\ cn.inbox = conn[c].inbox
  <2> HIDE DEF cn
  <2>1. PICK r \in ConnType : r = conn[c]
    BY <1>1
  <2>2. cn = [r EXCEPT !.auth = auth, !.open = open, !.active = active, !.grants = grants]
    BY <2>1 DEF cn, Flagged
  <2> QED
    BY <2>1, <2>2 DEF ConnType
<1>3. ConnOnly(c) /\ conn'[c] = cn
  <2> HIDE DEF cn
  <2>1. conn' = [conn EXCEPT ![c] = cn]
    BY DEF cn
  <2> QED
    BY <1>2, <2>1, ConnSet DEF NetInv
<1>4. Steady
  BY <1>2, <1>3, ConnSteady
<1> QED
  BY <1>2, <1>3, <1>4

(***************************************************************************)
(* The calling thread's steps.                                             *)
(***************************************************************************)
LEMMA SendInv == ASSUME NetInv, NEW t \in Threads, Send(t) PROVE NetInv'
<1>1. job[t].ans = "pending" /\ sess' = sess /\ gw' = gw /\ conn' = conn
  BY DEF Send
<1>2. /\ JobOnly(t) /\ job'[t].st = job[t].st /\ job'[t].conn = job[t].conn /\ job'[t].disk = job[t].disk
      /\ job'[t].sid = job[t].sid /\ job'[t].ans = IF Up(job[t].conn) THEN "sent" ELSE "lost"
  BY DEF Send, JobOnly, NetInv, NetTypes, JobType
<1>3. Steady /\ SameSessions
  BY <1>1, SameSteady, QuietSame DEF Quietly
<1>4. job[t].conn \in Conns /\ job[t].st \in Asking /\ JobOK(t) /\ SidOK(t)
  BY <1>1, AskingHasConn DEF NetInv, JobsOK, JobOK, SidsOK
<1>5. LifecycleOK'
  BY <1>1, <1>2, <1>3, SteadyLifecycle
<1>6. JobOK(t)' /\ SidOK(t)'
  BY <1>1, <1>2, <1>3, <1>4, NamesStay DEF JobOK, SidOK, At, Asking, Before, After
<1>7. job'[t].ans = "sent" => conn[job[t].conn].st # "dead"
  BY <1>2 DEF Up
<1> QED
  BY <1>1, <1>2, <1>3, <1>4, <1>5, <1>6, <1>7, SteadyStep


LEMMA BeginAuthInv == ASSUME NetInv, NEW t \in Threads, BeginAuth(t) PROVE NetInv'
<1> PICK c : c = job[t].conn
  OBVIOUS
<1>1. At(t, "acquired") /\ sess' = sess /\ gw' = gw
  BY DEF BeginAuth
<1>2. c \in Conns /\ job[t].ans = "none" /\ JobOK(t) /\ SidOK(t) /\ job[t].sid = 0 /\ NetTypes
  BY <1>1, AskingHasConn DEF NetInv, JobsOK, JobOK, SidsOK, SidOK, At, Asking, Before
<1>3. SameSessions /\ gw' \subseteq gw
  BY <1>1, QuietSame DEF Quietly
<1>4. CASE InFlight(c)
  <2>1. job' = StayJob(t, "failed") /\ conn' = conn
    BY <1>4 DEF BeginAuth
  <2>2. /\ JobOnly(t) /\ job'[t].st = "failed" /\ job'[t].ans = "none"
        /\ job'[t].conn = c /\ job'[t].sid = job[t].sid /\ job'[t].disk = job[t].disk
    BY <1>2, <2>1, StayEffect DEF JobStates
  <2>3. Steady
    BY <2>1, SameSteady
  <2>4. LifecycleOK'
    BY <2>1, <2>2, <2>3, SteadyLifecycle
  <2>5. JobOK(t)' /\ SidOK(t)'
    BY <1>1, <1>2, <1>3, <2>2, <2>3, NamesStay DEF JobOK, SidOK, At, Asking, Before, After
  <2> QED
    BY <1>2, <1>3, <2>1, <2>2, <2>3, <2>4, <2>5, SteadyStep
<1>5. CASE ~InFlight(c)
  <2>1. job' = Request(t, "start") /\ conn' = [conn EXCEPT ![c].auth = TRUE]
    BY <1>5 DEF BeginAuth
  <2>2. /\ JobOnly(t) /\ job'[t].st = "start" /\ job'[t].ans = "pending"
        /\ job'[t].conn = c /\ job'[t].sid = job[t].sid /\ job'[t].disk = job[t].disk
    BY <1>2, <2>1, RequestEffect DEF JobStates, Before
  <2>3. ConnOnly(c) /\ Steady /\ conn'[c].auth /\ ~conn'[c].open /\ conn'[c].active = conn[c].active
    <3>1. conn' = [conn EXCEPT ![c] = Flagged(c, TRUE, conn[c].open, conn[c].active, conn[c].grants)]
      BY <1>2, <2>1, ConnFields DEF Flagged, ConnType
    <3>2. conn[c].open = FALSE
      BY <1>2, <1>5, ConnFields DEF InFlight, ConnType
    <3>3. /\ conn[c].open \in BOOLEAN /\ conn[c].active \in SUBSET Nat /\ conn[c].grants \in 0..MaxGrants
      BY <1>2, ConnFields
    <3> QED
      BY <1>2, <3>1, <3>2, <3>3, FlaggedEffect
  <2>4. JobOK(t)' /\ SidOK(t)'
    BY <1>1, <1>2, <1>3, <2>2, <2>3, NamesStay DEF JobOK, SidOK, At, Asking, Before, After
  <2>5. LifecycleOK'
    <3>1. ASSUME Up(c) PROVE \A u \in Threads : ~Beginning(u, c)
      BY <1>2, <1>5, <3>1 DEF InFlight, NetInv, LifecycleOK
    <3> QED
      BY <1>2, <2>2, <2>3, <3>1, FlagLifecycle
  <2>6. \A e \in Conns : \A s \in conn'[e].active : s \in conn[e].active
    BY <2>3 DEF ConnOnly
  <2> QED
    BY <1>2, <1>3, <2>2, <2>3, <2>4, <2>5, <2>6, SteadyStep
<1> QED
  BY <1>4, <1>5

\* A step of t on its own connection that changes flags, grants and the sessions
\* that are active there, and no session.
LEMMA FlagStep ==
    ASSUME NetInv, Quietly, NEW t \in Threads, JobOnly(t), NEW c \in Conns, job[t].conn = c, job'[t].conn = c,
           NEW auth \in BOOLEAN, NEW open \in BOOLEAN, NEW active \in SUBSET Nat, NEW grants \in 0..MaxGrants,
           conn' = [conn EXCEPT ![c] = Flagged(c, auth, open, active, grants)],
           job[t].ans # "served", job'[t].ans \notin {"served", "sent"},
           \A s \in active : s \in conn[c].active \/ Names(t, s),
           Up(c) => \A u \in Threads : u # t => ~Beginning(u, c),
           Up(c) => ~(auth /\ open),
           Up(c) /\ job'[t].st \in {"start", "finish", "open"}
               => IF job'[t].st = "open" THEN open ELSE auth,
           JobOK(t)', SidOK(t)'
    PROVE  NetInv'
<1>1. ConnOnly(c) /\ Steady /\ conn'[c].auth = auth /\ conn'[c].open = open /\ conn'[c].active = active
  BY FlaggedEffect
<1>2. SameSessions /\ gw' \subseteq gw
  BY QuietSame
<1>3. LifecycleOK'
  BY <1>1, FlagLifecycle
<1>4. \A e \in Conns : \A s \in conn'[e].active :
          s \in conn[e].active \/ (s \in Sessions /\ sess[s].conn = e)
  BY <1>1 DEF ConnOnly, Names
<1> QED
  BY <1>1, <1>2, <1>3, <1>4, SteadyStep

\* A step of t that changes no connection and begins nothing.
LEMMA OwnStep ==
    ASSUME NetInv, conn' = conn, SameSessions, gw' \subseteq gw, NEW t \in Threads, JobOnly(t),
           job[t].ans # "served", job'[t].ans \notin {"served", "sent"},
           job'[t].st \notin {"start", "finish", "open"} \/ (job'[t].st = job[t].st /\ job'[t].conn = job[t].conn)
                \/ (job[t].st = "start" /\ job'[t].st = "finish" /\ job'[t].conn = job[t].conn),
           JobOK(t)', SidOK(t)'
    PROVE  NetInv'
<1>1. Steady
  BY SameSteady
<1>2. LifecycleOK'
  BY <1>1, SteadyLifecycle
<1> QED
  BY <1>1, <1>2, SteadyStep

\* What is known of a thread in the middle of its work.
LEMMA ThreadFacts ==
    ASSUME NetInv, NEW t \in Threads
    PROVE  /\ JobOK(t) /\ SidOK(t) /\ NetTypes
           /\ job[t].st \in Before \cup After \cup Asking => job[t].conn \in Conns
           /\ job[t].ans # "none" => job[t].st \in Asking
BY AskingHasConn DEF NetInv, JobsOK, JobOK, SidsOK

LEMMA StartReturnsInv == ASSUME NetInv, NEW t \in Threads, StartReturns(t) PROVE NetInv'
<1> PICK c : c = job[t].conn
  OBVIOUS
<1>1. At(t, "start") /\ Quietly /\ job[t].ans # "served"
  BY DEF StartReturns, Answered, Waiting, Quietly
<1>2. c \in Conns /\ JobOK(t) /\ SidOK(t) /\ job[t].sid = 0 /\ NetTypes
  BY <1>1, ThreadFacts DEF SidOK, At, Asking, Before
<1>3. SameSessions /\ gw' \subseteq gw
  BY <1>1, QuietSame
<1>4. CASE job[t].ans = "ok"
  <2>1. job' = Request(t, "finish") /\ conn' = conn
    BY <1>4 DEF StartReturns
  <2>2. /\ JobOnly(t) /\ job'[t].st = "finish" /\ job'[t].ans = "pending"
        /\ job'[t].conn = c /\ job'[t].sid = job[t].sid /\ job'[t].disk = job[t].disk
    BY <1>2, <2>1, RequestEffect DEF JobStates, Before
  <2>3. JobOK(t)' /\ SidOK(t)'
    BY <1>1, <1>2, <1>3, <2>1, <2>2, SameSteady, NamesStay DEF JobOK, SidOK, At, Asking, Before, After
  <2> QED
    BY <1>1, <1>2, <1>3, <2>1, <2>2, <2>3, OwnStep DEF At
<1>5. CASE job[t].ans # "ok"
  <2>1. job' = StayJob(t, "failed") /\ conn' = [conn EXCEPT ![c].auth = FALSE]
    BY <1>5 DEF StartReturns
  <2>2. /\ JobOnly(t) /\ job'[t].st = "failed" /\ job'[t].ans = "none"
        /\ job'[t].conn = c /\ job'[t].sid = job[t].sid /\ job'[t].disk = job[t].disk
    BY <1>2, <2>1, StayEffect DEF JobStates
  <2>3. /\ conn[c].open \in BOOLEAN /\ conn[c].active \in SUBSET Nat /\ conn[c].grants \in 0..MaxGrants
    BY <1>2, ConnFields
  <2>4. conn' = [conn EXCEPT ![c] = Flagged(c, FALSE, conn[c].open, conn[c].active, conn[c].grants)]
    BY <1>2, <2>1, ConnFields DEF Flagged, ConnType
  <2>5. JobOK(t)' /\ SidOK(t)'
    <3>1. Steady
      BY <1>2, <2>3, <2>4, FlaggedEffect
    <3> QED
      BY <1>1, <1>2, <1>3, <2>2, <3>1, NamesStay DEF JobOK, SidOK, At, Asking, Before, After
  <2>6. ASSUME Up(c) PROVE \A u \in Threads : u # t => ~Beginning(u, c)
    BY <1>1, <1>2, <2>6 DEF NetInv, LifecycleOK, Beginning, At
  <2> QED
    BY <1>1, <1>2, <2>2, <2>3, <2>4, <2>5, <2>6, FlagStep
<1> QED
  BY <1>4, <1>5

LEMMA FinishReturnsInv == ASSUME NetInv, NEW t \in Threads, FinishReturns(t) PROVE NetInv'
<1> PICK c : c = job[t].conn
  OBVIOUS
<1>1. At(t, "finish") /\ Quietly /\ job[t].ans # "served"
  BY DEF FinishReturns, Answered, Waiting, Quietly
<1>2. c \in Conns /\ JobOK(t) /\ SidOK(t) /\ job[t].sid = 0 /\ NetTypes
  BY <1>1, ThreadFacts DEF SidOK, At, Asking, Before
<1>3. SameSessions /\ gw' \subseteq gw
  BY <1>1, QuietSame
<1>4. PICK st \in {"granting", "failed"} : job' = StayJob(t, st)
  BY DEF FinishReturns
<1>5. /\ JobOnly(t) /\ job'[t].st = st /\ job'[t].ans = "none"
      /\ job'[t].conn = c /\ job'[t].sid = job[t].sid /\ job'[t].disk = job[t].disk
  BY <1>2, <1>4, StayEffect DEF JobStates, Before
<1>6. /\ conn[c].open \in BOOLEAN /\ conn[c].active \in SUBSET Nat /\ conn[c].grants \in 0..MaxGrants
  BY <1>2, ConnFields
<1>7. conn' = [conn EXCEPT ![c] = Flagged(c, FALSE, conn[c].open, conn[c].active, conn[c].grants)]
  <2>1. conn' = [conn EXCEPT ![c].auth = FALSE]
    BY DEF FinishReturns
  <2> QED
    BY <1>2, <2>1, ConnFields DEF Flagged, ConnType
<1>8. JobOK(t)' /\ SidOK(t)'
  <2>1. Steady
    BY <1>2, <1>6, <1>7, FlaggedEffect
  <2> QED
    BY <1>1, <1>2, <1>3, <1>4, <1>5, <2>1, NamesStay DEF JobOK, SidOK, At, Asking, Before, After
<1>9. ASSUME Up(c) PROVE \A u \in Threads : u # t => ~Beginning(u, c)
  BY <1>1, <1>2, <1>9 DEF NetInv, LifecycleOK, Beginning, At
<1> QED
  BY <1>1, <1>2, <1>5, <1>6, <1>7, <1>8, <1>9, FlagStep

LEMMA RegisterGrantInv == ASSUME NetInv, NEW t \in Threads, RegisterGrant(t) PROVE NetInv'
<1> PICK c : c = job[t].conn
  OBVIOUS
<1>1. At(t, "granting") /\ Quietly /\ job' = StayJob(t, "authed") /\ conn[c].grants < MaxGrants
      /\ conn' = [conn EXCEPT ![c].grants = @ + 1]
  BY DEF RegisterGrant, Quietly
<1>2. c \in Conns /\ JobOK(t) /\ SidOK(t) /\ job[t].sid = 0 /\ NetTypes /\ job[t].ans = "none"
  BY <1>1, ThreadFacts DEF SidOK, At, Asking, Before
<1>3. SameSessions /\ gw' \subseteq gw
  BY <1>1, QuietSame
<1>4. /\ JobOnly(t) /\ job'[t].st = "authed" /\ job'[t].ans = "none"
      /\ job'[t].conn = c /\ job'[t].sid = job[t].sid /\ job'[t].disk = job[t].disk
  BY <1>1, <1>2, StayEffect DEF JobStates, Before
<1>5. /\ conn[c].auth \in BOOLEAN /\ conn[c].open \in BOOLEAN /\ conn[c].active \in SUBSET Nat
      /\ conn[c].grants + 1 \in 0..MaxGrants
  <2>1. conn[c].grants \in 0..MaxGrants /\ conn[c].grants < MaxGrants
    BY <1>1, <1>2, ConnFields
  <2>2. conn[c].grants + 1 \in 0..MaxGrants
    BY <2>1, NetAssumption DEF NetAssumption
  <2> QED
    BY <1>2, <2>2, ConnFields
<1>6. conn' = [conn EXCEPT ![c] = Flagged(c, conn[c].auth, conn[c].open, conn[c].active, conn[c].grants + 1)]
  BY <1>1, <1>2, ConnFields DEF Flagged, ConnType
<1>7. Steady /\ \A e \in Conns : conn'[e].auth = conn[e].auth /\ conn'[e].open = conn[e].open
                              /\ conn'[e].active = conn[e].active
  <2>1. ConnOnly(c) /\ Steady /\ conn'[c].auth = conn[c].auth /\ conn'[c].open = conn[c].open
        /\ conn'[c].active = conn[c].active
    <3>1. PICK g \in 0..MaxGrants : g = conn[c].grants + 1
      BY <1>5
    <3>2. PICK a \in BOOLEAN, o \in BOOLEAN, A \in SUBSET Nat :
             a = conn[c].auth /\ o = conn[c].open /\ A = conn[c].active
      BY <1>5
    <3>3. conn' = [conn EXCEPT ![c] = Flagged(c, a, o, A, g)]
      BY <1>6, <3>1, <3>2
    <3>4. ConnOnly(c) /\ Steady /\ conn'[c].auth = a /\ conn'[c].open = o /\ conn'[c].active = A
      BY <1>2, <3>3, FlaggedEffect
    <3> QED
      BY <3>2, <3>4
  <2> QED
    BY <2>1 DEF ConnOnly
<1>8. JobOK(t)' /\ SidOK(t)'
  BY <1>1, <1>2, <1>3, <1>4, <1>7, NamesStay DEF JobOK, SidOK, At, Asking, Before, After
<1>9. LifecycleOK'
  BY <1>4, <1>7, SteadyLifecycle
<1> QED
  BY <1>2, <1>3, <1>4, <1>7, <1>8, <1>9, SteadyStep

LEMMA BeginOpenInv == ASSUME NetInv, NEW t \in Threads, BeginOpen(t) PROVE NetInv'
<1> PICK c : c = job[t].conn
  OBVIOUS
<1>1. At(t, "authed") /\ Quietly
  BY DEF BeginOpen, Quietly
<1>2. c \in Conns /\ JobOK(t) /\ SidOK(t) /\ job[t].sid = 0 /\ NetTypes /\ job[t].ans = "none"
  BY <1>1, ThreadFacts DEF JobOK, SidOK, At, Asking, Before
<1>3. SameSessions /\ gw' \subseteq gw
  BY <1>1, QuietSame
<1>4. CASE InFlight(c)
  <2>1. job' = StayJob(t, "failed") /\ conn' = conn
    BY <1>4 DEF BeginOpen
  <2>2. /\ JobOnly(t) /\ job'[t].st = "failed" /\ job'[t].ans = "none"
        /\ job'[t].conn = c /\ job'[t].sid = job[t].sid /\ job'[t].disk = job[t].disk
    BY <1>2, <2>1, StayEffect DEF JobStates
  <2>3. JobOK(t)' /\ SidOK(t)'
    BY <1>1, <1>2, <1>3, <2>1, <2>2, SameSteady, NamesStay DEF JobOK, SidOK, At, Asking, Before, After
  <2> QED
    BY <1>2, <1>3, <2>1, <2>2, <2>3, OwnStep
<1>5. CASE ~InFlight(c)
  <2>1. job' = Request(t, "open") /\ conn' = [conn EXCEPT ![c].open = TRUE]
    BY <1>5 DEF BeginOpen
  <2>2. /\ JobOnly(t) /\ job'[t].st = "open" /\ job'[t].ans = "pending"
        /\ job'[t].conn = c /\ job'[t].sid = job[t].sid /\ job'[t].disk = job[t].disk
    BY <1>2, <2>1, RequestEffect DEF JobStates, Asking
  <2>3. /\ conn[c].auth \in BOOLEAN /\ conn[c].active \in SUBSET Nat /\ conn[c].grants \in 0..MaxGrants
    BY <1>2, ConnFields
  <2>4. conn' = [conn EXCEPT ![c] = Flagged(c, conn[c].auth, TRUE, conn[c].active, conn[c].grants)]
    BY <1>2, <2>1, ConnFields DEF Flagged, ConnType
  <2>5. JobOK(t)' /\ SidOK(t)'
    <3>1. Steady
      BY <1>2, <2>3, <2>4, FlaggedEffect
    <3> QED
      BY <1>1, <1>2, <1>3, <2>2, <3>1, NamesStay DEF JobOK, SidOK, At, Asking, Before, After
  <2>6. ASSUME Up(c) PROVE \A u \in Threads : ~Beginning(u, c)
    BY <1>2, <1>5, <2>6 DEF InFlight, NetInv, LifecycleOK
  <2>7. ~conn[c].auth
    BY <1>5 DEF InFlight
  <2> QED
    BY <1>1, <1>2, <2>2, <2>3, <2>4, <2>5, <2>6, <2>7, FlagStep
<1> QED
  BY <1>4, <1>5

LEMMA OpenReturnsInv == ASSUME NetInv, NEW t \in Threads, OpenReturns(t) PROVE NetInv'
<1> PICK c : c = job[t].conn
  OBVIOUS
<1>1. At(t, "open") /\ Quietly /\ job[t].ans # "served"
  BY DEF OpenReturns, Answered, Waiting, Quietly
<1>2. c \in Conns /\ JobOK(t) /\ SidOK(t) /\ NetTypes
  BY <1>1, ThreadFacts DEF At, Asking
<1>3. SameSessions /\ gw' \subseteq gw
  BY <1>1, QuietSame
<1>4. PICK ok \in BOOLEAN : ok = (job[t].ans = "ok" /\ conn[c].open /\ ~conn[c].auth)
  OBVIOUS
<1>5. job' = StayJob(t, IF ok THEN "opened" ELSE "failed")
  BY <1>4 DEF OpenReturns
<1>6. /\ JobOnly(t) /\ job'[t].st = (IF ok THEN "opened" ELSE "failed") /\ job'[t].ans = "none"
      /\ job'[t].conn = c /\ job'[t].sid = job[t].sid /\ job'[t].disk = job[t].disk
  <2>1. CASE ok
    BY <1>2, <1>5, <2>1, StayEffect DEF JobStates, After
  <2>2. CASE ~ok
    BY <1>2, <1>5, <2>2, StayEffect DEF JobStates
  <2> QED
    BY <2>1, <2>2
<1>7. ASSUME Up(c) PROVE /\ \A u \in Threads : u # t => ~Beginning(u, c)
                         /\ conn[c].open /\ ~conn[c].auth
  BY <1>1, <1>2, <1>7 DEF NetInv, LifecycleOK, Beginning, At
<1>8. PICK active \in SUBSET Nat, grants \in 0..MaxGrants :
        /\ conn' = [conn EXCEPT ![c] = Flagged(c, conn[c].auth, FALSE, active, grants)]
        /\ \A s \in active : s \in conn[c].active \/ Names(t, s)
  <2> DEFINE shut == [conn[c] EXCEPT !.open = FALSE]
             less == IF conn[c].grants = 0 THEN 0 ELSE conn[c].grants - 1
  <2>1. conn' = [conn EXCEPT ![c] = IF ok THEN LessGrant([shut EXCEPT !.active = @ \cup {job[t].sid}])
                                    ELSE IF job[t].ans = "expired" THEN LessGrant(shut) ELSE shut]
    <3>1. conn' = [conn EXCEPT ![c] =
                      IF job[t].ans = "ok" /\ conn[c].open /\ ~conn[c].auth
                      THEN LessGrant([shut EXCEPT !.active = @ \cup {job[t].sid}])
                      ELSE IF job[t].ans = "expired" THEN LessGrant(shut) ELSE shut]
      BY DEF OpenReturns
    <3>2. CASE ok
      <4>1. job[t].ans = "ok" /\ conn[c].open /\ ~conn[c].auth
        BY <1>4, <3>2
      <4> HIDE DEF shut
      <4> QED
        BY <3>1, <3>2, <4>1
    <3>3. CASE ~ok
      BY <1>4, <3>1, <3>3
    <3> QED
      BY <3>2, <3>3
  <2>2. conn[c] \in ConnType /\ conn[c].grants \in 0..MaxGrants /\ conn[c].active \in SUBSET Nat
    BY <1>2, ConnFields
  <2>3. less \in 0..MaxGrants
    BY <2>2, NetAssumption DEF NetAssumption
  <2>4. CASE ok
    <3> DEFINE act == conn[c].active \cup {job[t].sid}
    <3>1. Names(t, job[t].sid)
      BY <1>1, <1>2, <1>4, <2>4 DEF SidOK
    <3>2. act \in SUBSET Nat
      BY <1>2, <2>2, JobFields
    <3>3. LessGrant([shut EXCEPT !.active = @ \cup {job[t].sid}]) = Flagged(c, conn[c].auth, FALSE, act, less)
      BY <2>2 DEF LessGrant, Flagged, ConnType
    <3>4. \A s \in act : s \in conn[c].active \/ Names(t, s)
      BY <3>1
    <3> HIDE DEF act, less
    <3> QED
      BY <2>1, <2>3, <2>4, <3>2, <3>3, <3>4
  <2>5. CASE ~ok /\ job[t].ans = "expired"
    <3>1. LessGrant(shut) = Flagged(c, conn[c].auth, FALSE, conn[c].active, less)
      BY <2>2 DEF LessGrant, Flagged, ConnType
    <3> HIDE DEF less
    <3> QED
      BY <2>1, <2>2, <2>3, <2>5, <3>1
  <2>6. CASE ~ok /\ job[t].ans # "expired"
    <3>1. shut = Flagged(c, conn[c].auth, FALSE, conn[c].active, conn[c].grants)
      BY <2>2 DEF Flagged, ConnType
    <3> QED
      BY <2>1, <2>2, <2>6, <3>1
  <2> QED
    BY <2>4, <2>5, <2>6
<1>9. JobOK(t)' /\ SidOK(t)'
  <2>1. Steady
    BY <1>2, <1>8, ConnFields, FlaggedEffect
  <2>2. job[t].ans = "ok" => Names(t, job[t].sid)
    BY <1>1, <1>2 DEF SidOK
  <2>3. job[t].ans # "ok" => job[t].sid = 0
    BY <1>1, <1>2 DEF SidOK
  <2>4. job[t].ans = "ok" /\ ~ok => ~Up(c)
    BY <1>4, <1>7
  <2>5. JobOK(t)'
    BY <1>1, <1>2, <1>3, <1>6, <2>1, NamesStay DEF JobOK, At, Asking, Before, After
  <2> QED
    BY <1>2, <1>3, <1>4, <1>6, <2>1, <2>2, <2>3, <2>4, <2>5, NamesStay DEF SidOK, At, Before, After
<1> QED
  <2>1. conn[c].auth \in BOOLEAN
    BY <1>2, ConnFields
  <2>2. ASSUME Up(c) PROVE conn[c].auth = FALSE
    BY <1>7, <2>1, <2>2
  <2> QED
    BY <1>1, <1>2, <1>6, <1>7, <1>8, <1>9, <2>1, <2>2, FlagStep

LEMMA AttachInv == ASSUME NetInv, NEW t \in Threads, Attach(t) PROVE NetInv'
<1> PICK s : s = job[t].sid
  OBVIOUS
<1>1. At(t, "opened") /\ conn' = conn /\ gw' = gw
  BY DEF Attach
<1>2. job[t].conn \in Conns /\ JobOK(t) /\ SidOK(t) /\ NetTypes /\ Names(t, s) /\ s \in Sessions /\ job[t].ans = "none"
  BY <1>1, ThreadFacts DEF JobOK, SidOK, At, After, Names, Asking
<1>3. PICK st \in {"describe", "orphan"} :
        /\ JobOnly(t) /\ job'[t].st = st /\ job'[t].ans \in {"none", "pending"} /\ (st = "orphan" => job'[t].ans = "none")
        /\ job'[t].conn = job[t].conn /\ job'[t].sid = s /\ job'[t].disk = job[t].disk
        /\ sess' = sess \/ sess' = [sess EXCEPT ![s].st = "open"]
  <2>1. CASE s \in conn[job[t].conn].active
    <3>1. job' = Request(t, "describe") /\ sess' = [sess EXCEPT ![s].st = "open"]
      BY <2>1 DEF Attach
    <3> QED
      BY <1>2, <3>1, RequestEffect DEF JobStates, After
  <2>2. CASE s \notin conn[job[t].conn].active
    <3>1. job' = StayJob(t, "orphan") /\ sess' = sess
      BY <2>2 DEF Attach
    <3> QED
      BY <1>2, <3>1, StayEffect DEF JobStates, After
  <2> QED
    BY <2>1, <2>2
<1>4. SameSessions
  <2>1. CASE sess' = sess
    BY <1>2, <2>1 DEF SameSessions, NetTypes
  <2>2. CASE sess' = [sess EXCEPT ![s].st = "open"]
    <3>1. sess \in Seq(SessType) /\ s \in 1..Len(sess) /\ Sessions = 1..Len(sess)
      BY <1>2 DEF NetTypes, Sessions
    <3>2. sess[s] \in SessType
      BY <3>1
    <3>3. PICK r \in SessType : r = [sess[s] EXCEPT !.st = "open"] /\ r.conn = sess[s].conn /\ r.disk = sess[s].disk
      BY <3>2, SessSet
    <3>4. sess' = [sess EXCEPT ![s] = r]
      BY <2>2, <3>3
    <3> QED
      BY <3>1, <3>3, <3>4 DEF SameSessions
  <2> QED
    BY <1>3, <2>1, <2>2
<1>5. JobOK(t)' /\ SidOK(t)'
  BY <1>1, <1>2, <1>3, <1>4, SameSteady, NamesStay DEF JobOK, SidOK, At, Asking, Before, After
<1> QED
  BY <1>1, <1>2, <1>3, <1>4, <1>5, OwnStep

LEMMA DescribeReturnsInv == ASSUME NetInv, NEW t \in Threads, DescribeReturns(t) PROVE NetInv'
<1>1. At(t, "describe") /\ conn' = conn /\ Quietly /\ job[t].ans # "served"
  BY DEF DescribeReturns, Quietly, Answered, Waiting
<1>2. JobOK(t) /\ SidOK(t) /\ NetTypes
  BY ThreadFacts
<1>3. PICK st \in {"described", "undescribed"} : job' = StayJob(t, st)
  BY DEF DescribeReturns
<1>4. /\ JobOnly(t) /\ job'[t].st = st /\ job'[t].ans = "none"
      /\ job'[t].conn = job[t].conn /\ job'[t].sid = job[t].sid /\ job'[t].disk = job[t].disk
  BY <1>2, <1>3, StayEffect DEF JobStates, After
<1>5. SameSessions /\ gw' \subseteq gw
  BY <1>1, QuietSame
<1>6. JobOK(t)' /\ SidOK(t)'
  BY <1>1, <1>2, <1>4, <1>5, SameSteady, NamesStay DEF JobOK, SidOK, At, Asking, Before, After
<1> QED
  BY <1>1, <1>4, <1>5, <1>6, OwnStep

(***************************************************************************)
(* What a host program does to the network: connections are added, closed, *)
(* or lose sessions; a thread that waits for nothing ends its job, goes on *)
(* with what it has described, removes a disk, or begins with a connection.*)
(***************************************************************************)
Lessened(c) ==
    /\ conn'[c].auth = conn[c].auth /\ conn'[c].open = conn[c].open /\ conn'[c].active \subseteq conn[c].active
    /\ \/ conn'[c].st = conn[c].st /\ conn'[c].inbox = conn[c].inbox
       \/ conn[c].st = "up" /\ conn'[c].st = "down" /\ conn'[c].inbox = <<>>
ConnsLess ==
    /\ conn' \in Seq(ConnType) /\ Len(conn) <= Len(conn')
    /\ \A c \in 1..Len(conn') : IF c \in Conns THEN Lessened(c) ELSE conn'[c] = NewConnection
Goes(t, from, to) ==
    /\ At(t, from) /\ job'[t].st = to /\ job'[t].ans = "none"
    /\ job'[t].conn = job[t].conn /\ job'[t].sid = job[t].sid /\ job'[t].disk = job[t].disk
JobMove(t) ==
    \/ job'[t] = IdleJob \/ Goes(t, "described", "created") \/ Goes(t, "idle", "removing")
    \/ Idle(t) /\ \E c \in 1..Len(conn'), d \in RemoteDisks :
         job'[t] = [IdleJob EXCEPT !.st = "acquired", !.conn = c, !.disk = d]
HostJob == job' = job \/ \E t \in Threads : JobOnly(t) /\ ~Waiting(t) /\ JobMove(t)
StillUp == gw' \subseteq gw /\ \A s \in gw' : conn'[sess[s].conn].st = "up"
HostStep == ConnsLess /\ SameSessions /\ StillUp /\ HostJob

\* A thread of which nothing changed, or that made such a move.
LEMMA HostThread ==
    ASSUME NetInv, HostStep, NEW t \in Threads
    PROVE  \/ job'[t] = job[t]
           \/ ~Waiting(t) /\ JobMove(t)
BY DEF HostStep, HostJob, JobOnly

\* It asks for nothing afterwards.
LEMMA MoveEffect ==
    ASSUME NEW t \in Threads, JobMove(t)
    PROVE  job'[t].ans = "none" /\ job'[t].st \in {"idle", "created", "removing", "acquired"}
<1>1. CASE job'[t] = IdleJob
  BY <1>1 DEF IdleJob
<1>2. CASE Goes(t, "described", "created") \/ Goes(t, "idle", "removing")
  BY <1>2 DEF Goes
<1>3. CASE \E c \in 1..Len(conn'), d \in RemoteDisks :
               job'[t] = [IdleJob EXCEPT !.st = "acquired", !.conn = c, !.disk = d]
  BY <1>3 DEF IdleJob
<1> QED
  BY <1>1, <1>2, <1>3 DEF JobMove

LEMMA HostConns ==
    ASSUME NetInv, HostStep
    PROVE  /\ Conns' = 1..Len(conn') /\ Conns \subseteq Conns' /\ Sessions' = Sessions
           /\ \A c \in Conns : Lessened(c) /\ (Up(c)' => Up(c))
           /\ \A c \in Conns' : c \notin Conns => conn'[c] = NewConnection
<1>1. Conns = 1..Len(conn) /\ Len(conn) \in Nat /\ Conns' = 1..Len(conn') /\ Len(conn') \in Nat
  BY DEF Conns, NetInv, NetTypes, HostStep, ConnsLess
<1>2. Conns \subseteq Conns'
  BY <1>1 DEF HostStep, ConnsLess
<1>3. \A c \in Conns : Lessened(c)
  BY <1>1, <1>2 DEF HostStep, ConnsLess
<1>4. \A c \in Conns : Up(c)' => Up(c)
  BY <1>3 DEF Lessened, Up
<1>5. Sessions' = Sessions
  BY DEF Sessions, NetInv, NetTypes, HostStep, SameSessions
<1> QED
  BY <1>1, <1>2, <1>3, <1>4, <1>5 DEF HostStep, ConnsLess

LEMMA HostJobs == ASSUME NetInv, HostStep PROVE JobsOK'
<1> SUFFICES ASSUME NEW t \in Threads PROVE JobOK(t)'
  BY DEF JobsOK
<1>1. JobOK(t) /\ Conns \subseteq Conns' /\ Conns' = 1..Len(conn')
  BY HostConns, ThreadFacts
<1>2. CASE job'[t] = job[t]
  BY <1>1, <1>2 DEF JobOK, At
<1>3. CASE JobMove(t)
  <2>1. CASE job'[t] = IdleJob
    BY <2>1 DEF JobOK, At, IdleJob, Asking, Before, After
  <2>2. CASE Goes(t, "described", "created") \/ Goes(t, "idle", "removing")
    BY <1>1, <2>2 DEF JobOK, At, Goes, Asking, Before, After
  <2>3. CASE \E c \in 1..Len(conn'), d \in RemoteDisks :
                 job'[t] = [IdleJob EXCEPT !.st = "acquired", !.conn = c, !.disk = d]
    BY <1>1, <2>3 DEF JobOK, At, IdleJob, Asking, Before, After
  <2> QED
    BY <1>3, <2>1, <2>2, <2>3 DEF JobMove
<1> QED
  BY <1>2, <1>3, HostThread

LEMMA HostSids == ASSUME NetInv, HostStep PROVE SidsOK'
<1> SUFFICES ASSUME NEW t \in Threads PROVE SidOK(t)'
  BY DEF SidsOK
<1>1. SidOK(t) /\ JobOK(t) /\ Sessions' = Sessions /\ SameSessions
  BY HostConns, ThreadFacts DEF HostStep
<1>2. CASE job'[t] = job[t]
  <2>1. \A s : Names(t, s)' <=> Names(t, s)
    BY <1>1, <1>2 DEF Names, SameSessions
  <2>2. At(t, "failed") /\ ~Up(job[t].conn) => ~Up(job[t].conn)'
    <3>1. At(t, "failed") => job[t].conn \in Conns
      BY <1>1 DEF JobOK, At
    <3> QED
      BY <1>2, <3>1, HostConns DEF Up
  <2> QED
    BY <1>1, <1>2, <2>1, <2>2 DEF SidOK, At, SameSessions
<1>3. CASE JobMove(t)
  <2>1. CASE job'[t] = IdleJob
    BY <2>1 DEF SidOK, At, IdleJob, Before, After
  <2>2. CASE Goes(t, "described", "created")
    <3>1. \A s : Names(t, s)' <=> Names(t, s)
      BY <1>1, <2>2 DEF Names, SameSessions, Goes
    <3> QED
      BY <1>1, <2>2, <3>1 DEF SidOK, At, Before, After, Goes
  <2>3. CASE Goes(t, "idle", "removing")
    BY <1>1, <2>3 DEF SidOK, JobOK, IdleJob, At, Before, After, Goes
  <2>4. CASE \E c \in 1..Len(conn'), d \in RemoteDisks :
                 job'[t] = [IdleJob EXCEPT !.st = "acquired", !.conn = c, !.disk = d]
    BY <2>4 DEF SidOK, At, IdleJob, Before, After
  <2> QED
    BY <1>3, <2>1, <2>2, <2>3, <2>4 DEF JobMove
<1> QED
  BY <1>2, <1>3, HostThread

LEMMA HostInbox == ASSUME NetInv, HostStep PROVE InboxOK'
<1>1. ASSUME NEW c \in Conns', c \notin Conns
      PROVE  conn'[c].inbox = <<>> /\ \A i, t : ~ReplyAt(c, i, t)'
  <2>1. conn'[c].inbox = <<>>
    BY <1>1, HostConns DEF NewConnection
  <2> QED
    BY <2>1 DEF ReplyAt
<1>2. ASSUME NEW c \in Conns
      PROVE  /\ ~Up(c)' => conn'[c].inbox = <<>>
             /\ conn'[c].inbox = conn[c].inbox \/ conn'[c].inbox = <<>>
             /\ \A i, t : ReplyAt(c, i, t)' => ReplyAt(c, i, t)
  <2>1. Lessened(c)
    BY HostConns
  <2>2. CASE conn'[c].st = conn[c].st /\ conn'[c].inbox = conn[c].inbox
    <3>1. Up(c)' <=> Up(c)
      BY <2>2 DEF Up
    <3> QED
      BY <2>2, <3>1 DEF ReplyAt, NetInv, InboxOK
  <2>3. CASE conn'[c].inbox = <<>>
    BY <2>3 DEF ReplyAt
  <2> QED
    BY <2>1, <2>2, <2>3 DEF Lessened
<1>3. ASSUME NEW t \in Threads, job[t].ans = "served" PROVE job'[t] = job[t]
  BY <1>3, HostThread DEF Waiting
<1>4. ASSUME NEW c \in Conns, NEW t \in Threads, NEW i \in DOMAIN conn'[c].inbox,
             NEW j \in DOMAIN conn'[c].inbox, ReplyAt(c, i, t)'
      PROVE  job'[t].ans = "served" /\ job'[t].conn = c /\ (ReplyAt(c, j, t)' => i = j)
  <2>1. ReplyAt(c, i, t) /\ conn'[c].inbox = conn[c].inbox
    BY <1>2, <1>4
  <2>2. job[t].ans = "served" /\ job[t].conn = c /\ (ReplyAt(c, j, t) => i = j)
    BY <1>4, <2>1 DEF NetInv, InboxOK
  <2> QED
    BY <1>2, <1>3, <2>2
<1>5. ASSUME NEW c \in Conns' PROVE ~Up(c)' => conn'[c].inbox = <<>>
  BY <1>1, <1>2
<1>6. ASSUME NEW c \in Conns', NEW t \in Threads, NEW i \in DOMAIN conn'[c].inbox,
             NEW j \in DOMAIN conn'[c].inbox, ReplyAt(c, i, t)'
      PROVE  job'[t].ans = "served" /\ job'[t].conn = c /\ (ReplyAt(c, j, t)' => i = j)
  BY <1>1, <1>4, <1>6
<1> QED
  BY <1>5, <1>6 DEF InboxOK

LEMMA HostWaiters == ASSUME NetInv, HostStep PROVE WaiterHasReleaser'
<1> SUFFICES ASSUME NEW t \in Threads, job'[t].ans \in {"sent", "served"}
             PROVE  /\ conn'[job'[t].conn].st # "dead"
                    /\ job'[t].ans = "served" /\ conn'[job'[t].conn].st = "up" =>
                         \E i \in DOMAIN conn'[job'[t].conn].inbox :
                            /\ conn'[job'[t].conn].inbox[i].kind = "reply"
                            /\ conn'[job'[t].conn].inbox[i].to = t
  BY DEF WaiterHasReleaser
<1>1. job'[t] = job[t]
  BY HostThread, MoveEffect
<1>2. PICK c \in Conns : c = job[t].conn
  BY <1>1, AskingHasConn DEF NetInv
<1>3. conn[c].st # "dead" /\ (job[t].ans = "served" /\ conn[c].st = "up" =>
        \E i \in DOMAIN conn[c].inbox : conn[c].inbox[i].kind = "reply" /\ conn[c].inbox[i].to = t)
  BY <1>1, <1>2 DEF NetInv, WaiterHasReleaser
<1>4. Lessened(c)
  BY HostConns
<1> QED
  BY <1>1, <1>2, <1>3, <1>4 DEF Lessened

LEMMA HostSessions == ASSUME NetInv, HostStep PROVE SessionsOK'
<1>1. /\ Sessions' = Sessions /\ Conns \subseteq Conns' /\ SameSessions
      /\ \A c \in Conns : Lessened(c)
      /\ \A c \in Conns' : c \notin Conns => conn'[c] = NewConnection
  BY HostConns DEF HostStep
<1>2. \A s \in Sessions : sess'[s].conn \in Conns'
  BY <1>1 DEF NetInv, SessionsOK, SameSessions
<1>3. ASSUME NEW c \in Conns', NEW s \in conn'[c].active PROVE s \in Sessions /\ sess'[s].conn = c
  <2>1. c \in Conns
    BY <1>1, <1>3 DEF NewConnection
  <2> QED
    BY <1>1, <1>3, <2>1 DEF NetInv, SessionsOK, SameSessions, Lessened
<1>4. ASSUME NEW c \in Conns', NEW i \in DOMAIN conn'[c].inbox, NEW m, m = conn'[c].inbox[i]
      PROVE  IF m.kind # "reply" THEN m.sid \in Sessions /\ sess'[m.sid].conn = c
             ELSE IF job'[m.to].st = "open" /\ m.ans = "ok" THEN Names(m.to, m.sid)' ELSE m.sid = 0
  <2>1. c \in Conns /\ conn'[c].inbox = conn[c].inbox
    <3>1. conn'[c].inbox # <<>>
      BY <1>4
    <3> QED
      BY <1>1, <3>1 DEF NewConnection, Lessened
  <2>2. IF m.kind # "reply" THEN m.sid \in Sessions /\ sess[m.sid].conn = c
        ELSE IF At(m.to, "open") /\ m.ans = "ok" THEN Names(m.to, m.sid) ELSE m.sid = 0
    BY <1>4, <2>1 DEF SessionsOK, NetInv
  <2>3. CASE m.kind # "reply"
    BY <1>1, <2>2, <2>3 DEF SameSessions
  <2>4. CASE m.kind = "reply"
    <3>1. m \in Message
      BY <1>4, <2>1, ConnFields DEF NetInv
    <3>2. m.to \in Threads
      BY <2>4, <3>1 DEF Message
    <3>3. job[m.to].ans = "served"
      BY <1>4, <2>1, <2>4, <3>2 DEF NetInv, InboxOK, ReplyAt
    <3>4. job'[m.to] = job[m.to]
      BY <3>2, <3>3, HostThread DEF Waiting
    <3>5. \A s : Names(m.to, s)' <=> Names(m.to, s)
      BY <1>1, <3>4 DEF Names, SameSessions
    <3> QED
      BY <2>2, <2>4, <3>4, <3>5 DEF At
  <2> QED
    BY <2>3, <2>4
<1> QED
  BY <1>1, <1>2, <1>3, <1>4 DEF SessionsOK, At

LEMMA HostLifecycle == ASSUME NetInv, HostStep PROVE LifecycleOK'
<1>1. ASSUME NEW t \in Threads, NEW c, Beginning(t, c)' PROVE job'[t] = job[t]
  BY <1>1, HostThread, MoveEffect DEF Beginning
<1>2. ASSUME NEW c \in Conns', Up(c)'
      PROVE  /\ ~(conn'[c].auth /\ conn'[c].open)
             /\ \A t \in Threads : Beginning(t, c)' =>
                  /\ IF At(t, "open")' THEN conn'[c].open ELSE conn'[c].auth
                  /\ \A u \in Threads : Beginning(u, c)' => t = u
  <2>1. CASE c \notin Conns
    <3>1. conn'[c] = NewConnection
      BY <2>1, HostConns
    <3>2. ASSUME NEW t \in Threads PROVE ~Beginning(t, c)'
      <4>1. SUFFICES ASSUME Beginning(t, c)' PROVE FALSE
        OBVIOUS
      <4>2. job'[t] = job[t] /\ job[t].conn = c /\ job[t].st \in Asking
        BY <1>1, <4>1 DEF Beginning, Asking
      <4>3. job[t].conn \in Conns
        BY <4>2, ThreadFacts
      <4> QED
        BY <2>1, <4>2, <4>3
    <3> QED
      BY <3>1, <3>2 DEF NewConnection
  <2>2. CASE c \in Conns
    <3>1. Up(c) /\ Lessened(c)
      BY <1>2, <2>2, HostConns
    <3>2. /\ ~(conn[c].auth /\ conn[c].open)
          /\ \A t \in Threads : Beginning(t, c) =>
               /\ IF At(t, "open") THEN conn[c].open ELSE conn[c].auth
               /\ \A u \in Threads : Beginning(u, c) => t = u
      BY <2>2, <3>1 DEF NetInv, LifecycleOK
    <3>3. \A t \in Threads : Beginning(t, c)' => Beginning(t, c) /\ (At(t, "open")' <=> At(t, "open"))
      BY <1>1 DEF Beginning, At
    <3> QED
      BY <3>1, <3>2, <3>3 DEF Lessened
  <2> QED
    BY <2>1, <2>2
<1> QED
  BY <1>2 DEF LifecycleOK

LEMMA HostInv == ASSUME NetInv, HostStep PROVE NetInv'
<1>1. NetTypes'
  <2>1. job' \in [Threads -> JobType]
    BY DEF HostStep, HostJob, JobOnly, NetInv, NetTypes
  <2> QED
    BY <2>1, HostConns DEF NetInv, NetTypes, HostStep, StillUp, ConnsLess, SameSessions
<1>2. GwOK'
  <2> SUFFICES ASSUME NEW s \in gw' PROVE Up(sess[s].conn)'
    BY DEF GwOK
  <2>1. s \in Sessions /\ sess'[s].conn = sess[s].conn /\ conn'[sess[s].conn].st = "up"
    BY DEF HostStep, StillUp, SameSessions, NetInv, NetTypes
  <2>2. sess[s].conn # 0
    BY <2>1, ConnFields DEF NetInv, SessionsOK
  <2> QED
    BY <2>1, <2>2 DEF Up
<1> QED
  BY <1>1, <1>2, HostJobs, HostSids, HostInbox, HostWaiters, HostSessions, HostLifecycle DEF NetInv

(***************************************************************************)
(* Steps of the library that do no more than a host program does.          *)
(***************************************************************************)
LEMMA ClosedEffect ==
    ASSUME NEW cn \in ConnType
    PROVE  /\ Closed(cn) \in ConnType /\ Closed(cn).auth = cn.auth /\ Closed(cn).open = cn.open
           /\ Closed(cn).active = cn.active /\ Closed(cn).bad = cn.bad
           /\ \/ Closed(cn).st = cn.st /\ Closed(cn).inbox = cn.inbox
              \/ cn.st = "up" /\ Closed(cn).st = "down" /\ Closed(cn).inbox = <<>>
           /\ Closed(cn).st # "up"
<1>1. CASE cn.st = "up"
  <2>1. Closed(cn) = [cn EXCEPT !.st = "down", !.inbox = <<>>]
    BY <1>1 DEF Closed
  <2>2. <<>> \in Seq(Message)
    OBVIOUS
  <2>3. Closed(cn) \in ConnType
    BY <2>1, <2>2 DEF ConnType
  <2> QED
    BY <1>1, <2>1, <2>3 DEF ConnType
<1>2. CASE cn.st # "up"
  BY <1>2 DEF Closed
<1> QED
  BY <1>1, <1>2

\* A change of one connection is such a step for all of them.
LEMMA OneLessened ==
    ASSUME NetInv, NEW c \in Conns, ConnOnly(c), Lessened(c) PROVE ConnsLess
<1>1. \A e \in Conns : Lessened(e)
  BY DEF ConnOnly, Lessened
<1>2. conn' \in Seq(ConnType) /\ Len(conn') = Len(conn) /\ Conns = 1..Len(conn) /\ Len(conn) \in Nat
  BY DEF ConnOnly, NetInv, NetTypes, Conns
<1> QED
  BY <1>1, <1>2 DEF ConnsLess
LEMMA SameConns == ASSUME NetInv, conn' = conn PROVE ConnsLess
<1>1. \A e \in Conns : Lessened(e)
  BY DEF Lessened
<1> QED
  BY <1>1 DEF ConnsLess, NetInv, NetTypes, Conns

\* Nor is a connection lost under a session of the gateway when no connection is.
LEMMA SameStillUp ==
    ASSUME NetInv, gw' \subseteq gw, \A e \in Conns : conn'[e].st = conn[e].st PROVE StillUp
<1> SUFFICES ASSUME NEW s \in gw' PROVE conn'[sess[s].conn].st = "up"
  BY DEF StillUp
<1>1. s \in gw /\ s \in Sessions
  BY DEF NetInv, NetTypes
<1>2. sess[s].conn \in Conns /\ Up(sess[s].conn)
  BY <1>1 DEF NetInv, GwOK, SessionsOK
<1> QED
  BY <1>2 DEF Up

LEMMA LoseConnectionInv == ASSUME NetInv, NEW c \in Conns, LoseConnection(c) PROVE NetInv'
<1>1. sess' = sess /\ job' = job /\ gw' \subseteq gw /\ conn' = [conn EXCEPT ![c] = Closed(@)]
  BY DEF LoseConnection, GwWithout
<1>2. Closed(conn[c]) \in ConnType
  BY ConnFields, ClosedEffect DEF NetInv
<1>3. ConnOnly(c) /\ conn'[c] = Closed(conn[c])
  BY <1>1, <1>2, ConnSet DEF NetInv
<1>4. Lessened(c)
  BY <1>3, ConnFields, ClosedEffect DEF Lessened, NetInv
<1>5. SameSessions
  BY <1>1 DEF SameSessions, NetInv, NetTypes
<1>6. StillUp
  <2>1. ASSUME NEW s \in gw' PROVE conn'[sess[s].conn].st = "up"
    <3>1. s \in gw /\ sess[s].conn # c
      BY DEF LoseConnection, GwWithout
    <3>2. s \in Sessions
      BY <3>1 DEF NetInv, NetTypes
    <3>3. Up(sess[s].conn) /\ sess[s].conn \in Conns
      BY <3>1, <3>2 DEF NetInv, GwOK, SessionsOK
    <3> QED
      BY <1>3, <3>1, <3>3 DEF ConnOnly, Up
  <2> QED
    BY <1>1, <2>1 DEF StillUp
<1> QED
  BY <1>1, <1>3, <1>4, <1>5, <1>6, OneLessened, HostInv DEF HostStep, HostJob

LEMMA IoEndsInv == ASSUME NetInv, NEW t \in Threads, IoEnds(t) PROVE NetInv'
<1>1. conn' = conn /\ Quietly /\ job' = ClearJob(t) /\ ~Waiting(t)
  BY DEF IoEnds, Quietly, IoReturned, Waiting
<1>2. JobOnly(t) /\ job'[t] = IdleJob
  BY <1>1, ClearEffect DEF NetInv
<1> QED
  BY <1>1, <1>2, SameConns, QuietSame, SameStillUp, HostInv DEF HostStep, HostJob, JobMove

LEMMA IoFailsInv == ASSUME NetInv, NEW t \in Threads, NEW s \in Sessions, IoFails(t, s) PROVE NetInv'
<1>1. gw' = gw /\ job' = ClearJob(t)
  BY DEF IoFails
<1>2. ~Waiting(t)
  <2>1. Idle(t) => job[t].ans = "none"
    BY ThreadFacts DEF JobOK, Idle, At, IdleJob
  <2> QED
    BY <2>1 DEF IoFails, IoReturned, Waiting
<1>3. JobOnly(t) /\ job'[t] = IdleJob
  BY <1>1, ClearEffect DEF NetInv
<1>4. PICK c \in Conns : c = sess[s].conn
  BY DEF NetInv, SessionsOK
<1>5. ConnsLess /\ \A e \in Conns : conn'[e].st = conn[e].st
  <2>1. CASE conn' = conn
    BY <2>1, SameConns
  <2>2. CASE conn' = [conn EXCEPT ![c].active = @ \ {s}]
    <3>1. PICK A \in SUBSET Nat : A = conn[c].active \ {s}
      BY ConnFields DEF NetInv
    <3>2. conn[c].auth \in BOOLEAN /\ conn[c].open \in BOOLEAN /\ conn[c].grants \in 0..MaxGrants
      BY ConnFields DEF NetInv
    <3>3. conn' = [conn EXCEPT ![c] = Flagged(c, conn[c].auth, conn[c].open, A, conn[c].grants)]
      BY <2>2, <3>1, ConnFields DEF Flagged, ConnType, NetInv
    <3>4. ConnOnly(c) /\ Steady /\ conn'[c].auth = conn[c].auth /\ conn'[c].open = conn[c].open
          /\ conn'[c].active = A
      BY <3>2, <3>3, FlaggedEffect
    <3>5. Lessened(c)
      BY <3>1, <3>4 DEF Lessened, Steady
    <3>6. \A e \in Conns : conn'[e].st = conn[e].st
      BY <3>4 DEF Steady
    <3> QED
      BY <3>4, <3>5, <3>6, OneLessened
  <2> QED
    BY <1>4, <2>1, <2>2 DEF IoFails
<1>6. SameSessions
  <2>1. CASE sess' = sess
    BY <2>1 DEF SameSessions, NetInv, NetTypes
  <2>2. CASE sess' = SessTerminal(s)
    <3>1. sess \in Seq(SessType) /\ s \in 1..Len(sess) /\ Sessions = 1..Len(sess)
      BY DEF NetInv, NetTypes, Sessions
    <3>2. sess[s] \in SessType
      BY <3>1
    <3>3. PICK r \in SessType : r = [sess[s] EXCEPT !.st = "terminal"] /\ r.conn = sess[s].conn /\ r.disk = sess[s].disk
      BY <3>2, SessSet
    <3>4. sess' = [sess EXCEPT ![s] = r]
      BY <2>2, <3>3 DEF SessTerminal
    <3> QED
      BY <3>1, <3>3, <3>4 DEF SameSessions
  <2> QED
    BY <2>1, <2>2 DEF IoFails
<1> QED
  BY <1>1, <1>2, <1>3, <1>5, <1>6, SameStillUp, HostInv DEF HostStep, HostJob, JobMove

LEMMA ChunkInv ==
    ASSUME NetInv, NEW t \in Threads, NEW s, NEW left \in 0..IoChunks, Chunk(t, s, left), job[t].ans # "served"
    PROVE  NetInv'
<1> DEFINE j == [st |-> "io", ans |-> "pending", conn |-> sess[s].conn,
                 disk |-> "none", sid |-> s, left |-> left]
<1>1. s \in Sessions /\ conn' = conn /\ Quietly /\ job' = [job EXCEPT ![t] = j]
  BY DEF Chunk, Usable, Quietly
<1>2. sess[s].conn \in Conns
  BY <1>1 DEF NetInv, SessionsOK
<1>3. j \in JobType
  <2>1. s \in Nat /\ sess[s].conn \in Nat
    BY <1>1, <1>2 DEF NetInv, NetTypes, Sessions, Conns
  <2> QED
    BY <2>1 DEF JobType, JobStates, Asking
<1>4. JobOnly(t) /\ job'[t] = j
  BY <1>1, <1>3, JobSet DEF NetInv
<1>5. Conns' = Conns /\ Sessions' = Sessions
  BY <1>1 DEF Conns, Sessions, Quietly
<1>6. JobOK(t)' /\ SidOK(t)'
  BY <1>1, <1>2, <1>4, <1>5 DEF JobOK, SidOK, At, Asking, Before, After, Quietly
<1> QED
  BY <1>1, <1>4, <1>6, QuietSame, OwnStep

LEMMA IoStartsInv == ASSUME NetInv, NEW t \in Threads, NEW s, IoStarts(t, s) PROVE NetInv'
<1>1. job[t].ans # "served"
  BY ThreadFacts DEF IoStarts, Idle, JobOK, At, IdleJob
<1> QED
  BY <1>1, ChunkInv, NetAssumption DEF IoStarts, NetAssumption

LEMMA IoContinuesInv == ASSUME NetInv, NEW t \in Threads, IoContinues(t) PROVE NetInv'
<1>1. job[t].ans # "served" /\ job[t].left > 1 /\ Chunk(t, job[t].sid, job[t].left - 1)
  BY DEF IoContinues, IoReturned
<1>2. job[t].left - 1 \in 0..IoChunks
  BY <1>1, JobFields, NetAssumption DEF NetInv, NetAssumption
<1> QED
  BY <1>1, <1>2, ChunkInv

LEMMA BreakLinkInv == ASSUME NetInv, NEW c \in Conns, BreakLink(c) PROVE NetInv'
<1>1. Quietly /\ job' = job /\ conn' = [conn EXCEPT ![c].bad = TRUE]
  BY DEF BreakLink, Quietly
<1>2. [conn[c] EXCEPT !.bad = TRUE] \in ConnType
  BY ConnFields DEF NetInv, ConnType
<1>3. ConnOnly(c) /\ conn'[c] = [conn[c] EXCEPT !.bad = TRUE]
  BY <1>1, <1>2, ConnSet DEF NetInv
<1>4. Lessened(c)
  BY <1>3, ConnFields DEF Lessened, NetInv, ConnType
<1>5. \A e \in Conns : conn'[e].st = conn[e].st
  BY <1>3, ConnFields DEF ConnOnly, NetInv, ConnType
<1> QED
  BY <1>1, <1>3, <1>4, <1>5, OneLessened, QuietSame, SameStillUp, HostInv DEF HostStep, HostJob

(***************************************************************************)
(* The receive loop takes the first frame of an inbox.                     *)
(***************************************************************************)
LEMMA TailFacts ==
    ASSUME NEW S, NEW q \in Seq(S), q # <<>>
    PROVE  /\ Head(q) = q[1] /\ q[1] \in S /\ Tail(q) \in Seq(S) /\ Len(Tail(q)) = Len(q) - 1
           /\ Len(q) \in Nat \ {0} /\ DOMAIN q = 1..Len(q) /\ DOMAIN Tail(q) = 1..(Len(q) - 1)
           /\ \A i \in DOMAIN Tail(q) : Tail(q)[i] = q[i + 1] /\ i + 1 \in DOMAIN q
OBVIOUS

\* Everything but the inbox of c, which loses its first frame, stays; a session
\* may become inactive.
Taken(c) ==
    /\ Up(c) /\ conn[c].inbox # <<>> /\ ConnOnly(c)
    /\ conn'[c].inbox = Tail(conn[c].inbox) /\ conn'[c].st = conn[c].st
    /\ conn'[c].auth = conn[c].auth /\ conn'[c].open = conn[c].open
    /\ conn'[c].active \subseteq conn[c].active
    /\ sess' = sess /\ gw' = gw

\* The frames that remain, one place further to the front.
LEMMA TakenFrames ==
    ASSUME NetInv, NEW c \in Conns, Taken(c)
    PROVE  /\ DOMAIN conn'[c].inbox = 1..(Len(conn[c].inbox) - 1) /\ Len(conn[c].inbox) \in Nat \ {0}
           /\ DOMAIN conn[c].inbox = 1..Len(conn[c].inbox)
           /\ \A i \in DOMAIN conn'[c].inbox : conn'[c].inbox[i] = conn[c].inbox[i + 1]
           /\ \A i \in DOMAIN conn'[c].inbox : i + 1 \in DOMAIN conn[c].inbox
           /\ \A i \in DOMAIN conn'[c].inbox : \A t : ReplyAt(c, i, t)' <=> ReplyAt(c, i + 1, t)
           /\ Conns' = Conns /\ Sessions' = Sessions
           /\ \A e \in Conns : Up(e)' <=> Up(e)
           /\ \A e \in Conns : e # c => conn'[e] = conn[e]
<1>1. conn[c].inbox \in Seq(Message)
  BY ConnFields DEF NetInv
<1>2. /\ conn'[c].inbox = Tail(conn[c].inbox) /\ Len(conn[c].inbox) \in Nat \ {0}
      /\ DOMAIN conn'[c].inbox = 1..(Len(conn[c].inbox) - 1)
      /\ DOMAIN conn[c].inbox = 1..Len(conn[c].inbox)
      /\ \A i \in DOMAIN conn'[c].inbox : conn'[c].inbox[i] = conn[c].inbox[i + 1]
      /\ \A i \in DOMAIN conn'[c].inbox : i + 1 \in DOMAIN conn[c].inbox
  BY <1>1, TailFacts DEF Taken
<1>3. \A i \in DOMAIN conn'[c].inbox : \A t : ReplyAt(c, i, t)' <=> ReplyAt(c, i + 1, t)
  BY <1>2 DEF ReplyAt
<1>4. Conns' = Conns /\ Sessions' = Sessions
  BY DEF Taken, ConnOnly, Conns, Sessions, NetInv, NetTypes
<1>5. \A e \in Conns : (Up(e)' <=> Up(e)) /\ (e # c => conn'[e] = conn[e])
  BY DEF Taken, ConnOnly, Up
<1> QED
  BY <1>2, <1>3, <1>4, <1>5

\* A reply is taken by the thread it is for; nobody else's job changes.
LEMMA TakenReplies ==
    ASSUME NetInv, NEW c \in Conns, Taken(c),
           job' \in [Threads -> JobType],
           \A t \in Threads : IF ReplyAt(c, 1, t) THEN job'[t].ans \in Results ELSE job'[t] = job[t]
    PROVE  InboxOK' /\ WaiterHasReleaser'
<1>1. /\ Conns' = Conns /\ \A e \in Conns : (Up(e)' <=> Up(e)) /\ (e # c => conn'[e] = conn[e])
      /\ DOMAIN conn'[c].inbox = 1..(Len(conn[c].inbox) - 1) /\ Len(conn[c].inbox) \in Nat \ {0}
      /\ DOMAIN conn[c].inbox = 1..Len(conn[c].inbox) /\ 1 \in DOMAIN conn[c].inbox
  BY TakenFrames
<1>2. ASSUME NEW e \in Conns, NEW t \in Threads, NEW i \in DOMAIN conn'[e].inbox,
             NEW j \in DOMAIN conn'[e].inbox, ReplyAt(e, i, t)'
      PROVE  job'[t].ans = "served" /\ job'[t].conn = e /\ (ReplyAt(e, j, t)' => i = j)
  <2>1. CASE e = c
    <3>1. ReplyAt(c, i + 1, t) /\ i + 1 \in DOMAIN conn[c].inbox /\ j + 1 \in DOMAIN conn[c].inbox
      BY <1>2, <2>1, TakenFrames
    <3>2. job[t].ans = "served" /\ job[t].conn = c /\ (ReplyAt(c, j + 1, t) => i + 1 = j + 1)
          /\ (ReplyAt(c, 1, t) => i + 1 = 1)
      BY <1>1, <3>1 DEF NetInv, InboxOK
    <3>3. i \in Nat /\ j \in Nat /\ i # 0
      BY <1>1, <1>2, <2>1
    <3>4. job'[t] = job[t]
      BY <3>2, <3>3
    <3>5. ReplyAt(c, j, t)' => ReplyAt(c, j + 1, t)
      BY <1>2, <2>1, TakenFrames
    <3> QED
      BY <2>1, <3>2, <3>3, <3>4, <3>5
  <2>2. CASE e # c
    <3>1. conn'[e] = conn[e]
      BY <1>1, <2>2
    <3>2. ReplyAt(e, i, t) /\ (ReplyAt(e, j, t)' => ReplyAt(e, j, t))
          /\ i \in DOMAIN conn[e].inbox /\ j \in DOMAIN conn[e].inbox
      BY <1>2, <3>1 DEF ReplyAt
    <3>3. job[t].ans = "served" /\ job[t].conn = e /\ (ReplyAt(e, j, t) => i = j)
      BY <3>2 DEF NetInv, InboxOK
    <3>4. ~ReplyAt(c, 1, t)
      BY <1>1, <2>2, <3>3 DEF NetInv, InboxOK
    <3> QED
      BY <3>2, <3>3, <3>4
  <2> QED
    BY <2>1, <2>2
<1>3. ASSUME NEW e \in Conns, ~Up(e)' PROVE conn'[e].inbox = <<>>
  <2>1. ~Up(e)
    BY <1>1, <1>3
  <2>2. e # c
    BY <2>1 DEF Taken
  <2> QED
    BY <1>1, <2>1, <2>2 DEF NetInv, InboxOK
<1>4. InboxOK'
  BY <1>1, <1>2, <1>3 DEF InboxOK
<1>5. ASSUME NEW t \in Threads, job'[t].ans \in {"sent", "served"}
      PROVE  /\ conn'[job'[t].conn].st # "dead"
             /\ job'[t].ans = "served" /\ conn'[job'[t].conn].st = "up" =>
                  \E i \in DOMAIN conn'[job'[t].conn].inbox :
                     /\ conn'[job'[t].conn].inbox[i].kind = "reply"
                     /\ conn'[job'[t].conn].inbox[i].to = t
  <2>1. ~ReplyAt(c, 1, t) /\ job'[t] = job[t]
    BY <1>5 DEF Results
  <2>2. PICK e \in Conns : e = job[t].conn
    BY <1>5, <2>1, AskingHasConn DEF NetInv
  <2>3. conn[e].st # "dead" /\ (job[t].ans = "served" /\ conn[e].st = "up" =>
          \E i \in DOMAIN conn[e].inbox : conn[e].inbox[i].kind = "reply" /\ conn[e].inbox[i].to = t)
    BY <1>5, <2>1, <2>2 DEF NetInv, WaiterHasReleaser
  <2>4. CASE e # c
    BY <1>1, <2>1, <2>2, <2>3, <2>4
  <2>5. CASE e = c
    <3>1. conn'[c].st = conn[c].st
      BY DEF Taken
    <3>2. ASSUME job[t].ans = "served", conn[c].st = "up"
          PROVE  \E i \in DOMAIN conn'[c].inbox : conn'[c].inbox[i].kind = "reply" /\ conn'[c].inbox[i].to = t
      <4>1. PICK i \in DOMAIN conn[c].inbox : conn[c].inbox[i].kind = "reply" /\ conn[c].inbox[i].to = t
        BY <2>3, <2>5, <3>2
      <4>2. i # 1 /\ i - 1 \in DOMAIN conn'[c].inbox /\ i = (i - 1) + 1
        <5>1. i # 1
          BY <1>1, <2>1, <4>1 DEF ReplyAt
        <5>2. PICK n \in Nat \ {0} : n = Len(conn[c].inbox)
          BY <1>1
        <5>3. i \in 1..n /\ DOMAIN conn'[c].inbox = 1..(n - 1)
          BY <1>1, <4>1, <5>2
        <5> QED
          BY <5>1, <5>2, <5>3
      <4> QED
        BY <4>1, <4>2, TakenFrames
    <3> QED
      BY <2>1, <2>2, <2>3, <2>5, <3>1, <3>2
  <2> QED
    BY <2>4, <2>5
<1>6. WaiterHasReleaser'
  BY <1>5 DEF WaiterHasReleaser
<1> QED
  BY <1>4, <1>6

\* The first frame, when it is a reply: what it does to the one it is for.
Answers(c) ==
    \A t \in Threads :
        IF ReplyAt(c, 1, t)
        THEN LET m == conn[c].inbox[1] IN
             /\ job'[t].st = job[t].st /\ job'[t].conn = job[t].conn /\ job'[t].disk = job[t].disk
             /\ job'[t].ans = m.ans /\ job'[t].sid = IF m.sid = 0 THEN job[t].sid ELSE m.sid
        ELSE job'[t] = job[t]

LEMMA TakenInv ==
    ASSUME NetInv, NEW c \in Conns, Taken(c), job' \in [Threads -> JobType], Answers(c)
    PROVE  NetInv'
<1> PICK m : m = conn[c].inbox[1]
  OBVIOUS
<1>1. /\ Conns' = Conns /\ Sessions' = Sessions
      /\ \A e \in Conns : (Up(e)' <=> Up(e)) /\ (e # c => conn'[e] = conn[e])
      /\ DOMAIN conn'[c].inbox = 1..(Len(conn[c].inbox) - 1) /\ Len(conn[c].inbox) \in Nat \ {0}
      /\ DOMAIN conn[c].inbox = 1..Len(conn[c].inbox) /\ 1 \in DOMAIN conn[c].inbox
      /\ sess' = sess /\ gw' = gw
  BY TakenFrames DEF Taken
<1>2. m \in Message
  BY <1>1, ConnFields DEF NetInv
<1>3. \A t \in Threads : /\ job'[t].st = job[t].st /\ job'[t].conn = job[t].conn
                         /\ job'[t].disk = job[t].disk
  BY DEF Answers
<1>4. \A t \in Threads : ReplyAt(c, 1, t) => m.ans \in Results /\ job[t].ans = "served"
                            /\ job[t].st \in Asking /\ job[t].conn = c
  <2>1. ASSUME NEW t \in Threads, ReplyAt(c, 1, t)
        PROVE  m.ans \in Results /\ job[t].ans = "served" /\ job[t].st \in Asking /\ job[t].conn = c
    <3>1. job[t].ans = "served" /\ job[t].conn = c
      BY <1>1, <2>1 DEF NetInv, InboxOK
    <3>2. m.kind = "reply"
      BY <2>1 DEF ReplyAt
    <3>3. m.ans \in Results
      BY <1>2, <3>2 DEF Message
    <3> QED
      BY <3>1, <3>3, ThreadFacts
  <2> QED
    BY <2>1
<1>5. InboxOK' /\ WaiterHasReleaser'
  <2>1. \A t \in Threads : IF ReplyAt(c, 1, t) THEN job'[t].ans \in Results ELSE job'[t] = job[t]
    BY <1>4 DEF Answers
  <2> QED
    BY <2>1, TakenReplies
<1>6. JobsOK'
  <2> SUFFICES ASSUME NEW t \in Threads PROVE JobOK(t)'
    BY DEF JobsOK
  <2>1. JobOK(t)
    BY ThreadFacts
  <2>2. CASE ReplyAt(c, 1, t)
    BY <1>1, <1>3, <1>4, <2>1, <2>2 DEF JobOK, At, Asking
  <2>3. CASE ~ReplyAt(c, 1, t)
    BY <1>1, <2>1, <2>3 DEF JobOK, At, Answers
  <2> QED
    BY <2>2, <2>3
<1>7. \A t \in Threads : \A s : Names(t, s)' <=> Names(t, s)
  BY <1>1, <1>3 DEF Names
<1>8. SidsOK'
  <2> SUFFICES ASSUME NEW t \in Threads PROVE SidOK(t)'
    BY DEF SidsOK
  <2>1. SidOK(t)
    BY ThreadFacts
  <2>2. At(t, "failed") => job[t].conn \in Conns
    BY ThreadFacts DEF At, JobOK
  <2>3. CASE ReplyAt(c, 1, t)
    <3>1. job[t].st \in Asking /\ job[t].ans = "served"
      BY <1>4, <2>3
    <3>2. IF At(t, "open") /\ m.ans = "ok" THEN Names(t, m.sid) ELSE m.sid = 0
      BY <1>1, <2>3 DEF NetInv, SessionsOK, ReplyAt
    <3>3. job'[t].ans = m.ans /\ job'[t].sid = IF m.sid = 0 THEN job[t].sid ELSE m.sid
      BY <2>3 DEF Answers
    <3>4. CASE At(t, "open")
      <4>1. job[t].sid = 0
        BY <2>1, <3>1, <3>4 DEF SidOK
      <4>2. 0 \notin Sessions
        BY DEF NetInv, NetTypes, Sessions
      <4> QED
        BY <1>3, <1>7, <3>2, <3>3, <3>4, <4>1, <4>2 DEF SidOK, At, Before, After, Names
    <3>5. CASE ~At(t, "open")
      BY <1>1, <1>3, <1>7, <2>1, <3>1, <3>2, <3>3, <3>5 DEF SidOK, At, Asking
    <3> QED
      BY <3>4, <3>5
  <2>4. CASE ~ReplyAt(c, 1, t)
    <3>1. job'[t] = job[t]
      BY <2>4 DEF Answers
    <3> QED
      BY <1>1, <1>7, <2>1, <2>2, <3>1 DEF SidOK, At
  <2> QED
    BY <2>3, <2>4
<1>9. SessionsOK'
  <2>1. \A e \in Conns : conn'[e].active \subseteq conn[e].active
    BY <1>1 DEF Taken
  <2>2. ASSUME NEW e \in Conns, NEW i \in DOMAIN conn'[e].inbox, NEW f, f = conn'[e].inbox[i]
        PROVE  IF f.kind # "reply" THEN f.sid \in Sessions /\ sess'[f.sid].conn = e
               ELSE IF job'[f.to].st = "open" /\ f.ans = "ok" THEN Names(f.to, f.sid)' ELSE f.sid = 0
    <3>1. PICK k : k \in DOMAIN conn[e].inbox /\ f = conn[e].inbox[k]
      <4>1. CASE e = c
        BY <2>2, <4>1, TakenFrames
      <4>2. CASE e # c
        BY <1>1, <2>2, <4>2
      <4> QED
        BY <4>1, <4>2
    <3>2. IF f.kind # "reply" THEN f.sid \in Sessions /\ sess[f.sid].conn = e
          ELSE IF At(f.to, "open") /\ f.ans = "ok" THEN Names(f.to, f.sid) ELSE f.sid = 0
      BY <3>1 DEF SessionsOK, NetInv
    <3>3. CASE f.kind # "reply"
      BY <1>1, <3>2, <3>3
    <3>4. CASE f.kind = "reply"
      <4>1. f \in Message
        BY <3>1, ConnFields DEF NetInv
      <4>2. f.to \in Threads
        BY <3>4, <4>1 DEF Message
      <4> QED
        BY <1>3, <1>7, <3>2, <3>4, <4>2 DEF At
    <3> QED
      BY <3>3, <3>4
  <2>3. \A s \in Sessions : sess'[s].conn \in Conns
    BY <1>1 DEF NetInv, SessionsOK
  <2>4. \A e \in Conns : \A s \in conn'[e].active : s \in Sessions /\ sess'[s].conn = e
    BY <1>1, <2>1 DEF NetInv, SessionsOK
  <2> QED
    BY <1>1, <2>2, <2>3, <2>4 DEF SessionsOK, At
<1>10. LifecycleOK'
  <2>1. \A e \in Conns : conn'[e].auth = conn[e].auth /\ conn'[e].open = conn[e].open
    BY <1>1 DEF Taken
  <2>2. \A t \in Threads : \A e : (Beginning(t, e)' <=> Beginning(t, e)) /\ (At(t, "open")' <=> At(t, "open"))
    BY <1>3 DEF Beginning, At
  <2> QED
    BY <1>1, <2>1, <2>2 DEF NetInv, LifecycleOK
<1>11. GwOK'
  <2>1. \A s \in gw : s \in Sessions /\ sess[s].conn \in Conns
    BY DEF NetInv, NetTypes, SessionsOK
  <2> QED
    BY <1>1, <2>1 DEF NetInv, GwOK
<1>12. NetTypes'
  BY <1>1 DEF NetInv, NetTypes, Taken, ConnOnly
<1> QED
  BY <1>5, <1>6, <1>8, <1>9, <1>10, <1>11, <1>12 DEF NetInv

\* What the receive loop leaves of a connection.
LEMMA TakenEffect ==
    ASSUME NetInv, NEW c \in Conns, Up(c), conn[c].inbox # <<>>, NEW A \in SUBSET Nat, A \subseteq conn[c].active,
           conn' = [conn EXCEPT ![c] = [conn[c] EXCEPT !.inbox = Tail(conn[c].inbox), !.active = A]],
           sess' = sess, gw' = gw
    PROVE  Taken(c) /\ conn'[c].active = A
<1>1. conn[c] \in ConnType /\ conn[c].inbox \in Seq(Message)
  BY ConnFields DEF NetInv
<1>2. PICK q \in Seq(Message) : q = Tail(conn[c].inbox)
  BY <1>1, TailFacts
<1>3. PICK r \in ConnType : r = [conn[c] EXCEPT !.inbox = q, !.active = A]
  BY <1>1 DEF ConnType
<1>4. r.inbox = q /\ r.active = A /\ r.st = conn[c].st /\ r.auth = conn[c].auth /\ r.open = conn[c].open
  BY <1>1, <1>3 DEF ConnType
<1>5. conn' = [conn EXCEPT ![c] = r]
  BY <1>2, <1>3
<1>6. ConnOnly(c) /\ conn'[c] = r
  BY <1>5, ConnSet DEF NetInv
<1> QED
  BY <1>2, <1>4, <1>6 DEF Taken

LEMMA TakeReplyInv == ASSUME NetInv, NEW c \in Conns, TakeReply(c) PROVE NetInv'
<1> PICK m : m = Head(conn[c].inbox)
  OBVIOUS
<1>1. /\ Up(c) /\ conn[c].inbox # <<>> /\ m.kind = "reply" /\ sess' = sess /\ gw' = gw
      /\ conn' = [conn EXCEPT ![c].inbox = Tail(@)]
      /\ job' = [job EXCEPT ![m.to].ans = m.ans, ![m.to].sid = IF m.sid = 0 THEN @ ELSE m.sid]
  BY DEF TakeReply, Arrives
<1>2. m = conn[c].inbox[1] /\ m \in Message /\ 1 \in DOMAIN conn[c].inbox
  <2>1. conn[c].inbox \in Seq(Message)
    BY ConnFields DEF NetInv
  <2> QED
    BY <1>1, <2>1, TailFacts
<1>3. m.to \in Threads /\ m.ans \in Results /\ m.sid \in Nat
  BY <1>1, <1>2 DEF Message
<1>4. Taken(c)
  <2>1. conn' = [conn EXCEPT ![c] = [conn[c] EXCEPT !.inbox = Tail(conn[c].inbox), !.active = conn[c].active]]
    BY <1>1, ConnFields DEF NetInv, ConnType
  <2>2. conn[c].active \in SUBSET Nat
    BY ConnFields DEF NetInv
  <2> QED
    BY <1>1, <2>1, <2>2, TakenEffect
<1>5. \A t \in Threads : ReplyAt(c, 1, t) <=> t = m.to
  BY <1>1, <1>2 DEF ReplyAt
<1>6. PICK n \in Nat : n = IF m.sid = 0 THEN job[m.to].sid ELSE m.sid
  BY <1>3, JobFields DEF NetInv
<1>7. job' = [job EXCEPT ![m.to] = [job[m.to] EXCEPT !.ans = m.ans, !.sid = n]]
  BY <1>1, <1>3, <1>6 DEF NetInv, NetTypes, JobType
<1>8. PICK j \in JobType : j = [job[m.to] EXCEPT !.ans = m.ans, !.sid = n]
  BY <1>3, JobFields DEF NetInv, JobType
<1>9. JobOnly(m.to) /\ job'[m.to] = j
  BY <1>3, <1>7, <1>8, JobSet DEF NetInv
<1>10. /\ j.ans = m.ans /\ j.sid = n /\ j.st = job[m.to].st /\ j.conn = job[m.to].conn
       /\ j.disk = job[m.to].disk
  BY <1>3, <1>8, JobFields DEF NetInv, JobType
<1>11. Answers(c)
  BY <1>2, <1>5, <1>6, <1>9, <1>10 DEF Answers, JobOnly
<1> QED
  BY <1>4, <1>9, <1>11, TakenInv DEF JobOnly

\* A notice says nothing to a thread that waits.
LEMMA NoticeInv ==
    ASSUME NetInv, NEW c \in Conns, Taken(c), job' = job, Head(conn[c].inbox).kind # "reply"
    PROVE  NetInv'
<1>1. Head(conn[c].inbox) = conn[c].inbox[1]
  <2>1. conn[c].inbox \in Seq(Message) /\ conn[c].inbox # <<>>
    BY ConnFields DEF NetInv, Taken
  <2> QED
    BY <2>1, TailFacts
<1>2. Answers(c)
  BY <1>1 DEF Answers, ReplyAt
<1>3. job' \in [Threads -> JobType]
  BY DEF NetInv, NetTypes
<1> QED
  BY <1>2, <1>3, TakenInv

LEMMA TakeCloseInv == ASSUME NetInv, NEW c \in Conns, NEW s, TakeClose(c, s) PROVE NetInv'
<1>1. /\ Up(c) /\ conn[c].inbox # <<>> /\ Head(conn[c].inbox).kind = "close" /\ sess' = sess /\ gw' = gw
      /\ conn' = [conn EXCEPT ![c].inbox = Tail(@), ![c].active = @ \ {s}] /\ job' = job
  BY DEF TakeClose, Notice, Arrives
<1>2. PICK A \in SUBSET Nat : A = conn[c].active \ {s}
  BY ConnFields DEF NetInv
<1>3. conn' = [conn EXCEPT ![c] = [conn[c] EXCEPT !.inbox = Tail(conn[c].inbox), !.active = A]]
  BY <1>1, <1>2, ConnFields DEF NetInv, ConnType
<1>4. Taken(c)
  BY <1>1, <1>2, <1>3, TakenEffect
<1> QED
  BY <1>1, <1>4, NoticeInv

LEMMA TakeChangedInv == ASSUME NetInv, NEW c \in Conns, NEW s, TakeChanged(c, s) PROVE NetInv'
<1>1. /\ Up(c) /\ conn[c].inbox # <<>> /\ Head(conn[c].inbox).kind = "changed" /\ sess' = sess /\ gw' = gw
      /\ conn' = [conn EXCEPT ![c].inbox = Tail(@)] /\ job' = job
  BY DEF TakeChanged, Notice, Arrives
<1>2. PICK A \in SUBSET Nat : A = conn[c].active
  BY ConnFields DEF NetInv
<1>3. conn' = [conn EXCEPT ![c] = [conn[c] EXCEPT !.inbox = Tail(conn[c].inbox), !.active = A]]
  BY <1>1, <1>2, ConnFields DEF NetInv, ConnType
<1>4. Taken(c)
  BY <1>1, <1>2, <1>3, TakenEffect
<1> QED
  BY <1>1, <1>4, NoticeInv

(***************************************************************************)
(* The disconnect: whoever waits on the connection is released.            *)
(***************************************************************************)
LEMMA NothingIn == ASSUME NEW q, q = <<>> PROVE \A i : i \notin DOMAIN q
OBVIOUS

LEMMA HandleDisconnectInv == ASSUME NetInv, NEW c \in Conns, HandleDisconnect(c) PROVE NetInv'
<1> PICK dead : dead = [NewConnection EXCEPT !.st = "dead"]
  OBVIOUS
<1>1. /\ conn[c].st = "down" /\ conn' = [conn EXCEPT ![c] = dead] /\ sess' = sess /\ gw' = gw
      /\ job' = [t \in Threads |->
                   IF job[t].conn = c /\ Waiting(t) THEN [job[t] EXCEPT !.ans = "lost"] ELSE job[t]]
  BY DEF HandleDisconnect
<1>2. /\ dead \in ConnType /\ dead.st = "dead" /\ dead.inbox = <<>> /\ dead.active = {}
  <2>1. <<>> \in Seq(Message) /\ 0 \in 0..MaxGrants
    BY NetAssumption DEF NetAssumption
  <2> QED
    BY <2>1 DEF NewConnection, ConnType
<1>3. ConnOnly(c) /\ conn'[c] = dead
  BY <1>1, <1>2, ConnSet DEF NetInv
<1>4. /\ Conns' = Conns /\ Sessions' = Sessions /\ \A e \in Conns : Up(e)' <=> Up(e)
      /\ \A e \in Conns : e # c => conn'[e] = conn[e]
  <2>1. Conns' = Conns /\ Sessions' = Sessions
    BY <1>1, <1>3 DEF Conns, Sessions, ConnOnly, NetInv, NetTypes
  <2> QED
    BY <1>1, <1>2, <1>3, <2>1 DEF ConnOnly, Up
<1>5. \A t \in Threads : /\ job'[t].st = job[t].st /\ job'[t].conn = job[t].conn
                         /\ job'[t].disk = job[t].disk /\ job'[t].sid = job[t].sid
                         /\ IF job[t].conn = c /\ Waiting(t) THEN job'[t].ans = "lost" ELSE job'[t] = job[t]
  BY <1>1 DEF NetInv, NetTypes, JobType
<1>6. job' \in [Threads -> JobType]
  <2>1. \A t \in Threads : [job[t] EXCEPT !.ans = "lost"] \in JobType
    BY DEF NetInv, NetTypes, JobType
  <2> QED
    BY <1>1, <2>1 DEF NetInv, NetTypes
<1>7. conn[c].inbox = <<>> /\ ~Up(c)
  BY <1>1 DEF NetInv, InboxOK, Up
<1>8. ASSUME NEW e \in Conns, NEW i, NEW t, ReplyAt(e, i, t)' PROVE e # c /\ ReplyAt(e, i, t)
  <2>1. i \in DOMAIN conn'[e].inbox /\ conn'[e].inbox[i].kind = "reply" /\ conn'[e].inbox[i].to = t
    BY <1>8 DEF ReplyAt
  <2>2. e # c
    BY <1>2, <1>3, <2>1, NothingIn
  <2>3. conn'[e] = conn[e]
    BY <1>4, <2>2
  <2> QED
    BY <2>1, <2>2, <2>3 DEF ReplyAt
<1>9. InboxOK'
  <2>1. ASSUME NEW e \in Conns, ~Up(e)' PROVE conn'[e].inbox = <<>>
    BY <1>2, <1>3, <1>4, <2>1 DEF NetInv, InboxOK
  <2>2. ASSUME NEW e \in Conns, NEW t \in Threads, NEW i \in DOMAIN conn'[e].inbox,
               NEW j \in DOMAIN conn'[e].inbox, ReplyAt(e, i, t)'
        PROVE  job'[t].ans = "served" /\ job'[t].conn = e /\ (ReplyAt(e, j, t)' => i = j)
    <3>1. e # c /\ ReplyAt(e, i, t) /\ (ReplyAt(e, j, t)' => ReplyAt(e, j, t)) /\ conn'[e] = conn[e]
      BY <1>4, <1>8, <2>2
    <3>2. job[t].ans = "served" /\ job[t].conn = e /\ (ReplyAt(e, j, t) => i = j)
      BY <2>2, <3>1 DEF NetInv, InboxOK
    <3> QED
      BY <1>5, <3>1, <3>2
  <2> QED
    BY <1>4, <2>1, <2>2 DEF InboxOK
<1>10. WaiterHasReleaser'
  <2> SUFFICES ASSUME NEW t \in Threads, job'[t].ans \in {"sent", "served"}
               PROVE  /\ conn'[job'[t].conn].st # "dead"
                      /\ job'[t].ans = "served" /\ conn'[job'[t].conn].st = "up" =>
                           \E i \in DOMAIN conn'[job'[t].conn].inbox :
                              /\ conn'[job'[t].conn].inbox[i].kind = "reply"
                              /\ conn'[job'[t].conn].inbox[i].to = t
    BY DEF WaiterHasReleaser
  <2>1. job'[t] = job[t] /\ job[t].conn # c
    BY <1>5 DEF Waiting
  <2>2. job[t].conn \in Conns
    BY <2>1, AskingHasConn DEF NetInv
  <2>3. conn'[job[t].conn] = conn[job[t].conn]
    BY <1>4, <2>1, <2>2
  <2> QED
    BY <2>1, <2>3 DEF NetInv, WaiterHasReleaser
<1>11. JobsOK'
  <2> SUFFICES ASSUME NEW t \in Threads PROVE JobOK(t)'
    BY DEF JobsOK
  <2>1. JobOK(t) /\ (job[t].ans # "none" => job[t].st \in Asking)
    BY ThreadFacts
  <2> QED
    BY <1>4, <1>5, <2>1 DEF JobOK, At, Waiting, Asking
<1>12. \A t \in Threads : \A s : Names(t, s)' <=> Names(t, s)
  BY <1>1, <1>4, <1>5 DEF Names
<1>13. SidsOK'
  <2> SUFFICES ASSUME NEW t \in Threads PROVE SidOK(t)'
    BY DEF SidsOK
  <2>1. SidOK(t) /\ (At(t, "failed") => job[t].conn \in Conns)
    BY ThreadFacts DEF At, JobOK
  <2>2. (job'[t].ans = "ok" => job[t].ans = "ok") /\ (job[t].ans = "ok" => job'[t].ans = "ok")
    BY <1>5 DEF Waiting
  <2> QED
    BY <1>1, <1>4, <1>5, <1>12, <2>1, <2>2 DEF SidOK, At
<1>14. SessionsOK'
  <2>1. \A s \in Sessions : sess'[s].conn \in Conns
    BY <1>1 DEF NetInv, SessionsOK
  <2>2. \A e \in Conns : \A s \in conn'[e].active : s \in Sessions /\ sess'[s].conn = e
    BY <1>1, <1>2, <1>3, <1>4 DEF NetInv, SessionsOK
  <2>3. ASSUME NEW e \in Conns, NEW i \in DOMAIN conn'[e].inbox, NEW f, f = conn'[e].inbox[i]
        PROVE  IF f.kind # "reply" THEN f.sid \in Sessions /\ sess'[f.sid].conn = e
               ELSE IF job'[f.to].st = "open" /\ f.ans = "ok" THEN Names(f.to, f.sid)' ELSE f.sid = 0
    <3>1. i \in DOMAIN conn[e].inbox /\ f = conn[e].inbox[i]
      <4>1. e # c
        BY <1>2, <1>3, <2>3, NothingIn
      <4> QED
        BY <1>4, <2>3, <4>1
    <3>2. IF f.kind # "reply" THEN f.sid \in Sessions /\ sess[f.sid].conn = e
          ELSE IF At(f.to, "open") /\ f.ans = "ok" THEN Names(f.to, f.sid) ELSE f.sid = 0
      BY <3>1 DEF SessionsOK, NetInv
    <3>3. f \in Message
      BY <3>1, ConnFields DEF NetInv
    <3>4. f.kind = "reply" => f.to \in Threads
      BY <3>3 DEF Message
    <3> QED
      BY <1>1, <1>5, <1>12, <3>2, <3>4 DEF At
  <2> QED
    BY <1>4, <2>1, <2>2, <2>3 DEF SessionsOK, At
<1>15. LifecycleOK'
  <2>1. \A t \in Threads : \A e : (Beginning(t, e)' <=> Beginning(t, e)) /\ (At(t, "open")' <=> At(t, "open"))
    BY <1>5 DEF Beginning, At
  <2>2. \A e \in Conns : Up(e)' => Up(e) /\ conn'[e] = conn[e]
    BY <1>4, <1>7
  <2> QED
    BY <1>4, <2>1, <2>2 DEF NetInv, LifecycleOK
<1>16. GwOK'
  <2>1. \A s \in gw : s \in Sessions /\ sess[s].conn \in Conns
    BY DEF NetInv, NetTypes, SessionsOK
  <2> QED
    BY <1>1, <1>4, <2>1 DEF NetInv, GwOK
<1>17. NetTypes'
  BY <1>1, <1>3, <1>4, <1>6 DEF NetInv, NetTypes, ConnOnly
<1> QED
  BY <1>9, <1>10, <1>11, <1>13, <1>14, <1>15, <1>16, <1>17 DEF NetInv

(***************************************************************************)
(* The gateway sends.                                                      *)
(***************************************************************************)
\* The frame m is behind the others of connection c.
Delivered(c, m) ==
    /\ Up(c) /\ ConnOnly(c) /\ conn'[c].inbox = Append(conn[c].inbox, m)
    /\ conn'[c].st = conn[c].st /\ conn'[c].active = conn[c].active
    /\ conn'[c].auth = conn[c].auth /\ conn'[c].open = conn[c].open
\* The one it is for had a request out there.
Serves1(c, m) ==
    /\ m.kind = "reply" => job[m.to].ans = "sent" /\ job[m.to].conn = c
    /\ \A t \in Threads :
         IF m.kind = "reply" /\ t = m.to
         THEN /\ job'[t].st = job[t].st /\ job'[t].conn = job[t].conn /\ job'[t].disk = job[t].disk
              /\ job'[t].sid = job[t].sid /\ job'[t].ans = "served"
         ELSE job'[t] = job[t]
\* The sessions there were are the same.
SessionsGrow ==
    /\ sess' \in Seq(SessType) /\ Sessions \subseteq Sessions' /\ \A s \in Sessions : sess'[s] = sess[s]
    /\ \A s \in Sessions' : sess'[s].conn \in Conns
    /\ gw' \subseteq Sessions' /\ \A s \in gw' : Up(sess'[s].conn)
RightSid(c, m) ==
    IF m.kind # "reply" THEN m.sid \in Sessions' /\ sess'[m.sid].conn = c
    ELSE IF At(m.to, "open") /\ m.ans = "ok" THEN Names(m.to, m.sid)' ELSE m.sid = 0

LEMMA AppendFacts ==
    ASSUME NEW S, NEW q \in Seq(S), NEW x \in S
    PROVE  /\ Append(q, x) \in Seq(S) /\ Len(q) \in Nat /\ DOMAIN q = 1..Len(q)
           /\ DOMAIN Append(q, x) = 1..(Len(q) + 1) /\ Append(q, x)[Len(q) + 1] = x
           /\ \A i \in DOMAIN q : Append(q, x)[i] = q[i]
           /\ \A i \in DOMAIN Append(q, x) : i \in DOMAIN q \/ i = Len(q) + 1
           /\ DOMAIN q \subseteq DOMAIN Append(q, x) /\ Len(q) + 1 \notin DOMAIN q
OBVIOUS

LEMMA DeliverInv ==
    ASSUME NetInv, NEW c \in Conns, NEW m \in Message, Delivered(c, m), Serves1(c, m), SessionsGrow,
           RightSid(c, m), job' \in [Threads -> JobType]
    PROVE  NetInv'
<1> PICK n \in Nat : n = Len(conn[c].inbox) + 1
  BY ConnFields DEF NetInv
<1>1. /\ conn'[c].inbox[n] = m /\ \A i \in DOMAIN conn[c].inbox : conn'[c].inbox[i] = conn[c].inbox[i]
      /\ \A i \in DOMAIN conn'[c].inbox : i \in DOMAIN conn[c].inbox \/ i = n
      /\ DOMAIN conn[c].inbox \subseteq DOMAIN conn'[c].inbox /\ n \in DOMAIN conn'[c].inbox
      /\ n \notin DOMAIN conn[c].inbox
  <2>1. conn[c].inbox \in Seq(Message)
    BY ConnFields DEF NetInv
  <2>2. n \in 1..(Len(conn[c].inbox) + 1)
    BY <2>1
  <2> QED
    BY <2>1, <2>2, AppendFacts DEF Delivered
<1>2. /\ Conns' = Conns /\ \A e \in Conns : (Up(e)' <=> Up(e)) /\ (e # c => conn'[e] = conn[e])
  <2>1. Conns' = Conns
    BY DEF Conns, Delivered, ConnOnly, NetInv, NetTypes
  <2> QED
    BY <2>1 DEF Delivered, ConnOnly, Up
<1>3. m.kind = "reply" => m.to \in Threads
  BY DEF Message
<1>4. \A t \in Threads : /\ job'[t].st = job[t].st /\ job'[t].conn = job[t].conn
                         /\ job'[t].disk = job[t].disk /\ job'[t].sid = job[t].sid
  BY DEF Serves1
<1>5. \A t \in Threads : \A s : Names(t, s) => Names(t, s)'
  BY <1>4 DEF Names, SessionsGrow
<1>6. \A e \in Conns : \A t, i : ReplyAt(e, i, t)' =>
          ReplyAt(e, i, t) \/ (e = c /\ i = n /\ m.kind = "reply" /\ m.to = t)
  BY <1>1, <1>2 DEF ReplyAt
<1>7. InboxOK'
  <2>1. ASSUME NEW e \in Conns, ~Up(e)' PROVE conn'[e].inbox = <<>>
    <3>1. ~Up(e) /\ e # c
      BY <1>2, <2>1 DEF Delivered
    <3> QED
      BY <1>2, <3>1 DEF NetInv, InboxOK
  <2>2. ASSUME NEW e \in Conns, NEW t \in Threads, NEW i \in DOMAIN conn'[e].inbox,
               NEW j \in DOMAIN conn'[e].inbox, ReplyAt(e, i, t)'
        PROVE  job'[t].ans = "served" /\ job'[t].conn = e /\ (ReplyAt(e, j, t)' => i = j)
    <3>1. CASE m.kind = "reply" /\ m.to = t
      <4>1. job[t].ans = "sent" /\ job'[t].ans = "served" /\ job'[t].conn = c
        BY <3>1 DEF Serves1
      <4>2. \A d \in Conns : \A k : ~ReplyAt(d, k, t)
        <5>1. ASSUME NEW d \in Conns, NEW k, ReplyAt(d, k, t) PROVE FALSE
          <6>1. k \in DOMAIN conn[d].inbox
            BY <5>1 DEF ReplyAt
          <6> QED
            BY <4>1, <5>1, <6>1 DEF NetInv, InboxOK
        <5> QED
          BY <5>1
      <4> QED
        BY <1>6, <2>2, <4>1, <4>2
    <3>2. CASE ~(m.kind = "reply" /\ m.to = t)
      <4>1. ReplyAt(e, i, t) /\ (ReplyAt(e, j, t)' => ReplyAt(e, j, t))
        BY <1>6, <2>2, <3>2
      <4>2. job[t].ans = "served" /\ job[t].conn = e
            /\ \A k \in DOMAIN conn[e].inbox : ReplyAt(e, k, t) => i = k
        BY <4>1 DEF NetInv, InboxOK, ReplyAt
      <4>3. job'[t] = job[t]
        BY <3>2 DEF Serves1
      <4> QED
        BY <4>1, <4>2, <4>3 DEF ReplyAt
    <3> QED
      BY <3>1, <3>2
  <2> QED
    BY <1>2, <2>1, <2>2 DEF InboxOK
<1>8. WaiterHasReleaser'
  <2>1. ASSUME NEW t \in Threads, job'[t].ans \in {"sent", "served"}
        PROVE  /\ conn'[job'[t].conn].st # "dead"
               /\ job'[t].ans = "served" /\ conn'[job'[t].conn].st = "up" =>
                    \E i \in DOMAIN conn'[job'[t].conn].inbox :
                       /\ conn'[job'[t].conn].inbox[i].kind = "reply"
                       /\ conn'[job'[t].conn].inbox[i].to = t
    <3>1. CASE m.kind = "reply" /\ m.to = t
      <4>1. job'[t].conn = c
        BY <3>1 DEF Serves1
      <4>2. conn'[c].st # "dead"
        BY DEF Delivered, Up
      <4> QED
        BY <1>1, <3>1, <4>1, <4>2
    <3>2. CASE ~(m.kind = "reply" /\ m.to = t)
      <4>1. job'[t] = job[t]
        BY <3>2 DEF Serves1
      <4>2. PICK e \in Conns : e = job[t].conn
        BY <2>1, <4>1, AskingHasConn DEF NetInv
      <4>3. conn[e].st # "dead" /\ (job[t].ans = "served" /\ conn[e].st = "up" =>
              \E i \in DOMAIN conn[e].inbox : conn[e].inbox[i].kind = "reply" /\ conn[e].inbox[i].to = t)
        BY <2>1, <4>1, <4>2 DEF NetInv, WaiterHasReleaser
      <4>4. CASE e # c
        BY <1>2, <4>1, <4>2, <4>3, <4>4
      <4>5. CASE e = c
        <5>1. conn'[c].st = conn[c].st
          BY DEF Delivered
        <5> QED
          BY <1>1, <4>1, <4>2, <4>3, <4>5, <5>1
      <4> QED
        BY <4>4, <4>5
    <3> QED
      BY <3>1, <3>2
  <2> QED
    BY <2>1 DEF WaiterHasReleaser
<1>9. JobsOK'
  <2> SUFFICES ASSUME NEW t \in Threads PROVE JobOK(t)'
    BY DEF JobsOK
  <2>1. JobOK(t)
    BY ThreadFacts
  <2>2. CASE m.kind = "reply" /\ m.to = t
    <3>1. job[t].st \in Asking
      BY <2>2, ThreadFacts DEF Serves1
    <3> QED
      BY <1>2, <1>4, <2>1, <3>1 DEF JobOK, At, Asking
  <2>3. CASE ~(m.kind = "reply" /\ m.to = t)
    <3>1. job'[t] = job[t]
      BY <2>3 DEF Serves1
    <3> QED
      BY <1>2, <2>1, <3>1 DEF JobOK, At
  <2> QED
    BY <2>2, <2>3
<1>10. SidsOK'
  <2> SUFFICES ASSUME NEW t \in Threads PROVE SidOK(t)'
    BY DEF SidsOK
  <2>1. SidOK(t) /\ (At(t, "failed") => job[t].conn \in Conns)
    BY ThreadFacts DEF At, JobOK
  <2>2. (job'[t].ans = "ok" => job[t].ans = "ok") /\ (job[t].ans = "ok" => job'[t].ans = "ok")
    BY DEF Serves1
  <2>3. At(t, "io") => job[t].sid \in Sessions' /\ sess'[job[t].sid].conn = job[t].conn
    BY <2>1 DEF SidOK, SessionsGrow
  <2> QED
    BY <1>2, <1>4, <1>5, <2>1, <2>2, <2>3 DEF SidOK, At
<1>11. SessionsOK'
  <2>1. \A e \in Conns : conn'[e].active = conn[e].active
    BY <1>2 DEF Delivered
  <2>2. \A e \in Conns : \A s \in conn'[e].active : s \in Sessions' /\ sess'[s].conn = e
    BY <2>1 DEF NetInv, SessionsOK, SessionsGrow
  <2>3. ASSUME NEW e \in Conns, NEW i \in DOMAIN conn'[e].inbox, NEW f, f = conn'[e].inbox[i]
        PROVE  IF f.kind # "reply" THEN f.sid \in Sessions' /\ sess'[f.sid].conn = e
               ELSE IF job'[f.to].st = "open" /\ f.ans = "ok" THEN Names(f.to, f.sid)' ELSE f.sid = 0
    <3>1. CASE i \in DOMAIN conn[e].inbox /\ f = conn[e].inbox[i]
      <4>1. IF f.kind # "reply" THEN f.sid \in Sessions /\ sess[f.sid].conn = e
            ELSE IF At(f.to, "open") /\ f.ans = "ok" THEN Names(f.to, f.sid) ELSE f.sid = 0
        BY <3>1 DEF SessionsOK, NetInv
      <4>2. f \in Message
        BY <3>1, ConnFields DEF NetInv
      <4>3. f.kind = "reply" => f.to \in Threads
        BY <4>2 DEF Message
      <4>4. f.kind # "reply" => f.sid \in Sessions' /\ sess'[f.sid].conn = e
        BY <4>1 DEF SessionsGrow
      <4> QED
        BY <1>4, <1>5, <4>1, <4>3, <4>4 DEF At
    <3>2. CASE e = c /\ f = m
      BY <1>3, <1>4, <3>2 DEF RightSid, At
    <3> QED
      BY <1>1, <1>2, <2>3, <3>1, <3>2
  <2> QED
    BY <1>2, <2>2, <2>3 DEF SessionsOK, At, SessionsGrow
<1>12. LifecycleOK'
  <2>1. \A t \in Threads : \A e : (Beginning(t, e)' <=> Beginning(t, e)) /\ (At(t, "open")' <=> At(t, "open"))
    BY <1>4 DEF Beginning, At
  <2>2. \A e \in Conns : conn'[e].auth = conn[e].auth /\ conn'[e].open = conn[e].open
    BY <1>2 DEF Delivered
  <2> QED
    BY <1>2, <2>1, <2>2 DEF NetInv, LifecycleOK
<1>13. GwOK'
  BY <1>2 DEF GwOK, SessionsGrow
<1>14. NetTypes'
  BY DEF NetTypes, SessionsGrow, Delivered, ConnOnly
<1> QED
  BY <1>7, <1>8, <1>9, <1>10, <1>11, <1>12, <1>13, <1>14 DEF NetInv

LEMMA ReplyType ==
    ASSUME NEW t \in Threads, NEW ans \in Results, NEW sid \in Nat
    PROVE  \E m \in Message : /\ m = [kind |-> "reply", to |-> t, ans |-> ans, sid |-> sid]
                             /\ m.kind = "reply" /\ m.to = t /\ m.ans = ans /\ m.sid = sid
<1>1. [kind |-> "reply", to |-> t, ans |-> ans, sid |-> sid] \in [kind : {"reply"}, to : Threads, ans : Results, sid : Nat]
  OBVIOUS
<1>2. [kind |-> "reply", to |-> t, ans |-> ans, sid |-> sid] \in Message
  BY <1>1 DEF Message
<1> QED
  BY <1>2
LEMMA SessionType ==
    ASSUME NEW c \in Nat, NEW d \in RemoteDisks, NEW st \in {"granted", "open", "closed", "terminal"}
    PROVE  [conn |-> c, disk |-> d, st |-> st] \in SessType
BY DEF SessType

LEMMA DeliverEffect ==
    ASSUME NetInv, NEW c \in Conns, Up(c), NEW m \in Message,
           conn' = [conn EXCEPT ![c].inbox = Append(@, m)]
    PROVE  Delivered(c, m)
<1>1. conn[c] \in ConnType /\ conn[c].inbox \in Seq(Message)
  BY ConnFields DEF NetInv
<1>2. PICK q \in Seq(Message) : q = Append(conn[c].inbox, m)
  BY <1>1, AppendFacts
<1>3. PICK r \in ConnType : r = [conn[c] EXCEPT !.inbox = q]
  BY <1>1 DEF ConnType
<1>4. r.inbox = q /\ r.active = conn[c].active /\ r.st = conn[c].st /\ r.auth = conn[c].auth /\ r.open = conn[c].open
  BY <1>1, <1>3 DEF ConnType
<1>5. conn' = [conn EXCEPT ![c] = r]
  BY <1>2, <1>3
<1>6. ConnOnly(c) /\ conn'[c] = r
  BY <1>5, ConnSet DEF NetInv
<1> QED
  BY <1>2, <1>4, <1>6 DEF Delivered

\* A notice.
LEMMA SendsNoticeInv ==
    ASSUME NetInv, NEW s \in gw, NEW kind \in {"close", "changed"}, gw' \subseteq gw, sess' = sess, job' = job,
           conn' = [conn EXCEPT ![sess[s].conn].inbox = Append(@, [kind |-> kind, sid |-> s])]
    PROVE  NetInv'
<1>1. PICK c \in Conns : c = sess[s].conn /\ Up(c) /\ s \in Sessions /\ s \in Nat
  BY DEF NetInv, NetTypes, SessionsOK, GwOK, Sessions
<1>2. PICK m \in Message : m = [kind |-> kind, sid |-> s] /\ m.kind = kind /\ m.sid = s
  BY <1>1 DEF Message
<1>3. Delivered(c, m)
  BY <1>1, <1>2, DeliverEffect
<1>4. Serves1(c, m)
  BY <1>2 DEF Serves1
<1>5. SessionsGrow
  BY DEF SessionsGrow, NetInv, NetTypes, SessionsOK, GwOK, Sessions
<1>6. RightSid(c, m)
  BY <1>1, <1>2 DEF RightSid, Sessions
<1>7. job' \in [Threads -> JobType]
  BY DEF NetInv, NetTypes
<1> QED
  BY <1>3, <1>4, <1>5, <1>6, <1>7, DeliverInv

LEMMA CloseByGatewayInv == ASSUME NetInv, NEW s \in gw, CloseByGateway(s) PROVE NetInv'
<1>1. gw' \subseteq gw
  BY DEF CloseByGateway
<1> QED
  BY <1>1, SendsNoticeInv DEF CloseByGateway
LEMMA TellChangedInv == ASSUME NetInv, NEW s \in gw, TellChanged(s) PROVE NetInv'
BY SendsNoticeInv DEF TellChanged

\* A reply.
LEMMA ReplyInv ==
    ASSUME NetInv, NEW t \in Threads, CanServe(t), NEW ans \in Results, NEW sid \in Nat, Reply(t, ans, sid),
           SessionsGrow, IF At(t, "open") /\ ans = "ok" THEN Names(t, sid)' ELSE sid = 0
    PROVE  NetInv'
<1>1. PICK c \in Conns : c = job[t].conn /\ Up(c)
  BY AskingHasConn DEF CanServe, NetInv
<1>2. PICK m \in Message : /\ m = [kind |-> "reply", to |-> t, ans |-> ans, sid |-> sid]
                           /\ m.kind = "reply" /\ m.to = t /\ m.ans = ans /\ m.sid = sid
  BY ReplyType
<1>3. Delivered(c, m)
  BY <1>1, <1>2, DeliverEffect DEF Reply
<1>4. Serves1(c, m) /\ job' \in [Threads -> JobType]
  BY <1>1, <1>2 DEF Serves1, Reply, CanServe, NetInv, NetTypes, JobType
<1>5. RightSid(c, m)
  BY <1>2 DEF RightSid
<1> QED
  BY <1>3, <1>4, <1>5, DeliverInv

LEMMA ServeInv == ASSUME NetInv, NEW t \in Threads, Serve(t) PROVE NetInv'
<1>1. CanServe(t)
  BY DEF Serve
<1>2. CASE At(t, "open")
  <2>1. PICK s \in SessType : /\ s = [conn |-> job[t].conn, disk |-> job[t].disk, st |-> "granted"]
                              /\ s.conn = job[t].conn /\ s.disk = job[t].disk
    <3>1. job[t].conn \in Nat /\ job[t].disk \in RemoteDisks
      BY <1>2, ThreadFacts, JobFields DEF JobOK, At, NetInv
    <3> QED
      BY <3>1, SessionType
  <2>2. sess' = Append(sess, s) /\ gw' = gw \cup {Len(sess) + 1} /\ Reply(t, "ok", Len(sess) + 1)
    BY <1>2, <2>1 DEF Serve
  <2>3. PICK n \in Nat : n = Len(sess) + 1
    BY DEF NetInv, NetTypes
  <2>4. /\ sess' \in Seq(SessType) /\ Sessions' = Sessions \cup {n} /\ sess'[n] = s
        /\ \A i \in Sessions : sess'[i] = sess[i]
    <3>1. sess \in Seq(SessType)
      BY DEF NetInv, NetTypes
    <3>2. Sessions = 1..Len(sess) /\ Sessions' = 1..(Len(sess) + 1) /\ Len(sess) \in Nat
      BY <2>2, <3>1 DEF Sessions
    <3> QED
      BY <2>2, <2>3, <3>1, <3>2
  <2>5. job[t].conn \in Conns /\ Up(job[t].conn)
    BY <1>1, AskingHasConn DEF CanServe, NetInv
  <2>6. SessionsGrow
    <3>1. \A i \in Sessions' : sess'[i].conn \in Conns
      BY <2>1, <2>4, <2>5 DEF NetInv, SessionsOK
    <3>2. gw' \subseteq Sessions'
      BY <2>2, <2>3, <2>4 DEF NetInv, NetTypes
    <3>3. \A i \in gw' : Up(sess'[i].conn)
      <4>1. \A i \in gw : i \in Sessions /\ Up(sess[i].conn)
        BY DEF NetInv, NetTypes, GwOK
      <4> QED
        BY <2>1, <2>2, <2>3, <2>4, <2>5, <4>1
    <3> QED
      BY <2>4, <3>1, <3>2, <3>3 DEF SessionsGrow
  <2>7. job'[t].conn = job[t].conn /\ job'[t].disk = job[t].disk
    BY <2>2 DEF Reply, NetInv, NetTypes, JobType
  <2>8. Names(t, n)'
    BY <2>1, <2>4, <2>7 DEF Names
  <2> QED
    BY <1>1, <1>2, <2>2, <2>3, <2>6, <2>8, ReplyInv DEF Results
<1>3. CASE ~At(t, "open")
  <2>1. PICK ans \in Results : Reply(t, ans, 0) /\ sess' = sess /\ gw' = gw
    BY <1>3 DEF Serve, Results
  <2>2. SessionsGrow
    BY <2>1 DEF SessionsGrow, NetInv, NetTypes, SessionsOK, GwOK, Sessions
  <2> QED
    BY <1>1, <1>3, <2>1, <2>2, ReplyInv
<1> QED
  BY <1>2, <1>3

LEMMA RefuseInv == ASSUME NetInv, NEW t \in Threads, Refuse(t) PROVE NetInv'
<1>1. CanServe(t) /\ sess' = sess /\ gw' = gw
  BY DEF Refuse
<1>2. PICK ans \in Refusals[job[t].st] : Reply(t, ans, 0)
  BY DEF Refuse
<1>3. ans \in Results /\ ans # "ok"
  <2>1. job[t].st \in Asking
    BY <1>1, ThreadFacts DEF CanServe
  <2> QED
    BY <1>2, <2>1 DEF Refusals, Results, Asking
<1>4. SessionsGrow
  BY <1>1 DEF SessionsGrow, NetInv, NetTypes, SessionsOK, GwOK, Sessions
<1> QED
  BY <1>1, <1>2, <1>3, <1>4, ReplyInv

(***************************************************************************)
(* The start, and what goes on beneath a host program.                     *)
(***************************************************************************)
LEMMA NetInitInv == ASSUME NEW n, NEW f, NetInit(n, f) PROVE NetInv
<1>1. conn = <<>> /\ sess = <<>> /\ gw = {} /\ job = [t \in Threads |-> IdleJob]
  BY DEF NetInit
<1>2. Conns = {} /\ Sessions = {}
  BY <1>1 DEF Conns, Sessions
<1>3. \A t \in Threads : job[t] = IdleJob /\ job[t].ans = "none" /\ job[t].st = "idle" /\ job[t].sid = 0
  BY <1>1 DEF IdleJob
<1>4. IdleJob \in JobType
  BY NetAssumption DEF NetAssumption, IdleJob, JobType, JobStates
<1>5. NetTypes
  BY <1>1, <1>4 DEF NetTypes
<1>6. JobsOK /\ SidsOK
  BY <1>3 DEF JobsOK, JobOK, SidsOK, SidOK, At, Asking, Before, After
<1> QED
  BY <1>1, <1>2, <1>3, <1>5, <1>6 DEF NetInv, InboxOK, WaiterHasReleaser, SessionsOK, LifecycleOK, GwOK

LEMMA LibraryInv == ASSUME NetInv, Library PROVE NetInv'
<1>1. CASE \E t \in Threads : CallerStep(t)
  BY <1>1, SendInv, BeginAuthInv, StartReturnsInv, FinishReturnsInv, RegisterGrantInv, OpenReturnsInv,
     AttachInv, DescribeReturnsInv, IoContinuesInv, IoEndsInv DEF CallerStep
<1>2. CASE \E c \in Conns : LoopStep(c)
  BY <1>2, TakeReplyInv, LoseConnectionInv DEF LoopStep
<1> QED
  BY <1>1, <1>2 DEF Library
LEMMA GatewayInv == ASSUME NetInv, Gateway PROVE NetInv'
BY ServeInv, CloseByGatewayInv, TellChangedInv DEF Gateway
LEMMA TroubleInv == ASSUME NetInv, Trouble PROVE NetInv'
BY RefuseInv, BreakLinkInv DEF Trouble
LEMMA NetStutter == ASSUME NetInv, UNCHANGED netVars PROVE NetInv'
<1>1. ConnsLess /\ SameSessions /\ StillUp
  BY SameConns, QuietSame, SameStillUp DEF Quietly, netVars
<1> QED
  BY <1>1, HostInv DEF HostStep, HostJob, netVars
=============================================================================
