----------------------------- MODULE NetClient -----------------------------
(***************************************************************************)
(* network-core: the client's connections to a gateway.                    *)
(*                                                                         *)
(* A GatewayConnection multiplexes the requests of several threads over    *)
(* one stream.  A caller makes its request pending, sends it and blocks    *)
(* until the receive loop hands it the reply or the disconnect fails it.   *)
(* The receive loop also takes the gateway's notices.  A connection that   *)
(* fails is taken down once: the transport is closed, and then the         *)
(* disconnect handler runs, the pending requests fail and the lifecycle is *)
(* cleared.  Callers may act on the connection between the two.            *)
(*                                                                         *)
(* What a thread is doing on a connection is its job: authenticate, open   *)
(* a session, describe it; or the chunks of one read or write.  The host   *)
(* programs (CliHost, Desktop) start jobs, decide between their steps and  *)
(* handle what a finished job leaves; they also supply what the handlers   *)
(* they register do.                                                       *)
(*                                                                         *)
(* The gateway is external: it answers, refuses, closes a session with a   *)
(* notice, tells of changed data, or goes silent.                          *)
(***************************************************************************)
EXTENDS Naturals, Sequences, FiniteSets

CONSTANTS
    Threads,        \* threads that make requests
    RemoteDisks,    \* disks behind the gateway
    IoChunks,       \* MAX_DATA_PLANE_RAW_BYTES pieces of one media request
    MaxConns,       \* bound: connections made
    MaxSessions,    \* bound: sessions opened
    MaxNotices,     \* bound: notices the gateway sends
    MaxGrants,      \* bound: grants a connection keeps: an open that is refused leaves its grant
    MaxFaults       \* bound: links that go dead, replies that fail, removals that fail

ASSUME NetAssumption ==
    /\ IoChunks \in Nat \ {0} /\ MaxConns \in Nat /\ MaxSessions \in Nat
    /\ MaxNotices \in Nat /\ MaxGrants \in Nat /\ MaxFaults \in Nat

VARIABLES
    conn,       \* the connections, in the order they were made
    sess,       \* the sessions the gateway opened, SessionId = position
    gw,         \* the sessions the gateway holds open
    job,        \* what each thread is doing
    notices, faults

netVars == <<conn, sess, gw, job, notices, faults>>

Conns == DOMAIN conn
Sessions == DOMAIN sess

\* GatewayConnection::new, and its lifecycle.
NewConnection ==
    [st |-> "up", bad |-> FALSE, auth |-> FALSE, open |-> FALSE,
     active |-> {}, grants |-> 0, inbox |-> <<>>]
IdleJob == [st |-> "idle", ans |-> "none", conn |-> 0, disk |-> "none", sid |-> 0, left |-> 0]

\* At most n notices and f faults are left for this behaviour.
NetInit(n, f) ==
    /\ conn = <<>> /\ sess = <<>> /\ gw = {}
    /\ job = [t \in Threads |-> IdleJob]
    /\ notices = MaxNotices - n /\ faults = MaxFaults - f

Up(c) == c # 0 /\ conn[c].st = "up"
Idle(t) == job[t].st = "idle"
At(t, st) == job[t].st = st
Waiting(t) == job[t].ans \in {"pending", "sent", "served"}
ClearJob(t) == [job EXCEPT ![t] = IdleJob]
Opening == {"acquired", "start", "finish", "granting", "authed", "open"}
StayJob(t, st) == [job EXCEPT ![t].st = st, ![t].ans = "none"]
\* A session opened now, after those being opened, is within the bound.
RoomForSession ==
    Len(sess) + Cardinality({t \in Threads : job[t].st \in Opening /\ job[t].ans # "served"})
        < MaxSessions
Breaks == faults < MaxFaults /\ faults' = faults + 1

-----------------------------------------------------------------------------
(* Requests.                                                               *)

\* send_request: the request is pending before it is sent.
Request(t, st) == [job EXCEPT ![t].st = st, ![t].ans = "pending"]

\* Variant: a request that could not be sent stays pending.
SendBlind(t) ==
    /\ job[t].ans = "pending" /\ job' = [job EXCEPT ![t].ans = "sent"]
    /\ UNCHANGED <<conn, sess, gw, notices, faults>>

\* When the transport is closed by then it is taken back.
Send(t) ==
    /\ job[t].ans = "pending"
    /\ job' = [job EXCEPT ![t].ans = IF Up(job[t].conn) THEN "sent" ELSE "lost"]
    /\ UNCHANGED <<conn, sess, gw, notices, faults>>

\* A frame of this kind is next in the receive loop (recv_payload).
Arrives(c, kind) == Up(c) /\ conn[c].inbox # <<>> /\ Head(conn[c].inbox).kind = kind

\* A notice: it names its session and waits for nobody.
Notice(c, kind, s) == Arrives(c, kind) /\ Head(conn[c].inbox).sid = s

\* dispatch_response of a reply: whoever waits for it gets it.
TakeReply(c) ==
    /\ Arrives(c, "reply")
    /\ LET m == Head(conn[c].inbox) IN
         /\ conn' = [conn EXCEPT ![c].inbox = Tail(@)]
         /\ job' = [job EXCEPT ![m.to].ans = m.ans,
                               ![m.to].sid = IF m.sid = 0 THEN @ ELSE m.sid]
    /\ UNCHANGED <<sess, gw, notices, faults>>

\* dispatch_response of a close notice, up to the host's handler.
TakeClose(c, s) ==
    /\ Notice(c, "close", s)
    /\ conn' = [conn EXCEPT ![c].inbox = Tail(@), ![c].active = @ \ {s}]
    /\ UNCHANGED <<sess, gw, job, notices, faults>>

\* dispatch_response of a data-changed notice, up to the host's handler.
TakeChanged(c, s) ==
    /\ Notice(c, "changed", s)
    /\ conn' = [conn EXCEPT ![c].inbox = Tail(@)]
    /\ UNCHANGED <<sess, gw, job, notices, faults>>

\* TransportClient::close.
Closed(cn) == IF cn.st = "up" THEN [cn EXCEPT !.st = "down", !.inbox = <<>>] ELSE cn
GwWithout(c) == {s \in gw : sess[s].conn # c}

\* The stream fails in the reader or the writer loop, or nothing comes back.
Broken(c) == conn[c].bad

\* The heartbeat is not answered in time, or the loops end.
LoseConnection(c) ==
    /\ Up(c) /\ Broken(c)
    /\ conn' = [conn EXCEPT ![c] = Closed(@)] /\ gw' = GwWithout(c)
    /\ UNCHANGED <<sess, job, notices, faults>>

\* handle_disconnect: the host's handler, fail_all_pending, reset_lifecycle.
HandleDisconnect(c) ==
    /\ conn[c].st = "down"
    /\ conn' = [conn EXCEPT ![c] = [NewConnection EXCEPT !.st = "dead"]]
    /\ job' = [t \in Threads |->
                 IF job[t].conn = c /\ Waiting(t) THEN [job[t] EXCEPT !.ans = "lost"] ELSE job[t]]
    /\ UNCHANGED <<sess, gw, notices, faults>>

-----------------------------------------------------------------------------
(* authenticate, SessionOpener::open, DiskSession::new, describe.          *)

InFlight(c) == conn[c].auth \/ conn[c].open

\* begin_auth, and the first of the two exchanges.
BeginAuth(t) ==
    /\ At(t, "acquired")
    /\ LET c == job[t].conn IN
         IF InFlight(c) THEN job' = StayJob(t, "failed") /\ UNCHANGED conn
         ELSE job' = Request(t, "start") /\ conn' = [conn EXCEPT ![c].auth = TRUE]
    /\ UNCHANGED <<sess, gw, notices, faults>>

\* The reply is there, checked and decoded, or the request has failed.
Answered(t) == job[t].ans # "none" /\ ~Waiting(t)

\* The reply to AuthStart: fail_auth, or the proof is sent.
StartReturns(t) ==
    /\ At(t, "start") /\ Answered(t)
    /\ IF job[t].ans = "ok" THEN job' = Request(t, "finish") /\ UNCHANGED conn
       ELSE job' = StayJob(t, "failed") /\ conn' = [conn EXCEPT ![job[t].conn].auth = FALSE]
    /\ UNCHANGED <<sess, gw, notices, faults>>

\* The reply to AuthFinish: finish_auth fails when a disconnect has cleared
\* the lifecycle meanwhile.
FinishReturns(t) ==
    /\ At(t, "finish") /\ Answered(t)
    /\ LET cn == conn[job[t].conn]
           ok == job[t].ans = "ok" /\ cn.auth /\ ~cn.open
       IN job' = StayJob(t, IF ok THEN "granting" ELSE "failed")
    /\ conn' = [conn EXCEPT ![job[t].conn].auth = FALSE]
    /\ UNCHANGED <<sess, gw, notices, faults>>

\* register_auth_grant.
RegisterGrant(t) ==
    /\ At(t, "granting") /\ conn[job[t].conn].grants < MaxGrants
    /\ conn' = [conn EXCEPT ![job[t].conn].grants = @ + 1]
    /\ job' = StayJob(t, "authed")
    /\ UNCHANGED <<sess, gw, notices, faults>>

\* consume_auth_grant, discard_auth_grant.
LessGrant(cn) == [cn EXCEPT !.grants = IF @ = 0 THEN 0 ELSE @ - 1]

\* begin_session_open; a refusal keeps the grant.
BeginOpen(t) ==
    /\ At(t, "authed")
    /\ LET c == job[t].conn IN
         IF InFlight(c) THEN job' = StayJob(t, "failed") /\ UNCHANGED conn
         ELSE job' = Request(t, "open") /\ conn' = [conn EXCEPT ![c].open = TRUE]
    /\ UNCHANGED <<sess, gw, notices, faults>>

\* The reply to SessionOpen: finish_session_open, fail_session_open, and what
\* becomes of the grant (should_discard_auth_grant).
OpenReturns(t) ==
    /\ At(t, "open") /\ Answered(t)
    /\ LET c == job[t].conn
           ok == job[t].ans = "ok" /\ conn[c].open /\ ~conn[c].auth
           shut == [conn[c] EXCEPT !.open = FALSE]
       IN
         /\ job' = StayJob(t, IF ok THEN "opened" ELSE "failed")
         /\ conn' = [conn EXCEPT ![c] =
                IF ok THEN LessGrant([shut EXCEPT !.active = @ \cup {job[t].sid}])
                ELSE IF job[t].ans = "expired" THEN LessGrant(shut) ELSE shut]
    /\ UNCHANGED <<sess, gw, notices, faults>>

\* DiskSession::new, and describe's request.
Attach(t) ==
    /\ At(t, "opened")
    /\ LET s == job[t].sid IN
         IF s \in conn[job[t].conn].active
         THEN job' = Request(t, "describe") /\ sess' = [sess EXCEPT ![s].st = "open"]
         ELSE job' = StayJob(t, "orphan") /\ UNCHANGED sess
    /\ UNCHANGED <<conn, gw, notices, faults>>

DescribeReturns(t) ==
    /\ At(t, "describe") /\ Answered(t)
    /\ job' = StayJob(t, IF job[t].ans = "ok" THEN "described" ELSE "undescribed")
    /\ UNCHANGED <<conn, sess, gw, notices, faults>>

-----------------------------------------------------------------------------
(* DiskSession.                                                            *)

\* ensure_usable; there is no session 0.
Usable(s) == s \in Sessions /\ sess[s].st = "open" /\ Up(sess[s].conn) /\ s \in conn[sess[s].conn].active
Terminal(s) == sess[s].st = "terminal"

\* close: a notice when the session is usable; it is terminal when it was not.
Told(s) == Usable(s) /\ ~Broken(sess[s].conn)

\* mark_terminal.
SessTerminal(s) == [sess EXCEPT ![s].st = "terminal"]

\* should_close_after_session_close.
ShouldClose(cn) == ~cn.auth /\ ~cn.open /\ cn.active = {} /\ cn.grants = 0

\* A media request is cut into chunks (read_session_bytes, write_session_bytes);
\* each is a read_at or write_at, made when the session is usable.
Chunk(t, s, left) ==
    /\ Usable(s)
    /\ job' = [job EXCEPT ![t] = [st |-> "io", ans |-> "pending", conn |-> sess[s].conn,
                                  disk |-> "none", sid |-> s, left |-> left]]
    /\ UNCHANGED <<conn, sess, gw, notices, faults>>

IoStarts(t, s) == Idle(t) /\ Chunk(t, s, IoChunks)
IoReturned(t, answers) == At(t, "io") /\ job[t].ans \in answers
IoContinues(t) == IoReturned(t, {"ok"}) /\ job[t].left > 1 /\ Chunk(t, job[t].sid, job[t].left - 1)

\* The last chunk is done, or one failed in a way that spares the session.
IoEnds(t) ==
    /\ IoReturned(t, {"ok", "failed"}) /\ (job[t].ans = "ok" => job[t].left = 1)
    /\ job' = ClearJob(t)
    /\ UNCHANGED <<conn, sess, gw, notices, faults>>

\* map_data_plane_error and is_terminal_media_error: the errors that reach the
\* host's invalidation handler.  An unusable session is terminal from now on;
\* a lost connection or a malformed reply says nothing of it.
IoFails(t, s) ==
    /\ \/ Idle(t) /\ ~Usable(s)
       \/ job[t].sid = s /\ IoReturned(t, {"unavail", "lost", "malformed"})
       \/ job[t].sid = s /\ IoReturned(t, {"ok"}) /\ job[t].left > 1 /\ ~Usable(s)
    /\ IF sess[s].st = "open" /\ (job[t].ans = "unavail" \/ (~Usable(s) /\ ~IoReturned(t, {"lost"})))
       THEN sess' = SessTerminal(s) /\ conn' = [conn EXCEPT ![sess[s].conn].active = @ \ {s}]
       ELSE UNCHANGED <<sess, conn>>
    /\ job' = ClearJob(t)
    /\ UNCHANGED <<gw, notices, faults>>

-----------------------------------------------------------------------------
(* The gateway and the link (external).                                    *)

\* The replies to a request, decoded.
Refusals == [start |-> {"denied"}, finish |-> {"denied"}, open |-> {"rejected", "expired"},
             describe |-> {"malformed"}, io |-> {"failed", "malformed"}]
\* The requests that carry a SessionId.
NeedsSession == {"describe", "io"}
Holds(t) == job[t].sid \in gw

Reply(t, ans, sid) ==
    /\ conn' = [conn EXCEPT ![job[t].conn].inbox =
                    Append(@, [kind |-> "reply", to |-> t, ans |-> ans, sid |-> sid])]
    /\ job' = [job EXCEPT ![t].ans = "served"]

CanServe(t) == job[t].ans = "sent" /\ Up(job[t].conn) /\ ~Broken(job[t].conn)

Serve(t) ==
    /\ CanServe(t)
    /\ IF At(t, "open")
       THEN /\ sess' = Append(sess, [conn |-> job[t].conn, disk |-> job[t].disk, st |-> "granted"])
            /\ gw' = gw \cup {Len(sess) + 1}
            /\ Reply(t, "ok", Len(sess) + 1)
       ELSE /\ Reply(t, IF job[t].st \in NeedsSession /\ ~Holds(t) THEN "unavail" ELSE "ok", 0)
            /\ UNCHANGED <<sess, gw>>
    /\ UNCHANGED <<notices, faults>>

Refuse(t) ==
    /\ CanServe(t) /\ Breaks
    /\ \E ans \in Refusals[job[t].st] : Reply(t, ans, 0)
    /\ UNCHANGED <<sess, gw, notices>>

CloseByGateway(s) ==
    /\ s \in gw /\ ~Broken(sess[s].conn) /\ notices < MaxNotices
    /\ notices' = notices + 1 /\ gw' = gw \ {s}
    /\ conn' = [conn EXCEPT ![sess[s].conn].inbox = Append(@, [kind |-> "close", sid |-> s])]
    /\ UNCHANGED <<sess, job, faults>>

TellChanged(s) ==
    /\ s \in gw /\ ~Broken(sess[s].conn) /\ notices < MaxNotices
    /\ notices' = notices + 1
    /\ conn' = [conn EXCEPT ![sess[s].conn].inbox = Append(@, [kind |-> "changed", sid |-> s])]
    /\ UNCHANGED <<sess, gw, job, faults>>

BreakLink(c) ==
    /\ Up(c) /\ ~Broken(c) /\ Breaks
    /\ conn' = [conn EXCEPT ![c].bad = TRUE]
    /\ UNCHANGED <<sess, gw, job, notices>>

Gateway ==
    \/ \E t \in Threads : Serve(t)
    \/ \E s \in gw : CloseByGateway(s) \/ TellChanged(s)
Trouble == (\E t \in Threads : Refuse(t)) \/ (\E c \in Conns : BreakLink(c))

\* The steps of network-core in which the host program has no part.
CallerStep(t) ==
    \/ Send(t) \/ BeginAuth(t) \/ StartReturns(t) \/ FinishReturns(t) \/ RegisterGrant(t)
    \/ OpenReturns(t) \/ Attach(t) \/ DescribeReturns(t)
    \/ IoContinues(t) \/ IoEnds(t)
LoopStep(c) == c \in Conns /\ (TakeReply(c) \/ LoseConnection(c))
Library == (\E t \in Threads : CallerStep(t)) \/ (\E c \in Conns : LoopStep(c))

-----------------------------------------------------------------------------
(* The inductive invariant of the connections, their requests and the      *)
(* sessions on them.                                                       *)

Asking     == {"start", "finish", "open", "describe", "io"}
Before     == {"acquired", "start", "finish", "granting", "authed"}
After      == {"opened", "describe", "described", "undescribed", "orphan", "created"}
JobStates  == {"idle", "failed", "removing"} \cup Before \cup After \cup Asking
Results    == {"ok", "denied", "rejected", "expired", "malformed", "failed", "unavail"}
JobType    == [st : JobStates, ans : {"none", "pending", "sent", "served", "lost"} \cup Results,
               conn : Nat, disk : RemoteDisks \cup {"none"}, sid : Nat, left : 0..IoChunks]
Message    == [kind : {"reply"}, to : Threads, ans : Results, sid : Nat]
              \cup [kind : {"close", "changed"}, sid : Nat]
ConnType   == [st : {"up", "down", "dead"}, bad : BOOLEAN, auth : BOOLEAN, open : BOOLEAN,
               active : SUBSET Nat, grants : 0..MaxGrants, inbox : Seq(Message)]
SessType   == [conn : Nat, disk : RemoteDisks, st : {"granted", "open", "closed", "terminal"}]
NetTypes   == /\ conn \in Seq(ConnType) /\ sess \in Seq(SessType)
              /\ job \in [Threads -> JobType] /\ gw \subseteq Sessions

ReplyAt(c, i, t) == i \in DOMAIN conn[c].inbox /\ conn[c].inbox[i].kind = "reply" /\ conn[c].inbox[i].to = t

\* A thread without a job has none of it; only a request has an answer.
JobOK(t) ==
    /\ At(t, "idle") => job[t] = IdleJob
    /\ job[t].st \notin {"idle", "removing"} => job[t].conn \in Conns
    /\ job[t].st \notin Asking => job[t].ans = "none"
    /\ job[t].st \in Before \cup After \cup {"open", "failed"} => job[t].disk \in RemoteDisks
JobsOK == \A t \in Threads : JobOK(t)

\* A reply is for a thread whose request on this connection was answered, and
\* the only one for it; nothing is left to receive once the transport is closed.
InboxOK ==
    \A c \in Conns :
        /\ ~Up(c) => conn[c].inbox = <<>>
        /\ \A t \in Threads : \A i, j \in DOMAIN conn[c].inbox :
              ReplyAt(c, i, t) => /\ job[t].ans = "served" /\ job[t].conn = c
                                  /\ ReplyAt(c, j, t) => i = j

\* A caller that is blocked on a reply is going to be released: its connection
\* works, or the disconnect that fails its request is still to be handled; and
\* when the gateway has answered, the answer is before the receive loop.
WaiterHasReleaser ==
    \A t \in Threads : job[t].ans \in {"sent", "served"} =>
        LET cn == conn[job[t].conn] IN
        /\ cn.st # "dead"
        /\ job[t].ans = "served" /\ cn.st = "up" =>
               \E i \in DOMAIN cn.inbox : cn.inbox[i].kind = "reply" /\ cn.inbox[i].to = t

\* The session s is of the connection and the disk that thread t asked for.
Names(t, s) == s \in Sessions /\ sess[s].conn = job[t].conn /\ sess[s].disk = job[t].disk

\* Sessions are on connections that exist; the SessionId of a message is on its
\* connection; an open that was granted brings a session nobody has yet.
SessionsOK ==
    /\ \A s \in Sessions : sess[s].conn \in Conns
    /\ \A c \in Conns : \A s \in conn[c].active : s \in Sessions /\ sess[s].conn = c
    /\ \A c \in Conns : \A i \in DOMAIN conn[c].inbox :
         LET m == conn[c].inbox[i] IN
         IF m.kind # "reply" THEN m.sid \in Sessions /\ sess[m.sid].conn = c
         ELSE IF At(m.to, "open") /\ m.ans = "ok" THEN Names(m.to, m.sid) ELSE m.sid = 0

\* What a thread knows of its session.
SidOK(t) ==
    /\ job[t].st \in Before \cup {"removing"} => job[t].sid = 0
    /\ At(t, "open") => IF job[t].ans = "ok" THEN Names(t, job[t].sid) ELSE job[t].sid = 0
    /\ job[t].st \in After => Names(t, job[t].sid)
    /\ At(t, "failed") => job[t].sid = 0 \/ (Names(t, job[t].sid) /\ ~Up(job[t].conn))
    /\ At(t, "io") => job[t].sid \in Sessions /\ sess[job[t].sid].conn = job[t].conn
SidsOK == \A t \in Threads : SidOK(t)

\* begin_auth and begin_session_open admit one thread at a time.
Beginning(t, c) == job[t].conn = c /\ job[t].st \in {"start", "finish", "open"}
LifecycleOK ==
    \A c \in Conns : Up(c) =>
        /\ ~(conn[c].auth /\ conn[c].open)
        /\ \A t \in Threads : Beginning(t, c) =>
             /\ IF At(t, "open") THEN conn[c].open ELSE conn[c].auth
             /\ \A u \in Threads : Beginning(u, c) => t = u

\* The gateway holds sessions only on connections that are connected.
GwOK == \A s \in gw : Up(sess[s].conn)

NetInv == NetTypes /\ JobsOK /\ InboxOK /\ WaiterHasReleaser /\ SessionsOK /\ SidsOK /\ LifecycleOK /\ GwOK
=============================================================================
