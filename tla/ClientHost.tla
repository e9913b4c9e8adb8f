----------------------------- MODULE ClientHost -----------------------------
(***************************************************************************)
(* What rust-cli (CliHost) and tauri-client (Catalog, Desktop) are both    *)
(* built on: the BackendContext that serves disks at targets, as its       *)
(* caller sees it, and the one pooled connection to a gateway address that *)
(* is closed when its last session is.                                     *)
(***************************************************************************)
EXTENDS NetClient

CONSTANTS
    Targets,        \* target ids, 0 .. YUMEDISK_MAX_USABLE_TARGET_ID
    Workloads       \* bound: what the user does, and what there is at the start:
                    \* [uses, disks, backends, notices, faults]

ASSUME HostAssumption ==
    /\ {"shell", "reaper", "io", "ui", "rescan"} \subseteq Threads
    /\ Targets \subseteq Nat /\ IsFiniteSet(RemoteDisks)
    /\ \A w \in Workloads : ~({"cli", "desktop"} \subseteq w.uses)

VARIABLES
    uses,       \* bound: the kinds of command the user gives in this behaviour; "io"
                \* when Windows uses the disks, "link" when requests may be refused
                \* and links break
    backendOf,  \* the backend_id and read_only that describe reports of a disk
    managed,    \* the media of each target BackendContext manages
    removedQ,   \* DiskRemoved responses not yet polled
    pool        \* the connection of the address, 0 when there is none

backendVars == <<backendOf, managed, removedQ>>
hostVars    == <<uses, backendVars, pool>>

\* A media: a session, a file, memory; of is the disk it was made for.
NoDisk         == [kind |-> "none", id |-> 0, of |-> 0]
Media(k, i, n) == [kind |-> k, id |-> i, of |-> n]
Free(t) == managed[t] = NoDisk

HostInit(w) ==
    /\ uses = w.uses /\ backendOf = w.backends
    /\ managed = [t \in Targets |-> NoDisk] /\ removedQ = {} /\ pool = 0
    /\ NetInit(w.notices, w.faults)

\* The pooled connection while it is connected, or a new one.
Acquired(c) ==
    IF Up(pool) THEN c = pool /\ UNCHANGED conn
    ELSE c = Len(conn) + 1 /\ c <= MaxConns /\ conn' = Append(conn, NewConnection)
Begins(t, c, d) ==
    job' = [job EXCEPT ![t] = [IdleJob EXCEPT !.st = "acquired", !.conn = c, !.disk = d]]

\* close of each session, and close of connection r when it is to be shut.
Close(S, r, shut) ==
    /\ sess' = [s \in Sessions |->
                  IF s \in S /\ sess[s].st \in {"granted", "open"}
                  THEN [sess[s] EXCEPT !.st = IF Usable(s) THEN "closed" ELSE "terminal"] ELSE sess[s]]
    /\ conn' = [c \in Conns |->
                  LET cn == [conn[c] EXCEPT !.active = @ \ S] IN IF c = r /\ shut THEN Closed(cn) ELSE cn]
    /\ gw' = {s \in gw : ~(s \in S /\ Told(s)) /\ ~(shut /\ sess[s].conn = r)}
    /\ pool' = IF pool = r /\ r # 0 /\ (shut \/ ~Up(r)) THEN 0 ELSE pool

\* close_session_for_cleanup, then release_connection_after_session_close.
CloseAndRelease(S, r) ==
    Close(S, r, Up(r) /\ ShouldClose([conn[r] EXCEPT !.active = @ \ S]))

\* No media request is in progress on what the target serves; the backend waits
\* for that before it gives the media back.
Quiet(t) == \A io \in Threads : At(io, "io") /\ managed[t].kind = "net" => job[io].sid # managed[t].id

\* What goes on beneath the host program.
Beneath == Library \/ Gateway \/ ("link" \in uses /\ Trouble)

\* read_locked and write_locked of a network media, and the cache behind them.
MediaIo(io) ==
    "io" \in uses /\ \E t \in Targets : managed[t].kind = "net" /\ IoStarts(io, managed[t].id)
MediaFails(io, s) ==
    /\ "io" \in uses /\ (Idle(io) => \E t \in Targets : managed[t].kind = "net" /\ managed[t].id = s)
    /\ IoFails(io, s)
=============================================================================
