------------------------------ MODULE CliHost ------------------------------
(***************************************************************************)
(* rust-cli: the shell, the reaper thread and the CliHost they share.      *)
(*                                                                         *)
(* The shell runs one command at a time and the reaper looks every 200 ms  *)
(* for what has died; each takes the host mutex (host).  The handlers of   *)
(* the network connections run in receive loops without it and only leave  *)
(* marks: marks (pending_cleanup_targets) and changed                      *)
(* (pending_data_changed_targets).  An address has one pooled connection.  *)
(*                                                                         *)
(* The backend below is BackendContext, modelled by what the host sees of  *)
(* it: which targets it manages, and the responses it queues.              *)
(***************************************************************************)
EXTENDS ClientHost

CONSTANT MaxMemories    \* bound: shared memory areas made

VARIABLES
    host,       \* who holds the host mutex
    want,       \* the target of the command that holds it
    mounted,    \* NetworkMountState.mounted: the session of each target
    marks, changed,
    marking,    \* targets mark_session_for_cleanup found, not yet marked
    memory,     \* SharedMemoryRegistry.shared: bound_targets, smid = position
    binding,    \* SharedMemoryRegistry.target_bindings
    exited

markVars    == <<marks, changed, marking>>
memVars     == <<memory, binding>>
lockVars    == <<host, want, exited>>
cliOnly     == <<lockVars, mounted, markVars, memVars>>
cliVars     == <<hostVars, cliOnly>>

Net(s)  == Media("net", s, 0)
Mem(m)  == Media("mem", m, 0)
Unbound == [kind |-> "none", smid |-> 0]
Mounted(t) == mounted[t] # 0

\* CliHost::open.
CliInit ==
    /\ host = "none" /\ want = 0 /\ exited = FALSE
    /\ mounted = [t \in Targets |-> 0]
    /\ marks = {} /\ changed = {} /\ marking = {}
    /\ memory = <<>> /\ binding = [t \in Targets |-> Unbound]

Unlock == host' = "none" /\ want' = 0 /\ UNCHANGED exited
Take(who) == host = "none" /\ ~exited /\ Idle(who)

-----------------------------------------------------------------------------
(* The handlers acquire_connection registers, in the receive loop.         *)

\* mark_session_for_cleanup: the targets are found under one lock and marked
\* under the next.
CliSessionClosed(c) ==
    \E s \in Sessions :
        /\ TakeClose(c, s)
        /\ marking' = marking \cup {t \in Targets : mounted[t] = s}
        /\ UNCHANGED <<backendVars, lockVars, pool, mounted, marks, changed, memVars>>

CliMark ==
    /\ marking # {}
    /\ marks' = marks \cup marking /\ marking' = {}
    /\ UNCHANGED <<netVars, backendVars, lockVars, pool, mounted, changed, memVars>>

\* mark_session_data_changed.
CliDataChanged(c) ==
    \E s \in Sessions :
        /\ TakeChanged(c, s)
        /\ changed' = changed \cup {t \in Targets : mounted[t] = s}
        /\ UNCHANGED <<backendVars, lockVars, pool, mounted, marks, marking, memVars>>

\* mark_connection_for_cleanup, then the pending requests fail.
CliDisconnected(c) ==
    /\ HandleDisconnect(c)
    /\ marks' = marks \cup {t \in Targets : Mounted(t)}
    /\ UNCHANGED <<backendVars, lockVars, pool, mounted, changed, marking, memVars>>

\* NetworkMedia::read_locked, write_locked, and the cache behind them.
CliIo(io) ==
    /\ MediaIo(io)
    /\ UNCHANGED cliVars

\* cleanup_marker: an error that ends the media.
CliInvalidate(io) ==
    \E s \in Sessions :
        LET served == {t \in Targets : managed[t] = Net(s)} IN
        /\ MediaFails(io, s)
        /\ marks' = marks \cup served \cup {t \in Targets : mounted[t] = s}
        /\ UNCHANGED <<backendVars, lockVars, pool, mounted, changed, marking, memVars>>

-----------------------------------------------------------------------------
(* mount_network_disk.                                                     *)

\* acquire_connection: the pooled connection while it is connected, or a new
\* one.
CliAuth(d, t) ==
    /\ Take("shell") /\ "network" \in uses /\ RoomForSession /\ host' = "shell" /\ want' = t
    /\ \E c \in {pool, Len(conn) + 1} :
         Acquired(c) /\ pool' = c /\ Begins("shell", c, d)
    /\ UNCHANGED <<sess, gw, notices, faults, backendVars, exited, mounted, markVars, memVars>>

\* The hello or the connect fails.
CliConnectFails ==
    /\ Take("shell") /\ "network" \in uses /\ ~Up(pool) /\ Breaks /\ pool' = 0
    /\ UNCHANGED <<conn, sess, gw, job, notices, backendVars, lockVars, mounted, markVars, memVars>>

CliOpen == BeginOpen("shell") /\ UNCHANGED cliVars

CliMountFails ==
    /\ At("shell", "failed") /\ job' = ClearJob("shell") /\ Unlock
    /\ UNCHANGED <<conn, sess, gw, notices, faults>>
    /\ UNCHANGED <<backendVars, pool, mounted, markVars, memVars>>

\* DiskSession::new failed: the connection is closed for every session on it.
CliOrphan ==
    /\ At("shell", "orphan") /\ job' = ClearJob("shell") /\ Unlock
    /\ conn' = [conn EXCEPT ![job["shell"].conn] = Closed(@)]
    /\ gw' = IF Up(job["shell"].conn) THEN GwWithout(job["shell"].conn) ELSE gw
    /\ UNCHANGED <<sess, notices, faults>>
    /\ UNCHANGED <<backendVars, pool, mounted, markVars, memVars>>

\* Variant: backends are not compared.
IsSameDisk(d) == \E t \in Targets : Mounted(t) /\ sess[mounted[t]].disk = d

\* ensure_unique_mount.
IsDuplicate(d) ==
    \E t \in Targets : Mounted(t) /\
        (sess[mounted[t]].disk = d \/ backendOf[sess[mounted[t]].disk].id = backendOf[d].id)

\* The uniqueness check, NetworkMedia::bind and create_managed_disk.
CliCreate ==
    /\ At("shell", "described") /\ ~IsDuplicate(job["shell"].disk) /\ Free(want)
    /\ managed' = [managed EXCEPT ![want] = Net(job["shell"].sid)]
    /\ job' = StayJob("shell", "created")
    /\ UNCHANGED <<conn, sess, gw, notices, faults>>
    /\ UNCHANGED <<backendOf, removedQ, lockVars, pool, mounted, markVars, memVars>>

\* One of describe, the check, bind and create failed.
CliAbandon ==
    /\ \/ At("shell", "undescribed") /\ UNCHANGED <<marks, faults>>
       \/ At("shell", "described") /\ IsDuplicate(job["shell"].disk) /\ UNCHANGED <<marks, faults>>
       \/ /\ At("shell", "described") /\ ~IsDuplicate(job["shell"].disk)
          /\ IF Free(want) THEN Breaks ELSE UNCHANGED faults
          /\ marks' = marks \ {want}
    /\ CloseAndRelease({job["shell"].sid}, sess[job["shell"].sid].conn)
    /\ job' = ClearJob("shell") /\ Unlock
    /\ UNCHANGED <<notices, backendVars, mounted, changed, marking, memVars>>

\* NetworkMountRegistry::insert.
CliInsert ==
    /\ At("shell", "created")
    /\ mounted' = [mounted EXCEPT ![want] = job["shell"].sid]
    /\ job' = ClearJob("shell") /\ Unlock
    /\ UNCHANGED <<conn, sess, gw, notices, faults>>
    /\ UNCHANGED <<backendVars, pool, markVars, memVars>>

-----------------------------------------------------------------------------
(* remove_disk, called by the shell and by the reaper.                     *)

\* collect_cleanup_target_ids.
Dead(t) ==
    Mounted(t) /\ (t \in marks \/ Terminal(mounted[t]) \/ ~Up(sess[mounted[t]].conn))

\* reap_dead_network_disks: in the order of the targets, until one fails.
Removes(who, t) ==
    IF who = "shell" THEN TRUE ELSE Dead(t) /\ \A u \in Targets : u < t => ~Dead(u)

\* remove_managed_disk_with_media.  (A DiskRemoved response only matters to the
\* memory bindings, so none is kept where there are none.)
CliRemove(who, t) ==
    /\ Take(who) /\ ~Free(t) /\ Removes(who, t)
    /\ managed' = [managed EXCEPT ![t] = NoDisk] /\ removedQ' = removedQ \cup (IF "memory" \in uses THEN {t} ELSE {})
    /\ host' = who /\ want' = t /\ job' = StayJob(who, "removing")
    /\ UNCHANGED <<conn, sess, gw, notices, faults>>
    /\ UNCHANGED <<backendOf, exited, pool, mounted, markVars, memVars>>

\* SharedMemoryRegistry::unbind_target, with preserve_dedicated false.
MemoryWithout(t) ==
    LET b == binding[t] IN
    IF b = Unbound \/ ~memory[b.smid].live THEN memory
    ELSE LET bound == memory[b.smid].bound \ {t}
         IN [memory EXCEPT ![b.smid] =
                [live |-> ~(b.kind = "dedicated" /\ bound = {}), bound |-> bound]]
Unbind(t) ==
    memory' = MemoryWithout(t) /\ binding' = [binding EXCEPT ![t] = Unbound]

\* The media is dropped, which waits for the requests on it; then take, the
\* session is closed, the connection released, the mark cleared.
CliTake(who) ==
    /\ At(who, "removing")
    /\ \A io \in Threads : Mounted(want) /\ At(io, "io") => job[io].sid # mounted[want]
    /\ IF Mounted(want) THEN CloseAndRelease({mounted[want]}, sess[mounted[want]].conn)
       ELSE UNCHANGED <<conn, sess, gw, pool>>
    /\ mounted' = [mounted EXCEPT ![want] = 0]
    /\ changed' = changed \ {want} /\ marks' = marks \ {want}
    /\ Unbind(want)
    /\ job' = ClearJob(who) /\ Unlock
    /\ UNCHANGED <<notices, faults, backendVars, marking>>

\* apply_network_data_changed: what the backend refuses is not kept.
CliNotifyChanged(who) ==
    /\ Take(who) /\ \E t \in changed : Mounted(t)
    /\ changed' = {t \in changed : ~Mounted(t)}
    /\ UNCHANGED <<netVars, backendVars, lockVars, pool, mounted, marks, marking, memVars>>

\* handle_host_response of DiskRemoved, whichever disk has the target by now.
CliPollRemoved(who) ==
    /\ Take(who)
    /\ \E t \in removedQ : removedQ' = removedQ \ {t} /\ Unbind(t)
    /\ UNCHANGED <<netVars, backendOf, managed, lockVars, pool, mounted, markVars>>

-----------------------------------------------------------------------------
(* Local disks in shared memory.                                           *)

Allocate(bound) ==
    Len(memory) < MaxMemories /\ memory' = Append(memory, [live |-> TRUE, bound |-> bound])

\* create_shared_memory.
CliShare ==
    /\ Take("shell") /\ "memory" \in uses /\ Allocate({}) /\ UNCHANGED binding
    /\ UNCHANGED <<netVars, backendVars, lockVars, pool, mounted, markVars>>

\* create_local_disk of a size: the area stays when the disk cannot be made.
CliCreateDedicated(t) ==
    /\ Take("shell") /\ "memory" \in uses
    /\ LET m == Len(memory) + 1 IN
         IF Free(t) THEN /\ Allocate({t}) /\ binding' = [binding EXCEPT ![t] = [kind |-> "dedicated", smid |-> m]]
                         /\ managed' = [managed EXCEPT ![t] = Mem(m)]
         ELSE Allocate({}) /\ UNCHANGED <<binding, managed>>
    /\ UNCHANGED <<netVars, backendOf, removedQ, lockVars, pool, mounted, markVars>>

\* create_local_disk over a shared area.
CliCreateShared(t, m) ==
    /\ Take("shell") /\ memory[m].live /\ Free(t)
    /\ memory' = [memory EXCEPT ![m].bound = @ \cup {t}]
    /\ binding' = [binding EXCEPT ![t] = [kind |-> "shared", smid |-> m]]
    /\ managed' = [managed EXCEPT ![t] = Mem(m)]
    /\ UNCHANGED <<netVars, backendOf, removedQ, lockVars, pool, mounted, markVars>>

\* remove_shared_memory; remove_all_shared_memory is this for every area, when
\* none is in use.
CliRemoveMemory(m) ==
    /\ Take("shell") /\ memory[m].live /\ memory[m].bound = {}
    /\ memory' = [memory EXCEPT ![m].live = FALSE] /\ UNCHANGED binding
    /\ UNCHANGED <<netVars, backendVars, lockVars, pool, mounted, markVars>>

-----------------------------------------------------------------------------
\* shutdown: remove_all_disks_for_shutdown, close, clear.  The connections of
\* mounted disks are closed, not their sessions.
CliShutdown ==
    /\ Take("shell") /\ \A t \in Threads : Idle(t)
    /\ exited' = TRUE
    /\ managed' = [t \in Targets |-> NoDisk] /\ mounted' = [t \in Targets |-> 0]
    /\ LET used == {sess[mounted[t]].conn : t \in {u \in Targets : Mounted(u)}} IN
         /\ conn' = [c \in Conns |-> IF c \in used THEN Closed(conn[c]) ELSE conn[c]]
         /\ gw' = {s \in gw : sess[s].conn \notin used}
    /\ pool' = 0 /\ marks' = {} /\ changed' = {} /\ removedQ' = {}
    /\ memory' = [m \in DOMAIN memory |-> [live |-> FALSE, bound |-> {}]]
    /\ binding' = [t \in Targets |-> Unbound]
    /\ UNCHANGED <<sess, job, notices, faults, backendOf, host, want, marking>>

\* The commands that make a local disk, of a size or over a shared area, and
\* that remove a target or an area; "all" is one after the other.
CliCt ==
    \E t \in Targets : CliCreateDedicated(t) \/ \E m \in DOMAIN memory : CliCreateShared(t, m)
CliRm ==
    \/ \E t \in Targets : CliRemove("shell", t)
    \/ \E m \in DOMAIN memory : CliRemoveMemory(m)

CliCommand ==
    \/ \E d \in RemoteDisks, t \in Targets : CliAuth(d, t)
    \/ CliConnectFails
    \/ CliRm \/ CliShare \/ CliCt \/ CliShutdown
CliMountStep == CliOpen \/ CliMountFails \/ CliOrphan \/ CliCreate \/ CliAbandon \/ CliInsert
CliReap(who) == \E t \in Targets : CliRemove(who, t)
CliPoll(who) == CliNotifyChanged(who) \/ CliPollRemoved(who)
CliHandlers(c) == c \in Conns /\ (CliSessionClosed(c) \/ CliDataChanged(c) \/ CliDisconnected(c))

CliNext ==
    /\ "cli" \in uses /\ UNCHANGED uses
    /\ \/ CliCommand \/ CliMountStep \/ CliMark
       \/ CliReap("reaper") \/ CliTake("shell") \/ CliTake("reaper")
       \/ CliPoll("shell") \/ CliPoll("reaper")
       \/ \E c \in Conns : CliHandlers(c)
       \/ CliIo("io") \/ CliInvalidate("io")
       \/ Beneath /\ UNCHANGED cliVars
=============================================================================
