------------------------------ MODULE Desktop ------------------------------
(***************************************************************************)
(* tauri-client: network disks.                                            *)
(*                                                                         *)
(* A draft collects sessions (add item) and becomes disks when it is       *)
(* submitted; the sessions of disks are in opened, one per remote disk,    *)
(* mounted or not.  What the receive loops and the media report is only    *)
(* queued (events, lapsed); it is applied by name and id, by whoever syncs *)
(* next with the catalog mutex: a command, or the watcher every 250 ms.    *)
(*                                                                         *)
(* A rescan observes each network disk without the catalog mutex, opening  *)
(* a session where there is none, and then commits what it decided.  A     *)
(* submit does the same inside its command.  The draft commands new,       *)
(* remove item and dispose run beside all this without the catalog mutex.  *)
(*                                                                         *)
(* opened, drafts and pool are under one mutex (network_client).           *)
(***************************************************************************)
EXTENDS Catalog

CONSTANT MaxDrafts      \* bound: drafts made

VARIABLES
    opened,     \* OpenedSessionTable: the session of each remote disk
    drafts,     \* DraftStore: the live drafts, their connection and items
    events,     \* pending_events
    lapsed,     \* pending_media_invalidations
    plan,       \* the tasks a rescan, of the worker or of a submit, has left
    found,      \* what it observed of the others
    stranded,   \* history: sessions the program lost without closing them
    raced       \* history: disks submitted while a rescan was under way

netDiskVars == <<opened, drafts>>
eventVars   == <<events, lapsed>>
scanVars    == <<plan, found>>
past        == <<stranded, raced>>
deskOnly    == <<netDiskVars, eventVars, scanVars, past>>
catalogRest == <<disks, listing, bin, saved, present>>

Scanners == {"ui", "rescan"}
NoItems == [d \in RemoteDisks |-> 0]
Held(tab) == {tab[d] : d \in {k \in RemoteDisks : tab[k] # 0}}

DesktopInit ==
    /\ opened = NoItems /\ drafts = <<>> /\ events = <<>> /\ lapsed = {}
    /\ plan = [w \in Scanners |-> {}] /\ found = [w \in Scanners |-> {}]
    /\ stranded = {} /\ raced = {}

-----------------------------------------------------------------------------
(* PendingNetworkSignals: the handlers, and what drains them.              *)

DeskSessionClosed(c) ==
    \E s \in Sessions :
        /\ TakeClose(c, s)
        /\ events' = Append(events, [kind |-> "closed", id |-> s])
        /\ UNCHANGED <<hostVars, catalogOnly, netDiskVars, lapsed, scanVars, past>>

\* The sync tells Windows of it, which changes nothing here.
DeskDataChanged(c) ==
    /\ \E s \in Sessions : TakeChanged(c, s)
    /\ UNCHANGED <<hostVars, catalogOnly, deskOnly>>

\* Also after the program has closed the connection itself.
DeskDisconnected(c) ==
    /\ HandleDisconnect(c)
    /\ events' = Append(events, [kind |-> "lost", id |-> 0])
    /\ UNCHANGED <<hostVars, catalogOnly, netDiskVars, lapsed, scanVars, past>>

DeskIo(io) == MediaIo(io) /\ UNCHANGED <<hostVars, catalogOnly, deskOnly>>

DeskInvalidate(io) ==
    \E s \in Sessions :
        /\ MediaFails(io, s)
        /\ lapsed' = lapsed \cup {managed[t].of : t \in {u \in Targets : managed[u].kind = "net" /\ managed[u].id = s}}
        /\ UNCHANGED <<hostVars, catalogOnly, netDiskVars, events, scanVars, past>>

\* drain_events, drain_media_invalidations.
Drained == events \o SetToSortSeq({[kind |-> "media", id |-> n] : n \in lapsed}, LAMBDA a, b : a.id < b.id)
BeginSync(who) ==
    /\ catalog = "none" /\ catalog' = who
    /\ todo' = Drained /\ events' = <<>> /\ lapsed' = {}

DeskLock ==
    /\ cmd.op \in SyncFirst /\ BeginSync("ui")
    /\ UNCHANGED <<netVars, hostVars, catalogRest, cmd, rescan, netDiskVars, scanVars, past>>

\* The watcher, and query_home_disk_list without the backend's part.
DeskWatch ==
    /\ rescan = "off" /\ BeginSync("watcher")
    /\ BackendSync \/ UNCHANGED <<disks, managed, removedQ, faults>>
    /\ UNCHANGED <<conn, sess, gw, job, notices, uses, backendOf, pool>>
    /\ UNCHANGED <<listing, bin, saved, present, cmd, rescan, netDiskVars, scanVars, past>>

DeskWatched ==
    /\ catalog = "watcher" /\ todo = <<>> /\ catalog' = "none"
    /\ UNCHANGED <<netVars, hostVars, catalogRest, cmd, todo, rescan, deskOnly>>

-----------------------------------------------------------------------------
(* sync_pending_events.                                                    *)

DisksOf(K) == {n \in DOMAIN disks : IsNet(n) /\ disks[n].what \in K}
TargetsOf(N) == {disks[n].target : n \in {m \in N : MountedAt(m)}}

\* The network disks whose session e ends, and the draft items it ends.
KeysOf(e) ==
    CASE e.kind = "closed" -> {d \in RemoteDisks : opened[d] = e.id}
      [] e.kind = "lost"   -> {d \in RemoteDisks : opened[d] # 0}
      [] e.kind = "media"  -> IF IsNet(e.id) THEN {disks[e.id].what} ELSE {}
EndsItem(e, s) == s # 0 /\ (e.kind = "lost" \/ (e.kind = "closed" /\ s = e.id))
ItemsOf(e) == {s \in UNION {Held(drafts[k].items) : k \in DOMAIN drafts} : EndsItem(e, s)}
DraftsWithout(S) ==
    [k \in DOMAIN drafts |->
        [drafts[k] EXCEPT !.items = [d \in RemoteDisks |-> IF @[d] \in S THEN 0 ELSE @[d]]]]

\* Disks whose network state changes while they may be mounted: the managed
\* disk is removed, and where that fails it stays.
Detaches(N) ==
    \E failed \in SUBSET TargetsOf(N) :
        /\ \A t \in TargetsOf(N) \ failed : Quiet(t)
        /\ Removed(TargetsOf(N) \ failed)
        /\ IF \A t \in failed : Free(t) THEN UNCHANGED faults ELSE Breaks

\* invalidate_runtime_by_key for each key; close the draft sessions; release.
DeskSync ==
    LET e == Head(todo)
        K == KeysOf(e)
        S == ItemsOf(e)
    IN
    /\ todo # <<>> /\ todo' = Tail(todo)
    /\ Detaches(DisksOf(K))
    /\ disks' = [n \in DOMAIN disks |-> IF n \in DisksOf(K) THEN SetInvalid(disks[n]) ELSE disks[n]]
    /\ opened' = [d \in RemoteDisks |-> IF d \in K THEN 0 ELSE opened[d]]
    /\ drafts' = DraftsWithout(S)
    /\ IF e.kind = "media" /\ K = {} THEN UNCHANGED <<sess, conn, gw, pool>>
       ELSE CloseAndRelease(S \cup {opened[d] : d \in {k \in K : opened[k] # 0}}, pool)
    /\ UNCHANGED <<job, notices, uses, backendOf, listing, bin, saved, present, catalog, cmd, rescan>>
    /\ UNCHANGED <<eventVars, scanVars, past>>

-----------------------------------------------------------------------------
(* mount_network_disk, eject_network_disk, prepare_deleted_network_runtime. *)

Finished == Done /\ UNCHANGED <<listing, bin, saved, eventVars, scanVars, past>>
NetFinished == Finished /\ UNCHANGED <<conn, sess, gw, job, notices, uses, backendOf, pool, drafts>>

\* The disk is mounted over the session that is known for it.
MountNetwork ==
    LET n == cmd.id
        s == opened[disks[n].what]
    IN
    /\ Runs("mount") /\ IsNet(n) /\ disks[n].st = "unmounted" /\ Usable(s)
    /\ \/ /\ \E t \in Targets : /\ FirstFree(t) /\ Serves(t, Media("net", s, n))
                                /\ disks' = SetMounted(n, t)
          /\ UNCHANGED faults
       \/ /\ IF \E t \in Targets : Free(t) THEN Breaks ELSE UNCHANGED faults
          /\ UNCHANGED <<managed, disks>>
    /\ NetFinished /\ UNCHANGED <<removedQ, opened>>

\* There is no session, or it is not usable; then it is forgotten and the
\* connection released.
MountMisses ==
    LET n == cmd.id
        s == opened[disks[n].what]
    IN
    /\ Runs("mount") /\ IsNet(n) /\ disks[n].st = "unmounted" /\ ~Usable(s)
    /\ disks' = [disks EXCEPT ![n] = SetInvalid(@)]
    /\ opened' = [opened EXCEPT ![disks[n].what] = 0]
    /\ IF s = 0 THEN UNCHANGED <<sess, conn, gw, pool>> ELSE CloseAndRelease({}, pool)
    /\ Finished /\ UNCHANGED <<job, notices, faults, uses, backendVars, drafts>>

MountRefused ==
    /\ Runs("mount") /\ IsNet(cmd.id) /\ disks[cmd.id].st # "unmounted"
    /\ NetFinished /\ UNCHANGED <<faults, disks, managed, removedQ, opened>>

\* The session stays open.
EjectNetwork ==
    LET n == cmd.id
        t == disks[n].target
    IN
    /\ Runs("eject") /\ IsNet(n)
    /\ \/ /\ MountedAt(n) /\ ~Free(t) /\ Quiet(t) /\ Removed({t}) /\ disks' = SetUnmounted(n)
          /\ UNCHANGED faults
       \/ /\ IF MountedAt(n) /\ ~Free(t) THEN Breaks ELSE UNCHANGED faults
          /\ UNCHANGED <<disks, managed, removedQ>>
    /\ NetFinished /\ UNCHANGED opened

\* The connection is released first and the session closed after, so an idle
\* connection stays.
DeleteNetwork ==
    LET n == cmd.id
        t == disks[n].target
        s == opened[disks[n].what]
    IN
    /\ Runs("delete") /\ IsNet(n) /\ Done
    /\ \/ /\ MountedAt(n) => ~Free(t) /\ Quiet(t)
          /\ IF MountedAt(n) THEN Removed({t}) ELSE UNCHANGED <<managed, removedQ>>
          /\ disks' = [disks EXCEPT ![n] = SetInvalid(@)]
          /\ opened' = [opened EXCEPT ![disks[n].what] = 0]
          /\ Close({s} \ {0}, pool, Up(pool) /\ ShouldClose(conn[pool]))
          /\ Drops(n)
       \/ /\ MountedAt(n)
          /\ IF Free(t) THEN UNCHANGED faults ELSE Breaks
          /\ UNCHANGED <<managed, removedQ, disks, opened, conn, sess, gw, pool, listing, bin, saved>>
    /\ UNCHANGED <<job, notices, uses, backendOf, drafts, eventVars, scanVars, past>>

-----------------------------------------------------------------------------
(* Drafts.                                                                 *)

\* ensure_unique_network_key, ensure_unique_network_backend; k is the draft
\* that is not looked at.
KeyTaken(d, k) ==
    \/ \E n \in DOMAIN disks : IsNet(n) /\ disks[n].what = d
    \/ \E j \in DOMAIN drafts \ {k} : drafts[j].items[d] # 0
BackendTaken(d, k) ==
    LET same(e) == backendOf[e].id = backendOf[d].id IN
    \/ \E j \in DOMAIN drafts \ {k}, e \in RemoteDisks : drafts[j].items[e] # 0 /\ same(e)
    \/ \E e \in RemoteDisks : opened[e] # 0 /\ same(e)

DraftStep == rescan = "off" /\ UNCHANGED <<backendVars, uses, catalogOnly, eventVars, scanVars>>

\* test_connection.
TestConnection ==
    /\ DraftStep /\ \E c \in {pool, Len(conn) + 1} : Acquired(c) /\ pool' = c
    /\ UNCHANGED <<sess, gw, job, notices, faults, netDiskVars, past>>

\* create_network_draft.
NewDraft ==
    /\ DraftStep /\ Len(drafts) < MaxDrafts
    /\ \E c \in {pool, Len(conn) + 1} :
         /\ Acquired(c) /\ pool' = c
         /\ drafts' = Append(drafts, [live |-> TRUE, conn |-> c, items |-> NoItems])
    /\ UNCHANGED <<sess, gw, job, notices, faults, opened, past>>

\* remove_network_draft_item: the connection is not released.
RemoveItem(k, d) ==
    /\ DraftStep /\ drafts[k].items[d] # 0
    /\ drafts' = [drafts EXCEPT ![k].items[d] = 0]
    /\ Close({drafts[k].items[d]}, 0, FALSE)
    /\ UNCHANGED <<job, notices, faults, opened, past>>

\* dispose_network_draft.
Disposed(k) == [drafts EXCEPT ![k].live = FALSE, ![k].items = NoItems]
DisposeDraft(k) ==
    /\ drafts[k].live /\ drafts' = Disposed(k)
    /\ CloseAndRelease(Held(drafts[k].items), pool)
    /\ UNCHANGED <<job, notices, faults, backendVars, uses, catalogOnly, eventVars, scanVars, opened, past>>

-----------------------------------------------------------------------------
(* add_network_draft_item.                                                 *)

AddVars == <<notices, backendVars, uses, disks, opened, eventVars, scanVars, listing, bin, saved>>
AddsAt(st) == cmd.op = "add" /\ catalog = "ui" /\ At("ui", st)
AddEnds == job' = ClearJob("ui") /\ Done

AddStarts ==
    /\ Runs("add") /\ Idle("ui") /\ drafts[cmd.id].live /\ RoomForSession
    /\ Begins("ui", drafts[cmd.id].conn, cmd.disk)
    /\ UNCHANGED <<conn, sess, gw, notices, faults, hostVars, catalogOnly, deskOnly>>

AddOpens ==
    /\ AddsAt("authed")
    /\ IF KeyTaken(cmd.disk, 0)
       THEN /\ conn' = [conn EXCEPT ![job["ui"].conn] = LessGrant(@)] /\ AddEnds
            /\ UNCHANGED <<sess, gw, notices, faults, disks, listing, bin, saved>>
       ELSE BeginOpen("ui") /\ UNCHANGED catalogOnly
    /\ UNCHANGED <<hostVars, deskOnly>>

\* The draft is gone; or authenticating, opening or DiskSession::new failed.
AddFails ==
    /\ \/ Runs("add") /\ Idle("ui") /\ ~drafts[cmd.id].live
       \/ AddsAt("failed") \/ AddsAt("orphan")
    /\ AddEnds
    /\ UNCHANGED <<conn, sess, gw, faults, pool, drafts, past>> /\ UNCHANGED AddVars

\* Variant: the session is not closed.
AddDropsSession ==
    /\ AddsAt("undescribed") \/ (AddsAt("described") /\ BackendTaken(cmd.disk, 0))
    /\ CloseAndRelease({}, pool) /\ AddEnds
    /\ UNCHANGED <<faults, drafts, past>> /\ UNCHANGED AddVars

\* describe failed, and the connection is released; or the backend is a
\* duplicate, and it is not.
AddAbandons ==
    /\ \/ AddsAt("undescribed") /\ CloseAndRelease({job["ui"].sid}, pool)
       \/ AddsAt("described") /\ BackendTaken(cmd.disk, 0) /\ Close({job["ui"].sid}, 0, FALSE)
    /\ AddEnds
    /\ UNCHANGED <<faults, drafts, past>> /\ UNCHANGED AddVars

\* insert_item; when the draft was disposed meanwhile the session is dropped.
AddInserts ==
    /\ AddsAt("described") /\ ~BackendTaken(cmd.disk, 0)
    /\ IF drafts[cmd.id].live
       THEN drafts' = [drafts EXCEPT ![cmd.id].items[cmd.disk] = job["ui"].sid] /\ UNCHANGED stranded
       ELSE stranded' = stranded \cup {job["ui"].sid} /\ UNCHANGED drafts
    /\ AddEnds
    /\ UNCHANGED <<conn, sess, gw, faults, pool, raced>> /\ UNCHANGED AddVars

-----------------------------------------------------------------------------
(* submit_network_draft.                                                   *)

\* A disk for each item, and the list is saved; the draft is kept so far.
Keys(k) == {d \in RemoteDisks : drafts[k].items[d] # 0}
DisksFor(K) == [i \in 1..Cardinality(K) |-> NewDisk("net", SetToSeq(K)[i], "unmounted")]
Submittable(k) ==
    drafts[k].live /\ Keys(k) # {} /\ \A d \in Keys(k) : ~KeyTaken(d, k) /\ ~BackendTaken(d, k)

Submit ==
    LET k == cmd.id
        list == listing \o [i \in 1..Cardinality(Keys(k)) |-> Len(disks) + i]
    IN
    /\ Runs("submit")
    /\ \/ /\ Submittable(k) /\ Len(disks) + Cardinality(Keys(k)) <= MaxDisks
          /\ Saves(list) /\ listing' = list /\ disks' = disks \o DisksFor(Keys(k))
          /\ raced' = IF rescan = "off" THEN raced ELSE raced \cup Keys(k)
          /\ cmd' = Command("adopt", cmd.id, cmd.disk) /\ UNCHANGED <<catalog, todo, rescan, present>>
       \/ Submittable(k) /\ SaveFails /\ Done /\ UNCHANGED <<disks, listing, raced>>
       \/ ~Submittable(k) /\ Done /\ UNCHANGED <<disks, listing, saved, faults, raced>>
    /\ UNCHANGED <<conn, sess, gw, job, notices, hostVars, bin, netDiskVars, eventVars, scanVars, stranded>>

\* collect_network_rescan_tasks: the tasks are taken in the order of their ids.
Tasks ==
    {[id |-> n, disk |-> disks[n].what, mounted |-> MountedAt(n), stale |-> 0] : n \in DisksOf(RemoteDisks)}
FirstOf(T) == {task \in T : \A o \in T : task.id <= o.id}

\* The draft's items become opened sessions, and a rescan follows in the same
\* command; or the draft was disposed, and the disks stay without sessions.
Adopt ==
    LET k == cmd.id IN
    /\ Runs("adopt")
    /\ IF drafts[k].live
       THEN /\ opened' = [d \in RemoteDisks |-> IF d \in Keys(k) THEN drafts[k].items[d] ELSE opened[d]]
            /\ stranded' = stranded \cup {opened[d] : d \in {j \in Keys(k) : opened[j] # 0}}
            /\ drafts' = Disposed(k)
            /\ plan' = [plan EXCEPT !["ui"] = Tasks]
            /\ cmd' = Command("renew", cmd.id, cmd.disk) /\ UNCHANGED <<catalog, todo, rescan, present>>
       ELSE Done /\ UNCHANGED <<netDiskVars, plan, stranded>>
    /\ UNCHANGED <<netVars, hostVars, disks, listing, bin, saved, eventVars, found, raced>>

-----------------------------------------------------------------------------
(* rescan_network_runtimes, and the worker of start_runtime_rescan.        *)

ScanVars == <<notices, uses, backendVars, disks, listing, bin, saved, present, catalog, cmd, todo>>

StartRescan ==
    /\ rescan = "off" /\ "rescan" \in uses /\ rescan' = "begun"
    /\ UNCHANGED <<netVars, hostVars, disks, listing, bin, saved, present, catalog, cmd, todo, deskOnly>>

RescanLock ==
    /\ rescan = "begun" /\ BeginSync("rescan")
    /\ UNCHANGED <<netVars, hostVars, catalogRest, cmd, rescan, netDiskVars, scanVars, past>>

\* The local stage: rescan_local_runtime_disks, collect the plan, save.  The
\* rescan ends there when the save fails.
RescanLocal ==
    /\ rescan = "begun" /\ catalog = "rescan" /\ todo = <<>> /\ catalog' = "none"
    /\ disks' = RescannedLocal
    /\ \E T \in SUBSET LostTargets :
         /\ Removed(T)
         /\ IF T = LostTargets THEN UNCHANGED faults ELSE Breaks
    /\ \/ saved' = listing /\ rescan' = "resolve" /\ plan' = [plan EXCEPT !["rescan"] = Tasks]
       \/ faults < MaxFaults /\ UNCHANGED <<saved, plan>> /\ rescan' = "off"
    /\ UNCHANGED <<conn, sess, gw, job, notices, uses, backendOf, pool, listing, bin, present, cmd, todo>>
    /\ UNCHANGED <<netDiskVars, eventVars, found, past>>

Scanning(w) == IF w = "ui" THEN cmd.op = "renew" ELSE rescan = "resolve"
Observed(w, task, s, source) ==
    /\ found' = [found EXCEPT ![w] = @ \cup {[task |-> task, sid |-> s, source |-> source]}]
    /\ plan' = [plan EXCEPT ![w] = @ \ {task}]
Stale(task, s) == [task EXCEPT !.stale = s]

\* collect_task_observation: a usable session is kept; else a new one is
\* opened, beginning with acquire_connection.
Observe(w) ==
    /\ Scanning(w) /\ Idle(w)
    /\ \E task \in FirstOf(plan[w]) :
         LET s == opened[task.disk] IN
         IF Usable(s)
         THEN Observed(w, task, s, "existing") /\ UNCHANGED <<netVars, pool>>
         ELSE /\ plan' = [plan EXCEPT ![w] = (@ \ {task}) \cup {Stale(task, s)}]
              /\ UNCHANGED found /\ RoomForSession
              /\ \E c \in {pool, Len(conn) + 1} : Acquired(c) /\ pool' = c /\ Begins(w, c, task.disk)
              /\ UNCHANGED <<sess, gw, notices, faults>>
    /\ UNCHANGED ScanVars /\ UNCHANGED <<rescan, netDiskVars, eventVars, past>>

\* Connecting failed, or the disk id of the grant is another.
ObserveFails(w) ==
    /\ Scanning(w) /\ Breaks
    /\ \E task \in FirstOf(plan[w]) :
         LET s == opened[task.disk] IN
         \/ /\ Idle(w) /\ ~Up(pool) /\ ~Usable(s)
            /\ found' = [found EXCEPT ![w] = @ \cup {[task |-> Stale(task, s), sid |-> 0, source |-> "failure"]}]
            /\ plan' = [plan EXCEPT ![w] = @ \ {task}] /\ UNCHANGED <<conn, job>>
         \/ /\ At(w, "authed") /\ Observed(w, task, 0, "failure") /\ job' = ClearJob(w)
            /\ conn' = [conn EXCEPT ![job[w].conn] = LessGrant(@)]
    /\ UNCHANGED ScanVars /\ UNCHANGED <<sess, gw, pool, rescan, netDiskVars, eventVars, past>>

ObserveOpens(w) ==
    /\ Scanning(w) /\ BeginOpen(w)
    /\ UNCHANGED <<hostVars, catalogOnly, deskOnly>>

\* What was opened and described is a candidate; anything else is a failure.
ObserveEnds(w) ==
    /\ Scanning(w) /\ job[w].st \in {"failed", "orphan", "undescribed", "described"}
    /\ \E task \in FirstOf(plan[w]) :
         IF At(w, "described") THEN Observed(w, task, job[w].sid, "fresh") ELSE Observed(w, task, 0, "failure")
    /\ IF At(w, "undescribed") THEN CloseAndRelease({job[w].sid}, pool)
       ELSE UNCHANGED <<conn, sess, gw, pool>>
    /\ job' = ClearJob(w)
    /\ UNCHANGED ScanVars /\ UNCHANGED <<faults, rescan, netDiskVars, eventVars, past>>

-----------------------------------------------------------------------------
(* resolve_server_actions, commit_server_actions.                          *)

\* Variant: by the key of the disk, not by what the server reports of it.
RivalsByKey(F, o) == {p \in F : p.sid # 0 /\ p.task.disk = o.task.disk}
Rivals(F, o) ==
    {p \in F : p.sid # 0 /\ backendOf[p.task.disk].id = backendOf[o.task.disk].id}
\* Of several candidates for one backend the first is kept if it is read-only.
Available(F, o) ==
    o.sid # 0 /\ (Rivals(F, o) = {o} \/ (backendOf[o.task.disk].ro /\ \A p \in Rivals(F, o) : o.task.id <= p.task.id))
Conflict(F, o) == o.sid # 0 /\ ~Available(F, o)
Inserts(F) == {o \in F : Available(F, o) /\ o.source = "fresh"}

\* Sessions that are removed from opened: whatever is there by now.
Forgets(F) == {o.task.disk : o \in {p \in F : p.task.stale # 0 \/ (Conflict(F, p) /\ p.source = "existing")}}
Closes(F) ==
    {IF opened[o.task.disk] # 0 THEN opened[o.task.disk] ELSE o.task.stale : o \in {p \in F : p.task.stale # 0}}
    \cup {IF o.source = "existing" /\ opened[o.task.disk] # 0 THEN opened[o.task.disk] ELSE o.sid
            : o \in {p \in F : Conflict(F, p)}}

\* apply_runtime_action; a disk that is not in the list any more is skipped.
Keeps(F, o) == Available(F, o) /\ o.source = "existing" /\ o.task.mounted
Touched(F) == {o.task.id : o \in {p \in F : Listed(p.task.id) /\ ~Keeps(F, p)}}
Applied(F) ==
    [n \in DOMAIN disks |->
        IF n \notin Touched(F) THEN disks[n]
        ELSE IF \E o \in F : o.task.id = n /\ Available(F, o) THEN SetUnmounted(n)[n] ELSE SetInvalid(disks[n])]

Commit(w) ==
    LET F == found[w]
        left == [d \in RemoteDisks |-> IF d \in Forgets(F) THEN 0 ELSE opened[d]]
        fresh == {o.task.disk : o \in Inserts(F)}
    IN
    /\ Scanning(w) /\ plan[w] = {}
    /\ IF w = "ui" THEN Done ELSE catalog = "none" /\ rescan' = "off" /\ UNCHANGED <<catalog, cmd, todo, present>>
    /\ IF Closes(F) = {} THEN UNCHANGED <<conn, sess, gw, pool>> ELSE CloseAndRelease(Closes(F), pool)
    /\ opened' = [d \in RemoteDisks |->
                    IF d \in fresh THEN (CHOOSE o \in Inserts(F) : o.task.disk = d).sid ELSE left[d]]
    /\ stranded' = stranded \cup {left[d] : d \in {e \in fresh : left[e] # 0}}
    /\ Detaches(Touched(F)) /\ disks' = Applied(F)
    /\ \/ saved' = listing
       \/ faults < MaxFaults /\ w = "rescan" /\ UNCHANGED saved
    /\ found' = [found EXCEPT ![w] = {}]
    /\ UNCHANGED <<job, notices, uses, backendOf, listing, bin, plan, drafts, eventVars, raced>>

-----------------------------------------------------------------------------
Ids(op) == CASE op \in {"undo", "commit"} -> {e.id : e \in bin}
             [] op \in {"add", "submit"} -> DOMAIN drafts
             [] op \in {"mount", "eject", "delete"} -> DOMAIN disks
             [] op \in {"memory", "file", "newfile"} -> {0}
DiskArgs(op) == CASE op = "add" -> RemoteDisks
                  [] op \in {"file", "newfile"} -> Files
                  [] OTHER -> {"none"}
\* What the user does in a behaviour: ops over a kind of disk.
Ops == (IF "local" \in uses THEN {"memory", "file", "newfile"} ELSE {})
       \cup (IF "drafts" \in uses THEN {"add", "submit"} ELSE {})
       \cup (IF "undo" \in uses THEN {"undo", "commit"} ELSE {})
       \cup ({"mount", "eject", "delete"} \cap uses)

DeskCommand == \E op \in Ops : \E n \in Ids(op), d \in DiskArgs(op) : Check(Command(op, n, d)) /\ UNCHANGED deskOnly
NetCommand ==
    \/ MountNetwork \/ MountMisses \/ MountRefused \/ EjectNetwork \/ DeleteNetwork
    \/ AddStarts \/ AddOpens \/ AddFails \/ AddAbandons \/ AddInserts \/ Submit \/ Adopt
DraftCommand ==
    /\ "drafts" \in uses
    /\ \/ TestConnection \/ NewDraft
       \/ \E k \in DOMAIN drafts : DisposeDraft(k) \/ \E d \in RemoteDisks : RemoveItem(k, d)
Rescan ==
    \/ StartRescan \/ RescanLock \/ RescanLocal
    \/ \E w \in Scanners : Observe(w) \/ ObserveFails(w) \/ ObserveOpens(w) \/ ObserveEnds(w) \/ Commit(w)
DeskHandlers(c) == DeskSessionClosed(c) \/ DeskDataChanged(c) \/ DeskDisconnected(c)

DesktopNext ==
    /\ "desktop" \in uses /\ UNCHANGED uses
    /\ \/ DeskCommand \/ DeskLock \/ DeskWatch \/ DeskWatched \/ DeskSync
       \/ NetCommand \/ DraftCommand \/ Rescan
       \/ LocalCommand /\ UNCHANGED deskOnly
       \/ (LoseFile \/ Restart) /\ UNCHANGED deskOnly
       \/ \E c \in Conns : DeskHandlers(c)
       \/ DeskIo("io") \/ DeskInvalidate("io")
       \/ Beneath /\ UNCHANGED <<hostVars, catalogOnly, deskOnly>>
=============================================================================
