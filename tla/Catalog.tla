------------------------------ MODULE Catalog ------------------------------
(***************************************************************************)
(* tauri-client: the disks the user keeps (DiskCatalogState), the commands *)
(* on them, and the file they are saved in.                                *)
(*                                                                         *)
(* A command first checks that no rescan runs, then takes the catalog      *)
(* mutex (catalog) and holds it to its end; a rescan may begin between the *)
(* two.  mount, eject, delete and the two draft commands that need the     *)
(* catalog first work off what was drained from the event queues (todo,    *)
(* filled and emptied by Desktop).  A command that changes what is saved   *)
(* undoes its change when the save fails.                                  *)
(*                                                                         *)
(* A disk is over a file, over memory or over a network disk.  A media is  *)
(* held by its disk or given to the backend; a file's media is opened when *)
(* the disk is mounted.                                                    *)
(***************************************************************************)
EXTENDS ClientHost, SequencesExt

CONSTANTS
    Files,      \* paths of raw files
    MaxDisks    \* bound: disks ever in the catalog

\* A config file names disks; the program is started again (Restart) only in
\* behaviours without network disks.
ASSUME CatalogAssumption ==
    \A w \in Workloads :
        /\ w.disks \in Seq([kind : {"net", "file", "mem"}, what : RemoteDisks \cup Files \cup {"ram"}])
        /\ \A n \in DOMAIN w.disks : w.disks[n].kind = "net" => w.disks[n].what \in RemoteDisks /\ "local" \notin w.uses
        /\ ~({"local", "drafts"} \subseteq w.uses)

VARIABLES
    disks,      \* DiskRuntime of each local disk id, in the order they were made
    listing,    \* DiskRuntimeStore.runtimes: the ids in the list's order
    bin,        \* pending_deletions: the removed disk and its place in the list
    saved,      \* the disks in the config file
    present,    \* the files that exist
    catalog,    \* who holds the catalog mutex
    cmd,        \* the command the page has in progress
    todo,       \* the drained events its sync has not yet applied
    rescan      \* runtime_rescan_running, and how far the rescan is

catalogOnly == <<disks, listing, bin, saved, present, catalog, cmd, todo, rescan>>

NoCmd == [op |-> "none", id |-> 0, disk |-> "none"]
Command(op, n, d) == [op |-> op, id |-> n, disk |-> d]
SyncFirst == {"mount", "eject", "delete", "add", "submit"}

\* DiskRuntime::new_memory, new_file, new_network.
NewDisk(kind, what, st) ==
    [kind |-> kind, what |-> what, st |-> st, target |-> 0, held |-> kind = "mem"]
Listed(n) == n \in ToSet(listing)
MountedAt(n) == disks[n].st = "mounted"
IsNet(n) == Listed(n) /\ disks[n].kind = "net"

\* set_mounted, and the setters of the other states; a net disk and a file's
\* disk hold no media when not mounted.
SetMounted(n, t) == [disks EXCEPT ![n].st = "mounted", ![n].target = t, ![n].held = FALSE]
SetUnmounted(n) == [disks EXCEPT ![n].st = "unmounted", ![n].target = 0]
SetInvalid(rt) == [rt EXCEPT !.st = "invalid", !.target = 0, !.held = FALSE]

\* probe_raw_file_media: what a file's disk is when it is not mounted.
Probe(f) == IF f \in present THEN "unmounted" ELSE "invalid"
Probed(rt) == IF Probe(rt.what) = "invalid" THEN SetInvalid(rt)
              ELSE [rt EXCEPT !.st = "unmounted", !.target = 0]

\* build_restored_runtime_store: what a config file with these disks restores.
Restored(list, kept) ==
    [n \in DOMAIN kept |->
        LET rt == NewDisk(kept[n].kind, kept[n].what, "unmounted") IN
        IF n \notin ToSet(list) \/ rt.kind # "file" THEN rt
        ELSE IF \E i \in 1..(Len(list)) : list[i] = n /\ \E j \in 1..(i - 1) :
                    kept[list[j]].kind = "file" /\ kept[list[j]].what = rt.what
        THEN SetInvalid(rt) ELSE Probed(rt)]

CatalogInit(w) ==
    /\ present \in (IF "local" \in w.uses THEN SUBSET Files ELSE {Files}) /\ bin = {}
    /\ listing = [n \in DOMAIN w.disks |-> n] /\ saved = listing
    /\ disks = Restored(listing, w.disks)
    /\ catalog = "none" /\ cmd = NoCmd /\ todo = <<>> /\ rescan = "off"

-----------------------------------------------------------------------------
(* How a command runs.                                                     *)

\* ensure_runtime_rescan_idle, before the mutex.
Check(c) ==
    /\ cmd = NoCmd /\ rescan = "off" /\ cmd' = c
    /\ UNCHANGED <<netVars, hostVars, disks, listing, bin, saved, present, catalog, todo, rescan>>

\* A command that syncs has the mutex and has synced; another takes the mutex
\* for its one step.
Runs(op) ==
    /\ cmd.op = op
    /\ IF op \in SyncFirst \cup {"adopt"} THEN catalog = "ui" /\ todo = <<>> ELSE catalog = "none"
Done == cmd' = NoCmd /\ catalog' = "none" /\ UNCHANGED <<todo, rescan, present>>
Locked == <<netVars, hostVars>>

\* save_client_state: the list is saved, or nothing is and the command returns
\* an error.
Saves(list) == saved' = list /\ UNCHANGED faults
SaveFails == Breaks /\ UNCHANGED saved

\* try_create_managed_disk: the first free target.
FirstFree(t) == Free(t) /\ \A u \in Targets : u < t => ~Free(u)
Serves(t, media) == managed' = [managed EXCEPT ![t] = media]

\* remove_managed_disk_with_media, for each of these targets; it may fail.
Removed(T) ==
    /\ managed' = [t \in Targets |-> IF t \in T THEN NoDisk ELSE managed[t]]
    /\ removedQ' = removedQ \cup T

-----------------------------------------------------------------------------
(* create_memory_disk, create_file_disk, create_new_file_disk.             *)

\* normalize_full_file_path and ensure_unique_file_path.
PathTaken(f) == \E n \in ToSet(listing) : disks[n].kind = "file" /\ disks[n].what = f

\* Variant: the disk stays in the list when the save fails.
InsertKeeps(rt) ==
    LET n == Len(disks) + 1 IN
    /\ disks' = Append(disks, rt) /\ listing' = Append(listing, n)
    /\ Saves(Append(listing, n)) \/ SaveFails

\* The disk joins the list when the list with it could be saved.
Insert(rt) ==
    LET n == Len(disks) + 1 IN
    \/ Saves(Append(listing, n)) /\ disks' = Append(disks, rt) /\ listing' = Append(listing, n)
    \/ SaveFails /\ UNCHANGED <<disks, listing>>

CreateMemory ==
    /\ Runs("memory") /\ Len(disks) < MaxDisks
    /\ Insert(NewDisk("mem", "ram", "unmounted")) /\ Done
    /\ UNCHANGED <<conn, sess, gw, job, notices, hostVars, bin>>

CreateFile ==
    /\ Runs("file") /\ Len(disks) < MaxDisks
    /\ IF PathTaken(cmd.disk) THEN UNCHANGED <<disks, listing, saved, faults>>
       ELSE Insert(NewDisk("file", cmd.disk, Probe(cmd.disk)))
    /\ Done
    /\ UNCHANGED <<conn, sess, gw, job, notices, hostVars, bin>>

\* The file stays when the save fails.
CreateNewFile ==
    /\ Runs("newfile") /\ Len(disks) < MaxDisks
    /\ IF PathTaken(cmd.disk) \/ cmd.disk \in present
       THEN UNCHANGED <<disks, listing, saved, present, faults>>
       ELSE present' = present \cup {cmd.disk} /\ Insert(NewDisk("file", cmd.disk, "unmounted"))
    /\ cmd' = NoCmd
    /\ UNCHANGED <<conn, sess, gw, job, notices, hostVars, bin, catalog, todo, rescan>>

-----------------------------------------------------------------------------
(* mount_local_disk, eject_local_disk.                                     *)

Local(n) == Listed(n) /\ disks[n].kind # "net"
Refused == UNCHANGED <<netVars, hostVars, disks, listing, bin, saved>>

\* Open the file unless a media is still held, and give the media away; when
\* the backend refuses it, it is held.
MountLocal ==
    LET n == cmd.id
        rt == disks[n]
        opens == rt.held \/ (rt.kind = "file" /\ rt.what \in present)
    IN
    /\ Runs("mount") /\ (Listed(n) => Local(n)) /\ Done
    /\ \/ /\ Listed(n) /\ rt.st = "unmounted" /\ opens
          /\ \E t \in Targets : FirstFree(t) /\ Serves(t, Media(rt.kind, 0, n)) /\ disks' = SetMounted(n, t)
          /\ UNCHANGED <<netVars, uses, backendOf, removedQ, pool, listing, bin, saved>>
       \/ /\ Listed(n) /\ rt.st = "unmounted" /\ opens
          /\ IF \E t \in Targets : Free(t) THEN Breaks ELSE UNCHANGED faults
          /\ disks' = [disks EXCEPT ![n].held = TRUE]
          /\ UNCHANGED <<conn, sess, gw, job, notices, hostVars, listing, bin, saved>>
       \/ ~(Listed(n) /\ rt.st = "unmounted" /\ opens) /\ Refused

\* Variant: the media that comes back is dropped.
EjectedDrops(n) == IF disks[n].kind = "mem" THEN SetUnmounted(n)
    ELSE [disks EXCEPT ![n] = Probed([@ EXCEPT !.held = FALSE])]

\* The media of a memory disk comes back to the disk; a file is probed.
Ejected(n) ==
    IF disks[n].kind = "mem" THEN [SetUnmounted(n) EXCEPT ![n].held = TRUE]
    ELSE [disks EXCEPT ![n] = Probed([@ EXCEPT !.held = FALSE])]

EjectLocal ==
    LET n == cmd.id
        t == disks[n].target
    IN
    /\ Runs("eject") /\ (Listed(n) => Local(n)) /\ Done
    /\ \/ /\ Listed(n) /\ MountedAt(n) /\ ~Free(t)
          /\ Removed({t}) /\ disks' = Ejected(n)
          /\ UNCHANGED <<netVars, uses, backendOf, pool, listing, bin, saved>>
       \/ /\ Listed(n) /\ MountedAt(n)
          /\ IF Free(t) THEN UNCHANGED faults ELSE Breaks
          /\ UNCHANGED <<conn, sess, gw, job, notices, hostVars, disks, listing, bin, saved>>
       \/ ~(Listed(n) /\ MountedAt(n)) /\ Refused

-----------------------------------------------------------------------------
(* delete_disk, undo_delete_disk, commit_deleted_disk.                     *)

Place(n) == CHOOSE i \in DOMAIN listing : listing[i] = n

\* The disk leaves the list when it could be ejected and the list saved; else
\* it is put back where it was, ejected or not.
Drops(n) ==
    LET list == RemoveAt(listing, Place(n)) IN
    \/ Saves(list) /\ listing' = list /\ bin' = bin \cup {[id |-> n, at |-> Place(n)]}
    \/ SaveFails /\ UNCHANGED <<listing, bin>>

DeleteLocal ==
    LET n == cmd.id
        t == disks[n].target
    IN
    /\ Runs("delete") /\ (Listed(n) => Local(n)) /\ Done
    /\ \/ /\ Listed(n) /\ (MountedAt(n) => ~Free(t)) /\ Drops(n)
          /\ IF MountedAt(n) THEN Removed({t}) /\ disks' = Ejected(n)
             ELSE UNCHANGED <<managed, removedQ, disks>>
          /\ UNCHANGED <<conn, sess, gw, job, notices, uses, backendOf, pool>>
       \/ /\ Listed(n) /\ MountedAt(n)
          /\ IF Free(t) THEN UNCHANGED faults ELSE Breaks
          /\ UNCHANGED <<conn, sess, gw, job, notices, hostVars, disks, listing, bin, saved>>
       \/ ~Listed(n) /\ Refused

\* restore_removed_runtime.
PutBack(e) == InsertAt(listing, IF e.at > Len(listing) THEN Len(listing) + 1 ELSE e.at, e.id)

UndoDelete ==
    /\ Runs("undo")
    /\ \E e \in bin :
         /\ e.id = cmd.id
         /\ \/ Saves(PutBack(e)) /\ listing' = PutBack(e) /\ bin' = bin \ {e}
            \/ SaveFails /\ UNCHANGED <<listing, bin>>
    /\ Done
    /\ UNCHANGED <<conn, sess, gw, job, notices, hostVars, disks>>

CommitDelete ==
    /\ Runs("commit") /\ bin' = {e \in bin : e.id # cmd.id} /\ Done
    /\ UNCHANGED <<netVars, hostVars, disks, listing, saved>>

-----------------------------------------------------------------------------
(* What happens to disks of itself.                                        *)

\* detach_runtime_after_backend_loss, for the disks with this in common.
Detached(T) ==
    [n \in DOMAIN disks |->
        IF ~(Listed(n) /\ MountedAt(n) /\ disks[n].target \in T) THEN disks[n]
        ELSE CASE disks[n].kind = "net"  -> SetUnmounted(n)[n]
               [] disks[n].kind = "mem"  -> SetInvalid(disks[n])
               [] OTHER                  -> Probed(disks[n])]

\* drain_disk_responses; and a broken session closes the backend.
BackendSync ==
    \/ disks' = Detached(removedQ) /\ removedQ' = {} /\ UNCHANGED <<managed, faults>>
    \/ /\ Breaks /\ disks' = Detached(Targets)
       /\ managed' = [t \in Targets |-> NoDisk] /\ removedQ' = {}

\* rescan_local_runtime_disks: the later of two disks of one file, and a disk
\* whose file is gone, become invalid; their removal may fail.
Later(n) ==
    \E i, j \in DOMAIN listing : i < j /\ listing[j] = n /\ disks[listing[i]].kind = "file"
                                 /\ disks[listing[i]].what = disks[n].what
Lost(n) == Listed(n) /\ disks[n].kind = "file" /\ (Later(n) \/ disks[n].what \notin present)
RescannedLocal ==
    [n \in DOMAIN disks |->
        IF ~Listed(n) \/ disks[n].kind # "file" THEN disks[n]
        ELSE IF Lost(n) THEN SetInvalid(disks[n])
        ELSE IF MountedAt(n) THEN disks[n] ELSE Probed(disks[n])]
LostTargets == {disks[n].target : n \in {m \in DOMAIN disks : Lost(m) /\ MountedAt(m)}}

\* A file disappears.
LoseFile ==
    /\ present # {} /\ "local" \in uses /\ Breaks
    /\ \E f \in present : present' = present \ {f}
    /\ UNCHANGED <<conn, sess, gw, job, notices, hostVars, disks, listing, bin, saved, catalog, cmd, todo, rescan>>

\* The program exits and is started again (restore_client_state): the driver
\* drops the disks of the session that is gone, and what was saved is restored.
Restart ==
    /\ "local" \in uses /\ rescan = "off" /\ Breaks
    /\ disks' = Restored(saved, disks) /\ listing' = saved /\ bin' = {}
    /\ managed' = [t \in Targets |-> NoDisk] /\ removedQ' = {}
    /\ catalog' = "none" /\ cmd' = NoCmd /\ todo' = <<>>
    /\ UNCHANGED <<conn, sess, gw, job, notices, uses, backendOf, pool, saved, present, rescan>>

LocalCommand ==
    \/ CreateMemory \/ CreateFile \/ CreateNewFile \/ MountLocal \/ EjectLocal
    \/ DeleteLocal \/ UndoDelete \/ CommitDelete
=============================================================================
