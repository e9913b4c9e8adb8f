------------------------------ MODULE Clients ------------------------------
(***************************************************************************)
(* The two programs that are clients of a gateway and serve disks through  *)
(* BackendRust, each over network-core: one behaviour is of one of them,   *)
(* at one workload.                                                        *)
(***************************************************************************)
EXTENDS CliHost, Desktop

vars == <<netVars, hostVars, cliOnly, catalogOnly, deskOnly>>

Init == \E w \in Workloads : HostInit(w) /\ CliInit /\ CatalogInit(w) /\ DesktopInit
Next ==
    \/ CliNext /\ UNCHANGED <<catalogOnly, deskOnly>>
    \/ DesktopNext /\ UNCHANGED cliOnly
Spec == Init /\ [][Next]_vars

-----------------------------------------------------------------------------
Range0(f) == {f[x] : x \in DOMAIN f} \ {0}
Ids0 == 0..Len(sess)

MediaType == [kind : {"none", "net", "mem", "file"}, id : Nat, of : 0..Len(disks)]
DiskType  == [kind : {"net", "file", "mem"}, what : RemoteDisks \cup Files \cup {"ram"},
              st : {"unmounted", "mounted", "invalid"}, target : Targets \cup {0}, held : BOOLEAN]
DraftType == [live : BOOLEAN, conn : Conns, items : [RemoteDisks -> Ids0]]
TaskType  == [id : DOMAIN disks, disk : RemoteDisks, mounted : BOOLEAN, stale : Ids0]
FoundType == [task : TaskType, sid : Ids0, source : {"existing", "fresh", "failure"}]

BackendTypes ==
    /\ pool \in 0..Len(conn) /\ removedQ \subseteq Targets /\ managed \in [Targets -> MediaType]
    /\ \A t \in Targets : managed[t].kind = "net" => managed[t].id \in Sessions
AreaType  == [live : BOOLEAN, bound : SUBSET Targets]
MemoryTypes ==
    /\ memory \in Seq(AreaType)
    /\ binding \in [Targets -> [kind : {"none", "dedicated", "shared"}, smid : 0..Len(memory)]]
CliTypes ==
    /\ mounted \in [Targets -> Ids0] /\ marks \cup changed \cup marking \subseteq Targets
    /\ MemoryTypes
CatalogTypes ==
    /\ disks \in Seq(DiskType) /\ \A n \in DOMAIN disks :
         /\ disks[n].kind = "net" => disks[n].what \in RemoteDisks
         /\ MountedAt(n) => disks[n].target \in Targets
    /\ listing \in Seq(DOMAIN disks) /\ IsInjective(listing)
    /\ bin \subseteq [id : DOMAIN disks, at : Nat \ {0}]
    /\ \A e \in bin : ~Listed(e.id) /\ \A f \in bin : e.id = f.id => e = f
CmdTypes ==
    /\ cmd.op \in {"mount", "eject", "delete"} => cmd.id \in DOMAIN disks
    /\ cmd.op \in {"add", "submit", "adopt", "renew"} => cmd.id \in DOMAIN drafts
    /\ cmd.op = "add" => cmd.disk \in RemoteDisks
    /\ cmd.op \in {"file", "newfile"} => cmd.disk \in Files
DeskTypes ==
    /\ opened \in [RemoteDisks -> Ids0] /\ drafts \in Seq(DraftType)
    /\ plan \in [Scanners -> SUBSET TaskType] /\ found \in [Scanners -> SUBSET FoundType]
    /\ stranded \subseteq Sessions /\ raced \subseteq RemoteDisks

\* Every variable has its type.  What the ids in it name exists: sessions in
\* the connections' lifecycles, on the targets and in the drafts, disks in the
\* list and in the bin, memory areas in the bindings.
TypeOK == NetTypes /\ BackendTypes /\ CliTypes /\ CatalogTypes /\ CmdTypes /\ DeskTypes

\* TypeOK as it is kept from step to step: every step that changes the list
\* also saves it.
ClientsInv == NetInv /\ TypeOK /\ saved = listing

\* What a session is opened for: a mounted disk of the command line, a network
\* disk or draft of the desktop, or the thread that is opening it.
Replies(c) == {conn[c].inbox[i].sid : i \in {j \in DOMAIN conn[c].inbox : conn[c].inbox[j].kind = "reply"}}
Owned ==
    Range0(mounted) \cup Held(opened) \cup UNION {Held(drafts[k].items) : k \in DOMAIN drafts}
    \cup {job[t].sid : t \in {u \in Threads : ~At(u, "io")}}
    \cup UNION {Replies(c) : c \in Conns}
    \cup UNION {{o.sid : o \in found[w]} : w \in Scanners}

\* A session the gateway holds on a working connection belongs to something the
\* program still knows, which will close it: the failure paths of mount, add
\* and rescan close what they opened.  Not so are the sessions in stranded, lost
\* where add_network_draft_item finds its draft disposed and where a commit or a
\* submit overwrites an opened session.
SessionsOwned ==
    \A s \in gw : Up(sess[s].conn) /\ ~Broken(sess[s].conn) => s \in Owned \cup stranded

\* A mounted disk of the command line is served from the session it was mounted
\* with, except while remove_disk is between the backend and the registry; a
\* disk's media is with the disk or with the backend, never with both, so a
\* memory disk that is not mounted still has its content.
CliServed ==
    \A t \in Targets : Mounted(t) => managed[t] = Net(mounted[t]) \/ (host # "none" /\ want = t)
DeskServed ==
    \A n \in DOMAIN disks :
        /\ MountedAt(n) => ~disks[n].held
                           /\ managed[disks[n].target].kind = disks[n].kind /\ managed[disks[n].target].of = n
        /\ disks[n].st = "invalid" => ~disks[n].held
        /\ disks[n].kind = "mem" /\ disks[n].st = "unmounted" => disks[n].held
MountedIsServed == CliServed /\ DeskServed

\* No two mounted disks are over one backend: the checks of mount, of add and
\* of the commit of a rescan see every disk there is.  Not so of a disk that was
\* submitted while a rescan was under way: each looks at what the other has not
\* yet opened.
CliBackends ==
    \A t, u \in Targets : t # u /\ Mounted(t) /\ Mounted(u)
        => backendOf[sess[mounted[t]].disk].id # backendOf[sess[mounted[u]].disk].id
DeskBackends ==
    \A n, m \in DisksOf(RemoteDisks \ raced) : n # m /\ MountedAt(n) /\ MountedAt(m)
        => backendOf[disks[n].what].id # backendOf[disks[m].what].id
OneDiskPerBackend == CliBackends /\ DeskBackends

\* MountedIsServed as it is kept from step to step.  A behaviour is of one of
\* the two programs.  A thread of the command line with something under way has
\* the host mutex; a session is mounted where create_managed_disk put it, and
\* ensure_unique_mount still holds of it then.  A mounted disk is in the list,
\* and a rescan has tasks for network disks only.
OneProgram ==
    /\ ~({"cli", "desktop"} \subseteq uses)
    /\ "desktop" \in uses => Idle("shell") /\ Idle("reaper") /\ \A t \in Targets : ~Mounted(t)
    /\ "cli" \in uses => (\A n \in DOMAIN disks : ~MountedAt(n)) /\ \A w \in Scanners : plan[w] = {}
HostHeld == \A who \in {"shell", "reaper"} : ~Idle(who) => host = who
CliServing ==
    /\ HostHeld /\ (host # "none" => want \in Targets)
    /\ \A t \in Targets : Mounted(t) =>
          managed[t] = Net(mounted[t]) \/ (want = t /\ (At("shell", "removing") \/ At("reaper", "removing")))
    /\ At("shell", "created") => managed[want] = Net(job["shell"].sid) /\ ~IsDuplicate(job["shell"].disk)
    /\ CliBackends
OfNet(task) == disks[task.id].kind = "net"
DeskServing ==
    /\ DeskServed /\ \A n \in DOMAIN disks : MountedAt(n) => Listed(n)
    /\ \A w \in Scanners : (\A task \in plan[w] : OfNet(task)) /\ \A o \in found[w] : OfNet(o.task)
ServedInv == ClientsInv /\ OneProgram /\ CliServing /\ DeskServing

\* OneDiskPerBackend as the desktop keeps it.  Of the disks that are mounted or
\* could be, all but one over each backend are invalid; what a submit has added is
\* an exception, until the rescan that belongs to it has resolved the conflict.
\* What is in two drafts is over two backends, and between the two steps of a
\* submit still nothing that is opened is over one of its.  A removed disk is
\* invalid.
Checked == DisksOf(RemoteDisks \ raced)
SameBackend(d, e) == backendOf[d].id = backendOf[e].id
Live(n) == MountedAt(n) \/ (disks[n].st = "unmounted" /\ opened[disks[n].what] # 0)
DisksApart ==
    \A n, m \in Checked : n # m /\ Live(n) /\ Live(m) /\ SameBackend(disks[n].what, disks[m].what)
        => cmd.op = "renew" /\ ~(MountedAt(n) /\ MountedAt(m))
BinInvalid == \A e \in bin : disks[e.id].kind = "net" => disks[e.id].st = "invalid"
LocalOnly == "local" \in uses => "drafts" \notin uses /\ drafts = <<>> /\ \A n \in DOMAIN disks : disks[n].kind # "net"
ItemsApart ==
    \A j, k \in DOMAIN drafts, d, e \in RemoteDisks :
        drafts[j].items[d] # 0 /\ drafts[k].items[e] # 0 /\ SameBackend(d, e) => j = k /\ d = e
Adopting ==
    /\ cmd.op \in {"adopt", "renew"} => catalog = "ui" /\ todo = <<>>
    /\ cmd.op = "adopt" => \A d \in Keys(cmd.id) : \A e \in RemoteDisks : opened[e] # 0 => ~SameBackend(d, e)

\* The tasks of a rescan name each disk once.  They leave out no disk that could
\* be mounted, and none at all while a submit is under way, but those the submit
\* adds.  Only the task a thread is at work on has lost a session.
Submitting == {"submit", "adopt", "renew"}
TaskOf(w) == plan[w] \cup {o.task : o \in found[w]}
TasksOK(w) ==
    /\ ~Scanning(w) => plan[w] = {} /\ found[w] = {}
    /\ \A task \in TaskOf(w) : task.disk = disks[task.id].what
    /\ \A a, b \in TaskOf(w) : a.id = b.id => a = b
    /\ \A o, p \in found[w] : o.task = p.task => o = p
    /\ \A o \in found[w] : o.task \notin plan[w] /\ (o.source = "existing" => o.task.stale = 0)
    /\ Scanning(w) => \A n \in Checked : \/ \E task \in TaskOf(w) : task.id = n
                                         \/ disks[n].st = "invalid" /\ cmd.op \notin Submitting
StaleOK(w) ==
    \A task \in plan[w] : task.stale # 0 => task \in FirstOf(plan[w]) /\ job[w].st \notin {"idle", "io"}
DeskApart ==
    /\ DisksApart /\ BinInvalid /\ LocalOnly /\ ItemsApart /\ Adopting
    /\ \A w \in Scanners : TasksOK(w) /\ StaleOK(w)
ApartInv == ServedInv /\ DeskApart

\* When no command and no rescan has the catalog, what is saved is what is
\* listed: a command whose save failed has undone its change.
SavedAgrees == catalog = "none" => saved = listing
=============================================================================
