----------------------------- MODULE ApartProofs -----------------------------
(***************************************************************************)
(* Proof that no two mounted disks are over one backend (OneDiskPerBackend *)
(* of Clients): what the disks, the drafts and a rescan under way keep     *)
(* between them (DeskApart), step by step of the desktop client.           *)
(***************************************************************************)
EXTENDS ClientsProofs

(***************************************************************************)
(* One disk per backend.  Most steps only take away: disks become invalid  *)
(* or are ejected, sessions and items are dropped, and what rescans work   *)
(* on stays.  Such a step keeps every part of DeskApart.                   *)
(***************************************************************************)
\* What may become of a network disk in such a step.
Weaker(n) ==
    \/ disks'[n].st \in {disks[n].st, "invalid"}
    \/ /\ disks[n].st # "invalid" /\ (MountedAt(n) \/ opened[disks[n].what] # 0)
       /\ disks'[n].st = "mounted" => cmd.op # "renew"
DisksCalm ==
    /\ UNCHANGED <<uses, backendOf>> /\ raced \subseteq raced'
    /\ \A n \in DOMAIN disks : n \in DOMAIN disks' /\ disks'[n].kind = disks[n].kind /\ disks'[n].what = disks[n].what
    /\ \A n \in DOMAIN disks : disks[n].kind = "net" => Weaker(n)
    /\ \A n \in DOMAIN disks' : disks'[n].kind = "net" => n \in DOMAIN disks /\ (Listed(n)' => Listed(n))
BinCalm == \A e \in bin' : e \in bin \/ (e.id \in DOMAIN disks /\ (disks[e.id].kind = "net" => disks'[e.id].st = "invalid"))
OpenedCalm == \A d \in RemoteDisks : opened'[d] \in {opened[d], 0}
ItemsLess ==
    /\ \A k \in DOMAIN drafts', d \in RemoteDisks :
          drafts'[k].items[d] # 0 => k \in DOMAIN drafts /\ drafts[k].items[d] # 0
    /\ "drafts" \notin uses /\ drafts = <<>> => drafts' = <<>>
CmdCalm ==
    /\ cmd'.op \in Submitting => cmd' = cmd
    /\ cmd'.op \in {"adopt", "renew"} => catalog' = catalog /\ todo' = todo
    /\ \A w \in Scanners : Scanning(w)' <=> Scanning(w)
JobHeld(w) == plan[w] = {} \/ (job[w].st \notin {"idle", "io"} => job'[w].st \notin {"idle", "io"})

LEMMA NowApart ==
    ASSUME DeskApart
    PROVE  /\ DisksApart /\ BinInvalid /\ LocalOnly /\ ItemsApart /\ Adopting
           /\ \A w \in Scanners : TasksOK(w) /\ StaleOK(w)
BY DEF DeskApart

\* A checked disk.
LEMMA CheckedIs ==
    ASSUME ServedInv, NEW n \in Checked
    PROVE  n \in DOMAIN disks /\ Listed(n) /\ disks[n].kind = "net" /\ disks[n].what \in RemoteDisks \ raced
BY DEF Checked, DisksOf, IsNet

LEMMA CheckedLess ==
    ASSUME ServedInv, DisksCalm, NEW n \in Checked' PROVE n \in Checked /\ disks'[n].what = disks[n].what
<1>1. n \in DOMAIN disks' /\ Listed(n)' /\ disks'[n].kind = "net" /\ disks'[n].what \in RemoteDisks \ raced'
  BY DEF Checked, DisksOf, IsNet
<1>2. n \in DOMAIN disks /\ Listed(n)
  BY <1>1 DEF DisksCalm
<1>3. disks'[n].kind = disks[n].kind /\ disks'[n].what = disks[n].what /\ raced \subseteq raced'
  BY <1>2 DEF DisksCalm
<1> QED
  BY <1>1, <1>2, <1>3 DEF Checked, DisksOf, IsNet

LEMMA DisksStayApart ==
    ASSUME ServedInv, DeskApart, DisksCalm, OpenedCalm, cmd.op = "renew" => cmd'.op = "renew" PROVE DisksApart'
<1>1. DisksApart
  BY NowApart
<1>2. ASSUME NEW n \in Checked'
      PROVE  /\ n \in Checked /\ disks'[n].what = disks[n].what /\ (Live(n)' => Live(n))
             /\ cmd.op = "renew" /\ MountedAt(n)' => MountedAt(n)
  <2>1. n \in Checked /\ disks'[n].what = disks[n].what
    BY <1>2, CheckedLess
  <2>2. n \in DOMAIN disks /\ disks[n].kind = "net" /\ disks[n].what \in RemoteDisks
    BY <2>1, CheckedIs
  <2>3. Weaker(n)
    BY <2>2 DEF DisksCalm
  <2>5. opened'[disks[n].what] = opened[disks[n].what] \/ opened'[disks[n].what] = 0
    BY <2>1, <2>2 DEF OpenedCalm
  <2>6. disks[n].st \in {"unmounted", "mounted", "invalid"}
    BY <2>2, NowServed, NowGood DEF GoodDisk, DiskType
  <2> QED
    BY <2>1, <2>3, <2>5, <2>6 DEF Weaker, Live, MountedAt
<1>3. backendOf' = backendOf
  BY DEF DisksCalm
<1>4. ASSUME NEW n \in Checked', NEW m \in Checked', n # m, Live(n)', Live(m)', SameBackend(disks[n].what, disks[m].what)'
      PROVE  cmd'.op = "renew" /\ ~(MountedAt(n)' /\ MountedAt(m)')
  <2>1. /\ n \in Checked /\ Live(n) /\ disks'[n].what = disks[n].what
        /\ m \in Checked /\ Live(m) /\ disks'[m].what = disks[m].what
    BY <1>2, <1>4
  <2>2. SameBackend(disks[n].what, disks[m].what)
    BY <1>3, <1>4, <2>1 DEF SameBackend
  <2>3. cmd.op = "renew" /\ ~(MountedAt(n) /\ MountedAt(m))
    BY <1>1, <1>4, <2>1, <2>2 DEF DisksApart
  <2> QED
    BY <1>2, <1>4, <2>3
<1> QED
  BY <1>4 DEF DisksApart

\* The tasks and the observations are of disks that there are.
LEMMA TaskThere ==
    ASSUME ServedInv, NEW w \in Scanners, NEW task \in TaskOf(w)
    PROVE  task \in TaskType /\ task.id \in DOMAIN disks /\ disks[task.id].kind = "net"
<1>1. task \in plan[w] \/ \E o \in found[w] : task = o.task
  BY DEF TaskOf
<1>2. NetTask(task)
  BY <1>1, NowServed
<1>3. task \in TaskType
  BY <1>1, NowServed, NowSessions DEF FoundType
<1> QED
  BY <1>2, <1>3 DEF NetTask, OfNet

\* A rescan goes on: no disk that it has left out becomes one to be mounted.
Covered(n) ==
    \/ disks'[n].st = "invalid" /\ cmd'.op \notin Submitting
    \/ n \in Checked /\ (cmd.op \in Submitting \/ (disks[n].st = "invalid" => disks'[n].st = "invalid"))
LEMMA TasksGoOn ==
    ASSUME ServedInv, DeskApart, NEW w \in Scanners, plan'[w] = plan[w], found'[w] = found[w], raced \subseteq raced',
           Scanning(w)' <=> Scanning(w), cmd'.op \in Submitting => cmd.op \in Submitting,
           \A task \in TaskOf(w) : disks'[task.id].what = disks[task.id].what,
           Scanning(w) => \A n \in Checked' : Covered(n)
    PROVE  TasksOK(w)'
<1>1. TasksOK(w)
  BY NowApart
<1>2. TaskOf(w)' = TaskOf(w)
  BY DEF TaskOf
<1>3. ASSUME NEW n \in Checked', Scanning(w)
      PROVE  \/ \E task \in TaskOf(w) : task.id = n
             \/ disks'[n].st = "invalid" /\ cmd'.op \notin Submitting
  <2>1. n \in Checked => \/ \E task \in TaskOf(w) : task.id = n
                         \/ disks[n].st = "invalid" /\ cmd.op \notin Submitting
    BY <1>1, <1>3 DEF TasksOK
  <2> QED
    BY <1>3, <2>1 DEF Covered
<1> QED
  BY <1>1, <1>2, <1>3 DEF TasksOK

LEMMA TasksStayOK ==
    ASSUME ServedInv, DeskApart, DisksCalm, NEW w \in Scanners, plan'[w] = plan[w], found'[w] = found[w],
           Scanning(w)' <=> Scanning(w), cmd'.op \in Submitting => cmd.op \in Submitting
    PROVE  TasksOK(w)'
<1>1. \A task \in TaskOf(w) : disks'[task.id].what = disks[task.id].what
  BY TaskThere DEF DisksCalm
<1>2. ASSUME NEW n \in Checked' PROVE Covered(n)
  <2>1. n \in Checked /\ n \in DOMAIN disks /\ disks[n].kind = "net"
    BY <1>2, CheckedLess, CheckedIs
  <2>2. Weaker(n)
    BY <2>1 DEF DisksCalm
  <2> QED
    BY <2>1, <2>2 DEF Weaker, MountedAt, Covered
<1> QED
  BY <1>1, <1>2, TasksGoOn DEF DisksCalm

\* No rescan, no tasks.
LEMMA TasksOver ==
    ASSUME NEW w \in Scanners, plan'[w] = {}, found'[w] = {}, ~Scanning(w)' PROVE TasksOK(w)' /\ StaleOK(w)'
BY DEF TasksOK, StaleOK, TaskOf

LEMMA StaleStays ==
    ASSUME ServedInv, DeskApart, NEW w \in Scanners, plan'[w] = plan[w], JobHeld(w) PROVE StaleOK(w)'
<1>1. StaleOK(w)
  BY NowApart
<1> QED
  BY <1>1 DEF StaleOK, JobHeld, FirstOf

LEMMA ItemsStayApart ==
    ASSUME DeskApart, ItemsLess, backendOf' = backendOf PROVE ItemsApart'
BY NowApart DEF ItemsApart, ItemsLess, SameBackend

LEMMA AdoptingStays ==
    ASSUME ServedInv, DeskApart, ItemsLess, backendOf' = backendOf, cmd'.op \in {"adopt", "renew"} => cmd' = cmd,
           cmd'.op \in {"adopt", "renew"} => catalog' = catalog /\ todo' = todo,
           cmd'.op = "adopt" => \A d \in RemoteDisks : opened'[d] # 0 => opened[d] # 0,
           cmd.op = "adopt" => cmd.id \in DOMAIN drafts'
    PROVE  Adopting'
<1>1. Adopting
  BY NowApart
<1>2. ASSUME cmd'.op = "adopt"
      PROVE  \A d \in Keys(cmd.id)' : \A e \in RemoteDisks : opened'[e] # 0 => ~SameBackend(d, e)'
  <2>1. cmd' = cmd
    BY <1>2
  <2>2. \A d \in Keys(cmd.id)' : d \in Keys(cmd.id)
    BY <1>2, <2>1 DEF Keys, ItemsLess
  <2> QED
    BY <1>1, <1>2, <2>1, <2>2 DEF Adopting, SameBackend
<1> QED
  BY <1>1, <1>2 DEF Adopting

LEMMA BinStays == ASSUME ServedInv, DeskApart, DisksCalm, BinCalm PROVE BinInvalid'
<1>1. ASSUME NEW e \in bin', disks'[e.id].kind = "net" PROVE disks'[e.id].st = "invalid"
  <2>1. CASE e \in bin
    <3>1. e.id \in DOMAIN disks
      BY <2>1, NowServed, NowGood DEF GoodList
    <3>2. disks[e.id].kind = "net" /\ disks[e.id].st = "invalid" /\ Weaker(e.id)
      BY <1>1, <2>1, <3>1, NowApart DEF BinInvalid, DisksCalm
    <3> QED
      BY <3>2 DEF Weaker
  <2> QED
    BY <1>1, <2>1 DEF BinCalm, DisksCalm
<1> QED
  BY <1>1 DEF BinInvalid

LEMMA LocalStays == ASSUME ServedInv, DeskApart, DisksCalm, ItemsLess PROVE LocalOnly'
BY NowApart DEF LocalOnly, DisksCalm, ItemsLess

LEMMA CalmApart ==
    ASSUME ServedInv, DeskApart, DisksCalm, BinCalm, OpenedCalm, ItemsLess, CmdCalm, UNCHANGED <<plan, found>>,
           \A w \in Scanners : JobHeld(w), cmd.op = "adopt" => cmd.id \in DOMAIN drafts'
    PROVE  DeskApart'
<1>1. DisksApart'
  <2>1. cmd.op = "renew" => cmd'.op = "renew"
    BY DEF CmdCalm, Scanning, Scanners
  <2> QED
    BY <2>1, DisksStayApart
<1>2. BinInvalid' /\ LocalOnly'
  BY BinStays, LocalStays
<1>4. ItemsApart' /\ Adopting'
  <2>1. \A d \in RemoteDisks : opened'[d] # 0 => opened[d] # 0
    BY DEF OpenedCalm
  <2> QED
    BY <2>1, ItemsStayApart, AdoptingStays DEF DisksCalm, CmdCalm, Submitting
<1>5. ASSUME NEW w \in Scanners PROVE TasksOK(w)' /\ StaleOK(w)'
  BY <1>5, TasksStayOK, StaleStays DEF CmdCalm
<1> QED
  BY <1>1, <1>2, <1>4, <1>5 DEF DeskApart

\* Who has no rescan under way has no tasks; while a draft is adopted the
\* command has the catalog.
LEMMA NoTasks == ASSUME DeskApart, NEW w \in Scanners, ~Scanning(w) PROVE plan[w] = {} /\ found[w] = {}
BY NowApart DEF TasksOK

LEMMA AdoptingHolds ==
    ASSUME ServedInv, DeskApart, cmd.op \in {"adopt", "renew"}
    PROVE  catalog = "ui" /\ todo = <<>> /\ (cmd.op = "adopt" => cmd.id \in DOMAIN drafts)
<1>1. CmdTypes
  BY NowServed DEF ClientsInv, TypeOK
<1> QED
  BY <1>1, NowApart DEF Adopting, CmdTypes

LEMMA CmdStays ==
    ASSUME cmd' = cmd, rescan' = rescan \/ "resolve" \notin {rescan, rescan'},
           cmd.op \in {"adopt", "renew"} => catalog' = catalog /\ todo' = todo
    PROVE  CmdCalm
BY DEF CmdCalm, Scanning, Scanners

LEMMA CmdEnds == ASSUME cmd' = NoCmd, rescan' = rescan, cmd.op # "renew" PROVE CmdCalm
BY DEF CmdCalm, Scanning, Scanners, NoCmd, Submitting

LEMMA DisksSame == ASSUME UNCHANGED <<uses, backendOf, disks, listing, raced>> PROVE DisksCalm
BY DEF DisksCalm, Weaker, Listed

LEMMA QuietHeld == ASSUME \A u \in Threads \ {"io"} : JobQuiet(u) PROVE \A w \in Scanners : JobHeld(w)
<1>1. \A w \in Scanners : w \in Threads \ {"io"}
  BY UiThere DEF Scanners
<1> QED
  BY <1>1 DEF JobHeld, JobQuiet

LEMMA UiHeld ==
    ASSUME ServedInv, DeskApart, cmd.op # "renew", job' = job \/ \E j : job' = [job EXCEPT !["ui"] = j]
    PROVE  \A w \in Scanners : JobHeld(w)
<1>1. plan["ui"] = {}
  BY NoTasks DEF Scanning, Scanners
<1>2. job'["rescan"] = job["rescan"]
  BY NowServed, UiThere DEF ClientsInv, NetInv, NetTypes
<1> QED
  BY <1>1, <1>2 DEF JobHeld, Scanners

LEMMA SameHeld == ASSUME job' = job PROVE \A w \in Scanners : JobHeld(w)
BY DEF JobHeld

LEMMA BinSame == ASSUME ServedInv, bin' \subseteq bin PROVE BinCalm
BY DEF BinCalm

LEMMA OpenedSame == ASSUME opened' = opened PROVE OpenedCalm
BY DEF OpenedCalm

LEMMA DraftsSameLess == ASSUME drafts' = drafts PROVE ItemsLess
BY DEF ItemsLess

\* Nothing happens to the disks, and no session is opened for one.
restingVars == <<uses, backendOf, disks, listing, bin, opened, plan, found, raced>>
LEMMA RestsApart ==
    ASSUME ServedInv, DeskApart, UNCHANGED restingVars, ItemsLess, CmdCalm, \A w \in Scanners : JobHeld(w),
           cmd.op = "adopt" => cmd.id \in DOMAIN drafts'
    PROVE  DeskApart'
<1> USE DEF restingVars
<1>1. DisksCalm /\ BinCalm /\ OpenedCalm
  BY DisksSame, BinSame, OpenedSame
<1> QED
  BY <1>1, CalmApart

LEMMA NothingApart ==
    ASSUME ServedInv, DeskApart, UNCHANGED restingVars, drafts' = drafts, CmdCalm, \A w \in Scanners : JobHeld(w)
    PROVE  DeskApart'
BY RestsApart, DraftsSameLess, AdoptingHolds

\* What describe reports of a disk is the same throughout.
LEMMA CliFixed == ASSUME CliNext PROVE UNCHANGED <<uses, backendOf>>
<1> USE DEF backendVars, cliVars, hostVars
<1>1. CASE CliCommand
  <2>1. CASE \E d \in RemoteDisks, t \in Targets : CliAuth(d, t)
    BY <2>1 DEF CliAuth, CliNext
  <2>2. CASE CliRm
    BY <2>2 DEF CliRm, CliRemove, CliRemoveMemory, CliNext
  <2>3. CASE CliCt
    BY <2>3 DEF CliCt, CliCreateDedicated, CliCreateShared, CliNext
  <2> QED
    BY <1>1, <2>1, <2>2, <2>3 DEF CliCommand, CliConnectFails, CliShare, CliShutdown, CliNext
<1>2. CASE CliMountStep \/ CliMark
  BY <1>2 DEF CliMountStep, CliMark, CliOpen, CliMountFails, CliOrphan, CliCreate, CliAbandon, CliInsert, CliNext
<1>3. CASE CliReap("reaper") \/ CliTake("shell") \/ CliTake("reaper") \/ CliPoll("shell") \/ CliPoll("reaper")
  BY <1>3 DEF CliReap, CliTake, CliPoll, CliRemove, CliNotifyChanged, CliPollRemoved, CliNext
<1>4. CASE \E c \in Conns : CliHandlers(c)
  BY <1>4 DEF CliHandlers, CliSessionClosed, CliDataChanged, CliDisconnected, CliNext
<1>5. CASE CliIo("io") \/ CliInvalidate("io") \/ (Beneath /\ UNCHANGED cliVars)
  BY <1>5 DEF CliIo, CliInvalidate, CliNext
<1> QED
  BY <1>1, <1>2, <1>3, <1>4, <1>5 DEF CliNext

LEMMA CliApart == ASSUME ServedInv, DeskApart, CliStep, CliNext PROVE DeskApart'
<1>1. \A w \in Scanners : JobHeld(w)
  BY DEF ServedInv, OneProgram, CliNext, JobHeld
<1>2. UNCHANGED restingVars /\ UNCHANGED <<cmd, rescan, catalog, todo, drafts>>
  <2>1. backendOf' = backendOf /\ uses' = uses
    BY CliFixed
  <2> QED
    BY <2>1 DEF CliStep, restingVars, catalogOnly, deskOnly, scanVars, netDiskVars, past
<1>3. CmdCalm
  BY <1>2, CmdStays
<1> QED
  BY <1>1, <1>2, <1>3, NothingApart

LEMMA LocksApart ==
    ASSUME ServedInv, DeskApart,
           DeskLock \/ DeskWatched \/ StartRescan \/ RescanLock \/ (LoseFile /\ UNCHANGED deskOnly)
    PROVE  DeskApart'
<1> USE DEF hostVars, backendVars, netVars, deskOnly, netDiskVars, eventVars, scanVars, past, catalogRest, restingVars
<1>1. UNCHANGED restingVars /\ UNCHANGED <<job, cmd, drafts>>
  BY DEF DeskLock, DeskWatched, StartRescan, RescanLock, LoseFile, BeginSync
<1>2. rescan' = rescan \/ "resolve" \notin {rescan, rescan'}
  BY DEF DeskLock, DeskWatched, StartRescan, RescanLock, LoseFile, BeginSync
<1>3. cmd.op \in {"adopt", "renew"} => catalog' = catalog /\ todo' = todo
  BY AdoptingHolds DEF DeskLock, DeskWatched, StartRescan, RescanLock, LoseFile, BeginSync, SyncFirst
<1> HIDE DEF hostVars, backendVars, netVars, deskOnly, netDiskVars, eventVars, scanVars, past, catalogRest, restingVars
<1> QED
  BY <1>1, <1>2, <1>3, CmdStays, SameHeld, NothingApart

LEMMA HandlersApart ==
    ASSUME ServedInv, DeskApart, uses' = uses,
           \/ \E c \in Conns : DeskHandlers(c)
           \/ DeskIo("io") \/ DeskInvalidate("io") \/ (\E w \in Scanners : ObserveOpens(w))
           \/ Beneath /\ UNCHANGED <<hostVars, catalogOnly, deskOnly>>
    PROVE  DeskApart'
<1>1. UNCHANGED restingVars /\ UNCHANGED <<cmd, catalog, todo, rescan, drafts>>
  <2> USE DEF hostVars, backendVars, catalogOnly, deskOnly, netDiskVars, scanVars, past, restingVars
  <2>1. ASSUME NEW c, DeskHandlers(c) PROVE UNCHANGED restingVars /\ UNCHANGED <<cmd, catalog, todo, rescan, drafts>>
    BY <2>1 DEF DeskHandlers, DeskSessionClosed, DeskDataChanged, DeskDisconnected
  <2> QED
    BY <2>1 DEF DeskIo, DeskInvalidate, ObserveOpens
<1>2. \A u \in Threads \ {"io"} : JobQuiet(u)
  <2>1. NetInv /\ "io" \in Threads
    BY NowServed, CliThreads DEF ClientsInv
  <2>2. CASE \E c \in Conns : DeskHandlers(c)
    <3>1. PICK c \in Conns : HandleDisconnect(c) \/ \E s \in Sessions : TakeClose(c, s) \/ TakeChanged(c, s)
      BY <2>2 DEF DeskHandlers, DeskSessionClosed, DeskDataChanged, DeskDisconnected
    <3> QED
      BY <2>1, <3>1, LoopQuiet
  <2>3. CASE DeskIo("io") \/ DeskInvalidate("io")
    BY <2>1, <2>3, MediaQuiet DEF DeskIo, DeskInvalidate
  <2>4. CASE Beneath
    BY <2>1, <2>4, BeneathQuiet
  <2>5. CASE \E w \in Scanners : ObserveOpens(w)
    <3>1. PICK w \in Scanners : BeginOpen(w)
      BY <2>5 DEF ObserveOpens
    <3>2. job[w].st = "authed" /\ w \in Threads
      BY <3>1, UiThere DEF BeginOpen, At
    <3>3. JobOnly(w) /\ job'[w].st \in {"failed", "open"}
      <4>1. (job' = Request(w, "open") \/ job' = StayJob(w, "failed")) /\ NetTypes
        BY <2>1, <3>1 DEF BeginOpen, NetInv
      <4> QED
        BY <3>2, <4>1, StayEffect, RequestEffect DEF JobStates, Before, After, Asking
    <3> QED
      BY <3>2, <3>3, OneQuiet DEF AboutDisk
  <2> QED
    BY <2>2, <2>3, <2>4, <2>5
<1> QED
  BY <1>1, <1>2, QuietHeld, CmdStays, NothingApart

\* Drafts only lose items, but to insert_item.
LEMMA DraftCommandApart == ASSUME ServedInv, DeskApart, uses' = uses, DraftCommand PROVE DeskApart'
<1> USE DEF backendVars, catalogOnly, netDiskVars, eventVars, scanVars, past
<1>1. /\ UNCHANGED restingVars /\ UNCHANGED <<job, cmd, catalog, todo, rescan>>
      /\ \/ drafts' = drafts
         \/ \E c : drafts' = Append(drafts, [live |-> TRUE, conn |-> c, items |-> NoItems])
         \/ \E k \in DOMAIN drafts : drafts' = Disposed(k)
                                     \/ \E d \in RemoteDisks : drafts' = [drafts EXCEPT ![k].items[d] = 0]
  <2>1. ASSUME NEW k \in DOMAIN drafts, NEW d \in RemoteDisks, RemoveItem(k, d)
        PROVE  /\ UNCHANGED restingVars /\ UNCHANGED <<job, cmd, catalog, todo, rescan>>
               /\ drafts' = [drafts EXCEPT ![k].items[d] = 0]
    BY <2>1 DEF RemoveItem, DraftStep, restingVars
  <2>2. ASSUME NEW k \in DOMAIN drafts, DisposeDraft(k)
        PROVE  UNCHANGED restingVars /\ UNCHANGED <<job, cmd, catalog, todo, rescan>> /\ drafts' = Disposed(k)
    BY <2>2 DEF DisposeDraft, restingVars
  <2>3. ASSUME TestConnection \/ NewDraft
        PROVE  /\ UNCHANGED restingVars /\ UNCHANGED <<job, cmd, catalog, todo, rescan>>
               /\ \/ drafts' = drafts
                  \/ \E c : drafts' = Append(drafts, [live |-> TRUE, conn |-> c, items |-> NoItems])
    BY <2>3 DEF TestConnection, NewDraft, DraftStep, restingVars
  <2> QED
    BY <2>1, <2>2, <2>3 DEF DraftCommand
<1>2. drafts \in Seq(DraftType) /\ \A k \in DOMAIN drafts : drafts[k] \in DraftType
  BY NowServed, NowSessions
<1>3. ItemsLess /\ DOMAIN drafts \subseteq DOMAIN drafts'
  <2>1. "drafts" \in uses
    BY DEF DraftCommand
  <2>2. CASE \E c : drafts' = Append(drafts, [live |-> TRUE, conn |-> c, items |-> NoItems])
    <3>1. \A k \in DOMAIN drafts' : IF k \in DOMAIN drafts THEN drafts'[k] = drafts[k] ELSE drafts'[k].items = NoItems
      BY <1>2, <2>2
    <3> QED
      BY <1>2, <2>1, <2>2, <3>1 DEF ItemsLess, NoItems
  <2>3. ASSUME NEW k \in DOMAIN drafts, drafts' = Disposed(k) PROVE ItemsLess /\ DOMAIN drafts \subseteq DOMAIN drafts'
    <3>1. DOMAIN drafts' = DOMAIN drafts /\ drafts'[k].items = NoItems
          /\ \A j \in DOMAIN drafts : j # k => drafts'[j] = drafts[j]
      BY <1>2, <2>3 DEF Disposed, DraftType
    <3> QED
      BY <2>1, <3>1 DEF ItemsLess, NoItems
  <2>4. ASSUME NEW k \in DOMAIN drafts, NEW d \in RemoteDisks, drafts' = [drafts EXCEPT ![k].items[d] = 0]
        PROVE  ItemsLess /\ DOMAIN drafts \subseteq DOMAIN drafts'
    <3>1. DOMAIN drafts' = DOMAIN drafts /\ drafts'[k].items = [drafts[k].items EXCEPT ![d] = 0]
          /\ \A j \in DOMAIN drafts : j # k => drafts'[j] = drafts[j]
      BY <1>2, <2>4 DEF DraftType
    <3>2. drafts[k].items \in [RemoteDisks -> Ids0]
      BY <1>2 DEF DraftType
    <3> QED
      BY <2>1, <3>1, <3>2 DEF ItemsLess
  <2> QED
    BY <1>1, <2>2, <2>3, <2>4, <2>1 DEF ItemsLess
<1>4. CmdCalm /\ \A w \in Scanners : JobHeld(w)
  BY <1>1, CmdStays, SameHeld
<1> QED
  BY <1>1, <1>3, <1>4, RestsApart, AdoptingHolds

LEMMA AddApart ==
    ASSUME ServedInv, DeskApart, uses' = uses, AddStarts \/ AddOpens \/ AddFails \/ AddAbandons PROVE DeskApart'
<1> USE DEF hostVars, backendVars, netVars, catalogOnly, deskOnly, netDiskVars, eventVars, scanVars, past, AddVars
<1>1. UNCHANGED restingVars /\ drafts' = drafts
  BY DEF AddStarts, AddOpens, AddFails, AddAbandons, restingVars
<1>2. cmd.op = "add"
  BY DEF AddStarts, AddOpens, AddFails, AddAbandons, AddsAt, Runs
<1>3. job' = job \/ \E j : job' = [job EXCEPT !["ui"] = j]
  BY DEF AddStarts, AddOpens, AddFails, AddAbandons, AddEnds, BeginOpen, Begins, ClearJob, StayJob, Request
<1>4. (cmd' = cmd \/ cmd' = NoCmd) /\ rescan' = rescan
  BY DEF AddStarts, AddOpens, AddFails, AddAbandons, AddEnds, Done
<1>5. CmdCalm
  BY <1>2, <1>4, CmdStays, CmdEnds
<1>6. \A w \in Scanners : JobHeld(w)
  BY <1>2, <1>3, UiHeld
<1> HIDE DEF hostVars, backendVars, netVars, catalogOnly, deskOnly, netDiskVars, eventVars, scanVars, past, AddVars
<1> QED
  BY <1>1, <1>5, <1>6, NothingApart

\* The disk stays what it is, in a state that takes nothing from the others.
CalmDisk(n) ==
    /\ disks'[n].kind = disks[n].kind /\ disks'[n].what = disks[n].what
    /\ disks[n].kind = "net" => Weaker(n)

LEMMA SameDisk == ASSUME NEW n, disks'[n] = disks[n] PROVE CalmDisk(n)
BY DEF CalmDisk, Weaker

LEMMA InvalidCalm ==
    ASSUME ServedInv, NEW n \in DOMAIN disks, disks'[n] = SetInvalid(disks[n])
    PROVE  CalmDisk(n) /\ disks'[n].st = "invalid"
<1>1. GoodDisk(disks[n])
  BY NowServed, NowGood
<1> QED
  BY <1>1 DEF CalmDisk, Weaker, SetInvalid, GoodDisk, DiskType

\* Set from mounted, or when there is a session for it.
LEMMA UnmountedCalm ==
    ASSUME ServedInv, NEW n \in DOMAIN disks, MountedAt(n), disks'[n] = SetUnmounted(n)[n] PROVE CalmDisk(n)
<1> PICK r : r = disks[n]
  OBVIOUS
<1>1. GoodDisk(r) /\ SetUnmounted(n)[n] = [r EXCEPT !.st = "unmounted", !.target = 0]
  BY NowServed, NowGood DEF SetUnmounted
<1>2. [r EXCEPT !.st = "unmounted", !.target = 0].kind = r.kind /\ [r EXCEPT !.st = "unmounted", !.target = 0].what = r.what
  BY <1>1 DEF GoodDisk, DiskType
<1> QED
  <2>1. [r EXCEPT !.st = "unmounted", !.target = 0].st = "unmounted"
    BY <1>1 DEF GoodDisk, DiskType
  <2> QED
    BY <1>1, <1>2, <2>1 DEF CalmDisk, Weaker, MountedAt

LEMMA ProbedCalm ==
    ASSUME ServedInv, NEW n \in DOMAIN disks, disks[n].kind = "file", NEW r, GoodDisk(r), r.kind = "file",
           r.what = disks[n].what, disks'[n] = Probed(r)
    PROVE  CalmDisk(n)
<1>1. [r EXCEPT !.st = "unmounted", !.target = 0].kind = r.kind /\ [r EXCEPT !.st = "unmounted", !.target = 0].what = r.what
  BY DEF GoodDisk, DiskType
<1>2. SetInvalid(r).kind = r.kind /\ SetInvalid(r).what = r.what
  BY DEF GoodDisk, DiskType, SetInvalid
<1> QED
  BY <1>1, <1>2 DEF CalmDisk, Probed

LEMMA MostCalm ==
    ASSUME UNCHANGED <<uses, backendOf, raced>>, DOMAIN disks' = DOMAIN disks,
           \A n \in DOMAIN disks : CalmDisk(n), \A m : Listed(m)' => Listed(m)
    PROVE  DisksCalm
BY DEF DisksCalm, CalmDisk

LEMMA OneCalm ==
    ASSUME ServedInv, UNCHANGED <<uses, backendOf, raced>>, NEW n \in DOMAIN disks, NEW r, disks' = [disks EXCEPT ![n] = r],
           CalmDisk(n), \A m : Listed(m)' => Listed(m)
    PROVE  DisksCalm
<1>1. DOMAIN disks' = DOMAIN disks /\ \A m \in DOMAIN disks : m # n => disks'[m] = disks[m]
  BY NowServed, OnePut
<1> QED
  BY <1>1, SameDisk, MostCalm

\* What DisksCalm leaves to show where neither drafts nor rescans have a part.
LEMMA DisksMoveApart ==
    ASSUME ServedInv, DeskApart, DisksCalm, BinCalm, OpenedCalm, ItemsLess, DOMAIN drafts' = DOMAIN drafts, CmdCalm,
           UNCHANGED <<plan, found, job>>
    PROVE  DeskApart'
BY CalmApart, SameHeld, AdoptingHolds

LEMMA DeskWatchApart == ASSUME ServedInv, DeskApart, uses' = uses, DeskWatch PROVE DeskApart'
<1>1. UNCHANGED <<backendOf, raced, opened, drafts, plan, found, job, cmd, rescan, listing, bin>> /\ cmd.op \notin {"adopt", "renew"}
  BY AdoptingHolds DEF DeskWatch, BeginSync, netDiskVars, scanVars, past
<1>2. DisksCalm
  <2>1. ASSUME NEW T, disks' = Detached(T) PROVE DOMAIN disks' = DOMAIN disks /\ \A n \in DOMAIN disks : CalmDisk(n)
    <3>1. ASSUME NEW n \in DOMAIN disks PROVE CalmDisk(n)
      <4>1. CASE ~(Listed(n) /\ MountedAt(n) /\ disks[n].target \in T)
        BY <2>1, <4>1, SameDisk DEF Detached
      <4>2. CASE Listed(n) /\ MountedAt(n) /\ disks[n].target \in T
        <5>1. GoodDisk(disks[n]) /\ disks[n].kind \in {"net", "file", "mem"}
          BY NowServed, NowGood DEF GoodDisk, DiskType
        <5>2. /\ disks[n].kind = "net" => disks'[n] = SetUnmounted(n)[n]
              /\ disks[n].kind = "mem" => disks'[n] = SetInvalid(disks[n])
              /\ disks[n].kind = "file" => disks'[n] = Probed(disks[n])
          BY <2>1, <4>2 DEF Detached
        <5> QED
          BY <4>2, <5>1, <5>2, UnmountedCalm, InvalidCalm, ProbedCalm
      <4> QED
        BY <4>1, <4>2
    <3> QED
      BY <2>1, <3>1 DEF Detached
  <2>2. (\E T : disks' = Detached(T)) \/ disks' = disks
    BY DEF DeskWatch, BackendSync
  <2> QED
    BY <1>1, <2>1, <2>2, MostCalm, DisksSame DEF Listed
<1> QED
  BY <1>1, <1>2, BinSame, OpenedSame, DraftsSameLess, CmdStays, DisksMoveApart

\* invalidate_runtime_by_key.
LEMMA DeskSyncApart == ASSUME ServedInv, DeskApart, uses' = uses, DeskSync PROVE DeskApart'
<1> PICK K, S : K = KeysOf(Head(todo)) /\ S = ItemsOf(Head(todo))
  OBVIOUS
<1>1. /\ UNCHANGED <<backendOf, raced, plan, found, job, cmd, rescan, listing, bin>> /\ cmd.op \notin {"adopt", "renew"}
      /\ disks' = [n \in DOMAIN disks |-> IF n \in DisksOf(K) THEN SetInvalid(disks[n]) ELSE disks[n]]
      /\ opened' = [d \in RemoteDisks |-> IF d \in K THEN 0 ELSE opened[d]]
      /\ drafts' = DraftsWithout(S)
  BY AdoptingHolds DEF DeskSync, scanVars, past
<1>2. \A n \in DOMAIN disks : CalmDisk(n) /\ (n \in DisksOf(K) => disks'[n].st = "invalid")
  BY <1>1, SameDisk, InvalidCalm
<1>3. DisksCalm
  BY <1>1, <1>2, MostCalm DEF Listed
<1>4. OpenedCalm
  BY <1>1 DEF OpenedCalm
<1>5. ItemsLess /\ DOMAIN drafts' = DOMAIN drafts
  <2>1. DOMAIN drafts' = DOMAIN drafts
    BY <1>1 DEF DraftsWithout
  <2>2. ASSUME NEW k \in DOMAIN drafts, NEW d \in RemoteDisks, drafts'[k].items[d] # 0 PROVE drafts[k].items[d] # 0
    <3>1. drafts[k] \in DraftType
      BY NowServed, NowSessions
    <3>2. drafts'[k] = [drafts[k] EXCEPT !.items = [e \in RemoteDisks |-> IF @[e] \in S THEN 0 ELSE @[e]]]
      BY <1>1 DEF DraftsWithout
    <3>3. drafts'[k].items = [e \in RemoteDisks |-> IF drafts[k].items[e] \in S THEN 0 ELSE drafts[k].items[e]]
      BY <3>1, <3>2 DEF DraftType
    <3> QED
      BY <2>2, <3>3
  <2>3. drafts = <<>> => drafts' = <<>>
    <3>1. drafts' \in Seq(DraftType) /\ Len(drafts') = Len(drafts)
      BY <1>1, NowServed, DraftsWithoutTypes
    <3> QED
      BY <3>1
  <2> QED
    BY <2>1, <2>2, <2>3 DEF ItemsLess
<1> QED
  BY <1>1, <1>3, <1>4, <1>5, BinSame, CmdStays, DisksMoveApart

LEMMA MissedCalm ==
    ASSUME ServedInv, NEW k, opened' = [opened EXCEPT ![k] = 0] PROVE OpenedCalm
<1>1. opened \in [RemoteDisks -> Ids0]
  BY NowServed, NowSessions
<1> QED
  BY <1>1 DEF OpenedCalm

NetMove ==
    /\ UNCHANGED <<backendOf, raced, plan, found, job, drafts>>
    /\ cmd' = NoCmd /\ rescan' = rescan /\ cmd.op # "renew"
LEMMA NetMoveApart ==
    ASSUME ServedInv, DeskApart, NetMove, DisksCalm, BinCalm, OpenedCalm PROVE DeskApart'
BY DraftsSameLess, CmdEnds, DisksMoveApart DEF NetMove

LEMMA MountNetworkApart == ASSUME ServedInv, DeskApart, uses' = uses, MountNetwork \/ MountRefused PROVE DeskApart'
<1> PICK n : n = cmd.id
  OBVIOUS
<1>1. NetMove /\ UNCHANGED <<opened, listing, bin>>
  BY DEF MountNetwork, MountRefused, NetFinished, Finished, Done, scanVars, past, Runs, NetMove
<1>2. \/ disks' = disks
      \/ /\ IsNet(n) /\ disks[n].st = "unmounted" /\ Usable(opened[disks[n].what])
         /\ \E t \in Targets : disks' = SetMounted(n, t)
  BY DEF MountNetwork, MountRefused
<1>3. DisksCalm
  <2>1. CASE disks' = disks
    BY <1>1, <2>1, DisksSame DEF NetMove
  <2>2. ASSUME IsNet(n), disks[n].st = "unmounted", Usable(opened[disks[n].what]), NEW t \in Targets, disks' = SetMounted(n, t)
        PROVE  DisksCalm
    <3> PICK r : r = disks[n]
      OBVIOUS
    <3>1. n \in DOMAIN disks /\ GoodDisk(r)
      BY <2>2, NetThere, NowServed, NowGood
    <3>2. disks' = [disks EXCEPT ![n] = [r EXCEPT !.st = "mounted", !.target = t, !.held = FALSE]]
      BY <2>2, <3>1, NowServed, NowGood DEF SetMounted
    <3>3. disks'[n] = [r EXCEPT !.st = "mounted", !.target = t, !.held = FALSE]
      BY <3>1, <3>2, NowServed, OnePut
    <3>4. disks'[n].kind = r.kind /\ disks'[n].what = r.what
      BY <3>1, <3>3 DEF GoodDisk, DiskType
    <3>5. opened[disks[n].what] # 0
      <4>1. sess \in Seq(SessType) /\ opened[disks[n].what] \in Sessions
        BY <2>2, NowServed, SessionUsable DEF ClientsInv, NetInv, NetTypes
      <4>2. \A q : q \in Seq(SessType) => 0 \notin DOMAIN q
        OBVIOUS
      <4> QED
        BY <4>1, <4>2 DEF Sessions
    <3>6. CalmDisk(n)
      BY <1>1, <2>2, <3>4, <3>5 DEF CalmDisk, Weaker, NetMove
    <3> QED
      BY <1>1, <3>1, <3>2, <3>6, OneCalm DEF NetMove, Listed
  <2> QED
    BY <1>2, <2>1, <2>2
<1> QED
  BY <1>1, <1>3, NetMoveApart, BinSame, OpenedSame

LEMMA MountMissesApart == ASSUME ServedInv, DeskApart, uses' = uses, MountMisses PROVE DeskApart'
<1> PICK n : n = cmd.id
  OBVIOUS
<1>1. /\ NetMove /\ UNCHANGED <<listing, bin>> /\ IsNet(n)
      /\ disks' = [disks EXCEPT ![n] = SetInvalid(@)] /\ opened' = [opened EXCEPT ![disks[n].what] = 0]
  BY DEF MountMisses, Finished, Done, scanVars, past, backendVars, Runs, NetMove
<1>2. n \in DOMAIN disks
  BY <1>1, NetThere
<1>3. disks'[n] = SetInvalid(disks[n])
  BY <1>1, <1>2, NowServed, OnePut
<1>4. CalmDisk(n)
  BY <1>2, <1>3, InvalidCalm
<1>5. DisksCalm
  BY <1>1, <1>2, <1>4, OneCalm DEF NetMove, Listed
<1> QED
  BY <1>1, <1>2, <1>4, <1>5, NetMoveApart, BinSame, MissedCalm

LEMMA EjectNetworkApart == ASSUME ServedInv, DeskApart, uses' = uses, EjectNetwork PROVE DeskApart'
<1> PICK n : n = cmd.id
  OBVIOUS
<1>1. /\ NetMove /\ UNCHANGED <<listing, bin, opened>> /\ IsNet(n)
      /\ disks' = disks \/ (MountedAt(n) /\ disks' = SetUnmounted(n))
  BY DEF EjectNetwork, NetFinished, Finished, Done, scanVars, past, Runs, NetMove
<1>2. n \in DOMAIN disks
  BY <1>1, NetThere
<1>3. DisksCalm
  <2>1. CASE disks' = disks
    BY <1>1, <2>1, DisksSame DEF NetMove
  <2>2. CASE MountedAt(n) /\ disks' = SetUnmounted(n)
    <3>1. disks' = [disks EXCEPT ![n] = SetUnmounted(n)[n]]
      BY <1>2, <2>2, NowServed, NowGood DEF SetUnmounted
    <3>2. CalmDisk(n)
      BY <1>2, <2>2, UnmountedCalm
    <3> QED
      BY <1>1, <1>2, <3>1, <3>2, OneCalm DEF NetMove, Listed
  <2> QED
    BY <1>1, <2>1, <2>2
<1> QED
  BY <1>1, <1>3, NetMoveApart, BinSame, OpenedSame

\* A disk that leaves the list goes to the bin.
LEMMA DropsLess ==
    ASSUME ClientsInv, NEW n, Listed(n), Drops(n)
    PROVE  /\ \A m : Listed(m)' => Listed(m)
           /\ \A e \in bin' : e \in bin \/ e.id = n
<1> PICK i : i = Place(n)
  OBVIOUS
<1>1. listing \in Seq(DOMAIN disks) /\ IsInjective(listing)
  BY NowGood DEF GoodList
<1>2. i \in DOMAIN listing /\ listing[i] = n
  <2>1. \E j \in DOMAIN listing : listing[j] = n
    BY DEF Listed, ToSet
  <2> QED
    BY <2>1 DEF Place
<1>3. ToSet(RemoveAt(listing, i)) = ToSet(listing) \ {n}
  BY <1>1, <1>2, RemoveFacts
<1>4. listing' = RemoveAt(listing, i) \/ listing' = listing
  BY DEF Drops, Saves, SaveFails
<1>5. bin' = bin \/ bin' = bin \cup {[id |-> n, at |-> i]}
  BY DEF Drops
<1> QED
  BY <1>3, <1>4, <1>5 DEF Listed

LEMMA DeleteNetworkApart == ASSUME ServedInv, DeskApart, uses' = uses, DeleteNetwork PROVE DeskApart'
<1> PICK n : n = cmd.id
  OBVIOUS
<1>1. NetMove /\ IsNet(n)
  BY DEF DeleteNetwork, Done, scanVars, past, Runs, NetMove
<1>2. n \in DOMAIN disks /\ Listed(n) /\ disks[n].kind = "net"
  BY <1>1, NetThere
<1>3. CASE UNCHANGED <<disks, opened, listing, bin>>
  BY <1>1, <1>3, NetMoveApart, DisksSame, BinSame, OpenedSame DEF NetMove
<1>4. CASE disks' = [disks EXCEPT ![n] = SetInvalid(@)] /\ opened' = [opened EXCEPT ![disks[n].what] = 0] /\ Drops(n)
  <2>1. disks'[n] = SetInvalid(disks[n])
    BY <1>2, <1>4, NowServed, OnePut
  <2>2. CalmDisk(n) /\ disks'[n].st = "invalid"
    BY <1>2, <2>1, InvalidCalm
  <2>3. (\A m : Listed(m)' => Listed(m)) /\ \A e \in bin' : e \in bin \/ e.id = n
    BY <1>2, <1>4, NowServed, DropsLess
  <2>4. DisksCalm
    BY <1>1, <1>2, <1>4, <2>2, <2>3, OneCalm DEF NetMove
  <2>5. BinCalm
    BY <1>2, <2>2, <2>3 DEF BinCalm
  <2> QED
    BY <1>1, <1>2, <1>4, <2>2, <2>4, <2>5, NetMoveApart, MissedCalm
<1> QED
  BY <1>3, <1>4 DEF DeleteNetwork

(***************************************************************************)
(* The commands on local disks.                                            *)
(***************************************************************************)
LocalMove ==
    /\ UNCHANGED <<uses, backendOf, raced, plan, found, job, drafts, opened>>
    /\ cmd' = NoCmd /\ rescan' = rescan /\ cmd.op # "renew"
LEMMA LocalMoveApart == ASSUME ServedInv, DeskApart, LocalMove, DisksCalm, BinCalm PROVE DeskApart'
<1>1. OpenedCalm /\ ItemsLess /\ DOMAIN drafts' = DOMAIN drafts /\ UNCHANGED <<plan, found, job>>
  BY OpenedSame, DraftsSameLess DEF LocalMove
<1>2. CmdCalm
  BY CmdEnds DEF LocalMove
<1> QED
  BY <1>1, <1>2, DisksMoveApart

LEMMA LocalIs ==
    ASSUME UNCHANGED deskOnly, uses' = uses, LocalCommand
    PROVE  LocalMove
<1> USE DEF hostVars, backendVars, netVars, Refused, Done, LocalMove, Runs, deskOnly, netDiskVars, scanVars, past
<1>1. CASE CreateMemory \/ CreateFile \/ CreateNewFile
  BY <1>1 DEF CreateMemory, CreateFile, CreateNewFile
<1>2. CASE MountLocal
  BY <1>2 DEF MountLocal
<1>3. CASE EjectLocal
  BY <1>3 DEF EjectLocal
<1>4. CASE DeleteLocal
  BY <1>4 DEF DeleteLocal
<1>5. CASE UndoDelete \/ CommitDelete
  BY <1>5 DEF UndoDelete, CommitDelete
<1> QED
  BY <1>1, <1>2, <1>3, <1>4, <1>5 DEF LocalCommand

LEMMA InsertCalm ==
    ASSUME ServedInv, UNCHANGED <<uses, backendOf, raced>>, NEW r, r.kind # "net", Insert(r) PROVE DisksCalm
<1>1. CASE disks' = disks /\ listing' = listing
  BY <1>1, DisksSame
<1>2. CASE disks' = Append(disks, r) /\ listing' = Append(listing, Len(disks) + 1)
  <2> PICK n \in Nat : n = Len(disks) /\ DOMAIN disks = 1..n
    BY NowServed, NowGood
  <2>1. /\ DOMAIN disks' = 1..(n + 1) /\ disks'[n + 1] = r
        /\ \A m \in 1..n : disks'[m] = disks[m]
    <3>1. disks \in Seq(DiskType)
      BY NowServed, NowGood
    <3> QED
      BY <1>2, <3>1
  <2>2. \A m \in 1..n : Listed(m)' => Listed(m)
    <3>1. listing \in Seq(DOMAIN disks)
      BY NowServed, NowGood DEF GoodList
    <3>2. listing' = Append(listing, n + 1)
      BY <1>2
    <3>3. \A i \in DOMAIN listing' : listing'[i] = n + 1 \/ (i \in DOMAIN listing /\ listing[i] = listing'[i])
      BY <3>1, <3>2
    <3>4. ASSUME NEW m \in 1..n, Listed(m)' PROVE Listed(m)
      <4>1. PICK i \in DOMAIN listing' : listing'[i] = m
        BY <3>4 DEF Listed, ToSet
      <4>2. m # n + 1
        OBVIOUS
      <4> QED
        BY <3>3, <4>1, <4>2 DEF Listed, ToSet
    <3> QED
      BY <3>4
  <2>3. \A m \in DOMAIN disks' : m = n + 1 \/ m \in 1..n
    BY <2>1
  <2> QED
    BY <2>1, <2>2, <2>3 DEF DisksCalm, Weaker
<1> QED
  BY <1>1, <1>2 DEF Insert

LEMMA CreateApart ==
    ASSUME ServedInv, DeskApart, LocalMove, CreateMemory \/ CreateFile \/ CreateNewFile PROVE DeskApart'
<1>1. bin' = bin
  BY DEF CreateMemory, CreateFile, CreateNewFile
<1>2. \/ UNCHANGED <<disks, listing>>
      \/ \E r : r.kind # "net" /\ Insert(r)
  <2>1. \A k, w, st : NewDisk(k, w, st).kind = k
    BY DEF NewDisk
  <2> QED
    BY <2>1 DEF CreateMemory, CreateFile, CreateNewFile
<1>3. DisksCalm
  BY <1>2, InsertCalm, DisksSame DEF LocalMove
<1> QED
  BY <1>1, <1>3, BinSame, LocalMoveApart

\* Another disk than a network disk changes.
LEMMA LocalPut ==
    ASSUME ServedInv, LocalMove, NEW n \in DOMAIN disks, disks[n].kind # "net", NEW r, disks' = [disks EXCEPT ![n] = r],
           r.kind = disks[n].kind, r.what = disks[n].what, \A m : Listed(m)' => Listed(m)
    PROVE  DisksCalm
<1>1. disks'[n] = r
  BY NowServed, OnePut
<1>2. CalmDisk(n)
  BY <1>1 DEF CalmDisk
<1> QED
  BY <1>2, OneCalm DEF LocalMove

LEMMA EjectedPut ==
    ASSUME ServedInv, NEW n \in DOMAIN disks, disks[n].kind # "net", disks' = Ejected(n)
    PROVE  \E r : disks' = [disks EXCEPT ![n] = r] /\ r.kind = disks[n].kind /\ r.what = disks[n].what
<1> PICK r : r = disks[n]
  OBVIOUS
<1>1. GoodDisk(r)
  BY NowServed, NowGood
<1>2. CASE disks[n].kind = "mem"
  <2>1. PICK q : q = [r EXCEPT !.st = "unmounted", !.target = 0, !.held = TRUE]
    OBVIOUS
  <2>2. q.kind = r.kind /\ q.what = r.what
    BY <1>1, <2>1 DEF GoodDisk, DiskType
  <2>3. disks' = [disks EXCEPT ![n] = q]
    BY <1>2, <2>1, NowServed, NowGood DEF Ejected, SetUnmounted
  <2> QED
    BY <2>2, <2>3
<1>3. CASE disks[n].kind # "mem"
  <2>1. PICK p : p = [r EXCEPT !.held = FALSE]
    OBVIOUS
  <2>2. p.kind = r.kind /\ p.what = r.what /\ GoodDisk(p)
    BY <1>1, <2>1, DroppedDisk DEF GoodDisk, DiskType
  <2>3. Probed(p).kind = p.kind /\ Probed(p).what = p.what
    <3>1. [p EXCEPT !.st = "unmounted", !.target = 0].kind = p.kind /\ [p EXCEPT !.st = "unmounted", !.target = 0].what = p.what
      BY <2>2 DEF GoodDisk, DiskType
    <3>2. SetInvalid(p).kind = p.kind /\ SetInvalid(p).what = p.what
      BY <2>2 DEF GoodDisk, DiskType, SetInvalid
    <3> QED
      BY <3>1, <3>2 DEF Probed
  <2>4. disks' = [disks EXCEPT ![n] = Probed(p)]
    BY <1>3, <2>1 DEF Ejected
  <2> QED
    BY <2>2, <2>3, <2>4
<1> QED
  BY <1>2, <1>3

LEMMA ListedThere == ASSUME ServedInv, NEW n, Listed(n) PROVE n \in DOMAIN disks
<1>1. listing \in Seq(DOMAIN disks)
  BY NowServed, NowGood DEF GoodList
<1> QED
  BY <1>1 DEF Listed, ToSet

LEMMA MountLocalApart == ASSUME ServedInv, DeskApart, LocalMove, MountLocal PROVE DeskApart'
<1> PICK n : n = cmd.id
  OBVIOUS
<1>1. /\ UNCHANGED <<listing, bin>> /\ (Listed(n) => disks[n].kind # "net")
      /\ \/ disks' = disks
         \/ Listed(n) /\ \E t \in Targets : disks' = SetMounted(n, t)
         \/ Listed(n) /\ disks' = [disks EXCEPT ![n].held = TRUE]
  BY DEF MountLocal, Refused, Local
<1>2. DisksCalm
  <2>1. CASE disks' = disks
    BY <1>1, <2>1, DisksSame DEF LocalMove
  <2>2. CASE disks' # disks
    <3> PICK r : r = disks[n]
      OBVIOUS
    <3>1. n \in DOMAIN disks /\ GoodDisk(r) /\ r.kind # "net"
      BY <1>1, <2>2, ListedThere, NowServed, NowGood
    <3>2. ASSUME NEW t \in Targets, disks' = SetMounted(n, t)
          PROVE  \E q : disks' = [disks EXCEPT ![n] = q] /\ q.kind = r.kind /\ q.what = r.what
      <4> PICK q : q = [r EXCEPT !.st = "mounted", !.target = t, !.held = FALSE]
        OBVIOUS
      <4>1. q.kind = r.kind /\ q.what = r.what
        BY <3>1 DEF GoodDisk, DiskType
      <4>2. disks' = [disks EXCEPT ![n] = q]
        BY <3>1, <3>2, NowServed, NowGood DEF SetMounted
      <4> QED
        BY <4>1, <4>2
    <3>3. ASSUME disks' = [disks EXCEPT ![n].held = TRUE]
          PROVE  \E q : disks' = [disks EXCEPT ![n] = q] /\ q.kind = r.kind /\ q.what = r.what
      <4> PICK q : q = [r EXCEPT !.held = TRUE]
        OBVIOUS
      <4>1. q.kind = r.kind /\ q.what = r.what
        BY <3>1 DEF GoodDisk, DiskType
      <4>2. disks' = [disks EXCEPT ![n] = q]
        BY <3>3
      <4> QED
        BY <4>1, <4>2
    <3>5. PICK q : disks' = [disks EXCEPT ![n] = q] /\ q.kind = r.kind /\ q.what = r.what
      BY <1>1, <2>2, <3>2, <3>3
    <3> QED
      BY <1>1, <3>1, <3>5, LocalPut DEF Listed
  <2> QED
    BY <2>1, <2>2
<1> QED
  BY <1>1, <1>2, BinSame, LocalMoveApart

LEMMA EjectLocalApart == ASSUME ServedInv, DeskApart, LocalMove, EjectLocal PROVE DeskApart'
<1> PICK n : n = cmd.id
  OBVIOUS
<1>1. /\ UNCHANGED <<listing, bin>> /\ (Listed(n) => disks[n].kind # "net")
      /\ disks' = disks \/ (Listed(n) /\ disks' = Ejected(n))
  BY DEF EjectLocal, Refused, Local
<1>2. DisksCalm
  <2>1. CASE disks' = disks
    BY <1>1, <2>1, DisksSame DEF LocalMove
  <2>2. CASE Listed(n) /\ disks' = Ejected(n)
    <3>1. n \in DOMAIN disks /\ disks[n].kind # "net" /\ \A m : Listed(m)' => Listed(m)
      BY <1>1, <2>2, ListedThere DEF Listed
    <3>2. PICK r : disks' = [disks EXCEPT ![n] = r] /\ r.kind = disks[n].kind /\ r.what = disks[n].what
      BY <2>2, <3>1, EjectedPut
    <3> QED
      BY <1>1, <3>1, <3>2, LocalPut
  <2> QED
    BY <1>1, <2>1, <2>2
<1> QED
  BY <1>1, <1>2, BinSame, LocalMoveApart

LEMMA DeleteLocalApart == ASSUME ServedInv, DeskApart, LocalMove, DeleteLocal PROVE DeskApart'
<1> PICK n : n = cmd.id
  OBVIOUS
<1>1. \/ UNCHANGED <<listing, bin, disks>>
      \/ /\ Listed(n) /\ disks[n].kind # "net" /\ Drops(n)
         /\ disks' = disks \/ disks' = Ejected(n)
  BY DEF DeleteLocal, Refused, Local
<1>2. CASE UNCHANGED <<listing, bin, disks>>
  BY <1>2, DisksSame, BinSame, LocalMoveApart DEF LocalMove
<1>3. CASE Listed(n) /\ disks[n].kind # "net" /\ Drops(n) /\ (disks' = disks \/ disks' = Ejected(n))
  <2>1. n \in DOMAIN disks /\ (\A m : Listed(m)' => Listed(m)) /\ \A e \in bin' : e \in bin \/ e.id = n
    BY <1>3, ListedThere, NowServed, DropsLess
  <2>2. PICK r : disks' = [disks EXCEPT ![n] = r] /\ r.kind = disks[n].kind /\ r.what = disks[n].what
    <3>1. disks = [disks EXCEPT ![n] = disks[n]]
      BY <2>1, NowServed, NowGood
    <3> QED
      BY <1>3, <2>1, <3>1, EjectedPut
  <2>3. DisksCalm
    BY <1>3, <2>1, <2>2, LocalPut
  <2>4. BinCalm
    BY <1>3, <2>1 DEF BinCalm
  <2> QED
    BY <2>3, <2>4, LocalMoveApart
<1> QED
  BY <1>1, <1>2, <1>3

\* Only the disk that is put back joins the list.
LEMMA PutBackOne ==
    ASSUME ClientsInv, NEW e \in bin, listing' = PutBack(e) PROVE \A m : Listed(m)' => Listed(m) \/ m = e.id
<1>1. listing \in Seq(DOMAIN disks) /\ IsInjective(listing) /\ Len(listing) \in Nat
  BY NowGood DEF GoodList
<1>2. e.id \in DOMAIN disks /\ e.at \in Nat \ {0} /\ e.id \notin ToSet(listing)
  BY NowGood DEF GoodList, Listed
<1>3. PICK i \in 1..(Len(listing) + 1) : i = IF e.at > Len(listing) THEN Len(listing) + 1 ELSE e.at
  BY <1>1, <1>2
<1>4. listing' = InsertAt(listing, i, e.id)
  BY <1>3 DEF PutBack
<1>5. ToSet(InsertAt(listing, i, e.id)) = ToSet(listing) \cup {e.id}
  BY <1>1, <1>2, <1>3, InsertFacts
<1> QED
  BY <1>4, <1>5 DEF Listed

\* undo_delete_disk: the disk that comes back is invalid.
LEMMA UndoApart == ASSUME ServedInv, DeskApart, LocalMove, UndoDelete PROVE DeskApart'
<1>1. /\ UNCHANGED <<uses, backendOf, disks, opened, plan, found, drafts, job, rescan, raced>>
      /\ cmd.op = "undo" /\ cmd' = NoCmd /\ bin' \subseteq bin
      /\ listing' = listing \/ \E e \in bin : listing' = PutBack(e)
  BY DEF UndoDelete, LocalMove, Runs
<1>2. ASSUME NEW n \in Checked'
      PROVE  n \in DOMAIN disks /\ (n \in Checked \/ (disks[n].kind = "net" /\ disks[n].st = "invalid"))
  <2>1. n \in DOMAIN disks /\ Listed(n)' /\ disks[n].kind = "net" /\ disks[n].what \in RemoteDisks \ raced
    BY <1>1, <1>2 DEF Checked, DisksOf, IsNet
  <2>3. CASE Listed(n)
    BY <2>1, <2>3 DEF Checked, DisksOf, IsNet
  <2>4. CASE ~Listed(n)
    <3>1. PICK e \in bin : listing' = PutBack(e)
      BY <1>1, <2>1, <2>4 DEF Listed
    <3>2. n = e.id
      BY <2>1, <2>4, <3>1, NowServed, PutBackOne
    <3> QED
      BY <2>1, <3>2, NowApart DEF BinInvalid
  <2> QED
    BY <2>1, <2>3, <2>4
<1>4. DisksApart'
  <2>1. DisksApart
    BY NowApart
  <2>2. \A n \in Checked' : Live(n) => n \in Checked
    BY <1>2 DEF MountedAt, Live
  <2>3. \A n : (MountedAt(n)' <=> MountedAt(n)) /\ (Live(n)' <=> Live(n))
    BY <1>1 DEF MountedAt, Live
  <2> QED
    BY <1>1, <2>1, <2>2, <2>3 DEF DisksApart, SameBackend
<1>5. BinInvalid' /\ LocalOnly' /\ ItemsApart' /\ Adopting'
  BY <1>1, NowApart DEF BinInvalid, LocalOnly, ItemsApart, Adopting, SameBackend, NoCmd
<1>6. ASSUME NEW w \in Scanners PROVE TasksOK(w)' /\ StaleOK(w)'
  <2>1. (Scanning(w)' <=> Scanning(w)) /\ cmd'.op \notin Submitting
    BY <1>1 DEF Scanning, NoCmd, Submitting
  <2>2. \A n \in Checked' : Covered(n)
    BY <1>1, <1>2, <2>1 DEF Covered
  <2> QED
    BY <1>1, <2>1, <2>2, TasksGoOn, StaleStays, SameHeld
<1> QED
  BY <1>4, <1>5, <1>6 DEF DeskApart

LEMMA LocalApart == ASSUME ServedInv, DeskApart, UNCHANGED deskOnly, uses' = uses, LocalCommand PROVE DeskApart'
<1>1. LocalMove
  BY LocalIs
<1>2. CASE CommitDelete
  <2>1. UNCHANGED <<disks, listing>> /\ bin' \subseteq bin
    BY <1>2 DEF CommitDelete
  <2> QED
    BY <1>1, <2>1, DisksSame, BinSame, LocalMoveApart DEF LocalMove
<1> QED
  BY <1>1, <1>2, CreateApart, MountLocalApart, EjectLocalApart, DeleteLocalApart, UndoApart DEF LocalCommand

\* The program is started again where there are no network disks.
LEMMA RestoredKept ==
    ASSUME NEW list, NEW kept, NEW m \in DOMAIN kept, kept[m].kind \in {"net", "file", "mem"},
           kept[m].what \in RemoteDisks \cup Files \cup {"ram"}, kept[m].kind = "net" => kept[m].what \in RemoteDisks
    PROVE  Restored(list, kept)[m].what = kept[m].what
<1> PICK r : r = Restored(list, kept)
  OBVIOUS
<1> PICK rt : rt = NewDisk(kept[m].kind, kept[m].what, "unmounted")
  OBVIOUS
<1>1. GoodDisk(rt) /\ rt.what = kept[m].what
  BY NewlyMade DEF NewDisk
<1>2. r[m] \in {rt, SetInvalid(rt), Probed(rt)}
  BY DEF Restored
<1>3. SetInvalid(rt).what = rt.what /\ [rt EXCEPT !.st = "unmounted", !.target = 0].what = rt.what
  BY <1>1 DEF GoodDisk, DiskType, SetInvalid
<1> QED
  BY <1>1, <1>2, <1>3 DEF Probed

LEMMA RestartApart == ASSUME ServedInv, DeskApart, UNCHANGED deskOnly, uses' = uses, Restart PROVE DeskApart'
<1>1. /\ UNCHANGED <<backendOf, raced, plan, found, job, drafts, opened, rescan>> /\ cmd' = NoCmd
      /\ bin' = {} /\ disks' = Restored(saved, disks)
  BY DEF Restart, deskOnly, netDiskVars, scanVars, past
<1>2. drafts = <<>> /\ \A n \in DOMAIN disks : disks[n].kind # "net"
  BY NowApart DEF Restart, LocalOnly
<1>3. cmd.op # "renew"
  <2>1. cmd.op = "renew" => cmd.id \in DOMAIN drafts
    BY NowServed DEF ClientsInv, TypeOK, CmdTypes
  <2> QED
    BY <1>2, <2>1
<1>4. \A n \in DOMAIN disks : /\ disks[n].kind \in {"net", "file", "mem"}
                              /\ disks[n].what \in RemoteDisks \cup Files \cup {"ram"}
                              /\ disks[n].kind = "net" => disks[n].what \in RemoteDisks
  BY NowServed, NowGood DEF GoodDisk, DiskType
<1>5. DOMAIN disks' = DOMAIN disks
  BY <1>1 DEF Restored
<1>6. \A n \in DOMAIN disks : disks'[n].kind = disks[n].kind /\ disks'[n].what = disks[n].what
  BY <1>1, <1>4, RestoredSettled, RestoredKept
<1>7. DisksCalm
  BY <1>1, <1>2, <1>5, <1>6 DEF DisksCalm
<1>8. BinCalm
  BY <1>1 DEF BinCalm
<1> QED
  BY <1>1, <1>3, <1>7, <1>8, LocalMoveApart DEF LocalMove

(***************************************************************************)
(* The steps that add to what there is.                                    *)
(***************************************************************************)
\* A command begins when no rescan runs.
LEMMA DeskCommandApart == ASSUME ServedInv, DeskApart, uses' = uses, DeskCommand PROVE DeskApart'
<1> USE DEF hostVars, backendVars, netVars, deskOnly, netDiskVars, scanVars, past
<1>1. /\ UNCHANGED <<uses, backendOf, disks, listing, bin, opened, plan, found, raced, drafts, job>>
      /\ cmd = NoCmd /\ rescan = "off" /\ rescan' = rescan
  BY DEF DeskCommand, Check
<1>2. cmd'.op \notin {"adopt", "renew"} /\ cmd.op # "renew"
  BY DEF DeskCommand, Check, Command, Ops, NoCmd
<1>3. DisksCalm /\ BinCalm /\ OpenedCalm /\ ItemsLess
  BY <1>1, DisksSame, BinSame, OpenedSame, DraftsSameLess
<1>4. DisksApart' /\ BinInvalid' /\ LocalOnly' /\ ItemsApart' /\ Adopting'
  BY <1>1, <1>2, <1>3, DisksStayApart, BinStays, LocalStays, ItemsStayApart DEF Adopting
<1>5. ASSUME NEW w \in Scanners PROVE TasksOK(w)' /\ StaleOK(w)'
  <2>1. ~Scanning(w) /\ ~Scanning(w)'
    BY <1>1, <1>2 DEF Scanning, NoCmd
  <2> QED
    BY <1>1, <2>1, NoTasks, TasksOver
<1> QED
  BY <1>4, <1>5 DEF DeskApart

\* insert_item: no other draft and no disk is over that backend.
LEMMA AddInsertsApart == ASSUME ServedInv, DeskApart, uses' = uses, AddInserts PROVE DeskApart'
<1> PICK k, d, s : k = cmd.id /\ d = cmd.disk /\ s = job["ui"].sid
  OBVIOUS
<1>1. /\ UNCHANGED <<uses, backendOf, disks, listing, bin, opened, plan, found, raced, rescan>>
      /\ cmd.op = "add" /\ cmd' = NoCmd /\ job' = ClearJob("ui") /\ ~BackendTaken(d, 0)
      /\ drafts' = drafts \/ drafts' = [drafts EXCEPT ![k].items[d] = s]
  BY DEF AddInserts, AddsAt, AddEnds, Done, AddVars, backendVars, scanVars
<1>2. k \in DOMAIN drafts /\ d \in RemoteDisks
  BY <1>1, NowServed DEF ClientsInv, TypeOK, CmdTypes
<1>3. drafts \in Seq(DraftType) /\ DOMAIN drafts = 1..Len(drafts) /\ \A j \in DOMAIN drafts : drafts[j] \in DraftType
  BY NowServed, NowSessions
<1>4. DOMAIN drafts' = DOMAIN drafts
  BY <1>1, <1>3
<1>5. ASSUME NEW j \in DOMAIN drafts, NEW e \in RemoteDisks, drafts'[j].items[e] # 0
      PROVE  (j = k /\ e = d) \/ drafts[j].items[e] # 0
  <2>1. drafts[k].items \in [RemoteDisks -> Ids0] /\ drafts[k] \in DraftType
    BY <1>2, <1>3 DEF DraftType
  <2>2. CASE drafts' = [drafts EXCEPT ![k].items[d] = s]
    <3>1. drafts'[j] = IF j = k THEN [drafts[k] EXCEPT !.items[d] = s] ELSE drafts[j]
      BY <1>2, <1>3, <2>2
    <3>2. [drafts[k] EXCEPT !.items[d] = s].items = [drafts[k].items EXCEPT ![d] = s]
      BY <2>1 DEF DraftType
    <3> QED
      BY <1>5, <2>1, <3>1, <3>2
  <2> QED
    BY <1>1, <1>5, <2>2
<1>6. \A j \in DOMAIN drafts, e \in RemoteDisks : drafts[j].items[e] # 0 => ~SameBackend(e, d)
  BY <1>1, <1>3 DEF BackendTaken, SameBackend
<1>7. ItemsApart'
  <2>1. ASSUME NEW i \in DOMAIN drafts, NEW j \in DOMAIN drafts, NEW e \in RemoteDisks, NEW f \in RemoteDisks,
               drafts'[i].items[e] # 0, drafts'[j].items[f] # 0, SameBackend(e, f)
        PROVE  i = j /\ e = f
    <3>1. (i = k /\ e = d) \/ drafts[i].items[e] # 0
      BY <1>5, <2>1
    <3>2. (j = k /\ f = d) \/ drafts[j].items[f] # 0
      BY <1>5, <2>1
    <3>3. ItemsApart
      BY NowApart
    <3> QED
      BY <1>6, <2>1, <3>1, <3>2, <3>3 DEF SameBackend, ItemsApart
  <2> QED
    BY <1>1, <1>4, <2>1 DEF ItemsApart, SameBackend
<1>8. DisksCalm /\ BinCalm /\ OpenedCalm
  BY <1>1, DisksSame, BinSame, OpenedSame
<1>9. DisksApart' /\ BinInvalid' /\ Adopting'
  BY <1>1, <1>8, DisksStayApart, BinStays DEF Adopting, NoCmd
<1>10. LocalOnly'
  <2>1. drafts # <<>>
    BY <1>2
  <2> QED
    BY <1>1, <2>1, NowApart DEF LocalOnly
<1>11. ASSUME NEW w \in Scanners PROVE TasksOK(w)' /\ StaleOK(w)'
  <2>1. CmdCalm
    BY <1>1, CmdEnds
  <2>2. JobHeld(w)
    BY <1>1, UiHeld DEF ClearJob
  <2> QED
    BY <1>1, <1>8, <2>1, <2>2, TasksStayOK, StaleStays DEF CmdCalm
<1> QED
  BY <1>7, <1>9, <1>10, <1>11 DEF DeskApart

\* collect_network_rescan_tasks: a task for each network disk.
LEMMA TasksAre ==
    ASSUME NEW task \in Tasks
    PROVE  /\ task.id \in DisksOf(RemoteDisks) /\ task.disk = disks[task.id].what /\ task.stale = 0
           /\ task = [id |-> task.id, disk |-> disks[task.id].what, mounted |-> MountedAt(task.id), stale |-> 0]
BY DEF Tasks

LEMMA TasksFit ==
    ASSUME ServedInv, DeskApart, DisksCalm, raced' = raced, NEW w \in Scanners, plan'[w] = Tasks, found'[w] = {}, Scanning(w)'
    PROVE  TasksOK(w)' /\ StaleOK(w)'
<1>1. TaskOf(w)' = Tasks
  BY DEF TaskOf
<1>2. ASSUME NEW task \in Tasks PROVE task.disk = disks'[task.id].what
  <2>1. task.id \in DOMAIN disks
    BY TasksAre DEF DisksOf
  <2> QED
    BY <2>1, TasksAre DEF DisksCalm
<1>3. \A a, b \in Tasks : a.id = b.id => a = b
  BY TasksAre
<1>4. ASSUME NEW n \in Checked' PROVE \E task \in Tasks : task.id = n
  <2>1. n \in DisksOf(RemoteDisks)
    BY <1>4, CheckedLess DEF Checked, DisksOf
  <2>2. PICK task : task = [id |-> n, disk |-> disks[n].what, mounted |-> MountedAt(n), stale |-> 0]
    OBVIOUS
  <2>3. task \in Tasks
    BY <2>1, <2>2 DEF Tasks
  <2>4. task.id = n
    BY <2>2
  <2> QED
    BY <2>3, <2>4
<1>5. TasksOK(w)'
  BY <1>1, <1>2, <1>3, <1>4 DEF TasksOK
<1>6. StaleOK(w)'
  BY TasksAre DEF StaleOK
<1> QED
  BY <1>5, <1>6

LEMMA RescanLocalApart == ASSUME ServedInv, DeskApart, uses' = uses, RescanLocal PROVE DeskApart'
<1>1. /\ UNCHANGED <<uses, backendOf, listing, bin, opened, found, raced, drafts, job, cmd>>
      /\ rescan = "begun" /\ catalog = "rescan" /\ disks' = RescannedLocal
      /\ \/ rescan' = "resolve" /\ plan' = [plan EXCEPT !["rescan"] = Tasks]
         \/ rescan' = "off" /\ plan' = plan
  BY DEF RescanLocal, netDiskVars, past
<1>2. \A n \in DOMAIN disks : CalmDisk(n)
  <2>1. ASSUME NEW n \in DOMAIN disks PROVE CalmDisk(n)
    <3>1. \/ disks'[n] = disks[n]
          \/ disks[n].kind = "file" /\ disks'[n] \in {SetInvalid(disks[n]), Probed(disks[n])}
      BY <1>1 DEF RescannedLocal
    <3>2. GoodDisk(disks[n])
      BY NowServed, NowGood
    <3> QED
      BY <3>1, <3>2, SameDisk, InvalidCalm, ProbedCalm
  <2> QED
    BY <2>1
<1>3. DisksCalm
  BY <1>1, <1>2, MostCalm DEF RescannedLocal, Listed
<1>4. cmd.op \notin {"adopt", "renew"} /\ BinCalm /\ OpenedCalm /\ ItemsLess
  BY <1>1, AdoptingHolds, BinSame, OpenedSame, DraftsSameLess
<1>5. DisksApart' /\ BinInvalid' /\ LocalOnly' /\ ItemsApart' /\ Adopting'
  BY <1>1, <1>3, <1>4, DisksStayApart, BinStays, LocalStays, ItemsStayApart DEF Adopting
<1>6. plan \in [Scanners -> SUBSET TaskType]
  BY NowServed, NowSessions
<1>7. TasksOK("ui")' /\ StaleOK("ui")'
  <2>1. "ui" \in Scanners /\ plan'["ui"] = plan["ui"] /\ (Scanning("ui")' <=> Scanning("ui"))
    BY <1>1, <1>6 DEF Scanners, Scanning
  <2> QED
    BY <1>1, <1>3, <2>1, TasksStayOK, StaleStays, SameHeld
<1>8. TasksOK("rescan")' /\ StaleOK("rescan")'
  <2>1. "rescan" \in Scanners /\ ~Scanning("rescan")
    BY <1>1 DEF Scanners, Scanning
  <2>2. plan["rescan"] = {} /\ found'["rescan"] = {}
    BY <1>1, <2>1, NoTasks
  <2>3. CASE rescan' = "resolve" /\ plan' = [plan EXCEPT !["rescan"] = Tasks]
    <3>1. Scanning("rescan")' /\ plan'["rescan"] = Tasks
      BY <1>6, <2>1, <2>3 DEF Scanning
    <3> QED
      BY <1>1, <1>3, <2>1, <2>2, <3>1, TasksFit
  <2>4. CASE rescan' = "off" /\ plan' = plan
    BY <2>1, <2>2, <2>4, TasksOver DEF Scanning
  <2> QED
    BY <1>1, <2>3, <2>4
<1> QED
  BY <1>5, <1>7, <1>8 DEF DeskApart, Scanners

\* The disks of a submit, beside those that there are.
LEMMA SubmittedDisks ==
    ASSUME ServedInv, NEW K \in SUBSET RemoteDisks, disks' = disks \o DisksFor(K),
           listing' = listing \o [i \in 1..Cardinality(K) |-> Len(disks) + i]
    PROVE  /\ \A n \in DOMAIN disks : n \in DOMAIN disks' /\ disks'[n] = disks[n] /\ (Listed(n)' => Listed(n))
           /\ \A n \in DOMAIN disks' \ DOMAIN disks : /\ disks'[n].kind = "net" /\ disks'[n].st = "unmounted"
                                                      /\ disks'[n].what \in K
<1> PICK q, m : q = Cardinality(K) /\ m = Len(disks)
  OBVIOUS
<1> PICK D : D = DisksFor(K)
  OBVIOUS
<1>1. q \in Nat /\ D \in Seq(DiskType) /\ Len(D) = q
  BY NowServed, DisksForGood
<1>2. disks \in Seq(DiskType) /\ m \in Nat /\ DOMAIN disks = 1..m
  BY NowServed, NowGood
<1>3. DOMAIN disks' = 1..(m + q) /\ \A j \in 1..(m + q) : disks'[j] = IF j <= m THEN disks[j] ELSE D[j - m]
  BY <1>1, <1>2, GlueFacts
<1>4. IsFiniteSet(K)
  BY HostAssumption, FS_Subset DEF HostAssumption
<1>5. SetToSeq(K) \in [1..q -> K]
  BY <1>4, AnyOrder
<1>6. \A i \in 1..q : D[i].kind = "net" /\ D[i].st = "unmounted" /\ D[i].what = SetToSeq(K)[i]
  BY DEF DisksFor, NewDisk
<1>7. ASSUME NEW n \in DOMAIN disks' \ DOMAIN disks PROVE n - m \in 1..q /\ disks'[n] = D[n - m]
  <2>1. m \in Nat /\ q \in Nat /\ n \in 1..(m + q) /\ n \notin 1..m
    BY <1>1, <1>2, <1>3, <1>7
  <2>2. n - m \in 1..q /\ ~(n <= m)
    BY ONLY <2>1
  <2> QED
    BY <1>3, <2>1, <2>2
<1>8. ASSUME NEW n \in DOMAIN disks, Listed(n)' PROVE Listed(n)
  <2> PICK E : E = [i \in 1..Cardinality(K) |-> Len(disks) + i]
    OBVIOUS
  <2>m. m \in Nat /\ q \in Nat /\ n \in 1..m
    BY <1>1, <1>2
  <2>1. listing \in Seq(Nat)
    <3>1. listing \in Seq(1..m)
      BY <1>2, NowServed, NowGood DEF GoodList
    <3> QED
      BY <2>m, <3>1
  <2>2. E \in Seq(Nat) /\ Len(E) = q /\ \A i \in 1..q : E[i] = m + i
    <3>1. E = [i \in 1..q |-> m + i]
      OBVIOUS
    <3>2. \A i \in 1..q : m + i \in Nat
      BY <2>m
    <3> QED
      BY ONLY <2>m, <3>1, <3>2
  <2> PICK u \in Nat : u = Len(listing) /\ DOMAIN listing = 1..u
    BY <2>1
  <2> PICK z : z = listing \o E
    OBVIOUS
  <2>3. z \in Seq(Nat) /\ Len(z) = u + q /\ \A j \in 1..(u + q) : z[j] = IF j <= u THEN listing[j] ELSE E[j - u]
    BY <2>m, <2>1, <2>2, GlueFacts
  <2>4. listing' = z /\ DOMAIN z = 1..(u + q)
    <3>1. DOMAIN z = 1..(u + q)
      BY <2>m, <2>3
    <3> QED
      BY <3>1
  <2>5. PICK j \in 1..(u + q) : z[j] = n
    BY <1>8, <2>4 DEF Listed, ToSet
  <2>6. j <= u
    <3>1. SUFFICES ASSUME ~(j <= u) PROVE FALSE
      OBVIOUS
    <3>2. j - u \in 1..q
      BY ONLY <2>m, <2>5, <3>1
    <3>3. n = m + (j - u)
      BY <2>2, <2>3, <2>5, <3>1, <3>2
    <3> QED
      BY <2>m, <3>2, <3>3
  <2>7. j \in 1..u /\ listing[j] = n
    BY <2>3, <2>5, <2>6
  <2> QED
    BY <2>7 DEF Listed, ToSet
<1>9. \A n \in DOMAIN disks : n \in DOMAIN disks' /\ disks'[n] = disks[n]
  BY <1>1, <1>2, <1>3
<1>10. ASSUME NEW n \in DOMAIN disks' \ DOMAIN disks
       PROVE  disks'[n].kind = "net" /\ disks'[n].st = "unmounted" /\ disks'[n].what \in K
  BY <1>5, <1>6, <1>7
<1> QED
  BY <1>8, <1>9, <1>10

\* Nothing that has a session, no other disk and no other draft is over what is
\* submitted; when a rescan runs beside it the new disks are not looked at.
LEMMA SubmitApart == ASSUME ServedInv, DeskApart, uses' = uses, Submit PROVE DeskApart'
<1> PICK k, K : k = cmd.id /\ K = Keys(k)
  OBVIOUS
<1>1. /\ UNCHANGED <<backendOf, bin, opened, drafts, plan, found, job, rescan>> /\ cmd.op = "submit"
      /\ catalog = "ui" /\ todo = <<>>
  BY DEF Submit, Runs, Done, SyncFirst, hostVars, backendVars, netDiskVars, scanVars
<1>2. CASE cmd' = NoCmd /\ UNCHANGED <<disks, listing, raced>>
  <2>1. UNCHANGED restingVars
    BY <1>1, <1>2 DEF restingVars
  <2>2. CmdCalm
    BY <1>1, <1>2, CmdEnds
  <2> QED
    BY <1>1, <2>1, <2>2, NothingApart, SameHeld
<1>3. CASE /\ Submittable(k) /\ disks' = disks \o DisksFor(K)
           /\ listing' = listing \o [i \in 1..Cardinality(K) |-> Len(disks) + i]
           /\ raced' = IF rescan = "off" THEN raced ELSE raced \cup K
           /\ cmd' = Command("adopt", cmd.id, cmd.disk) /\ UNCHANGED <<catalog, todo>>
  <2>1. K \in SUBSET RemoteDisks /\ k \in DOMAIN drafts
    BY <1>1, NowServed DEF Keys, ClientsInv, TypeOK, CmdTypes
  <2>2. /\ \A n \in DOMAIN disks : n \in DOMAIN disks' /\ disks'[n] = disks[n] /\ (Listed(n)' => Listed(n))
        /\ \A n \in DOMAIN disks' \ DOMAIN disks : /\ disks'[n].kind = "net" /\ disks'[n].st = "unmounted"
                                                   /\ disks'[n].what \in K
    <3>1. disks' = disks \o DisksFor(K) /\ listing' = listing \o [i \in 1..Cardinality(K) |-> Len(disks) + i]
      BY <1>3
    <3> QED
      BY ONLY ServedInv, <2>1, <3>1, SubmittedDisks, ZenonT(60)
  <2>3. \A d \in K : /\ \A n \in DOMAIN disks : IsNet(n) => disks[n].what # d
                     /\ \A e \in RemoteDisks : opened[e] # 0 => ~SameBackend(d, e)
    BY <1>3 DEF Submittable, KeyTaken, BackendTaken, SameBackend
  <2>4. \A d \in K : opened[d] = 0
    BY <2>1, <2>3 DEF SameBackend
  <2>5. raced \subseteq raced' /\ (rescan # "off" => K \subseteq raced')
    BY <1>3
  <2>6. cmd'.op = "adopt" /\ cmd'.id = k
    BY <1>3 DEF Command
  <2>7. ASSUME NEW n \in Checked'
        PROVE  /\ n \in DOMAIN disks' /\ IF n \in DOMAIN disks THEN n \in Checked ELSE rescan = "off"
    <3>1. n \in DOMAIN disks' /\ Listed(n)' /\ disks'[n].kind = "net" /\ disks'[n].what \in RemoteDisks \ raced'
      BY <2>7 DEF Checked, DisksOf, IsNet
    <3> QED
      BY <2>2, <2>5, <3>1 DEF Checked, DisksOf, IsNet
  <2>8. \A n \in DOMAIN disks : (MountedAt(n)' <=> MountedAt(n)) /\ (Live(n)' <=> Live(n))
    BY <1>1, <2>2 DEF MountedAt, Live
  <2>9. \A n \in DOMAIN disks' \ DOMAIN disks : ~MountedAt(n)' /\ ~Live(n)'
    BY <1>1, <2>2, <2>4 DEF MountedAt, Live
  <2>10. DisksApart'
    <3>1. DisksApart
      BY NowApart
    <3>4. ASSUME NEW n \in Checked', NEW o \in Checked', n # o, Live(n)', Live(o)'
          PROVE  ~SameBackend(disks'[n].what, disks'[o].what)
      <4>1. n \in Checked /\ o \in Checked /\ Live(n) /\ Live(o) /\ disks'[n] = disks[n] /\ disks'[o] = disks[o]
        BY <2>2, <2>7, <2>8, <2>9, <3>4
      <4> QED
        BY <1>1, <3>1, <3>4, <4>1 DEF DisksApart
    <3>5. \A d, e : SameBackend(d, e)' <=> backendOf[d'].id = backendOf[e'].id
      BY <1>1 DEF SameBackend
    <3> QED
      BY <1>1, <3>4, <3>5 DEF DisksApart, SameBackend
  <2>11. BinInvalid'
    <3>1. \A e \in bin : e.id \in DOMAIN disks
      BY NowServed, NowGood DEF GoodList
    <3> QED
      BY <1>1, <2>2, <3>1, NowApart DEF BinInvalid
  <2>12. LocalOnly'
    <3>1. drafts # <<>>
      BY <2>1
    <3> QED
      BY <3>1, NowApart DEF LocalOnly
  <2>13. ItemsApart'
    BY <1>1, NowApart DEF ItemsApart, SameBackend
  <2>14. Adopting'
    <3>1. Keys(k)' = K
      BY <1>1 DEF Keys
    <3> QED
      BY <1>1, <1>3, <2>3, <2>6, <3>1 DEF Adopting, SameBackend
  <2>15. TasksOK("ui")' /\ StaleOK("ui")'
    <3>1. "ui" \in Scanners /\ ~Scanning("ui") /\ ~Scanning("ui")'
      BY <1>1, <2>6 DEF Scanning, Scanners
    <3> QED
      BY <1>1, <3>1, NoTasks, TasksOver
  <2>16. TasksOK("rescan")' /\ StaleOK("rescan")'
    <3>1. "rescan" \in Scanners /\ (Scanning("rescan")' <=> Scanning("rescan"))
      BY <1>1 DEF Scanning, Scanners
    <3>2. \A task \in TaskOf("rescan") : disks'[task.id].what = disks[task.id].what
      BY <2>2, <3>1, TaskThere
    <3>3. Scanning("rescan") => \A n \in Checked' : Covered(n)
      <4>1. Scanning("rescan") => rescan # "off"
        BY DEF Scanning
      <4> QED
        BY <1>1, <2>7, <4>1 DEF Covered, Submitting
    <3>4. cmd'.op \in Submitting => cmd.op \in Submitting
      BY <1>1 DEF Submitting
    <3> QED
      BY <1>1, <2>5, <3>1, <3>2, <3>3, <3>4, TasksGoOn, StaleStays, SameHeld
  <2> QED
    BY <2>10, <2>11, <2>12, <2>13, <2>14, <2>15, <2>16 DEF DeskApart, Scanners
<1> QED
  BY <1>1, <1>2, <1>3 DEF Submit, Done, Saves, SaveFails

LEMMA DisposedLess ==
    ASSUME ServedInv, NEW k \in DOMAIN drafts, drafts' = Disposed(k) PROVE ItemsLess /\ DOMAIN drafts' = DOMAIN drafts
<1>1. drafts \in Seq(DraftType) /\ \A j \in DOMAIN drafts : drafts[j] \in DraftType
  BY NowServed, NowSessions
<1>2. DOMAIN drafts' = DOMAIN drafts /\ drafts'[k].items = NoItems
      /\ \A j \in DOMAIN drafts : j # k => drafts'[j] = drafts[j]
  BY <1>1 DEF Disposed, DraftType
<1>3. drafts # <<>>
  OBVIOUS
<1> QED
  BY <1>2, <1>3 DEF ItemsLess, NoItems

\* The draft's sessions become those of its disks; nothing is mounted by that.
LEMMA AdoptApart == ASSUME ServedInv, DeskApart, uses' = uses, Adopt PROVE DeskApart'
<1> PICK k, K : k = cmd.id /\ K = Keys(k)
  OBVIOUS
<1>1. /\ UNCHANGED <<uses, backendOf, disks, listing, bin, found, raced, job, rescan>> /\ cmd.op = "adopt"
  BY DEF Adopt, Runs, Done, netVars, hostVars, backendVars
<1>2. k \in DOMAIN drafts /\ K \subseteq RemoteDisks
  BY <1>1, AdoptingHolds DEF Keys
<1>3. CASE cmd' = NoCmd /\ UNCHANGED <<opened, drafts, plan>>
  <2>1. UNCHANGED restingVars
    BY <1>1, <1>3 DEF restingVars
  <2>2. CmdCalm
    BY <1>1, <1>3, CmdEnds
  <2> QED
    BY <1>1, <1>3, <2>1, <2>2, NothingApart, SameHeld
<1>4. CASE /\ opened' = [d \in RemoteDisks |-> IF d \in K THEN drafts[k].items[d] ELSE opened[d]]
           /\ drafts' = Disposed(k) /\ plan' = [plan EXCEPT !["ui"] = Tasks]
           /\ cmd' = Command("renew", cmd.id, cmd.disk) /\ UNCHANGED <<catalog, todo>>
  <2>1. DisksCalm /\ BinCalm /\ ItemsLess
    BY <1>1, <1>2, <1>4, DisksSame, BinSame, DisposedLess
  <2>2. BinInvalid' /\ LocalOnly' /\ ItemsApart' /\ Adopting' /\ cmd'.op = "renew"
    BY <1>1, <1>4, <2>1, AdoptingHolds, BinStays, LocalStays, ItemsStayApart DEF Adopting, Command
  <2>3. Checked' = Checked /\ \A n : MountedAt(n)' <=> MountedAt(n)
    BY <1>1 DEF Checked, DisksOf, IsNet, Listed, MountedAt
  <2>4. ASSUME NEW n \in Checked, NEW m \in Checked, n # m, MountedAt(n), MountedAt(m)
        PROVE  ~SameBackend(disks[n].what, disks[m].what)
    BY <1>1, <2>4, NowApart DEF DisksApart, Live
  <2>6. DisksApart'
    BY <1>1, <2>2, <2>3, <2>4 DEF DisksApart, SameBackend
  <2>7. plan \in [Scanners -> SUBSET TaskType] /\ "ui" \in Scanners /\ "rescan" \in Scanners
    BY NowServed, NowSessions DEF Scanners
  <2>8. TasksOK("ui")' /\ StaleOK("ui")'
    <3>1. ~Scanning("ui") /\ Scanning("ui")' /\ plan'["ui"] = Tasks
      BY <1>1, <1>4, <2>2, <2>7 DEF Scanning
    <3>2. found'["ui"] = {}
      BY <1>1, <2>7, <3>1, NoTasks
    <3> QED
      BY <1>1, <2>1, <2>7, <3>1, <3>2, TasksFit
  <2>9. TasksOK("rescan")' /\ StaleOK("rescan")'
    <3>1. (Scanning("rescan")' <=> Scanning("rescan")) /\ plan'["rescan"] = plan["rescan"] /\ cmd.op \in Submitting
      BY <1>1, <1>4, <2>7 DEF Scanning, Submitting
    <3> QED
      BY <1>1, <2>1, <2>7, <3>1, TasksStayOK, StaleStays, SameHeld
  <2> QED
    BY <2>2, <2>6, <2>8, <2>9 DEF DeskApart, Scanners
<1> QED
  BY <1>1, <1>3, <1>4 DEF Adopt, Done, netDiskVars

(***************************************************************************)
(* A rescan at work.                                                       *)
(***************************************************************************)
\* No other task is of its disk, and no other has lost a session.
LEMMA FirstAlone ==
    ASSUME ServedInv, DeskApart, NEW w \in Scanners, NEW task \in FirstOf(plan[w])
    PROVE  /\ task \in plan[w] /\ task \in TaskType /\ task.disk = disks[task.id].what
           /\ \A s : Stale(task, s).id = task.id /\ Stale(task, s).disk = task.disk /\ Stale(task, s).stale = s
           /\ \A a \in plan[w] \ {task} : a.id # task.id /\ a.stale = 0
           /\ \A o \in found[w] : o.task.id # task.id
           /\ Idle(w) => task.stale = 0
<1>1. task \in plan[w] /\ task \in TaskOf(w) /\ \A o \in plan[w] : task.id <= o.id
  BY DEF FirstOf, TaskOf
<1>2. task \in TaskType
  BY <1>1, TaskThere
<1>3. \A s : Stale(task, s).id = task.id /\ Stale(task, s).disk = task.disk /\ Stale(task, s).stale = s
  BY <1>2 DEF Stale, TaskType
<1>4. TasksOK(w) /\ StaleOK(w)
  BY NowApart
<1>5. task.disk = disks[task.id].what
  BY <1>1, <1>4 DEF TasksOK
<1>6. ASSUME NEW a \in plan[w] \ {task} PROVE a.id # task.id /\ a.stale = 0
  <2>1. a \in TaskOf(w)
    BY <1>6 DEF TaskOf
  <2>2. a.id # task.id
    BY <1>1, <1>4, <1>6, <2>1 DEF TasksOK
  <2>3. a.id \in Nat /\ task.id \in Nat
    <3>1. DOMAIN disks = 1..Len(disks) /\ Len(disks) \in Nat
      BY NowServed, NowGood
    <3>2. a.id \in DOMAIN disks /\ task.id \in DOMAIN disks
      BY <1>1, <2>1, TaskThere
    <3> QED
      BY <3>1, <3>2
  <2>4. a \notin FirstOf(plan[w])
    BY <1>1, <1>6, <2>2, <2>3 DEF FirstOf
  <2> QED
    BY <1>4, <1>6, <2>2, <2>4 DEF StaleOK
<1>7. ASSUME NEW o \in found[w] PROVE o.task.id # task.id
  <2>1. o.task \in TaskOf(w) /\ o.task \notin plan[w]
    BY <1>4 DEF TasksOK, TaskOf
  <2> QED
    BY <1>1, <1>4, <2>1 DEF TasksOK
<1>8. Idle(w) => task.stale = 0
  BY <1>1, <1>4 DEF StaleOK, Idle
<1> QED
  BY <1>1, <1>2, <1>3, <1>5, <1>6, <1>7, <1>8

\* Only what a rescan works on changes.
scanRest == <<uses, backendOf, disks, listing, bin, opened, raced, drafts, cmd, rescan, catalog, todo>>
LEMMA ScanApart ==
    ASSUME ServedInv, DeskApart, UNCHANGED scanRest, NEW w \in Scanners, TasksOK(w)', StaleOK(w)',
           NEW P, plan' = [plan EXCEPT ![w] = P], NEW F, found' = [found EXCEPT ![w] = F],
           job' = job \/ \E j : job' = [job EXCEPT ![w] = j]
    PROVE  DeskApart'
<1> USE DEF scanRest
<1>1. plan \in [Scanners -> SUBSET TaskType] /\ found \in [Scanners -> SUBSET FoundType] /\ job \in [Threads -> JobType]
  BY NowServed, NowSessions DEF ClientsInv, NetInv, NetTypes
<1>2. DisksCalm /\ BinCalm /\ OpenedCalm /\ ItemsLess
  BY DisksSame, BinSame, OpenedSame, DraftsSameLess
<1>3. DisksApart' /\ BinInvalid' /\ LocalOnly' /\ ItemsApart'
  BY <1>2, DisksStayApart, BinStays, LocalStays, ItemsStayApart
<1>4. Adopting'
  BY <1>2, AdoptingStays, AdoptingHolds
<1>5. ASSUME NEW v \in Scanners PROVE TasksOK(v)' /\ StaleOK(v)'
  <2>1. CASE v = w
    BY <2>1
  <2>2. CASE v # w
    <3>1. plan'[v] = plan[v] /\ found'[v] = found[v] /\ job'[v] = job[v]
      BY <1>1, <2>2, UiThere
    <3>2. JobHeld(v) /\ (Scanning(v)' <=> Scanning(v))
      BY <3>1 DEF JobHeld, Scanning
    <3> QED
      BY <1>2, <3>1, <3>2, TasksStayOK, StaleStays
  <2> QED
    BY <2>1, <2>2
<1> QED
  BY <1>3, <1>4, <1>5 DEF DeskApart

\* The first task is observed, and what is known of its session may be noted.
LEMMA TakesApart ==
    ASSUME ServedInv, DeskApart, UNCHANGED scanRest, NEW w \in Scanners, Scanning(w),
           NEW task \in FirstOf(plan[w]), NEW now, now.id = task.id, now.disk = task.disk,
           NEW s, NEW source, source = "existing" => now.stale = 0, NEW P, P = plan[w] \ {task},
           plan' = [plan EXCEPT ![w] = P], NEW o, o = [task |-> now, sid |-> s, source |-> source],
           found' = [found EXCEPT ![w] = found[w] \cup {o}],
           job' = job \/ \E j : job' = [job EXCEPT ![w] = j]
    PROVE  DeskApart'
<1>1. /\ task \in plan[w] /\ task.disk = disks[task.id].what
      /\ \A a \in P : a.id # task.id /\ a.stale = 0
      /\ \A p \in found[w] : p.task.id # task.id
  BY FirstAlone
<1>2. TasksOK(w)
  BY NowApart
<1>3. plan'[w] = P /\ found'[w] = found[w] \cup {o} /\ o.task = now /\ o.source = source
  BY NowServed, NowSessions
<1>4. disks' = disks /\ raced' = raced /\ cmd' = cmd /\ (Scanning(w)' <=> Scanning(w)) /\ Checked' = Checked
  BY DEF scanRest, Scanning, Checked, DisksOf, IsNet, Listed
<1>5. TaskOf(w)' = P \cup {p.task : p \in found[w]} \cup {now}
  BY <1>3 DEF TaskOf
<1>6. \A a \in P \cup {p.task : p \in found[w]} : a \in TaskOf(w) /\ a.id # task.id
  BY <1>1 DEF TaskOf
<1>7. task \in TaskOf(w)
  BY <1>1 DEF TaskOf
<1>8. TasksOK(w)'
  <2>1. \A a \in TaskOf(w)' : a.disk = disks'[a.id].what
    BY <1>1, <1>2, <1>4, <1>5, <1>6 DEF TasksOK
  <2>2. ASSUME NEW a \in TaskOf(w)', NEW b \in TaskOf(w)', a.id = b.id PROVE a = b
    BY <1>2, <1>5, <1>6, <1>7, <2>2 DEF TasksOK
  <2>3. \A p, q \in found'[w] : p.task = q.task => p = q
    BY <1>1, <1>2, <1>3 DEF TasksOK
  <2>4. \A p \in found'[w] : p.task \notin plan'[w] /\ (p.source = "existing" => p.task.stale = 0)
    BY <1>1, <1>2, <1>3 DEF TasksOK
  <2>5. ASSUME NEW n \in Checked PROVE \/ \E a \in TaskOf(w)' : a.id = n
                                       \/ disks[n].st = "invalid" /\ cmd.op \notin Submitting
    <3>1. \A a \in TaskOf(w) : a = task \/ a \in P \cup {p.task : p \in found[w]}
      BY DEF TaskOf
    <3>2. now \in TaskOf(w)' /\ P \cup {p.task : p \in found[w]} \subseteq TaskOf(w)'
      BY <1>5
    <3>3. \/ \E a \in TaskOf(w) : a.id = n
          \/ disks[n].st = "invalid" /\ cmd.op \notin Submitting
      BY <1>2 DEF TasksOK
    <3> QED
      BY <3>1, <3>2, <3>3
  <2> QED
    BY <1>4, <2>1, <2>2, <2>3, <2>4, <2>5 DEF TasksOK
<1>9. StaleOK(w)'
  BY <1>1, <1>3 DEF StaleOK
<1> QED
  BY <1>8, <1>9, ScanApart

\* The first task has no session to keep, and one is opened for it.
LEMMA OpensApart ==
    ASSUME ServedInv, DeskApart, UNCHANGED scanRest, NEW w \in Scanners, Scanning(w),
           NEW task \in FirstOf(plan[w]), NEW s, NEW P, P = (plan[w] \ {task}) \cup {Stale(task, s)},
           plan' = [plan EXCEPT ![w] = P], found' = found, NEW j, job' = [job EXCEPT ![w] = j], j.st = "acquired"
    PROVE  DeskApart'
<1> PICK now : now = Stale(task, s)
  OBVIOUS
<1>1. /\ task \in plan[w] /\ task.disk = disks[task.id].what
      /\ \A a \in plan[w] \ {task} : a.id # task.id /\ a.stale = 0
      /\ \A p \in found[w] : p.task.id # task.id
  BY FirstAlone
<1>2. now.id = task.id /\ now.disk = task.disk
  BY FirstAlone
<1>3. TasksOK(w)
  BY NowApart
<1>4. plan'[w] = P /\ found'[w] = found[w] /\ job'[w].st = "acquired"
  BY NowServed, NowSessions, UiThere DEF ClientsInv, NetInv, NetTypes
<1>5. disks' = disks /\ raced' = raced /\ cmd' = cmd /\ (Scanning(w)' <=> Scanning(w)) /\ Checked' = Checked
  BY DEF scanRest, Scanning, Checked, DisksOf, IsNet, Listed
<1> PICK R : R = (plan[w] \ {task}) \cup {p.task : p \in found[w]}
  OBVIOUS
<1>6. TaskOf(w)' = R \cup {now}
  BY <1>4 DEF TaskOf
<1>7. \A a \in R : a \in TaskOf(w) /\ a.id # task.id
  BY <1>1 DEF TaskOf
<1>8. task \in TaskOf(w) /\ \A a \in TaskOf(w) : a = task \/ a \in R
  BY <1>1 DEF TaskOf
<1>9. TasksOK(w)'
  <2>1. \A a \in TaskOf(w)' : a.disk = disks'[a.id].what
    BY <1>1, <1>2, <1>3, <1>5, <1>6, <1>7 DEF TasksOK
  <2>2. ASSUME NEW a \in TaskOf(w)', NEW b \in TaskOf(w)', a.id = b.id PROVE a = b
    BY <1>2, <1>3, <1>6, <1>7, <1>8, <2>2 DEF TasksOK
  <2>3. \A p, q \in found'[w] : p.task = q.task => p = q
    BY <1>3, <1>4 DEF TasksOK
  <2>4. \A p \in found'[w] : p.task \notin plan'[w] /\ (p.source = "existing" => p.task.stale = 0)
    <3>1. \A p \in found[w] : p.task \notin plan[w] /\ p.task # now
      BY <1>1, <1>2, <1>3 DEF TasksOK
    <3> QED
      BY <1>3, <1>4, <3>1 DEF TasksOK
  <2>5. ASSUME NEW n \in Checked PROVE \/ \E a \in TaskOf(w)' : a.id = n
                                       \/ disks[n].st = "invalid" /\ cmd.op \notin Submitting
    <3>1. \/ \E a \in TaskOf(w) : a.id = n
          \/ disks[n].st = "invalid" /\ cmd.op \notin Submitting
      BY <1>3 DEF TasksOK
    <3> QED
      BY <1>2, <1>6, <1>8, <3>1
  <2> QED
    BY <1>5, <2>1, <2>2, <2>3, <2>4, <2>5 DEF TasksOK
<1>10. StaleOK(w)'
  <2>1. now \in FirstOf(P)
    <3>1. \A a \in plan[w] : task.id <= a.id
      BY DEF FirstOf
    <3>2. task.id <= task.id
      BY <1>1, <3>1
    <3> QED
      BY <1>2, <3>1, <3>2 DEF FirstOf
  <2> QED
    BY <1>1, <1>4, <2>1 DEF StaleOK
<1>11. found' = [found EXCEPT ![w] = found[w]]
  BY NowServed, NowSessions
<1> QED
  BY <1>9, <1>10, <1>11, ScanApart

LEMMA ObserveApart ==
    ASSUME ServedInv, DeskApart, uses' = uses, NEW w \in Scanners, Observe(w) \/ ObserveFails(w) \/ ObserveEnds(w)
    PROVE  DeskApart'
<1>1. UNCHANGED scanRest /\ Scanning(w)
  BY DEF Observe, ObserveFails, ObserveEnds, ScanVars, backendVars, netDiskVars, past, scanRest
<1>2. CASE Observe(w)
  <2>1. PICK task \in FirstOf(plan[w]) :
           \/ Observed(w, task, opened[task.disk], "existing") /\ job' = job /\ Idle(w)
           \/ /\ plan' = [plan EXCEPT ![w] = (@ \ {task}) \cup {Stale(task, opened[task.disk])}] /\ found' = found
              /\ \E c : Begins(w, c, task.disk)
    BY <1>2 DEF Observe, netVars
  <2>2. task.stale = 0 \/ ~Idle(w)
    BY FirstAlone
  <2>3. CASE Observed(w, task, opened[task.disk], "existing") /\ job' = job /\ Idle(w)
    BY <1>1, <2>2, <2>3, TakesApart DEF Observed
  <2>4. CASE /\ plan' = [plan EXCEPT ![w] = (@ \ {task}) \cup {Stale(task, opened[task.disk])}] /\ found' = found
             /\ \E c : Begins(w, c, task.disk)
    <3>1. PICK c : job' = [job EXCEPT ![w] = [IdleJob EXCEPT !.st = "acquired", !.conn = c, !.disk = task.disk]]
      BY <2>4 DEF Begins
    <3>2. [IdleJob EXCEPT !.st = "acquired", !.conn = c, !.disk = task.disk].st = "acquired"
      BY DEF IdleJob
    <3> QED
      BY <1>1, <2>4, <3>1, <3>2, OpensApart
  <2> QED
    BY <2>1, <2>3, <2>4
<1>3. CASE ObserveFails(w)
  <2>1. PICK task \in FirstOf(plan[w]) :
           \/ /\ found' = [found EXCEPT ![w] = @ \cup {[task |-> Stale(task, opened[task.disk]), sid |-> 0, source |-> "failure"]}]
              /\ plan' = [plan EXCEPT ![w] = @ \ {task}] /\ job' = job
           \/ Observed(w, task, 0, "failure") /\ job' = ClearJob(w)
    BY <1>3 DEF ObserveFails
  <2>2. Stale(task, opened[task.disk]).id = task.id /\ Stale(task, opened[task.disk]).disk = task.disk
    BY FirstAlone
  <2>3. CASE Observed(w, task, 0, "failure") /\ job' = ClearJob(w)
    BY <1>1, <2>3, TakesApart DEF Observed, ClearJob
  <2>4. CASE /\ found' = [found EXCEPT ![w] = @ \cup {[task |-> Stale(task, opened[task.disk]), sid |-> 0, source |-> "failure"]}]
             /\ plan' = [plan EXCEPT ![w] = @ \ {task}] /\ job' = job
    <3> PICK now : now = Stale(task, opened[task.disk])
      OBVIOUS
    <3> PICK o : o = [task |-> now, sid |-> 0, source |-> "failure"]
      OBVIOUS
    <3>1. found' = [found EXCEPT ![w] = found[w] \cup {o}] /\ plan' = [plan EXCEPT ![w] = plan[w] \ {task}]
      BY <2>4
    <3>2. now.id = task.id /\ now.disk = task.disk
      BY <2>2
    <3>3. job' = job /\ "failure" # "existing"
      BY <2>4
    <3> QED
      BY <1>1, <3>1, <3>2, <3>3, TakesApart, Zenon
  <2> QED
    BY <2>1, <2>3, <2>4
<1>4. CASE ObserveEnds(w)
  <2>1. PICK task \in FirstOf(plan[w]) : \E s : \E source \in {"fresh", "failure"} : Observed(w, task, s, source)
    BY <1>4 DEF ObserveEnds
  <2>2. PICK s, source : source # "existing" /\ Observed(w, task, s, source)
    BY <2>1
  <2>3. job' = ClearJob(w)
    BY <1>4 DEF ObserveEnds
  <2> QED
    BY <1>1, <2>2, <2>3, TakesApart DEF Observed, ClearJob
<1> QED
  BY <1>2, <1>3, <1>4

(***************************************************************************)
(* The commit of a rescan: of the disks over one backend it leaves one.    *)
(***************************************************************************)
\* The observations of a rescan that has observed every task.
LEMMA FoundIs ==
    ASSUME ServedInv, DeskApart, NEW w \in Scanners, Scanning(w), plan[w] = {}
    PROVE  /\ \A o \in found[w] : o.task.id \in DOMAIN disks /\ o.task.disk = disks[o.task.id].what
                                  /\ disks[o.task.id].kind = "net"
           /\ \A o \in found[w] : o.source = "existing" => o.task.stale = 0
           /\ \A o, p \in found[w] : o.task.id = p.task.id => o = p
           /\ \A n \in Checked : disks[n].st # "invalid" => \E o \in found[w] : o.task.id = n
<1>1. TasksOK(w) /\ TaskOf(w) = {o.task : o \in found[w]}
  BY NowApart DEF TaskOf
<1>2. \A o \in found[w] : o.task \in TaskOf(w)
  BY <1>1
<1>3. \A o \in found[w] : o.task.id \in DOMAIN disks /\ disks[o.task.id].kind = "net"
  BY <1>2, TaskThere
<1>4. \A o \in found[w] : o.task.disk = disks[o.task.id].what /\ (o.source = "existing" => o.task.stale = 0)
  BY <1>1, <1>2 DEF TasksOK
<1>5. ASSUME NEW o \in found[w], NEW p \in found[w], o.task.id = p.task.id PROVE o = p
  <2>1. o.task = p.task
    BY <1>1, <1>2, <1>5 DEF TasksOK
  <2> QED
    BY <1>1, <2>1 DEF TasksOK
<1>6. ASSUME NEW n \in Checked, disks[n].st # "invalid" PROVE \E o \in found[w] : o.task.id = n
  BY <1>1, <1>6 DEF TasksOK
<1> QED
  BY <1>3, <1>4, <1>5, <1>6

LEMMA AppliedIs ==
    ASSUME ServedInv, NEW F, disks' = Applied(F)
    PROVE  /\ DOMAIN disks' = DOMAIN disks
           /\ \A n \in DOMAIN disks :
                 /\ disks'[n].kind = disks[n].kind /\ disks'[n].what = disks[n].what
                 /\ n \notin Touched(F) => disks'[n] = disks[n]
                 /\ n \in Touched(F) => disks'[n].st = IF \E o \in F : o.task.id = n /\ Available(F, o)
                                                       THEN "unmounted" ELSE "invalid"
<1>1. DOMAIN disks' = DOMAIN disks
  BY DEF Applied
<1>2. ASSUME NEW n \in DOMAIN disks, n \in Touched(F)
      PROVE  /\ disks'[n].kind = disks[n].kind /\ disks'[n].what = disks[n].what
             /\ disks'[n].st = IF \E o \in F : o.task.id = n /\ Available(F, o) THEN "unmounted" ELSE "invalid"
  <2> PICK r : r = disks[n]
    OBVIOUS
  <2>1. GoodDisk(r) /\ SetUnmounted(n)[n] = [r EXCEPT !.st = "unmounted", !.target = 0]
    BY NowServed, NowGood DEF SetUnmounted
  <2>2. /\ SetUnmounted(n)[n].kind = r.kind /\ SetUnmounted(n)[n].what = r.what /\ SetUnmounted(n)[n].st = "unmounted"
        /\ SetInvalid(r).kind = r.kind /\ SetInvalid(r).what = r.what /\ SetInvalid(r).st = "invalid"
    BY <2>1 DEF SetInvalid, GoodDisk, DiskType
  <2>3. disks'[n] = IF \E o \in F : o.task.id = n /\ Available(F, o) THEN SetUnmounted(n)[n] ELSE SetInvalid(r)
    BY <1>2 DEF Applied
  <2> QED
    BY <2>2, <2>3
<1>3. \A n \in DOMAIN disks : n \notin Touched(F) => disks'[n] = disks[n]
  BY DEF Applied
<1> QED
  BY <1>1, <1>2, <1>3

\* Two candidates for one backend are not both available.
LEMMA OneAvailable ==
    ASSUME NEW F, NEW o \in F, NEW p \in F, o.task.id \in Nat, p.task.id \in Nat, o.task.id # p.task.id,
           Available(F, o), Available(F, p)
    PROVE  ~SameBackend(o.task.disk, p.task.disk)
<1> SUFFICES ASSUME SameBackend(o.task.disk, p.task.disk) PROVE FALSE
  OBVIOUS
<1>1. o.sid # 0 /\ p.sid # 0
  BY DEF Available
<1>2. {o, p} \subseteq Rivals(F, o) /\ {o, p} \subseteq Rivals(F, p)
  BY <1>1 DEF Rivals, SameBackend
<1>3. o.task.id <= p.task.id
  BY <1>2 DEF Available
<1>4. p.task.id <= o.task.id
  BY <1>2 DEF Available
<1> QED
  BY <1>3, <1>4

\* What a commit makes of a disk that is looked at.
LEMMA CommittedDisk ==
    ASSUME ServedInv, DeskApart, NEW w \in Scanners, Commit(w), NEW n \in Checked
    PROVE  Live(n)' => \E o \in found[w] : o.task.id = n /\ Available(found[w], o)
<1> PICK F : F = found[w]
  OBVIOUS
<1>1. Scanning(w) /\ plan[w] = {} /\ disks' = Applied(F)
  BY DEF Commit
<1>2. disks[n].st # "invalid" => \E o \in F : o.task.id = n
  BY <1>1, FoundIs
<1>3. n \in DOMAIN disks /\ Listed(n)
  BY CheckedIs
<1>4. /\ n \notin Touched(F) => disks'[n] = disks[n]
      /\ n \in Touched(F) => disks'[n].st = IF \E o \in F : o.task.id = n /\ Available(F, o)
                                            THEN "unmounted" ELSE "invalid"
  BY <1>1, <1>3, AppliedIs
<1>5. \A o \in F : o.task.id = n => n \in Touched(F) \/ Keeps(F, o)
  BY <1>3 DEF Touched
<1>6. ASSUME Live(n)' PROVE \E o \in F : o.task.id = n /\ Available(F, o)
  <2>1. disks'[n].st # "invalid"
    BY <1>6 DEF Live, MountedAt
  <2>2. CASE n \in Touched(F)
    BY <1>4, <2>1, <2>2
  <2>3. CASE n \notin Touched(F)
    <3>1. PICK o \in F : o.task.id = n
      BY <1>2, <1>4, <2>1, <2>3
    <3> QED
      BY <1>5, <2>3, <3>1 DEF Keeps
  <2> QED
    BY <2>2, <2>3
<1> QED
  BY <1>6

LEMMA CommitApart == ASSUME ServedInv, DeskApart, uses' = uses, NEW w \in Scanners, Commit(w) PROVE DeskApart'
<1> PICK F : F = found[w]
  OBVIOUS
<1>1. /\ UNCHANGED <<uses, backendOf, listing, bin, raced, drafts, job, plan>> /\ Scanning(w) /\ plan[w] = {}
      /\ disks' = Applied(F) /\ found' = [found EXCEPT ![w] = {}]
      /\ \/ w = "ui" /\ cmd' = NoCmd /\ rescan' = rescan
         \/ w = "rescan" /\ rescan' = "off" /\ catalog = "none" /\ cmd' = cmd
  BY DEF Commit, Done, Scanners, eventVars
<1>2. /\ DOMAIN disks' = DOMAIN disks
      /\ \A n \in DOMAIN disks : /\ disks'[n].kind = disks[n].kind /\ disks'[n].what = disks[n].what
                                 /\ n \notin Touched(F) => disks'[n] = disks[n]
  BY <1>1, AppliedIs
<1>3. Checked' = Checked
  BY <1>1, <1>2 DEF Checked, DisksOf, IsNet, Listed
<1>4. DisksApart'
  <2>1. ASSUME NEW n \in Checked, NEW m \in Checked, n # m, Live(n)', Live(m)'
        PROVE  ~SameBackend(disks[n].what, disks[m].what)
    <3>1. PICK o \in F : o.task.id = n /\ Available(F, o)
      BY <2>1, CommittedDisk
    <3>2. PICK p \in F : p.task.id = m /\ Available(F, p)
      BY <2>1, CommittedDisk
    <3>3. o.task.disk = disks[n].what /\ p.task.disk = disks[m].what
      BY <1>1, <3>1, <3>2, FoundIs
    <3>4. n \in Nat /\ m \in Nat
      BY <2>1, CheckedIs, NowServed, NowGood
    <3>5. ~SameBackend(o.task.disk, p.task.disk)
      BY <2>1, <3>1, <3>2, <3>4, OneAvailable
    <3> QED
      BY <3>3, <3>5
  <2>2. \A n \in Checked : disks'[n].what = disks[n].what
    BY <1>2, CheckedIs
  <2> QED
    BY <1>1, <1>3, <2>1, <2>2 DEF DisksApart, SameBackend
<1>5. BinInvalid'
  <2>1. \A e \in bin : e.id \in DOMAIN disks /\ e.id \notin Touched(F)
    BY NowServed, NowGood DEF GoodList, Touched
  <2> QED
    BY <1>1, <1>2, <2>1, NowApart DEF BinInvalid
<1>6. LocalOnly' /\ ItemsApart'
  BY <1>1, <1>2, NowApart DEF LocalOnly, ItemsApart, SameBackend
<1>7. Adopting'
  BY <1>1, AdoptingHolds DEF Adopting, NoCmd
<1>8. ASSUME NEW v \in Scanners PROVE TasksOK(v)' /\ StaleOK(v)'
  <2>1. found \in [Scanners -> SUBSET FoundType]
    BY NowServed, NowSessions
  <2>2. CASE v = w
    <3>1. plan'[v] = {} /\ found'[v] = {} /\ ~Scanning(v)'
      BY <1>1, <2>1, <2>2 DEF Scanning, NoCmd
    <3> QED
      BY <3>1, TasksOver
  <2>3. CASE v # w
    <3>1. plan'[v] = plan[v] /\ found'[v] = found[v] /\ (Scanning(v)' <=> Scanning(v))
      BY <1>1, <2>1, <2>3 DEF Scanning, Scanners
    <3>2. Scanning(v) => cmd.op \in Submitting
      BY <1>1, <2>3 DEF Scanning, Scanners, Submitting
    <3>3. cmd'.op \in Submitting => cmd.op \in Submitting
      BY <1>1 DEF NoCmd, Submitting
    <3>4. \A task \in TaskOf(v) : disks'[task.id].what = disks[task.id].what
      BY <1>2, TaskThere
    <3>5. Scanning(v) => \A n \in Checked' : Covered(n)
      BY <1>3, <3>2 DEF Covered
    <3> QED
      BY <1>1, <3>1, <3>3, <3>4, <3>5, TasksGoOn, StaleStays, SameHeld
  <2> QED
    BY <2>2, <2>3
<1> QED
  BY <1>4, <1>5, <1>6, <1>7, <1>8 DEF DeskApart

LEMMA NetCommandApart == ASSUME ServedInv, DeskApart, uses' = uses, NetCommand PROVE DeskApart'
<1>1. CASE MountNetwork \/ MountMisses \/ MountRefused \/ EjectNetwork \/ DeleteNetwork
  BY <1>1, MountNetworkApart, MountMissesApart, EjectNetworkApart, DeleteNetworkApart
<1>2. CASE AddStarts \/ AddOpens \/ AddFails \/ AddAbandons \/ AddInserts
  BY <1>2, AddApart, AddInsertsApart
<1>3. CASE Submit \/ Adopt
  BY <1>3, SubmitApart, AdoptApart
<1> QED
  BY <1>1, <1>2, <1>3 DEF NetCommand

LEMMA DesktopApart == ASSUME ServedInv, DeskApart, DesktopNext PROVE DeskApart'
<1>u. uses' = uses
  BY DEF DesktopNext
<1>1. CASE DeskLock \/ DeskWatched \/ StartRescan \/ RescanLock \/ (LoseFile /\ UNCHANGED deskOnly)
  BY <1>1, LocksApart
<1>2. CASE \/ \E c \in Conns : DeskHandlers(c)
           \/ DeskIo("io") \/ DeskInvalidate("io") \/ (\E w \in Scanners : ObserveOpens(w))
           \/ Beneath /\ UNCHANGED <<hostVars, catalogOnly, deskOnly>>
  BY <1>u, <1>2, HandlersApart
<1>3. CASE DeskCommand \/ DraftCommand \/ NetCommand
  BY <1>u, <1>3, DeskCommandApart, DraftCommandApart, NetCommandApart
<1>4. CASE DeskWatch \/ DeskSync \/ RescanLocal
  BY <1>u, <1>4, DeskWatchApart, DeskSyncApart, RescanLocalApart
<1>5. CASE \E w \in Scanners : Observe(w) \/ ObserveFails(w) \/ ObserveEnds(w) \/ Commit(w)
  BY <1>u, <1>5, ObserveApart, CommitApart
<1>6. CASE (LocalCommand \/ Restart) /\ UNCHANGED deskOnly
  BY <1>u, <1>6, LocalApart, RestartApart
<1> QED
  BY <1>1, <1>2, <1>3, <1>4, <1>5, <1>6 DEF DesktopNext, Rescan

LEMMA StutterApart == ASSUME ServedInv, DeskApart, UNCHANGED vars PROVE DeskApart'
<1>1. UNCHANGED restingVars /\ UNCHANGED <<job, cmd, catalog, todo, rescan, drafts>>
  BY DEF vars, netVars, hostVars, backendVars, catalogOnly, deskOnly, netDiskVars, scanVars, past, restingVars
<1> QED
  BY <1>1, CmdStays, SameHeld, NothingApart

LEMMA NextApart == ASSUME ServedInv, DeskApart, [Next]_vars PROVE DeskApart'
<1>1. CASE CliNext /\ UNCHANGED <<catalogOnly, deskOnly>>
  BY <1>1, CliApart DEF CliStep
<1>2. CASE DesktopNext /\ UNCHANGED cliOnly
  BY <1>2, DesktopApart
<1>3. CASE UNCHANGED vars
  BY <1>3, StutterApart
<1> QED
  BY <1>1, <1>2, <1>3 DEF Next

LEMMA StartsApart == ASSUME Init PROVE DeskApart
<1> PICK w \in Workloads : HostInit(w) /\ CatalogInit(w) /\ DesktopInit
  BY DEF Init
<1> USE DEF CatalogInit, DesktopInit, HostInit
<1>1. /\ w.disks \in Seq([kind : {"net", "file", "mem"}, what : RemoteDisks \cup Files \cup {"ram"}])
      /\ \A n \in DOMAIN w.disks : w.disks[n].kind = "net" => w.disks[n].what \in RemoteDisks /\ "local" \notin w.uses
      /\ ~({"local", "drafts"} \subseteq w.uses)
  BY CatalogAssumption DEF CatalogAssumption
<1> PICK kept : kept = w.disks
  OBVIOUS
<1>2. \A n \in DOMAIN kept : kept[n] \in [kind : {"net", "file", "mem"}, what : RemoteDisks \cup Files \cup {"ram"}]
  <2>1. \A R, q : q \in Seq(R) => \A i \in DOMAIN q : q[i] \in R
    OBVIOUS
  <2> QED
    BY <1>1, <2>1, Zenon
<1>3. DOMAIN disks \subseteq DOMAIN kept
  BY DEF Restored
<1>4. ASSUME NEW n \in DOMAIN disks
      PROVE  n \in DOMAIN kept /\ disks[n].kind = kept[n].kind /\ disks[n].what = kept[n].what /\ ~MountedAt(n)
  <2>1. n \in DOMAIN kept
    BY <1>3
  <2>2. /\ kept[n].kind \in {"net", "file", "mem"} /\ kept[n].what \in RemoteDisks \cup Files \cup {"ram"}
        /\ kept[n].kind = "net" => kept[n].what \in RemoteDisks
    BY <1>1, <1>2, <2>1
  <2>3. disks[n].kind = kept[n].kind /\ SettledDisk(disks[n])
    BY <2>1, <2>2, RestoredSettled
  <2>4. disks[n].what = kept[n].what
    BY <2>1, <2>2, RestoredKept
  <2> QED
    BY <2>1, <2>3, <2>4 DEF SettledDisk, MountedAt
<1>5. ASSUME NEW n \in Checked
      PROVE  n \in DOMAIN disks /\ disks[n].kind = "net" /\ disks[n].what \in RemoteDisks
  BY DEF Checked, DisksOf, IsNet
<1>6. DisksApart
  <2>1. \A n \in Checked : ~Live(n)
    BY <1>4, <1>5 DEF Live, NoItems
  <2> QED
    BY <2>1 DEF DisksApart
<1>7. BinInvalid /\ ItemsApart /\ Adopting
  BY DEF BinInvalid, ItemsApart, Adopting, NoCmd
<1>8. LocalOnly
  BY <1>1, <1>4 DEF LocalOnly
<1>9. ASSUME NEW v \in Scanners PROVE TasksOK(v) /\ StaleOK(v)
  <2>1. plan[v] = {} /\ found[v] = {} /\ ~Scanning(v)
    BY DEF Scanning, NoCmd
  <2> QED
    BY <2>1 DEF TasksOK, StaleOK, TaskOf
<1> QED
  BY <1>6, <1>7, <1>8, <1>9 DEF DeskApart

\* At every step of either program, at most one of the disks over a backend is
\* mounted or could be: every other is invalid.  No two drafts have opened one
\* backend, and no rescan under way has overlooked a disk.  This is what
\* ensure_unique_network_key and ensure_unique_network_backend at add, submit and
\* adopt, and the choice among candidates at the commit of a rescan, keep.
THEOREM ApartInvariant == Spec => []ApartInv
<1>1. Init => ApartInv
  BY StartsServed, StartsApart DEF ApartInv
<1>2. ApartInv /\ [Next]_vars => ApartInv'
  <2> SUFFICES ASSUME ServedInv, DeskApart, [Next]_vars PROVE ServedInv' /\ DeskApart'
    BY DEF ApartInv
  <2> QED
    BY NextServes, NextApart
<1> QED
  BY <1>1, <1>2, PTL DEF Spec

LEMMA DesksApart == ASSUME ServedInv, DeskApart PROVE OneDiskPerBackend
<1>1. DisksApart
  BY NowApart
<1>2. DeskBackends
  BY <1>1 DEF DisksApart, DeskBackends, Checked, Live, SameBackend
<1> QED
  BY <1>2 DEF OneDiskPerBackend, ServedInv, CliServing

\* No two mounted disks are over one backend: in the command line by the check
\* of mount, in the desktop by those of add and submit and by the commit of a
\* rescan.  Only a disk submitted while a rescan was under way (raced) is excepted.
THEOREM BackendsHaveOneDisk == Spec => []OneDiskPerBackend
<1>1. ApartInv => OneDiskPerBackend
  BY DesksApart DEF ApartInv
<1> QED
  BY <1>1, ApartInvariant, PTL

=============================================================================
