----------------------------- MODULE MCClients -----------------------------
(* The workloads of the run: two remote disks, with and without a backend  *)
(* in common, two targets, one file; at most one notice or one fault.      *)
EXTENDS Clients

Backends(i, j, r) == [d \in RemoteDisks |-> [id |-> IF d = "x" THEN i ELSE j, ro |-> r]]
Own    == Backends(1, 2, FALSE)
Shared == Backends(1, 1, TRUE)
Work(u, ds, b, n, f) == [uses |-> u, disks |-> ds, backends |-> b, notices |-> n, faults |-> f]
Disk(k, d) == [kind |-> k, what |-> d]
Both == <<Disk("net", "x"), Disk("net", "y")>>

Cli(u, b, n, f) == Work({"cli"} \cup u, <<>>, b, n, f)
CliWorkloads ==
    {Cli({"network", "io"}, Own, 1, 0), Cli({"network", "io", "link"}, Own, 0, 1), Cli({"network"}, Shared, 0, 0),
     Cli({"memory"}, Own, 0, 1)}

Desk(u, ds, b, n, f) == Work({"desktop", "mount"} \cup u, ds, b, n, f)
LocalWorkloads ==
    {Desk({"local", "delete", "undo"}, <<>>, Own, 0, 0),
     Desk({"local", "rescan", "eject"}, <<>>, Own, 0, 1),
     Desk({"delete", "eject"}, <<Disk("file", "f"), Disk("mem", "ram")>>, Own, 0, 1),
     Work({"desktop", "local", "delete", "undo"}, <<>>, Own, 0, 1)}
NetWorkloads ==
    {Desk({"drafts"}, <<>>, Own, 1, 0), Desk({"drafts", "link"}, <<>>, Own, 0, 1),
     Desk({"drafts", "delete", "undo"}, <<>>, Own, 0, 0),
     Desk({"rescan", "drafts"}, <<Disk("net", "x")>>, Backends(1, 1, FALSE), 0, 0),
     Desk({"rescan", "io", "link"}, <<Disk("net", "x")>>, Own, 0, 1),
     Desk({"rescan", "eject", "io"}, Both, Shared, 1, 0), Desk({"rescan", "eject"}, Both, Shared, 0, 1),
     Desk({"rescan", "eject"}, Both, Backends(1, 1, FALSE), 0, 0),
     Desk({"rescan", "delete"}, <<Disk("net", "x"), Disk("net", "x")>>, Shared, 0, 0)}
MCWorkloads == CliWorkloads \cup LocalWorkloads \cup NetWorkloads
=============================================================================
