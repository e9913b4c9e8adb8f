SPECIFICATION Spec
CONSTANTS
    Threads = {"shell", "reaper", "io", "ui", "rescan"}
    RemoteDisks = {"x", "y"}
    Files = {"f"}
    IoChunks = 2
    MaxConns = 2
    MaxSessions = 2
    MaxNotices = 1
    MaxGrants = 2
    MaxFaults = 1
    Targets = {0, 1}
    MaxMemories = 2
    MaxDisks = 2
    MaxDrafts = 1
    Workloads <- MCWorkloads
INVARIANTS  SessionsOwned MountedIsServed  WaiterHasReleaser 
CHECK_DEADLOCK FALSE
