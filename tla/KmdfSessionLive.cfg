\* One session with a disk, a slot and another command: everything ends.
SPECIFICATION FairSpec
CONSTANTS
    f1 = f1  f2 = f2
    s1 = s1  e1 = e1  e2 = e2  k1 = k1  k2 = k2
    None = None
    Files = {f1}
    SlotRequests = {s1}
    EventRequests = {}
    SyncRequests = {k1, k2}
    Command <- MCCommand
    After <- MCCreateFirst
    PoolLimit = 2
    SyncPoolLimit = 1
    AllocFails = FALSE
    MaxHeartbeats = 1
INVARIANT IndInv
PROPERTIES  CleanupFinishes 
CHECK_DEADLOCK FALSE
