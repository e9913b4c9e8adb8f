\* A disk creation in flight while its session is closed.
SPECIFICATION Spec
CONSTANTS
    f1 = f1  f2 = f2
    s1 = s1  e1 = e1  e2 = e2  k1 = k1  k2 = k2
    None = None
    Files = {f1, f2}
    SlotRequests = {}
    EventRequests = {}
    SyncRequests = {k1}
    Command <- MCCommand
    After <- MCAnyOrder
    PoolLimit = 1
    SyncPoolLimit = 1
    AllocFails = FALSE
    MaxHeartbeats = 1
INVARIANT NoSessionNoDisk
CHECK_DEADLOCK FALSE
