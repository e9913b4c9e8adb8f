\* Two sessions, two event slots and a disk creation against watchdog and cleanup.
SPECIFICATION Spec
CONSTANTS
    f1 = f1  f2 = f2
    s1 = s1  e1 = e1  e2 = e2  k1 = k1  k2 = k2
    None = None
    Files = {f1, f2}
    SlotRequests = {}
    EventRequests = {e1, e2}
    SyncRequests = {k1}
    Command <- MCCommand
    After <- MCAnyOrder
    PoolLimit = 2
    SyncPoolLimit = 1
    AllocFails = TRUE
    MaxHeartbeats = 1
SYMMETRY MCSymmetry
INVARIANTS HandleOutlivesUse  ClosedMeansReturned CompletedOnce EventSlotReserved 
CHECK_DEADLOCK FALSE
