\* One thread that dirties block 1 and reads the others for ever.
SPECIFICATION FairSpec
CONSTANTS
    t1 = t1  t2 = t2
    None = None  Done = Done  Failed = Failed
    Threads = {t1}
    Blocks = {1, 2, 3}
    Cells = {1}
    Value0 = 0
    Calls <- MCScanCalls
    FifoCapacity = 1
    LruCapacity = 1
    TempMaxFiles = 1
    Faults = {}
    MaxFaults = 0
    MayDrop = FALSE
PROPERTIES DirtyIsSent
CHECK_DEADLOCK FALSE
