\* Two threads, two blocks of two cells, one frame per queue, one temp file.
SPECIFICATION FairSpec
CONSTANTS
    t1 = t1  t2 = t2
    None = None  Done = Done  Failed = Failed
    Threads = {t1, t2}
    Blocks = {1, 2}
    Cells = {1, 2}
    Value0 = 0
    Calls <- MCCalls
    FifoCapacity = 1
    LruCapacity = 1
    TempMaxFiles = 1
    Faults = {"rightRead", "rightWrite", "tempRead", "tempWrite", "tempLost", "tempDelete"}
    MaxFaults = 1
    MayDrop = TRUE
INVARIANTS IndInv QueuesHoldResident TempUserFindsBlock TempFilesWithinLimit CleanIsOnRight WaitersCounted
PROPERTIES ImplementsStore SomeCallReturns
CHECK_DEADLOCK FALSE
