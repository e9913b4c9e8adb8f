SPECIFICATION LiveSpec
CONSTANTS
    a = a  b = b
    Writes = {1, 2}
    Blocks = {a, b}
    Fragments <- MCFragments
    Slots = 2
    AckBatchMaxRanges = 2
    QueueDepth = 1
    Faults = {"reset", "media", "remove", "create", "broken"}
    MaxFaults = 1
    MaxCreates = 2
    Removals = {"remove", "detach", "removeAll", "close"}
    Blank = Blank  None = None
INVARIANTS ReadInv MediaHoldsOnlySucceeded FinalAgreesWithWindows ReadSeesSucceeded
 
CHECK_DEADLOCK FALSE
