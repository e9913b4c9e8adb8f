SPECIFICATION LiveSpec
CONSTANTS
    a = a  b = b
    Writes = {1, 2}
    Blocks = {a, b}
    Fragments <- MCFragments
    Slots = 2
    AckBatchMaxRanges = 2
    QueueDepth = 1
    Faults = {}
    MaxFaults = 1
    MaxCreates = 1
    Removals = {"remove"}
    Blank = Blank  None = None
INVARIANT RemovalKeepsSucceeded
CHECK_DEADLOCK FALSE
