\* Two writes, two slots of different shapes, a reset or a cancel.
SPECIFICATION Spec
CONSTANTS
    r1 = r1  r2 = r2  w1 = w1  w2 = w2
    rs1 = rs1  ws1 = ws1  ws2 = ws2  es1 = es1
    c1 = c1  c2 = c2
    None = None
    Reads = {}
    Writes = {w1, w2}
    ReadSlots = {}
    WriteSlots = {ws1, ws2}
    EventSlots = {}
    Cpus = {c1, c2}
    Bytes <- MCBytes
    Capacity <- MCCapacityMixed
    SectorSize = 1
    HeaderSize = 1
    MaxUlong = 7
    Controls = {"reset", "cancel"}
    MaxControls = 1
    MaxRanges = 1
SYMMETRY MCSymmetry
INVARIANTS ListsInv SuccessMeansEveryFragmentAcked IssuedReachesApp OneShape CountsMatchLists
PROPERTY FreedStaysFreed
CHECK_DEADLOCK FALSE
