\* Progress of a fragmented write with a live App.
SPECIFICATION FairSpec
CONSTANTS
    r1 = r1  r2 = r2  w1 = w1  w2 = w2
    rs1 = rs1  ws1 = ws1  ws2 = ws2  es1 = es1
    c1 = c1  c2 = c2
    None = None
    Reads = {}
    Writes = {w1}
    ReadSlots = {}
    WriteSlots = {ws1, ws2}
    EventSlots = {}
    Cpus = {c1, c2}
    Bytes <- MCBytes
    Capacity <- MCCapacitySame
    SectorSize = 1
    HeaderSize = 1
    MaxUlong = 7
    Controls = {"cancel"}
    MaxControls = 1
    MaxRanges = 2

PROPERTY QueuedIsCompleted
CHECK_DEADLOCK FALSE
