\* Two reads, the event slot, removal, session close and re-creation.
SPECIFICATION Spec
CONSTANTS
    r1 = r1  r2 = r2  w1 = w1  w2 = w2
    rs1 = rs1  ws1 = ws1  ws2 = ws2  es1 = es1
    c1 = c1  c2 = c2
    None = None
    Reads = {r1, r2}
    Writes = {}
    ReadSlots = {rs1}
    WriteSlots = {}
    EventSlots = {es1}
    Cpus = {c1, c2}
    Bytes <- MCBytes
    Capacity <- MCCapacitySame
    SectorSize = 1
    HeaderSize = 1
    MaxUlong = 7
    Controls = {"remove", "removeAll", "close", "create"}
    MaxControls = 2
    MaxRanges = 1
SYMMETRY MCSymmetry
INVARIANTS QueueInv  PairingInProgress IssuedInArrivalOrder
CHECK_DEADLOCK FALSE
