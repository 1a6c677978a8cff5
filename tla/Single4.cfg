CONSTANTS
    c1 = c1
    c2 = c2
    c3 = c3
    c4 = c4
    Clients = {c1, c2, c3, c4}
    Evictor = evictor
    TotalIoFibers = 4
    NumPages = 4
    OnDisk = {1,2}
    NumFrames = 4
    FreeTarget = 1
    EvictBatch = 2
    MaxFibers = 8
    MaxOps = 5
    Keys = {1, 2, 3, 4}
    Values = {"u", "v"}
    NumSlots = 4
    MaxDist = 4
    EmptyKey = none
SYMMETRY ClientSymmetry
SPECIFICATION BothSpec
INVARIANTS CountsAddUp NoWriteLost ParkedIsWoken TableIsAMap
CHECK_DEADLOCK FALSE
