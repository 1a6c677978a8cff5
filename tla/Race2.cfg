CONSTANTS
    w1 = w1
    w2 = w2
    f1 = f1
    f2 = f2
    b1 = b1
    b2 = b2
    Workers = {w1, w2}
    Fibers = {f1, f2}
    WorkerOf <- TwoWorkers
    Evictor = Evictor
    Idle = Idle
    NumPids = 2
    InitAlloc = 3
    Bids = {b1}
    NoBid = NoBid
    OwnerOf <- TwoOwners
    Modes = {"X"}
    Batch = 1
    FreeTarget = 1
    MaxOps = 3
    MaxVersion = 4
    VersionLimit = 10
SPECIFICATION Spec
INVARIANTS
    UnfixFindsLock
CHECK_DEADLOCK FALSE
