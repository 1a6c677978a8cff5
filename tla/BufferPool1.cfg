CONSTANTS
    w1 = w1
    w2 = w2
    f1 = f1
    f2 = f2
    b1 = b1
    b2 = b2
    Workers = {w1}
    Fibers = {f1, f2}
    WorkerOf <- OneWorker
    Evictor = Evictor
    Idle = Idle
    NumPids = 2
    InitAlloc = 2
    Bids = {b1}
    NoBid = NoBid
    OwnerOf <- OneOwner
    Modes = {"S", "X", "A"}
    Batch = 1
    FreeTarget = 1
    MaxOps = 3
    MaxVersion = 1
    VersionLimit = 1
SPECIFICATION Spec
INVARIANTS
    TypeOK
    FixedPageIsResident
    UnfixFindsLock
    NoLostWrite
    EvictingHasOwner
 
CHECK_DEADLOCK FALSE
