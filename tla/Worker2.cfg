CONSTANTS
    f1 = f1
    f2 = f2
    Fibers = {f1, f2}
    WorkerOf <- MCWorkerOf
    Evictor = Evictor
    NumWorkers = 2
    PageCount = 4
    RefillTarget = 2
    LowWatermark = 1
    LocalCap = 3
    FlushThreshold = 2
    FreeTarget = 2
    Batch = 2
    WordLimit = 32
    MaxBudget = 1
    MaxOps = 4
    IoFibers = {e0, e1, e2, Evictor}
    BatchSize = 2
    MaxIos = 4
    None = None

SPECIFICATION BothSpec

INVARIANTS
    CountersAddUp
    WaitersAreParked
    ReadyOnce
    CountsAreExact
    ParkedForItsIo
    NothingLeftBehind

CHECK_DEADLOCK FALSE
