SPECIFICATION BothSpec
CONSTANTS
    MaxNodes = 3
    MaxConns = 2
    MaxTuples = 2
    WireCap = 1
    Setups <- MCSetups
    MaxWorkers = 2
    MaxSockets = 2
    RequestSize = 2
    StripeSize = 4
    UsableBytes = 8
    SSDs = 2
    ReqUnits = 2
    UpCap = 1
    DownCap = 2
    WorkerGap = 8
    MaxAhead = 6
    RemoteSetups <- MCRemoteSetups
INVARIANTS BuffersAddUp OutstandingIsExact Delivered
    PayloadIsRight ScanIsComplete EnsuresHold
PROPERTY BothEnd
CHECK_DEADLOCK FALSE
