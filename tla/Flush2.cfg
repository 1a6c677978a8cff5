SPECIFICATION Spec
CONSTANTS
    MaxNodes = 2
    MaxConns = 1
    MaxTuples = 2
    WireCap = 1
    Setups <- MCFlush
INVARIANT FlushLeavesNothing
CHECK_DEADLOCK FALSE
