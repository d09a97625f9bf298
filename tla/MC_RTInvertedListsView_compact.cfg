CONSTANTS
    NoEntry = NoEntry
    Garbage <- NoEntry
    Vids <- MCVids
    InitCap = 2
    MaxCompactions = 1
    MaxScans = 2
SPECIFICATION Spec
INVARIANT ScanIsSnapshot
CHECK_DEADLOCK FALSE
