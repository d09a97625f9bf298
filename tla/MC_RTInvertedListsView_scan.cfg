CONSTANTS
    NoEntry = NoEntry
    Garbage <- NoEntry
    Vids <- MCVids
    InitCap = 2
    MaxCompactions = 2
    MaxScans = 2
SPECIFICATION Spec
INVARIANT ScanReadsWritten
CHECK_DEADLOCK FALSE
