CONSTANTS
    NQ = 2
    K = 2
    R = 3
    NProbe = 2
    NThreads = 2
    Inf = 9
    MaxCodes = 0
    Filtered = {4}
    ListVids <- MCListVids
    Probes <- MCProbes
    PQDist <- MCPQDist
    ExactDist <- MCExactDist
    Vid2Docid <- MCVid2Docid
    Conds <- MCCondsNoRank
SPECIFICATION Spec
PROPERTY SearchRefines
CHECK_DEADLOCK FALSE
