\* Core run: two buckets, three vids, two overwrites, one AddKeys failure; safety and liveness.
CONSTANTS
    x0 = x0
    x1 = x1
    x2 = x2
    c0 = c0
    c1 = c1
    c2 = c2
    NList = 2
    Vals <- MCVals
    Codes <- MCCodes
    AssignOf <- MCAssign
    EncodeOf <- MCEncode
    MaxVecs = 3
    BatchMax = 2
    DrainMax = 1
    MaxUpdates = 2
    MaxAddFailures = 1
    CompactThreshold = 1
SPECIFICATION Spec
INVARIANT TypeOK
INVARIANT IndexedWithinStore
INVARIANT VectorFindable
PROPERTY EveryVectorIndexed
PROPERTY DeletedPurged
