\* Finding: when the quantizer assigns a vector to no list (-1), Add gives the
\* following vectors' codes to the preceding vids.
CONSTANTS
    x0 = x0
    x1 = x1
    x2 = x2
    c0 = c0
    c1 = c1
    c2 = c2
    NList = 2
    Vals <- MCValsIgnored
    Codes <- MCCodesIgnored
    AssignOf <- MCAssignIgnored
    EncodeOf <- MCEncodeIgnored
    MaxVecs = 3
    BatchMax = 4
    DrainMax = 1
    MaxUpdates = 0
    MaxAddFailures = 0
    CompactThreshold = 1
SPECIFICATION Spec
INVARIANT VectorFindable
