\* Table run: schemas with duplicates, single and batch adds, updates, deletes, one restart.
CONSTANTS
    k1 = k1
    k2 = k2
    kEmpty = kEmpty
    v1 = v1
    v2 = v2
    fId = fId
    fAttr = fAttr
    FieldNames <- MCFieldNames
    IdField = fId
    Keys <- MCKeys
    NoKey = kEmpty
    Vals <- MCVals
    MaxDocs = 3
    MaxBatch = 2
    MaxCrashes = 1
SPECIFICATION Spec
INVARIANT KeyMapSound
CHECK_DEADLOCK FALSE
