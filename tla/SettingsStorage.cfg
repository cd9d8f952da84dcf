CONSTANTS
    Key = {k1, k2}
    Value = {v1, v2}
    NoValue = NoValue
    Parts <- PartsDef
    MaxFailures = 2
    k1 = k1
    k2 = k2
    v1 = v1
    v2 = v2
SPECIFICATION FairSpec
INVARIANTS StorageOK CleanIsSaved
PROPERTIES ImplementsDurable ChangesAreSaved
