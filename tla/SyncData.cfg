CONSTANTS
    a = a
    t1 = t1
    t2 = t2
    Tab = {a}
    Torrent = {t1, t2}
    Field = {"name", "progress"}
    Value = {1, 2}
    Tag = {"g"}
    Tracker = {"k"}
    Snapshot <- Snapshots
    MaxId = 4
    MaxLosses = 3
    MaxSessions = 3
SPECIFICATION FairSpec
INVARIANTS TypeOK InStep OneFullUpdate
PROPERTIES CatchesUp
CHECK_DEADLOCK FALSE
