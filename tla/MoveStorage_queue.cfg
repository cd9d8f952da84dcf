CONSTANTS
    Torrent = {t1, t2}
    Place = {p1, p2}
    Temp = "temp"
    Magnet = {}
    TempToggles = 0
    MaxChecks = 0
    MaxRenames = 0
    MaxTriggers = 1
    MaxHandles = 1
    MaxFailures = 1
    t1 = t1
    t2 = t2
    t3 = t3
    p1 = p1
    p2 = p2
    p3 = p3
SPECIFICATION FairSpec
INVARIANTS QueueHolds KeptUntilMoved
PROPERTIES RemovedTorrentsLeave
CHECK_DEADLOCK FALSE
