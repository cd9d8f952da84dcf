CONSTANTS
    Torrent = {t1, t2}
    Place = {p1, p2}
    Temp = "temp"
    Magnet = {t1}
    TempToggles = 0
    MaxChecks = 0
    MaxRenames = 0
    MaxTriggers = 1
    MaxHandles = 2
    MaxFailures = 0
    t1 = t1
    t2 = t2
    t3 = t3
    p1 = p1
    p2 = p2
    p3 = p3
SPECIFICATION Spec
INVARIANTS QueueIsAlwaysServed
CHECK_DEADLOCK FALSE
