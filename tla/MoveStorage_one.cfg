CONSTANTS
    Torrent = {t1}
    Place = {p1, p2}
    Temp = "temp"
    Magnet = {t1}
    TempToggles = 1
    MaxChecks = 1
    MaxRenames = 1
    MaxTriggers = 2
    MaxHandles = 2
    MaxFailures = 0
    t1 = t1
    t2 = t2
    t3 = t3
    p1 = p1
    p2 = p2
    p3 = p3
SPECIFICATION Spec
INVARIANTS QueueHolds IdleIsSettled MovesAreShown
CHECK_DEADLOCK FALSE
