CONSTANTS
    Torrent = {t1}
    SkipChecking = {t1}
    MaxAlerts = 2
    MaxJobs = 3
    MaxRequests = 2
    t1 = t1
    t2 = t2
SPECIFICATION Spec
INVARIANTS BackedUp
