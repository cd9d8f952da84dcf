CONSTANTS
    Torrent = {t1}
    SkipChecking = {}
    MaxAlerts = 2
    MaxJobs = 3
    MaxRequests = 2
    t1 = t1
    t2 = t2
SPECIFICATION FairSpec
INVARIANTS TypeOK ChangesWillBeSaved DeletedStayDeleted BackedUp ExitSaves
PROPERTIES WaitingEnds
