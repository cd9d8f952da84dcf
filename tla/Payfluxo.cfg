CONSTANTS
    t1 = t1
    t2 = t2
    p1 = p1
    p2 = p2
    Torrent = {t1}
    Peer = {p1}
    Tolerance = 1
    Recovery = 1
    MaxBlocks = 2
    MaxCoins = 2
    MaxInFlight = 1
    MaxFailures = 1
SPECIFICATION FairSpec
INVARIANTS AnswersFindTheirTorrent TypeOK BansAreOwed
PROPERTIES PaidRunsNeedLogin AcceptedIntentionsRun
