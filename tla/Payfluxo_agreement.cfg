CONSTANTS
    t1 = t1
    t2 = t2
    p1 = p1
    p2 = p2
    Torrent = {}
    Peer = {p1}
    Tolerance = 2
    Recovery = 2
    MaxBlocks = 3
    MaxCoins = 2
    MaxInFlight = 3
    MaxFailures = 1
SPECIFICATION Spec
INVARIANTS AgreesWithDaemon
