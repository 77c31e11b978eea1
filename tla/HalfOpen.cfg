SPECIFICATION FairSpec
CONSTANTS
    c1 = c1  c2 = c2
    Clients = {c1}
    None = None
    Topologies <- OnePairEach
    ClientQps = 1
    ServerQps = 1
    MaxConnects = 1
    MaxFaults = 1
INVARIANT ConnectedPairsLive
CHECK_DEADLOCK FALSE
