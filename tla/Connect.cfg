SPECIFICATION FairSpec
CONSTANTS
    c1 = c1  c2 = c2
    Clients = {c1, c2}
    None = None
    Topologies <- NamesAlike
    ClientQps = 2
    ServerQps = 3
    MaxConnects = 2
    MaxFaults = 1
INVARIANTS
    TypeOK
    Agreement
    QpsOwned
PROPERTIES
    PassiveFollowsActive
    ConnectReturns
    StopReturns
CHECK_DEADLOCK FALSE
