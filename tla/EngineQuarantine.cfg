SPECIFICATION FairSpec
CONSTANTS
    x1 = x1  x2 = x2  x3 = x3  w0 = w0  w1 = w1  n1 = n1  n2 = n2
    Xfers = {x1, x2}
    Workers = {w0, w1}
    Worker0 = w0
    Nics = {n1, n2}
    None = None
    Home <- OnNode1
    TotalChunks <- TwoOne
    CandNics <- LocalNic
    NoRoute = {}
    MaxHandle = 2
    QueueCap = 1
    NumQps = 1
    PeerQps = 1
    MaxOutstandingPerQp = 1
    MaxSendWr = 1
    MaxFaults = 1
    ReleasePolicy = "never"
PROPERTY SubmittedFinishes
CHECK_DEADLOCK FALSE
