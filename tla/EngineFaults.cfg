SPECIFICATION FairSpec
CONSTANTS
    x1 = x1  x2 = x2  x3 = x3  w0 = w0  w1 = w1  n1 = n1  n2 = n2
    Xfers = {x1, x2}
    Workers = {w0}
    Worker0 = w0
    Nics = {n1, n2}
    None = None
    Home <- OnNode0
    TotalChunks <- TwoOne
    CandNics <- X1OnN1
    NoRoute = {}
    MaxHandle = 2
    QueueCap = 1
    NumQps = 1
    PeerQps = 1
    MaxOutstandingPerQp = 3
    MaxSendWr = 2
    MaxFaults = 2
    ReleasePolicy = "never"
INVARIANTS
    FailureHasCause
PROPERTIES
    SubmittedFinishes
    DeliverySpec
CHECK_DEADLOCK FALSE
