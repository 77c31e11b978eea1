SPECIFICATION Spec
CONSTANTS
    x1 = x1  x2 = x2  x3 = x3  w0 = w0  w1 = w1  n1 = n1  n2 = n2
    Xfers = {x1, x2, x3}
    Workers = {w0}
    Worker0 = w0
    Nics = {n1}
    None = None
    Home <- OnNode0
    TotalChunks <- TwoOneNone
    CandNics <- EveryNic
    NoRoute = {}
    MaxHandle = 2
    QueueCap = 1
    NumQps = 2
    PeerQps = 1
    MaxOutstandingPerQp = 1
    MaxSendWr = 2
    MaxFaults = 0
    ReleasePolicy = "finished"
INVARIANTS
    TypeOK
    SuccessMeansDelivered
    HandlesUnique
    NoDanglingContext
    FlowControl
    CapacityAccounted
    QueuedOnce
PROPERTY DeliverySpec
CHECK_DEADLOCK FALSE
