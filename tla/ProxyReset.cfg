SPECIFICATION Spec
CONSTANTS
    NumTransfers = 2
    Concurrent = 2
    Lens <- ThreeAndOne
    NumGpus = 2
    NumNics = 2
    SourceGpu = 1
    Peers <- TwoPeers
    NicsOf <- OneNicEach
    AffineNics = {1, 2}
    MaxProxyNics = 0
    BufferSize = 2
    RingCapacity = 1
    MaxOutstanding = 1
    Alpha = 1
    MaxActivePxn = 2
    MaxFaults = 0
INVARIANT RangesInUseDisjoint
CHECK_DEADLOCK FALSE
