SPECIFICATION Spec
CONSTANTS
    t1 = t1  t2 = t2
    Threads = {t1, t2}
    NumNics = 2
    Paired = {1}
    Ranges <- TwoRanges
    Buffers <- ThreeBuffers
    NoKey = NoKey
    MaxRegisters = 2
    MaxPublishes = 2
    MaxQueries = 2
    MaxFaults = 1
SYMMETRY ThreadSymmetry
INVARIANTS
    TypeOK
    AllOrNothing
    PublishedOpen
    LookupFindsOwnRkey
    QueryNeverStuck
PROPERTY QueryIsSnapshot
CHECK_DEADLOCK FALSE
