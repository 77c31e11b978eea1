SPECIFICATION Spec
CONSTANTS
    MaxHosts = 3
    MaxLength = 4
    SgeLimit = 4
    Nics = {0, 1}
    NumQps = 2
    Handles = {1, 3}
    NicRange = 2
    QpRange = 2
    HandleRange = 4
    ChunkRange = 4
INVARIANTS
    TransferComplete
    WrIdNamesPoster
PROPERTY ChunksDisjoint
CHECK_DEADLOCK FALSE
