SPECIFICATION FairSpec
CONSTANTS
    p1 = p1  p2 = p2  p3 = p3
    Size = 3
    Producers = {p1, p2, p3}
    Work <- ThreeClients
    Lap = FALSE
INVARIANTS
    TypeOK
    SlotsExclusive
PROPERTIES
    MailboxSpec
    EveryHandleArrives
CHECK_DEADLOCK FALSE
