SPECIFICATION FairSpec
CONSTANTS
    c1 = c1
    c2 = c2
    n1 = n1
    n2 = n2
    NoOwner = NoOwner
    Clients <- TwoClients
    Names <- TwoNames
    QueueMax = 1
    ClientsAllocated = 1
    MaxLines = 3
    MaxDeaths = 1
PROPERTIES
    HeldUpOnlyMutually
    DeliveredToAll
    StopReachesMembers
CHECK_DEADLOCK FALSE
