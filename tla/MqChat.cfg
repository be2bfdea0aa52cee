SPECIFICATION Spec
CONSTANTS
    c1 = c1
    c2 = c2
    n1 = n1
    n2 = n2
    NoOwner = NoOwner
    Clients <- TwoClients
    Names <- TwoNames
    QueueMax = 2
    ClientsAllocated = 1
    MaxLines = 4
    MaxDeaths = 1
INVARIANTS
    SendersInOrder
    RegisteredOnce
PROPERTIES
    OrderedBroadcast
CHECK_DEADLOCK FALSE
