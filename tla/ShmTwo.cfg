SPECIFICATION Spec
CONSTANTS
    c1 = c1
    c2 = c2
    Server = server
    NoLine = NoLine
    Clients <- TwoClients
    CLIENT_MAX = 3
    Lines <- Commands
    MaxLines = 1
    MaxDeaths = 1
SYMMETRY ClientSymmetry
INVARIANTS
    TypeOK
    SemAccounting
    LockUntilFirstJoin
    CountedOncePerMessage
    HaltedOnlyByDeaths
CHECK_DEADLOCK FALSE
