SPECIFICATION FairSpec
CONSTANTS
    thread_max = 3
    MaxRequests = 5
    NULL = NULL
    Junk = Junk
INVARIANTS
    ListSound
    ThreadsKeepInfo
PROPERTIES
    AcceptedAnswered
CHECK_DEADLOCK FALSE
