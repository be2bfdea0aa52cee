SPECIFICATION Spec
CONSTANTS
    thread_max = 1
    MaxRequests = 4
    NULL = NULL
    Junk = Junk
PROPERTIES
    IgnoredOnlyWhenTooMany
CHECK_DEADLOCK FALSE
