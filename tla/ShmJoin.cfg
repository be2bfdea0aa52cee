SPECIFICATION FairSpec
CONSTANTS
    c1 = c1
    c2 = c2
    Server = server
    NoLine = NoLine
    Clients <- TwoClients
    CLIENT_MAX = 2
    Lines <- JustStop
    MaxLines = 1
    MaxDeaths = 1
PROPERTIES
    JoinCompletes
CHECK_DEADLOCK FALSE
