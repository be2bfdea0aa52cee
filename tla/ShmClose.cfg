SPECIFICATION FairSpec
CONSTANTS
    c1 = c1
    c2 = c2
    Server = server
    NoLine = NoLine
    Clients <- TwoClients
    CLIENT_MAX = 3
    Lines <- JustStop
    MaxLines = 1
    MaxDeaths = 0
PROPERTIES
    CloseStopsClients
CHECK_DEADLOCK FALSE
