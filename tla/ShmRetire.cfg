SPECIFICATION Spec
CONSTANTS
    c1 = c1
    c2 = c2
    Server = server
    NoLine = NoLine
    Clients <- TwoClients
    CLIENT_MAX = 3
    Lines <- Texts
    MaxLines = 1
    MaxDeaths = 0
PROPERTIES
    RetiredOnlyWhenAllRead
CHECK_DEADLOCK FALSE
