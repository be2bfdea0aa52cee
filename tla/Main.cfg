SPECIFICATION FairSpec
CONSTANTS
    MaxEntries = 4
    Listing <- Tree
    File = "file"
    Home = "long"
    screen_height = 4
    MaxDrift = 20
    MaxSize = 6
    Negatives <- Array
    Base = 4
    arr_size = 2
    MaxFiles = 4
    MaxCommands = 3
    PipeMax = 1
    MaxOutput = 2
    MaxRuns = 3
    MaxSends = 3
    MaxProcesses = 2
    TestClients = {"c1", "c2"}
    RawClients = {"r1"}
    Infos <- Requests
    FdMax = 2
    RawMax = 1
    MaxUnread = 1
INVARIANTS
    PhonebookSound
    PaintsListed
    PanelsKept
    MatricesRight
    BytesSound
    OwnFaultsOnly
    ParentsOutlive
    AcceptedGetsAnswer
    AnswersSound
PROPERTIES
    PromptReturns
    OneChildPrints
    ReceivedOrCutOff
    RequestsEnd
CHECK_DEADLOCK FALSE
