SPECIFICATION FairSpec
CONSTANTS
    c1 = c1
    s1 = s1
    Header = Header
    None = None
    Torn = Torn
    Clients <- MCClients
    Scripts <- MCScripts
    ChannelSize = 1
    MaxVersion = 1
    MaxRequests = 2
    MaxPeriodic = 1
INVARIANTS
    TypeOK
    ToldIsWritten
    NobodyOutlivesServer
    ShutdownNotStuck
PROPERTIES
    SeenInOrder
    Announced
    ShutdownEnds
CHECK_DEADLOCK FALSE
