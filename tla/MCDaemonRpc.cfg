SPECIFICATION FairSpec
CONSTANTS
    t1 = t1
    main = main
    None = None
    Threads <- MCThreads
    Ids <- MCIds
    CallNumbers = 2
    MaxFailures = 1
INVARIANTS
    TypeOK
    LockExact
    ResultsMatch
    ReplyIsComing
PROPERTIES
    RepairedUnlessInterrupted
    
    CallsReturn
CHECK_DEADLOCK FALSE
