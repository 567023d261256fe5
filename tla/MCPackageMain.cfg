SPECIFICATION FairSpec
CONSTANTS
    Seeded = 2
    Synced = 1
    Chosen <- MCChosen
    None = None
    MaxEvents = 3
INVARIANTS
    TypeOK
    RequestKept
    SyncToldOnce
    FulcrumReports
PROPERTIES
    
    FulcrumRebuilds
CHECK_DEADLOCK FALSE
