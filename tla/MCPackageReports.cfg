SPECIFICATION Spec
CONSTANTS
    Seeded = 2
    Synced = 1
    Chosen <- MCChosen
    None = None
    MaxEvents = 3
INVARIANT
    BitcoindReports
CHECK_DEADLOCK FALSE
