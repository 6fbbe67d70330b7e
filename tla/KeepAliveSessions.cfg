CONSTANTS
    a = a
    b = b
    c = c
    Runs <- MCRuns
    MaxSessions = 2
SPECIFICATION KAFairSpec
INVARIANTS
    KAInv
    ResourcesOwned
PROPERTIES
    EvictsOldestWhenFull
    CallsAnswered
    EndedChildrenExit
CHECK_DEADLOCK FALSE
