CONSTANTS
    r1 = r1
    r2 = r2
    r3 = r3
    r4 = r4
    r5 = r5
    Requests <- MCRequests
    Signalled <- MCSignalled
    MaxConcurrent = 2
    MaxQueueSize = 2
SPECIFICATION FairSpec
INVARIANTS
    IInv
PROPERTIES
    GrantsInOrder
    ImplementsSlotPool
    WaitersAnswered
