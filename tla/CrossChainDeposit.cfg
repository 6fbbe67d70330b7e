CONSTANTS
    e1 = e1
    e2 = e2
    e3 = e3
    None = None
    Execs <- MCExecs
    Prior = 2
    Amount = 2
    MaxSpent = 1
    MaxReceived = 1
    Impatient = FALSE
SPECIFICATION CDSpec
INVARIANTS
    CDInv
    PriorFundsStay
    NeverBridgesTwice
    SettledStaysRetryable
PROPERTIES
    BroadcastIsAnswered
CHECK_DEADLOCK FALSE
