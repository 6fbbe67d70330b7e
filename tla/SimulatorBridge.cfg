CONSTANTS
    a = a
    c = c
    Runs <- MCRuns
    Simulates <- MCSimulates
    Prepares <- MCPrepares
    MaxSessions = 1
    MaxConcurrent = 1
    MaxQueueSize = 1
    MaxStops = 2
SPECIFICATION BridgeFairSpec
INVARIANTS
    BridgeInv
    NoStrays
PROPERTIES
    NobodyWaitsForever
CHECK_DEADLOCK FALSE
