CONSTANTS
    r1 = r1
    r2 = r2
    r3 = r3
    r4 = r4
    i1 = i1
    i2 = i2
    i3 = i3
    p1 = p1
    p2 = p2
    User = User
    NoRows = NoRows
    NoCache = NoCache
    Runs <- MCRuns
    Ids <- MCIds
    IdOf <- MCIdOf
    Persists <- MCPersists
    IdDecoded <- MCIdDecoded
    Decoded <- MCDecoded
    MaxKept = 1
    MaxTries = 2
    MaxActs = 1
    Scopes <- MCScopes
SPECIFICATION Spec
INVARIANTS
    StoresAgree
    HistoryIsBounded
    RichRowsStay
PROPERTIES
    PrunesOldest
CHECK_DEADLOCK FALSE
