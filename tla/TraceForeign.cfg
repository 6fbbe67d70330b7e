CONSTANTS
    r1 = r1
    r2 = r2
    r3 = r3
    NoRows = NoRows
    NoResult = NoResult
    Runs <- MCRuns
    Decodes <- MCDecodes
    Raw <- MCRaw
    Rendered <- MCRendered
    MaxCache = 2
    MaxAsked = 3
SPECIFICATION Spec
INVARIANTS
    TraceIsOwn
CHECK_DEADLOCK FALSE
