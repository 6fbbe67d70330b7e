CONSTANTS
    A = A
    B = B
    T = T
    o1 = o1
    o2 = o2
    s0 = s0
    s1 = s1
    None = None
    Rows = Rows
    Ops <- MCOps
    Live <- MCLive
    Traces <- MCTraces
    Snaps <- MCSnaps
    First = s0
    Simulated <- MCSimulated
SYMMETRY MCSymmetry
SPECIFICATION DSSpec
INVARIANTS
    DSInv
    SupersededStartsEnd
    NewestNavigationWins
CHECK_DEADLOCK FALSE
