CONSTANTS
    p1 = p1
    p2 = p2
    p3 = p3
    NoPrep = NoPrep
    Preps <- MCThree
    Own <- MCTwo
    PrepareJobMax = 1
    MaxWire = 1
SPECIFICATION PrepFairSpec
INVARIANTS
    PrepInv
    OutcomeIsOwn
PROPERTIES
    AbandonedNeverConnects
    PrepSettlesWhileKept
CHECK_DEADLOCK FALSE
