CONSTANTS
    NumLegs = 2
    NumOrders = 2
    Prior = 1
    Amount = 1
    MaxDeposits = 2
    MaxToggles = 1
SPECIFICATION StepFairSpec
INVARIANTS
    StepInv
    OneOrderPerLeg
PROPERTIES
    DeliveredKeepsStep
    OpenIsAnswered
CHECK_DEADLOCK FALSE
