CONSTANTS
  MaxCalls = 2
  MaxTxs = 3
  MaxOrders = 2
  Dests = {"chain"}
  Shares = 1
  Other = 0
SPECIFICATION Spec
INVARIANTS WithdrawInv EachRedeemIsComposedOnce OutcomesAreReal
PROPERTIES BusyEnds
