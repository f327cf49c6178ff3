SPECIFICATION Spec
CONSTANTS
  MaxOrders = 3
  Stake = 2
  MinAmount = 1
  PlacedAs = {"open", "closed"}
  Missing = {}
  StoplossOnExchange = FALSE
  PositionAdjustment = FALSE
  AdjustOrderPrice = FALSE
  ManualReload = TRUE
  ExitTimeoutCount = 0
  MaxFaults = 0
INVARIANT ClosedTradeHoldsNothing
CHECK_DEADLOCK FALSE
