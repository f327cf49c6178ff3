SPECIFICATION Spec
CONSTANTS
  MaxOrders = 3
  Stake = 2
  MinAmount = 1
  PlacedAs = {"open", "closed"}
  Missing = {"canceled"}
  StoplossOnExchange = FALSE
  PositionAdjustment = FALSE
  AdjustOrderPrice = FALSE
  ManualReload = FALSE
  ExitTimeoutCount = 0
  MaxFaults = 0
INVARIANT DeletedTradeHoldsNothing
CHECK_DEADLOCK FALSE
