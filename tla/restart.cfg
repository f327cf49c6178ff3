SPECIFICATION Spec
CONSTANTS
  MaxOrders = 3
  Stake = 2
  MinAmount = 1
  PlacedAs = {"open", "closed"}
  Missing = {}
  StoplossOnExchange = FALSE
  PositionAdjustment = FALSE
  AdjustOrderPrice = FALSE
  ManualReload = FALSE
  ExitTimeoutCount = 0
  MaxFaults = 1
INVARIANT RestartLeavesNoEmptyTrade
CHECK_DEADLOCK FALSE
