SPECIFICATION Spec
CONSTANTS
  MaxOrders = 3
  Stake = 2
  MinAmount = 1
  PlacedAs = {"open", "closed"}
  Missing = {}
  StoplossOnExchange = FALSE
  PositionAdjustment = TRUE
  AdjustOrderPrice = TRUE
  ManualReload = FALSE
  ExitTimeoutCount = 0
  MaxFaults = 0
PROPERTY ReplacementSellsRemaining
CHECK_DEADLOCK FALSE
