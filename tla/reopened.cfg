SPECIFICATION Spec
CONSTANTS
  MaxOrders = 3
  Stake = 2
  MinAmount = 1
  PlacedAs = {"open", "closed"}
  Missing = {}
  StoplossOnExchange = FALSE
  PositionAdjustment = TRUE
  AdjustOrderPrice = FALSE
  ManualReload = FALSE
  ExitTimeoutCount = 0
  MaxFaults = 0
PROPERTY ClosedTradeStaysClosed
CHECK_DEADLOCK FALSE
