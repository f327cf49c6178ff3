SPECIFICATION FairSpec
CONSTANTS
  MaxOrders = 3
  Stake = 2
  MinAmount = 1
  PlacedAs = {"open", "closed"}
  Missing = {}
  StoplossOnExchange = TRUE
  PositionAdjustment = FALSE
  AdjustOrderPrice = TRUE
  ManualReload = FALSE
  ExitTimeoutCount = 0
  MaxFaults = 1
INVARIANT SingleEntryOrder
PROPERTY HandlerEnds
PROPERTY OrderReconciled
CHECK_DEADLOCK FALSE
