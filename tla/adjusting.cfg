SPECIFICATION Spec
CONSTANTS
  MaxOrders = 3
  Stake = 2
  MinAmount = 1
  PlacedAs = {"open", "closed", "canceled", "expired"}
  Missing = {"canceled"}
  StoplossOnExchange = TRUE
  PositionAdjustment = TRUE
  AdjustOrderPrice = FALSE
  ManualReload = TRUE
  ExitTimeoutCount = 1
  MaxFaults = 1
INVARIANT KnownOrders
INVARIANT NoEmptyTrade
CHECK_DEADLOCK FALSE
