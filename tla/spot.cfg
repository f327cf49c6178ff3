SPECIFICATION Spec
CONSTANTS
  MaxOrders = 4
  Stake = 2
  MinAmount = 2
  PlacedAs = {"open", "closed"}
  Missing = {}
  StoplossOnExchange = FALSE
  PositionAdjustment = FALSE
  AdjustOrderPrice = FALSE
  ManualReload = FALSE
  ExitTimeoutCount = 1
  MaxFaults = 1
INVARIANT TypeOK
INVARIANT OpenTradeBalances
INVARIANT ClosedTradeHoldsNothing
INVARIANT DeletedTradeHoldsNothing
PROPERTY FillsNeverForgotten
CHECK_DEADLOCK FALSE
