SPECIFICATION Spec
CONSTANTS
  Timeframe = 2
  Minutes = 8
  p1 = p1
  p2 = p2
  Pairs <- TwoPairs
  Sides <- BothSides
  Configs <- EachProtection
  Outcomes <- StopOrWin
  MaxTime = 4
  MaxTrades = 2
  MaxEvents = 1
PROPERTIES DemandsHold NoReentry StopsAfterLosses
SYMMETRY Symmetric
CHECK_DEADLOCK FALSE
