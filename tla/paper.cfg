SPECIFICATION Spec
CONSTANTS
  CooldownBars = 1
  MaxTradesPerDay = 2
  GateDrawdown = 5
  Engines <- TwoEngines
  MaxBars = 8
  MaxBeside = 2
  BarsPerDay = 7
  MaxPositions = 3
  MaxTopUps = 1
  MaxFaults = 1
  InitialCapital = 60
  Quantity = 3
  Fee = 1
  TopUpAmount = 20
  Pnls <- WinOrLose
  HoldingBars = 1
  MaxDailyDrawdown = 5
  MaxTotalDrawdown = 8
INVARIANTS BookedOnce HoldsOpenRow TotalsAgree StopsAtLoss EquityAgrees
CHECK_DEADLOCK FALSE
