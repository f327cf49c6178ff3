SPECIFICATION Spec
CONSTANTS
  p1 = p1  p2 = p2  p3 = p3  c1 = c1  c2 = c2
  Worker = Worker  Nobody = Nobody  NoTrade = NoTrade
  Pairs <- TwoPairs  Ids = {1, 2}  Clients <- OneClient
  Requests = {"forceenter"}
  MaxOpenTrades = 2  InitialState = "RUNNING"  PositionAdjustment = FALSE
INVARIANTS OnePerPair
