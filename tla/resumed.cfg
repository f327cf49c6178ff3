SPECIFICATION Spec
CONSTANTS
  p1 = p1  p2 = p2  p3 = p3  c1 = c1  c2 = c2
  Worker = Worker  Nobody = Nobody  NoTrade = NoTrade
  Pairs <- TwoPairs  Ids = {1}  Clients <- OneClient
  Requests = {"pause"}
  MaxOpenTrades = 1  InitialState = "RUNNING"  PositionAdjustment = FALSE
INVARIANTS StaysHalted
