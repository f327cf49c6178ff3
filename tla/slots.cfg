SPECIFICATION Spec
CONSTANTS
  p1 = p1  p2 = p2  p3 = p3  c1 = c1  c2 = c2
  Worker = Worker  Nobody = Nobody  NoTrade = NoTrade
  Pairs <- ThreePairs  Ids = {1, 2}  Clients <- OneClient
  Requests = {"start", "stop", "pause", "reload_config", "forceexit", "cancel_open_order", "delete", "reload_trade"}
  MaxOpenTrades = 2  InitialState = "none"  PositionAdjustment = FALSE
INVARIANTS  WithinLimit OnePerPair StartsUpFirst
PROPERTIES KeepsSlots
