SPECIFICATION FairSpec
CONSTANTS
  p1 = p1  p2 = p2  p3 = p3  c1 = c1  c2 = c2
  Worker = Worker  Nobody = Nobody  NoTrade = NoTrade
  Pairs <- TwoPairs  Ids = {1,2}  Clients <- TwoClients
  Requests = {"pause", "reload_config", "forceenter", "forceexit"}
  MaxOpenTrades = 1  InitialState = "RUNNING"  PositionAdjustment = TRUE
INVARIANT OvershootBounded
PROPERTIES PausedBecomesQuiet ReloadHappens WorkerGoesOn RequestsAnswered
