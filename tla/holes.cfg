\* Candles made up or cut short, and kept.
SPECIFICATION Spec
CONSTANTS
  p1 = p1
  p2 = p2
  Pairs = {p1}
  Whitelists <- Alone
  Start = 10
  MaxTime = 16
  Limit = 4
  Slack = 1
  MaxRetries = 2
  ResetAt = 12
  MaxTrouble = 1
INVARIANT NoHoles
CHECK_DEADLOCK FALSE
