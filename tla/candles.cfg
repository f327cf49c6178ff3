\* The candles of two pairs that are asked for in turn, with one connection lost or reset.
SPECIFICATION Spec
CONSTANTS
  p1 = p1
  p2 = p2
  Pairs = {p1, p2}
  Whitelists <- Leaving
  Start = 10
  MaxTime = 13
  Limit = 4
  Slack = 1
  MaxRetries = 1
  ResetAt = 12
  MaxTrouble = 1
INVARIANTS OnlyFinished OneWatcher
CHECK_DEADLOCK FALSE
