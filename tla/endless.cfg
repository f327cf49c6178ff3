\* A pair that is not asked for any more.
SPECIFICATION FairSpec
CONSTANTS
  p1 = p1
  p2 = p2
  Pairs = {p1, p2}
  Whitelists <- Leaving
  Start = 10
  MaxTime = 13
  Limit = 4
  Slack = 1
  MaxRetries = 1
  ResetAt = 12
  MaxTrouble = 0
PROPERTY RemovedIsLetGo
CHECK_DEADLOCK FALSE
