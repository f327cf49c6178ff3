\* A refresh that hides the next one.
SPECIFICATION Spec
CONSTANTS
  p1 = p1
  p2 = p2
  Pairs = {p1}
  Whitelists <- Alone
  Start = 10
  MaxTime = 15
  Limit = 4
  Slack = 1
  MaxRetries = 1
  ResetAt = 12
  MaxTrouble = 1
INVARIANT RefreshedIsCached
CHECK_DEADLOCK FALSE
