SPECIFICATION FairSpec
CONSTANTS
  p1 = p1  p2 = p2
  Pairs <- OnePair
  Listed <- OnePairYoung
  Start = 4
  Stop = 5
  Full = 3
  Limit = 4
  Publishers = {"worker"}
  MaxEvents = 1
PROPERTIES HasCopy
CHECK_DEADLOCK FALSE
