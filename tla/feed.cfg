SPECIFICATION Spec
CONSTANTS
  p1 = p1  p2 = p2
  Pairs <- OnePair
  Listed <- OnePairOld
  Start = 3
  Stop = 5
  Full = 3
  Limit = 4
  Publishers = {"worker", "api"}
  MaxEvents = 1
INVARIANTS NoHoles HolesAskedFor
PROPERTIES InOrder
CHECK_DEADLOCK FALSE
