SPECIFICATION Spec
CONSTANTS
  Timeframe = 2
  Minutes = 100
  p1 = p1
  p2 = p2
  Pairs <- TwoPairs
  FirstRow <- FromStart
  LastRow <- ToEnd
  Candles = 2
  MaxAdjust = 1
  Prices = {1, 2}
  MaxAmount = 2
  Setups <- Detailed
PROPERTY NoEntryInLastCandle
CHECK_DEADLOCK FALSE
