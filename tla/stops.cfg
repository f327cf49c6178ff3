SPECIFICATION Spec
CONSTANTS
  Prices = {20, 30, 40}
  Percents = {10, 40}
  Setups <- Each
  MaxFills = 2
  MaxTicks = 3
  MaxReloads = 1
INVARIANT TrailingFollows
PROPERTIES NeverDown NoEscape ExchangeFollows
