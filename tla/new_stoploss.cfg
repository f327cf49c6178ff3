SPECIFICATION Spec
CONSTANTS
  Prices = {20, 30, 40}
  Percents = {10, 40}
  Setups <- PlainOnly
  MaxFills = 2
  MaxTicks = 2
  MaxReloads = 1
PROPERTY NewStoplossApplied
