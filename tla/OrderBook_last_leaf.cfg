SPECIFICATION OpenSpec
CONSTANTS
  MaxU64 = 3
  LowPrices = 2
  Prices = {2, 3}
  Times = {1, 2}
  Volumes = {1, 2}
  FieldOrder = 2
  MaxLeaves = 4
CHECK_DEADLOCK FALSE
INVARIANT LastLeafNeverMatched
