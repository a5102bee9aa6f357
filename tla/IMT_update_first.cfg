SPECIFICATION OpenSpec
CONSTANTS
  MaxU64 = 3
  Side = "Buy"
  Prices = {1, 2}
  Times = {1, 2}
  Volumes = {1, 2}
  MaxLeaves = 4
INVARIANT FirstLeafNeverUpdated
CHECK_DEADLOCK FALSE
