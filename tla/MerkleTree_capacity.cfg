SPECIFICATION MerkleSpec
CONSTANTS
  Side = "Buy"
  MaxU64 = 3
  LowPrices = 2
  Prices = {1, 2}
  Times = {1, 2}
  Volumes = {1, 2}
  MaxLeaves = 5
  Height = 2
CHECK_DEADLOCK FALSE
INVARIANT FinalRootIsRoot
