SPECIFICATION MerkleSpec
CONSTANTS
  Side = "Buy"
  MaxU64 = 3
  LowPrices = 2
  Prices = {1, 2}
  Times = {1, 2}
  Volumes = {1, 3}
  MaxLeaves = 5
  Height = 3
CHECK_DEADLOCK FALSE
INVARIANTS LevelsTypeOK RawIsReference ProofVerifies
PROPERTIES ProofsReplay
