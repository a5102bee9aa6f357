SPECIFICATION ProverSpec
CONSTANTS
  LogLanes = 1
  InstancesPerRow = 8
  BytesLogSize = 3
  Height = 1
  LogBlowup = 1
  MaxRows = 3
  MaxResting = 1
  LatestExchange = 0
INVARIANT PoseidonPads
CHECK_DEADLOCK FALSE
