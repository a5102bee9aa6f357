SPECIFICATION ProverSpec
CONSTANTS
  LogLanes = 1
  InstancesPerRow = 8
  BytesLogSize = 3
  Height = 1
  LogBlowup = 1
  MaxRows = 3
  MaxResting = 1
  LatestExchange = 1
INVARIANTS ProofsVerify PanicsOnlyOnTables ClaimsAreRecorded
CHECK_DEADLOCK FALSE
