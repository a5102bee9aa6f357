SPECIFICATION Spec
CONSTANTS
  MaxU64 = 3
  LowPrices = 2
  Prices = {1, 2}
  Times = {1, 2}
  Volumes = {0, 1, 2, 3}
  FieldOrder = 2
  MaxLeaves = 4
CHECK_DEADLOCK FALSE
INVARIANTS TypeOK TreesHold Uncrossed LocalsAgree StateAgrees
PROPERTIES RefusesStaleTimes TradesNeverFail EngineSpec CallsReturn
