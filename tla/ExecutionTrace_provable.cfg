SPECIFICATION TraceSpec
CONSTANTS
  MaxU64 = 3
  LowPrices = 2
  Prices = {1, 2}
  Times = {1, 2}
  Volumes = {1, 2}
  FieldOrder = 5
  MaxLeaves = 4
CHECK_DEADLOCK FALSE
INVARIANTS ConstraintsHold ColumnsMatchEntries LookupsBalance
