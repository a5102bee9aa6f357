SPECIFICATION Spec
CONSTANTS
  MaxU64 = 3
  Side = "Sell"
  Prices = {1, 2, 3}
  Times = {1, 2}
  Volumes = {1, 3}
  MaxLeaves = 5
INVARIANTS
  LinkedList
  SentinelsIntact
  HeadIsBest
PROPERTIES
  QueueSpec
CHECK_DEADLOCK FALSE
