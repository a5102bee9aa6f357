SPECIFICATION Spec
CONSTANTS
  MaxU64 = 3
  Side = "Buy"
  Prices = {1, 3}
  Times = {1, 2, 3}
  Volumes = {1, 3}
  MaxLeaves = 5
INVARIANTS
  TypeOK
  LinkedList
  SentinelsIntact
  HeadIsBest
PROPERTIES
  DeadLeavesFrozen
  QueueSpec
CHECK_DEADLOCK FALSE
