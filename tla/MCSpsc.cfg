SPECIFICATION LiveSpec
CONSTANTS
  Capacity = 3
  MaxPushes = 8
INVARIANTS
  InOrder
  DrainedFirst
  FreedEmpty
PROPERTIES
  StorageFreed
CHECK_DEADLOCK FALSE
