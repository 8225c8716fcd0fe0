SPECIFICATION LiveSpec
CONSTANTS
  Unparkers = {u1, u2}
  Owner = owner
PROPERTIES
  UnparkWakes
CHECK_DEADLOCK FALSE
