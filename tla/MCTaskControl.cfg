SPECIFICATION MCSpec
CONSTANTS
  MaxGeneration = 5
INVARIANTS
  ExclusiveDrive
  SingleTerminal
  CancelWins
  LeaseIsCurrent
CHECK_DEADLOCK FALSE
