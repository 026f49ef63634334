SPECIFICATION Spec
CONSTANTS
  Timeout = 1
  N = 1
  MaxPolls = 2
  MaxRounds = 1
  MaxLost = 1
INVARIANT TrueWasExecuted
CHECK_DEADLOCK FALSE
