SPECIFICATION FairConn
CONSTANTS
  Cooldown = 60
  Ceiling = 30
  MaxPanics = 1
INVARIANT BackoffGrows
PROPERTY Stops
CHECK_DEADLOCK FALSE
