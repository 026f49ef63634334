SPECIFICATION Spec
CONSTANTS
  HoursPerDay = 3
  DayStart = 1
  Callers = {c1, c2}
  Days = 2
  MaxLoss = 1
  MaxTrades = 1
  MaxResets = 1
INVARIANTS FailClosed AlertIsClaimed
PROPERTY OneOpening
SYMMETRY CallerSymmetry
