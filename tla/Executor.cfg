SPECIFICATION FairSpec
CONSTANTS
  Timeout = 2
  N = 2
  MaxPolls = 2
  MaxRounds = 2
  MaxLost = 1
INVARIANTS BuysBounded SellTriedHard EarliestGoodWins NoFalseTimeout
PROPERTIES IsOrder Returns
CHECK_DEADLOCK FALSE
