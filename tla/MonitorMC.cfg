SPECIFICATION FairSpec
CONSTANTS
  GraceSeconds = 1
  MinHold = 2
  MaxHold = 3
  PanicLoss = 4
  StopLoss = 3
  TakeProfit = 3
  MomentumDrop = 3
  GraceSL = 2
  GraceTP = 2
  GraceTrailDrop = 1
  ConfirmSL = 2
  Profits <- MCProfits
  TotalLoss <- MCTotalLoss
  Stale = Stale
  ChanCap = 2
  MaxTime = 5
INVARIANT WickProof
PROPERTIES HoldBounded Exits RugSells
CHECK_DEADLOCK FALSE
