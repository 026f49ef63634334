SPECIFICATION Spec
CONSTANTS
  Mint = m1
  Handlers = {h1, h2}
  NoHandler = NoHandler
  Recoverers = {r1}
  TTL = 7
  RefreshAfter = 1
  MaxMissed = 1
  BuyTime = 1
  LoopTime = 1
  SellTime = 1
  ExitTTL = 3
  RecoverTime = 2
INVARIANTS KeyOutlivesHandler ExitKeyOutlivesSale
PROPERTY IsMutex
