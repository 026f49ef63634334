SPECIFICATION FairSpec
CONSTANTS
  Workers = {w1}
  Mints = {m1}
  Recovery = Recovery
  None = None
  MaxOpen = 1
  MaxTrades = 2
  MaxLoss = 1
  Faults = {"crash", "error", "again", "rpc", "reset", "midnight"}
  MaxFaults = 1
PROPERTIES SalesAreExclusive BuysAreOrders LockFreed Liquidated
