SPECIFICATION HSpec
CONSTANTS
  Workers = {w1, w2}
  Mints = {m1}
  Recovery = Recovery
  None = None
  MaxOpen = 1
  MaxTrades = 1
  MaxLoss = 1
  Faults = {"crash", "midnight"}
  MaxFaults = 1
INVARIANTS OneHandlerPerMint OneSellerPerMint SlotAccounting QuotaOvershootBounded LateDispatchNeverBuys
SYMMETRY WorkerSymmetry
