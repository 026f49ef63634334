SPECIFICATION Spec
CONSTANTS
  Writers = {s1, s2, s3}
  Sellers = {s1, s2, s3}
  Payloads = {x, y}
  Losing = {x}
  MaxFaults = 2
  Interval = 2
  MaxCall = 1
  MaxTime = 4
INVARIANTS StoredOnce RecordsDrift LosersCool
PROPERTY Spaced
SYMMETRY Symmetry
CONSTRAINT Focus
CHECK_DEADLOCK FALSE
