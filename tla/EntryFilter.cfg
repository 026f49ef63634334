SPECIFICATION Spec
CONSTANTS
  Fields = {mcap}
  Grid = 1
  Limit = 33
  MaxSupply = 3
INVARIANTS AuthoritiesGone GatesAgree
PROPERTY HolderWithinLimit
