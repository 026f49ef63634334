SPECIFICATION ParseSpec
CONSTANT MaxObject = 3
INVARIANTS OuterWins NoUngatedMint
CHECK_DEADLOCK FALSE
