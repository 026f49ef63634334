SPECIFICATION FairStream
CONSTANTS
  Publishers = {p1, p2}
  Writers = {p1, p2}
  Monitors = {n1}
  Readers = {n1}
  Cap = 1
  Window = 3
  MaxAge = 4
  MaxDelay = 1
  MaxTime = 5
  MaxEvents = 2
INVARIANTS NoSendOnClosed ActivityComplete
PROPERTIES AgeKept PublishReturns
CHECK_DEADLOCK FALSE
