SPECIFICATION FairSpec
CONSTANTS
  Deliveries = {d1, d2}
  Calls = {c1}
  MaxTries = 3
  Environments <- CancelledFails
PROPERTY QueuedEnds
CHECK_DEADLOCK FALSE
