SPECIFICATION FairSpec
CONSTANTS
  Deliveries = {d1, d2}
  Calls = {c1}
  MaxTries = 1
  Environments <- ResendDies
PROPERTY QueuedEnds
CHECK_DEADLOCK FALSE
