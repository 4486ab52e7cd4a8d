SPECIFICATION Spec
CONSTANTS
  Deliveries = {d1, d2}
  Calls = {c1}
  MaxTries = 1
  Environments <- ClaimFails
INVARIANT ProcessedByOne
CHECK_DEADLOCK FALSE
