SPECIFICATION Spec
CONSTANTS
  Deliveries = {d1, d2}
  Calls = {c1}
  MaxTries = 3
  Environments <- CleanupFails
INVARIANT CancelledLeavesNoArchive
CHECK_DEADLOCK FALSE
