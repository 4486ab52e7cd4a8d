SPECIFICATION Spec
CONSTANTS
  Transfers = 2
  Chunks = 3
  Lanes = 2
  Pauses = 1
  Environments <- CancelledBehind
INVARIANT NamesAreSingle
CHECK_DEADLOCK FALSE
