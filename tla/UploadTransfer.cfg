SPECIFICATION FairSpec
CONSTANTS
  Transfers = 2
  Chunks = 3
  Lanes = 2
  Pauses = 1
  Environments <- EveryEnvironment
INVARIANTS
  TypeOK
  UploadsAreSingle
PROPERTIES
  SweepSparesOpen
  ChunksAreRemoved
  TransfersEnd
CHECK_DEADLOCK FALSE
