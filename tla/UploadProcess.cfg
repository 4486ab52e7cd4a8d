SPECIFICATION FairSpec
CONSTANTS
  Deliveries = {d1, d2}
  Calls = {c1}
  MaxTries = 1
  Environments <- EveryEnvironment
INVARIANTS
  TypeOK
  OwnersExclude
  SucceededStaysProcessed
PROPERTIES
  CompletedIsProcessed
  ProcessingEnds
CHECK_DEADLOCK FALSE
