SPECIFICATION FairSpec
CONSTANTS
  Deliveries = {d1, d2}
  Calls = {c1}
  MaxTries = 3
  Environments <- EveryEnvironment
INVARIANTS
  TypeOK
  DownloadableHasArchive
  CancelledOnceLeavesNoArchive
PROPERTIES
  ImplementsLifecycle
  JobsEnd
CHECK_DEADLOCK FALSE
