SPECIFICATION Spec
CONSTANTS
  Writers = {w1, w2, w3}
  Assets = {a1, a2}
  NoWriter = NoWriter
  Environments <- EveryEnvironment
SYMMETRY Interchangeable
INVARIANTS
  TypeOK
  RenewedWritersExclude
  NoWriteOverPendingRestore
  RestoreAllOrNothing
  FailedPublicationsVanish
CHECK_DEADLOCK FALSE
