SPECIFICATION Spec
CONSTANTS
  Writers = {w1, w2, w3}
  Assets = {a1, a2}
  NoWriter = NoWriter
  Environments <- Interrupted
SYMMETRY Interchangeable
INVARIANT PublishedVersionsComplete
CHECK_DEADLOCK FALSE
