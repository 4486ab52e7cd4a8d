SPECIFICATION Spec
CONSTANTS
  Uploads = {u1, u2, u3}
  Contents = {c1, c2}
  NoKey = NoKey
  NoHash = NoHash
  Environments <- TwinsHashed
SYMMETRY Symmetry
INVARIANTS
  ReadyHasObject
CHECK_DEADLOCK FALSE
