SPECIFICATION Spec
CONSTANTS
  Uploads = {u1, u2, u3}
  Contents = {c1, c2}
  NoKey = NoKey
  NoHash = NoHash
  Environments <- EveryEnvironment
SYMMETRY Symmetry
INVARIANTS
  TypeOK
  FilesAreKept
  OrphansAreRemoved
  DuplicatesAreShared
CHECK_DEADLOCK FALSE
