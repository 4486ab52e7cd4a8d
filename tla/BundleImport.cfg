SPECIFICATION Spec
CONSTANTS
  Images = {1, 2}
  Labels = {1, 2}
  Stems = {1, 2}
  Runs = {r1, r2}
  Revisions = 2
  UserRows = 1
  Environments <- EveryEnvironment
SYMMETRY Symmetry
INVARIANTS
  TypeOK
  ImportsAreComplete
  ImportsAreSingle
  FailedImportsVanish
CHECK_DEADLOCK FALSE
