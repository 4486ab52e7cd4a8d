SPECIFICATION Spec
CONSTANTS
  Writers = {w1, w2, w3}
  Assets = {a1, a2}
  NoWriter = NoWriter
  Environments <- RenewalFails
SYMMETRY Interchangeable
INVARIANT OneWriter
CHECK_DEADLOCK FALSE
