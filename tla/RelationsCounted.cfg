SPECIFICATION Spec
CONSTANTS
  Images = {i1, i2}
  Annotations = {a1, a2}
  Models = {m1}
  Datasets = {d1, d2}
  Requests = {r1, r2}
  Revisions = 2
  Links = 2
  BatchSize = 2
  Stems = {s1, s2}
  Nobody = Nobody
  NoDataset = NoDataset
  NoPair = NoPair
  Environments <- BothDeleted
SYMMETRY Symmetry
INVARIANT SummariesAreCurrent
CHECK_DEADLOCK FALSE
