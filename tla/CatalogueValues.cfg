SPECIFICATION CatalogueSpec
CONSTANTS
  Categories = {c1, c2}
  Names = {n1, n2}
  Metrics = {m1, m2}
  Models = {x1}
  Assets = {a1}
  Tags = {k1, k2}
  Values = {v1, v2}
  Types = {t1, t2, t3}
  Extensions = {e1, e2}
  Exempt = {t3}
  Requests = {r1, r2}
  Nothing = Nothing
  CatalogueEnvironments <- MetricsTogether
SYMMETRY Symmetry
INVARIANT DeletedMetricsHaveNoValues
CHECK_DEADLOCK FALSE
