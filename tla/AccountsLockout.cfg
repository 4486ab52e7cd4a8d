SPECIFICATION FairSpec
CONSTANTS
  Users = {u1}
  Fixed = {f1}
  Templates = {t1}
  Grants = {g1, g2}
  NoGrant = NoGrant
  Requests = {r1, r2, r3}
  Updates = 1
  MaxFailures = 2
  Nothing = Nothing
  Environments <- RedisFails
PROPERTIES
  LockoutEnds
CHECK_DEADLOCK FALSE
