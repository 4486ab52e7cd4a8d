SPECIFICATION Spec
CONSTANTS
  Users = {u1, u2}
  Fixed = {f1}
  Templates = {t1}
  Grants = {g1, g2}
  NoGrant = NoGrant
  Requests = {r1, r2, r3}
  Updates = 2
  MaxFailures = 2
  Nothing = Nothing
  Environments <- EveryEnvironment
SYMMETRY Symmetry
INVARIANTS
  TypeOK
  SessionsAreCurrent
  GrantsFollowRoles
CHECK_DEADLOCK FALSE
