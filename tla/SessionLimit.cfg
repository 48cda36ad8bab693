SPECIFICATION MCSpec
CONSTANTS
  ann = ann
  gus = gus
  Users = {ann, gus}
  Role <- RoleOf
  Logins = {l1, l2, l3, l4}
  Requests = {r1}
  Versions = {v1}
  Changes = 0
  People = {p1}
  Ids = {i1}
  Initial = Initial
  None = None
  Lifetime = 1
  MaxNow = 1
SYMMETRY PeopleSymmetry
INVARIANT AtMostThreeSessions
CHECK_DEADLOCK FALSE
