SPECIFICATION MCSpec
CONSTANTS
  ann = ann
  gus = gus
  Users = {ann, gus}
  Role <- RoleOf
  Logins = {l1, l2, l3, l4}
  Requests = {r1, r2}
  Versions = {v1, v2}
  Changes = 1
  People = {p1, p2}
  Ids = {i1, i2}
  Initial = Initial
  None = None
  Lifetime = 1
  MaxNow = 1
SYMMETRY PeopleSymmetry
INVARIANTS TypesOK LimitUnlessOverlapping TokensTruthful ProfileOnlyAfterTerms OneAccountPerPerson AnswersHold
PROPERTY AcceptedWhileInForce
CHECK_DEADLOCK FALSE
