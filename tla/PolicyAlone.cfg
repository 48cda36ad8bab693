SPECIFICATION Spec
CONSTANTS
  Policies = {p1, p2, p3}
  Admins = {a1, a2}
  None = None
SYMMETRY PolicySymmetry
INVARIANTS TypeOK OnlyOneUnlessOverlapping
PROPERTY NeverNone
