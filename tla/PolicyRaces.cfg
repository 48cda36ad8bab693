SPECIFICATION Spec
CONSTANTS
  Policies = {p1, p2}
  Admins = {a1, a2}
  None = None
SYMMETRY PolicySymmetry
INVARIANT OneActiveTerms
