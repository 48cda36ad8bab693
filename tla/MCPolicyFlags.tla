--------------------------- MODULE MCPolicyFlags ---------------------------
\* Instances of PolicyFlags for TLC: policies and admins are interchangeable.
EXTENDS PolicyFlags, TLC

PolicySymmetry == Permutations(Policies) \cup Permutations(Admins)
=============================================================================
