SPECIFICATION RefSpec
CONSTANTS
  Users = {u1, u2}
  MaxRefs = 2
  MaxCounted = 3
INVARIANTS
  NeverBelowZero
\* All may be given back.
CHECK_DEADLOCK FALSE
