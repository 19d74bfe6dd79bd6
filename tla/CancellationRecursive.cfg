SPECIFICATION Spec
CONSTANTS
  Cancellers = {k1, k2}
  Direct = {d1}
  Waiters = {w1, w2}
INVARIANTS
  NoRecursiveAcquisition
\* Nothing happens any more once everybody is done.
CHECK_DEADLOCK FALSE
