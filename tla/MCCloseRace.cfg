SPECIFICATION Spec
CONSTANTS
  Workers = {w1, w2}
  Refunds = {f1, f2}
  Amount = 2
  Float = 2
SYMMETRY Symmetry
INVARIANT
  ClosedNotCollected
CHECK_DEADLOCK FALSE
