SPECIFICATION Spec
CONSTANTS
  Workers = {w1, w2}
  Refunds = {f1, f2}
  Amount = 2
  Float = 2
SYMMETRY Symmetry
INVARIANT
  RefundsWithinAmount
CHECK_DEADLOCK FALSE
