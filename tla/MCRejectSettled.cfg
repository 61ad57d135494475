SPECIFICATION Spec
CONSTANTS
  Workers = {w1}
  Refunds = {f1, f2}
  Amount = 2
  Float = 2
SYMMETRY Symmetry
INVARIANT
  SettledStaysSettled
CHECK_DEADLOCK FALSE
