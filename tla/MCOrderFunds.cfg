SPECIFICATION Spec
CONSTANTS
  Workers = {w1, w2}
  Refunds = {f1, f2}
  Amount = 2
  Float = 2
SYMMETRY Symmetry
CONSTRAINTS
  OneRefundUnbooked
  FewDebits
  FewRefunds
INVARIANTS
  TypeOK
  StatusBacked
  CreditedOnce
  ReversedOnce
  LedgerExplained
  RefundedInFull
CHECK_DEADLOCK FALSE
