SPECIFICATION Spec
CONSTANTS
  o1 = o1
  o2 = o2
  x = x
  y = y
  Orders <- MCOrders
  Books <- MCBooks
  BookOf <- MCBookOf
  Runs = {j1, j2}
  Operators = {w}
  MaxDay = 4
SYMMETRY Symmetry
CONSTRAINT OneInRefund
INVARIANTS
  TypeOK
  ListedOnce
  SettledAfterPayout
  PaidOnceByEach
  ListedNextDay
CHECK_DEADLOCK FALSE
