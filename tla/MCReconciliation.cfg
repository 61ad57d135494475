SPECIFICATION MCSpec
CONSTANTS
  Workers = {w1, w2}
  pool = pool
  a1 = a1
  x1 = x1
  x2 = x2
  d1 = d1
  d2 = d2
  d3 = d3
  d4 = d4
  Accounts <- MCAccounts
  Vas <- MCVas
  Master <- MCMaster
  Subjects <- MCSubjects
  Opening <- MCOpening
  FormBalances = {}
  MaxAdmin = 0
  Applications = {a1}
  WriteOffs = {x1, x2}
  WriteOffAccount <- MCWriteOffAccount
  WriteOffSums <- MCWriteOffSums
  MaxRepeats = 2
  Txns = {t1, t2}
  Prns = {r}
  Amounts = {1, 2}
  Times = {0, 1}
  Differences <- MCDifferences
  MaxItems = 2
  MaxDiffs = 2
SYMMETRY Symmetry
INVARIANTS
  TypeOK
  EverythingReported
  MatchedOneToOne
  NothingLeftOver
  SideEffectFirst
  ResolvedTogether
  PostedAsApproved
  WrittenOffOnce
  AdjustmentsExplain
CHECK_DEADLOCK FALSE
