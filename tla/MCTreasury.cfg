SPECIFICATION MCSpec
CONSTANTS
  Workers = {w1, w2}
  pool = pool
  agency = agency
  customerVa = customerVa
  agentVa = agentVa
  t1 = t1
  t2 = t2
  dCustomer = dCustomer
  dAgent = dAgent
  b1 = b1
  Accounts <- MCAccounts
  Vas <- MCVas
  Master <- MCMaster
  Subjects <- MCSubjects
  Opening <- MCOpening
  FormBalances <- MCFormBalances
  MaxAdmin = 2
  Transfers = {t1, t2}
  From <- MCFrom
  To <- MCTo
  TransferSum <- MCTransferSum
  MaxCalls = 2
  Deposits = {dCustomer, dAgent}
  AgentDeposits = {dAgent}
  DepositVa <- MCDepositVa
  DepositSum <- MCDepositSum
  Disbursements = {b1}
  Principals = {p1, p2}
  AgentAccount = agentVa
  PayoutSum <- MCPayoutSum
  MaxPayouts = 2
SYMMETRY Symmetry
INVARIANTS
  TypeOK
  VaExplained
  PoolExplained
  DepositCreditedOnce
  TransferBacked
  TwoPrincipals
  DisbursementDebitedOnce
PROPERTIES
  PaidOnceUndisturbed
CHECK_DEADLOCK FALSE
