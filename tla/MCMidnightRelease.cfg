SPECIFICATION MCSpec
CONSTANTS
  r1 = r1
  r2 = r2
  r3 = r3
  k1 = k1
  k2 = k2
  dA = dA
  dForeign = dForeign
  dB = dB
  qA = qA
  qB = qB
  merchant = merchant
  agent = agent
  Requests <- MCRequests
  Keys <- MCKeys
  Digests <- MCDigests
  Quotes <- MCQuotes
  Books <- MCBooks
  QuoteOf <- MCQuoteOf
  Principal <- MCPrincipal
  Owner <- MCOwner
  Amount <- MCAmount
  DailyLimit <- MCDailyLimit
  DailyCount <- MCDailyCount
  MaxDay = 2
  MaxPrn = 2
INVARIANT
  RejectionReleasesUsage
CHECK_DEADLOCK FALSE
