---------------------- MODULE MCRemittanceApplication ----------------------
(***************************************************************************)
(* RemittanceApplication on a small instance: three deliveries over two    *)
(* keys; a merchant with two quotations that do not fit its daily amount   *)
(* together, and a second book whose principal may name a foreign          *)
(* quotation.  Deliveries are interchangeable, so their contents are       *)
(* enumerated up to a permutation: MCInit keeps the ordered assignments.   *)
(***************************************************************************)
EXTENDS RemittanceApplication, TLC

CONSTANTS k1, k2, dA, dForeign, dB, qA, qB, merchant, agent

MCKeys == {k1, k2}
MCDigests == {dA, dForeign, dB}
MCQuotes == {qA, qB}
MCBooks == {merchant, agent}
MCQuoteOf == (dA :> qA) @@ (dForeign :> qA) @@ (dB :> qB)
MCPrincipal == (dA :> merchant) @@ (dForeign :> agent) @@ (dB :> merchant)
MCOwner == (qA :> merchant) @@ (qB :> merchant)
MCAmount == (qA :> 2) @@ (qB :> 1)
MCDailyLimit == (merchant :> 2) @@ (agent :> 2)
MCDailyCount == (merchant :> 2) @@ (agent :> 3)

\* A total order of the contents of deliveries.
DigestRank == (dA :> 1) @@ (dForeign :> 2) @@ (dB :> 3)
Rank(r) == 10 * DigestRank[req[r].digest] + (IF req[r].key = k1 THEN 1 ELSE 2)

CONSTANTS r1, r2, r3
MCRequests == {r1, r2, r3}
MCInit == Init /\ Rank(r1) <= Rank(r2) /\ Rank(r2) <= Rank(r3)
MCSpec == MCInit /\ [][Next]_vars /\ Fairness
=============================================================================
