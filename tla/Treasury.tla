------------------------------ MODULE Treasury ------------------------------
(***************************************************************************)
(* The treasury: transfers, deposits and disbursements over one set of     *)
(* books, while operators recharge, edit, close and revoke the accounts.   *)
(***************************************************************************)
EXTENDS FundTransfers, Deposits, Disbursements

ASSUME RowsDisjoint ==
    /\ "none" \notin Accounts \cup Vas \cup Subjects
    /\ Subjects = Transfers \cup Deposits \cup Disbursements
    /\ Accounts \cap Vas = {}
    /\ (Accounts \cup Vas) \cap Subjects = {}
    /\ Transfers \cap (Deposits \cup Disbursements) = {}
    /\ Deposits \cap Disbursements = {}
    /\ IsFiniteSet(Vas)
    /\ IsFiniteSet(Transfers)
    /\ IsFiniteSet(Deposits)
    /\ IsFiniteSet(Disbursements)

vars == <<bookVars, transferVars, depositVars, disbVars>>

Steps == BookSteps \cup TransferSteps \cup DepositSteps \cup DisbSteps

Init == BooksInit /\ TransfersInit /\ DepositsInit /\ DisbursementsInit

Next ==
    \/ NostroHandlers /\ UNCHANGED <<transferVars, depositVars, disbVars>>
    \/ VaHandlers /\ UNCHANGED <<transferVars, depositVars, disbVars>>
    \/ TransferHandlers /\ UNCHANGED <<depositVars, disbVars>>
    \/ DepositHandlers /\ UNCHANGED <<transferVars, disbVars>>
    \/ DisbursementHandlers /\ UNCHANGED <<transferVars, depositVars>>
    \/ \E w \in Workers : /\ ~ job[w].at \in {"book", "debit"}
                          /\ Crash(w)
                          /\ UNCHANGED <<transferVars, depositVars, disbVars>>

Spec == Init /\ [][Next]_vars

-----------------------------------------------------------------------------
\* The accounts that a transfer of a negative sum took money from.
Drained == {To[t] : t \in {x \in Transfers : shifted[x] > 0 /\ TransferSum[x] < 0}}

\* Rows are well typed, and no balance is below zero, since update_balance and
\* post_va_entry ask the locked rows, the virtual account's and the master
\* account's.  The exceptions are the accounts whose balance was overwritten,
\* and those a transfer of a negative sum drained: nobody asks a CREDIT.
TypeOK ==
    /\ BooksTypeOK(Steps)
    /\ TransfersTypeOK
    /\ DepositsTypeOK
    /\ DisbursementsTypeOK
    /\ \A a \in Accounts \ (overlapped \cup Drained) : nostro[a].balance >= 0

DepositedTo(v) ==
    SumFunctionOnSet([d \in Deposits |-> credits[d] * DepositSum[d]],
                     {d \in Deposits : DepositVa[d] = v})

DisbursedFrom(v) ==
    IF v = AgentAccount THEN SumFunction([b \in Disbursements |-> debits[b] * PayoutSum[b]])
                        ELSE 0

\* The balance of a virtual account is what its ledger entries add up to,
\* unless a generic save wrote back a balance read before an entry was posted.
VaExplained ==
    \A v \in Vas \ overlapped :
        va[v].ledger + DisbursedFrom(v) = Opening[v] + DepositedTo(v)

TransferTotals == [t \in Transfers |-> shifted[t] * TransferSum[t]]

TransferredFrom(a) ==
    SumFunctionOnSet(TransferTotals, {t \in Transfers : From[t] = a})

TransferredTo(a) ==
    SumFunctionOnSet(TransferTotals, {t \in Transfers : To[t] = a})

PostedUnder(a) ==
    SumFunctionOnSet([v \in Vas |-> DepositedTo(v) - DisbursedFrom(v)],
                     {v \in Vas : Master[v] = a})

\* Nothing but recharges, transfers and the entries of its virtual accounts
\* moves a nostro account's balance, unless a recharge or a generic save wrote
\* back a balance it had read before another change, or one that was typed.
PoolExplained ==
    \A a \in Accounts \ overlapped :
        nostro[a].balance + TransferredFrom(a)
            = Opening[a] + recharged[a] + TransferredTo(a) + PostedUnder(a)

\* A customer's deposit is credited exactly once when it is approved and never
\* otherwise; an agent's is credited at most once, and only when approved.
DepositCreditedOnce ==
    \A d \in Deposits :
        /\ credits[d] <= 1
        /\ credits[d] = 1 => deposit[d] = "APPROVED"
        /\ deposit[d] = "APPROVED" /\ d \notin AgentDeposits => credits[d] = 1

\* The balances are changed for a transfer no more often than the bank moved
\* the money, and it is SUCCESS exactly when they were changed.
TransferBacked ==
    \A t \in Transfers :
        /\ shifted[t] <= moved[t]
        /\ transfer[t] = "SUCCESS" <=> shifted[t] > 0

\* No money leaves without authorisations by two different principals, whatever
\* stale authorisations and rejections are written.
TwoPrincipals ==
    \A b \in Disbursements :
        paid[b] > 0 => \E p \in approvals[b].first, q \in approvals[b].second : p # q

\* A disbursement is debited at most once, however often it is executed, and
\* only if the bank has paid it.
DisbursementDebitedOnce ==
    \A b \in Disbursements :
        /\ debits[b] <= 1
        /\ debits[b] = 1 \/ disb[b] = "SUCCESS" => paid[b] >= 1

\* A disbursement that is handled by one request at a time, and whose payout is
\* never rolled back, is paid once at most and not after a rejection.
PaidOnceUndisturbed ==
    [][\A b \in Disbursements :
           paid'[b] # paid[b] /\ b \notin disturbed'
               => paid[b] = 0 /\ ~ approvals[b].rejected]_vars
=============================================================================
