--------------------------- MODULE Disbursements ---------------------------
(***************************************************************************)
(* Disbursements of an agent's money: two authorisations by different      *)
(* principals, a rejection, and the payout, which the second authorisation *)
(* starts at once and an operator may start again.                         *)
(*                                                                         *)
(* Every handler works on the instance its view read, so each begins with  *)
(* a reading of the status.  EXECUTING and FAILED are saved in a           *)
(* transaction that either commits SUCCESS or rolls back, so no other      *)
(* process ever reads them.                                                *)
(*                                                                         *)
(* The generic update, which saves the whole row with the amount, the      *)
(* payee and the status it read, is left out: what was authorised stays.   *)
(***************************************************************************)
EXTENDS Books

CONSTANTS Disbursements,   \* AgentDisbursement rows
          Principals,      \* who may authorise
          AgentAccount,    \* the agent's CURRENT virtual account
          PayoutSum,       \* [Disbursements -> amount]
          MaxPayouts       \* bound: bank calls for one row

ASSUME DisbursementParameters ==
    /\ AgentAccount \in Vas
    /\ "none" \notin Principals
    /\ PayoutSum \in [Disbursements -> Nat \ {0}]
    /\ MaxPayouts \in Nat

VARIABLES disb,        \* [Disbursements -> status]
          approvals,   \* [Disbursements -> the DisbursementApproval rows]
          paid,        \* [Disbursements -> payouts the bank has made]
          debits,      \* [Disbursements -> DEBIT entries with source DISBURSEMENT]
          disturbed    \* disbursements two workers handled at a time, or whose
                       \* payout was rolled back

disbVars == <<disb, approvals, paid, debits, disturbed>>

DisbStatuses == {"PENDING_FIRST_APPROVAL", "PENDING_SECOND_APPROVAL", "APPROVED",
                 "SUCCESS", "REJECTED"}

\* The approvers of the first authorisations and the earliest of them, those of
\* the second, and whether there is a rejection.
ApprovalRows == [first : SUBSET Principals, earliest : Principals \cup {"none"},
                 second : SUBSET Principals, rejected : BOOLEAN]

NoApprovals == [first |-> {}, earliest |-> "none", second |-> {}, rejected |-> FALSE]

DisbSteps == {"first", "second", "execute", "pay", "book", "debit"}

DisbursementsTypeOK ==
    /\ disb \in [Disbursements -> DisbStatuses]
    /\ approvals \in [Disbursements -> ApprovalRows]
    /\ paid \in [Disbursements -> Nat]
    /\ debits \in [Disbursements -> Nat]
    /\ disturbed \subseteq Disbursements

DisbursementsInit ==
    /\ disb = [b \in Disbursements |-> "PENDING_FIRST_APPROVAL"]
    /\ approvals = [b \in Disbursements |-> NoApprovals]
    /\ paid = [b \in Disbursements |-> 0]
    /\ debits = [b \in Disbursements |-> 0]
    /\ disturbed = {}

-----------------------------------------------------------------------------
HandledBy(w, b) == job[w].on = b /\ job[w].at \in DisbSteps

\* Variants with a bug: the payout does not lock the row; the second
\* authorisation is not compared with the first; a disbursement that was paid
\* may be executed.
NeverExecuting(b) == FALSE
AnyoneSecond(b, p) == TRUE
PayableAgain(b) == disb[b] \in {"APPROVED", "SUCCESS"}

\* The EXECUTING save locks the row until the payout's transaction ends.
Executing(b) == Locked(b, {"book", "debit"})

Payable(b) == disb[b] = "APPROVED"

\* The second principal differs from the earliest first.
OtherPrincipal(b, p) == approvals[b].earliest # p

Disturb(w, b) ==
    disturbed' = IF \E u \in Workers \ {w} : HandledBy(u, b) THEN disturbed \cup {b}
                                                            ELSE disturbed

\* The view reads the row; a status that permits nothing ends the request.
ReadDisbursement(w, b) ==
    /\ \/ disb[b] = "PENDING_FIRST_APPROVAL" /\ Begin(w, "first", b)
       \/ disb[b] = "PENDING_SECOND_APPROVAL" /\ Begin(w, "second", b)
       \/ Payable(b) /\ Begin(w, "execute", b)
    /\ Disturb(w, b)
    /\ UNCHANGED <<nostro, va, recharged, overlapped, admin, disb, approvals, paid, debits>>

\* approve: the approval and the next status are saved, whatever the status in
\* the database has become.  Of two first authorisations made together, the one
\* that commits last may be the one created earliest.
AuthoriseFirst(w, p) ==
    LET b == job[w].on
    IN  /\ job[w].at = "first"
        /\ ~ Executing(b)
        /\ \E f \in {p, approvals[b].earliest} \ {"none"} :
               approvals' = [approvals EXCEPT ![b].first = @ \cup {p}, ![b].earliest = f]
        /\ disb' = [disb EXCEPT ![b] = "PENDING_SECOND_APPROVAL"]
        /\ Return(w)
        /\ UNCHANGED <<nostro, va, recharged, overlapped, admin, paid, debits, disturbed>>

AuthoriseSecond(w, p) ==
    LET b == job[w].on
    IN  /\ job[w].at = "second"
        /\ ~ Executing(b)
        /\ OtherPrincipal(b, p)
        /\ approvals' = [approvals EXCEPT ![b].second = @ \cup {p}]
        /\ disb' = [disb EXCEPT ![b] = "APPROVED"]
        /\ Go(w, "execute")
        /\ UNCHANGED <<nostro, va, recharged, overlapped, admin, paid, debits, disturbed>>

\* reject asks nothing of the status: the step may come with the request.
RejectDisbursement(b) ==
    /\ ~ Executing(b)
    /\ approvals' = [approvals EXCEPT ![b].rejected = TRUE]
    /\ disb' = [disb EXCEPT ![b] = "REJECTED"]
    /\ disturbed' = IF \E w \in Workers : HandledBy(w, b) THEN disturbed \cup {b}
                                                          ELSE disturbed
    /\ UNCHANGED <<bookVars, paid, debits>>

-----------------------------------------------------------------------------
\* execute checks the balance of the agent's active account without a lock.
CheckBalance(w) ==
    LET b == job[w].on
        a == Master[AgentAccount]
    IN  /\ job[w].at = "execute"
        /\ \/ nostro[a].active /\ Covers(a, PayoutSum[b]) /\ Go(w, "pay")
           \/ ~ (nostro[a].active /\ Covers(a, PayoutSum[b])) /\ Return(w)
        /\ UNCHANGED <<nostro, va, recharged, overlapped, admin, disbVars>>

\* EXECUTING is saved and the bank called.  If it refuses, FAILED is rolled
\* back with the transaction, and the disbursement is what it was before.
CallBank(w) ==
    LET b == job[w].on
    IN  /\ job[w].at = "pay"
        /\ ~ Executing(b)
        /\ \/ /\ paid[b] < MaxPayouts
              /\ paid' = [paid EXCEPT ![b] = @ + 1]
              /\ Go(w, "book")
           \/ Return(w) /\ UNCHANGED paid
        /\ UNCHANGED <<nostro, va, recharged, overlapped, admin, disb, approvals, debits, disturbed>>

\* get_agent_ledger_va and the look-up of post_va_entry: with no usable account,
\* or an entry that exists, the disbursement is SUCCESS as it is.
Book(w) ==
    LET b == job[w].on
    IN  /\ job[w].at = "book"
        /\ \/ /\ AgentVa(AgentAccount)
              /\ debits[b] = 0
              /\ Go(w, "debit")
              /\ UNCHANGED disb
           \/ /\ ~ AgentVa(AgentAccount) \/ debits[b] > 0
              /\ disb' = [disb EXCEPT ![b] = "SUCCESS"]
              /\ Return(w)
        /\ UNCHANGED <<nostro, va, recharged, overlapped, admin, approvals, paid, debits, disturbed>>

\* post_va_entry, DEBIT, source DISBURSEMENT, commits with SUCCESS.
Debit(w) ==
    LET b == job[w].on
    IN  /\ job[w].at = "debit"
        /\ VaCovers(AgentAccount, PayoutSum[b])
        /\ PostVa(AgentAccount, 0 - PayoutSum[b])
        /\ debits' = [debits EXCEPT ![b] = @ + 1]
        /\ disb' = [disb EXCEPT ![b] = "SUCCESS"]
        /\ Return(w)
        /\ UNCHANGED <<recharged, overlapped, admin, approvals, paid, disturbed>>

\* The entry is refused for want of balance, or the process or the database
\* fails: the bank has paid and the row is what it was before.
RollBack(w) ==
    /\ job[w].at \in {"book", "debit"}
    /\ disturbed' = disturbed \cup {job[w].on}
    /\ Return(w)
    /\ UNCHANGED <<nostro, va, recharged, overlapped, admin, disb, approvals, paid, debits>>

DisbursementHandlers ==
    \/ \E w \in Workers, b \in Disbursements : ReadDisbursement(w, b)
    \/ \E w \in Workers, p \in Principals : AuthoriseFirst(w, p) \/ AuthoriseSecond(w, p)
    \/ \E b \in Disbursements : RejectDisbursement(b)
    \/ \E w \in Workers : \/ CheckBalance(w) \/ CallBank(w)
                         \/ Book(w) \/ Debit(w) \/ RollBack(w)
=============================================================================
