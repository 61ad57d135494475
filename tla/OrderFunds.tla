----------------------------- MODULE OrderFunds -----------------------------
(***************************************************************************)
(* The money of one payment order after its approval, and everything that  *)
(* writes it: collection, closure, Confirm transfer, refunds and the       *)
(* settlement batch.                                                       *)
(*                                                                         *)
(* Workers are web or job processes.  Only the confirmation of a payment   *)
(* locks the order row and reads it again; the other handlers read a row,  *)
(* decide, and save the fields of that reading later, so each of them is   *)
(* several steps, between which others run and after which it may crash.   *)
(* status_history is kept as its last entry other than REFUNDING, the one  *)
(* thing the code looks for in it; a save of a stale history loses what    *)
(* was appended since.                                                     *)
(***************************************************************************)
EXTENDS Naturals, FiniteSets, Functions

CONSTANTS Workers,     \* processes running handlers
          Refunds,     \* RefundOrder rows that may be created
          Amount,      \* PaymentOrder.amount
          Float        \* what other orders left on the virtual account

ASSUME FundsParameters ==
    /\ IsFiniteSet(Refunds)
    /\ Amount \in Nat \ {0}
    /\ Float \in Nat

VARIABLES order,       \* the PaymentOrder: status and status_history
          refund,      \* [Refunds -> row]
          batch,       \* the settlement batch that lists the order
          va,          \* VirtualAccount.ledger_balance
          entries,     \* VaLedgerEntry rows: how many of each source
          unbooked,    \* history: a confirmation found no active account
          paidOut,     \* refunds the bank has paid at least once
          job          \* [Workers -> the handler a worker is in]

vars == <<order, refund, batch, va, entries, unbooked, paidOut, job>>

OrderStatuses == {"PENDING_PAY", "PAY_RECEIVED", "PENDING_SETTLE", "SETTLED",
                  "CLOSED", "REFUNDING", "REFUNDED"}
RefundStatuses == {"NONE", "PENDING_REVIEW", "APPROVED", "REJECTED", "SUCCESS", "FAILED"}
Steps == {"idle", "close", "confirm", "refresh", "lookup", "debit", "advance",
          "create", "approve", "execute", "succeeded", "full", "partial", "failed",
          "reject", "check", "restore"}

OrderRow == [status : OrderStatuses, last : OrderStatuses]
RefundRow == [status : RefundStatuses, amount : 0 .. Amount]

TypeOK ==
    /\ order \in OrderRow
    /\ refund \in [Refunds -> RefundRow]
    /\ batch \in {"none", "open", "paid", "failed"}
    /\ va \in Nat
    /\ entries \in [payment : Nat, settlement : Nat, refund : [Refunds -> Nat]]
    /\ unbooked \in BOOLEAN
    /\ paidOut \subseteq Refunds
    /\ job \in [Workers -> [at : Steps, ref : Refunds \cup {"none"},
                            amount : 0 .. Amount, read : OrderRow]]

-----------------------------------------------------------------------------
Status(s) == [status |-> s, last |-> s]

Idle == [at |-> "idle", ref |-> "none", amount |-> 0, read |-> Status("PENDING_PAY")]

Go(w, s) == job' = [job EXCEPT ![w].at = s]
Return(w) == job' = [job EXCEPT ![w] = Idle]

Begin(w, s) == job[w].at = "idle" /\ Go(w, s)

TotalOf(S) == SumFunctionOnSet([f \in Refunds |-> refund[f].amount], S)

\* The refunds request_refund counts against the order.
Outstanding == {f \in Refunds : refund[f].status \in {"PENDING_REVIEW", "APPROVED", "SUCCESS"}}

Succeeded == {f \in Refunds : refund[f].status = "SUCCESS"}

\* execute_refund updates the refund row first and holds it until it commits.
Executing(w) == job[w].at \in {"succeeded", "full", "partial", "failed"}
RowFree(f) == ~ \E w \in Workers : Executing(w) /\ job[w].ref = f

-----------------------------------------------------------------------------
Init ==
    /\ order = Status("PENDING_PAY")
    /\ refund = [f \in Refunds |-> [status |-> "NONE", amount |-> 0]]
    /\ batch = "none"
    /\ va = Float
    /\ entries = [payment |-> 0, settlement |-> 0, refund |-> [f \in Refunds |-> 0]]
    /\ unbooked = FALSE
    /\ paidOut = {}
    /\ job = [w \in Workers |-> Idle]

\* Variants with a bug, for comparison: PostCollection without the look-up, or
\* with the balance updated before it.
PostAlways ==
    /\ va' = va + Amount
    /\ entries' = [entries EXCEPT !.payment = @ + 1]
    /\ UNCHANGED unbooked

PostBalanceFirst ==
    /\ va' = va + Amount
    /\ entries' = [entries EXCEPT !.payment = 1]
    /\ UNCHANGED unbooked

\* _credit_virtual_account with post_va_entry, CREDIT, source PAYMENT: an
\* existing entry is returned, and nothing is posted when the merchant, or the
\* agent, has no active account of the currency.
PostCollection ==
    \/ entries.payment > 0 /\ UNCHANGED <<va, entries, unbooked>>
    \/ /\ entries.payment = 0
       /\ va' = va + Amount
       /\ entries' = [entries EXCEPT !.payment = @ + 1]
       /\ UNCHANGED unbooked
    \/ entries.payment = 0 /\ unbooked' = TRUE /\ UNCHANGED <<va, entries>>

\* _confirm_payment: the order row is locked and its status checked again.
ConfirmPayment ==
    /\ order.status = "PENDING_PAY"
    /\ order' = Status("PAY_RECEIVED")
    /\ PostCollection

\* A bank line is matched, or somebody confirms the payment by hand.
Confirm == ConfirmPayment /\ UNCHANGED <<refund, batch, paidOut, job>>

-----------------------------------------------------------------------------
\* close_order, by an operator or from the list the expiry job read.
ReadClose(w) ==
    /\ order.status = "PENDING_PAY"
    /\ Begin(w, "close")
    /\ UNCHANGED <<order, refund, batch, va, entries, unbooked, paidOut>>

WriteClose(w) ==
    /\ job[w].at = "close"
    /\ order' = Status("CLOSED")
    /\ Return(w)
    /\ UNCHANGED <<refund, batch, va, entries, unbooked, paidOut>>

-----------------------------------------------------------------------------
\* confirm_transfer, and the collection it makes up for.
ReadTransfer(w) ==
    /\ \/ order.status = "PENDING_PAY" /\ Begin(w, "confirm")
       \/ order.status = "PAY_RECEIVED" /\ Begin(w, "refresh")
    /\ UNCHANGED <<order, refund, batch, va, entries, unbooked, paidOut>>

ConfirmFirst(w) ==
    /\ job[w].at = "confirm"
    /\ \/ ConfirmPayment /\ Go(w, "refresh")
       \/ /\ order.status # "PENDING_PAY"
          /\ Return(w)
          /\ UNCHANGED <<order, va, entries, unbooked>>
    /\ UNCHANGED <<refund, batch, paidOut>>

Refresh(w) ==
    /\ job[w].at = "refresh"
    /\ \/ order.status = "PAY_RECEIVED" /\ Go(w, "lookup")
       \/ order.status # "PAY_RECEIVED" /\ Return(w)
    /\ UNCHANGED <<order, refund, batch, va, entries, unbooked, paidOut>>

\* debit_va_for_order_outflow: without an entry of the collection to name the
\* account, and without an active account, nothing is debited; post_va_entry,
\* DEBIT, source SETTLEMENT, looks for its entry without a lock.
LookUpEntry(w) ==
    /\ job[w].at = "lookup"
    /\ \/ (entries.settlement > 0 \/ entries.payment = 0) /\ Go(w, "advance")
       \/ entries.settlement = 0 /\ Go(w, "debit")
    /\ UNCHANGED <<order, refund, batch, va, entries, unbooked, paidOut>>

\* The virtual account is locked and debited, or its balance, or that of its
\* master account, does not suffice.
DebitSettlement(w) ==
    /\ job[w].at = "debit"
    /\ \/ /\ va >= Amount
          /\ va' = va - Amount
          /\ entries' = [entries EXCEPT !.settlement = @ + 1]
          /\ Go(w, "advance")
       \/ Return(w) /\ UNCHANGED <<va, entries>>
    /\ UNCHANGED <<order, refund, batch, unbooked, paidOut>>

Advance(w) ==
    /\ job[w].at = "advance"
    /\ order' = Status("PENDING_SETTLE")
    /\ Return(w)
    /\ UNCHANGED <<refund, batch, va, entries, unbooked, paidOut>>

-----------------------------------------------------------------------------
\* request_refund: the order is read and the sum of its refunds checked.
ReadRefund(w, a) ==
    /\ order.status \in {"PENDING_PAY", "PAY_RECEIVED", "PENDING_SETTLE", "SETTLED",
                         "REFUNDING"}
    /\ TotalOf(Outstanding) + a <= Amount
    /\ job[w].at = "idle"
    /\ job' = [job EXCEPT ![w] = [at |-> "create", ref |-> "none", amount |-> a,
                                  read |-> order]]
    /\ UNCHANGED <<order, refund, batch, va, entries, unbooked, paidOut>>

CreateRefund(w, f) ==
    /\ job[w].at = "create"
    /\ refund[f].status = "NONE"
    /\ refund' = [refund EXCEPT ![f] = [status |-> "PENDING_REVIEW",
                                        amount |-> job[w].amount]]
    /\ order' = [status |-> "REFUNDING", last |-> job[w].read.last]
    /\ Return(w)
    /\ UNCHANGED <<batch, va, entries, unbooked, paidOut>>

\* review: the refund is read together with its order; execute: the refund.
ReadReview(w, f) ==
    /\ job[w].at = "idle"
    /\ \/ /\ refund[f].status = "PENDING_REVIEW"
          /\ job' = [job EXCEPT ![w].at = "approve", ![w].ref = f]
       \/ /\ refund[f].status = "PENDING_REVIEW"
          /\ job' = [job EXCEPT ![w].at = "reject", ![w].ref = f, ![w].read = order]
       \/ /\ refund[f].status \in {"APPROVED", "FAILED"}
          /\ job' = [job EXCEPT ![w].at = "execute", ![w].ref = f]
    /\ UNCHANGED <<order, refund, batch, va, entries, unbooked, paidOut>>

SetRefund(f, s) == refund' = [refund EXCEPT ![f].status = s]

Approve(w) ==
    /\ job[w].at = "approve"
    /\ RowFree(job[w].ref)
    /\ SetRefund(job[w].ref, "APPROVED")
    /\ Go(w, "execute")
    /\ UNCHANGED <<order, batch, va, entries, unbooked, paidOut>>

\* execute_refund locks the refund row by writing PROCESSING, which nobody
\* else sees, and calls the bank, which may pay although no answer arrives.
CallBank(w) ==
    /\ job[w].at = "execute"
    /\ RowFree(job[w].ref)
    /\ \/ Go(w, "succeeded") /\ paidOut' = paidOut \cup {job[w].ref}
       \/ Go(w, "failed") /\ paidOut' \in {paidOut, paidOut \cup {job[w].ref}}
    /\ UNCHANGED <<order, refund, batch, va, entries, unbooked>>

\* A variant with a bug: the sum request_refund uses.
FullyRequested(f) == TotalOf(Outstanding \cup {f}) = Amount

FullyRefunded(f) == TotalOf(Succeeded \cup {f}) = Amount

\* Variants with a bug: no look-up of the entry, no check of the balance.
ReversibleAgain(f) == entries.payment > 0

ReverseUnchecked(f) ==
    /\ va' = va - refund[f].amount
    /\ entries' = [entries EXCEPT !.refund[f] = @ + 1]

\* _reverse_collection_ledger locks the account for what was collected and not
\* reversed before; a balance that does not suffice, of the account or of its
\* master account, is ignored.
Reversible(f) == entries.payment > 0 /\ entries.refund[f] = 0

ReverseCollection(f) ==
    \/ /\ va >= refund[f].amount
       /\ va' = va - refund[f].amount
       /\ entries' = [entries EXCEPT !.refund[f] = @ + 1]
    \/ UNCHANGED <<va, entries>>

SaveOutcome(f, full) ==
    /\ SetRefund(f, "SUCCESS")
    /\ order' = IF full THEN [order EXCEPT !.status = "REFUNDED"] ELSE order

\* The rest of execute_refund.  The account's lock lets two executions sum the
\* refunds one after the other; without it, either may not see the other's.
FinishRefund(w) ==
    /\ job[w].at = "succeeded"
    /\ Reversible(job[w].ref)
    /\ ReverseCollection(job[w].ref)
    /\ SaveOutcome(job[w].ref, FullyRefunded(job[w].ref))
    /\ Return(w)
    /\ UNCHANGED <<batch, unbooked, paidOut>>

SumRefunds(w) ==
    /\ job[w].at = "succeeded"
    /\ ~Reversible(job[w].ref)
    /\ \/ FullyRefunded(job[w].ref) /\ Go(w, "full")
       \/ ~FullyRefunded(job[w].ref) /\ Go(w, "partial")
    /\ UNCHANGED <<order, refund, batch, va, entries, unbooked, paidOut>>

SaveRefund(w) ==
    /\ job[w].at \in {"full", "partial"}
    /\ SaveOutcome(job[w].ref, job[w].at = "full")
    /\ Return(w)
    /\ UNCHANGED <<batch, va, entries, unbooked, paidOut>>

FailRefund(w) ==
    /\ job[w].at = "failed"
    /\ SetRefund(job[w].ref, "FAILED")
    /\ Return(w)
    /\ UNCHANGED <<order, batch, va, entries, unbooked, paidOut>>

\* reject_refund: the refund is saved, a refund that succeeded looked for, and
\* the order saved, with a status from its history as it was read.
Reject(w) ==
    /\ job[w].at = "reject"
    /\ RowFree(job[w].ref)
    /\ SetRefund(job[w].ref, "REJECTED")
    /\ \/ job[w].read.status = "REFUNDING" /\ Go(w, "check")
       \/ job[w].read.status # "REFUNDING" /\ Return(w)
    /\ UNCHANGED <<order, batch, va, entries, unbooked, paidOut>>

CheckSucceeded(w) ==
    /\ job[w].at = "check"
    /\ \/ Succeeded = {} /\ Go(w, "restore")
       \/ Succeeded # {} /\ Return(w)
    /\ UNCHANGED <<order, refund, batch, va, entries, unbooked, paidOut>>

\* A variant with a bug: the default of _get_previous_status for every order.
RestoreDefault(w) ==
    /\ job[w].at = "restore"
    /\ order' = [order EXCEPT !.status = "PAY_RECEIVED"]
    /\ Return(w)
    /\ UNCHANGED <<refund, batch, va, entries, unbooked, paidOut>>

Restore(w) ==
    /\ job[w].at = "restore"
    /\ order' = [order EXCEPT !.status = job[w].read.last]
    /\ Return(w)
    /\ UNCHANGED <<refund, batch, va, entries, unbooked, paidOut>>

-----------------------------------------------------------------------------
\* create_daily_batches lists an order once; distribute pays the batch, or
\* the bank refuses it for good.
BatchOrder ==
    /\ batch = "none"
    /\ order.status = "PENDING_SETTLE"
    /\ batch' = "open"
    /\ UNCHANGED <<order, refund, va, entries, unbooked, paidOut, job>>

\* _finalize_success writes SETTLED whatever the status is by now, leaves the
\* history alone, and debits what Confirm transfer has not; a debit that fails,
\* or finds no account, is passed over.
Finalize ==
    /\ batch = "open"
    /\ batch' = "paid"
    /\ order' = [order EXCEPT !.status = "SETTLED"]
    /\ \/ /\ entries.settlement = 0 /\ va >= Amount
          /\ va' = va - Amount
          /\ entries' = [entries EXCEPT !.settlement = 1]
       \/ UNCHANGED <<va, entries>>
    /\ UNCHANGED <<refund, unbooked, paidOut, job>>

PayoutFails ==
    /\ batch = "open"
    /\ batch' = "failed"
    /\ UNCHANGED <<order, refund, va, entries, unbooked, paidOut, job>>

\* A worker dies, or its database connection does: what it had not committed
\* is rolled back, what the bank did is not.
Crash(w) ==
    /\ job[w].at # "idle"
    /\ Return(w)
    /\ UNCHANGED <<order, refund, batch, va, entries, unbooked, paidOut>>

Transfer(w) ==
    \/ ReadTransfer(w) \/ ConfirmFirst(w) \/ Refresh(w)
    \/ LookUpEntry(w) \/ DebitSettlement(w) \/ Advance(w)

RefundHandling(w) ==
    \/ \E a \in 1 .. Amount : ReadRefund(w, a)
    \/ \E f \in Refunds : CreateRefund(w, f) \/ ReadReview(w, f)
    \/ Approve(w) \/ CallBank(w) \/ FinishRefund(w) \/ SumRefunds(w) \/ SaveRefund(w)
    \/ FailRefund(w) \/ Reject(w) \/ CheckSucceeded(w) \/ Restore(w)

Next ==
    \/ Confirm \/ BatchOrder \/ Finalize \/ PayoutFails
    \/ \E w \in Workers :
          ReadClose(w) \/ WriteClose(w) \/ Transfer(w) \/ RefundHandling(w) \/ Crash(w)

Spec == Init /\ [][Next]_vars

-----------------------------------------------------------------------------
(***************************************************************************)
(* Properties                                                              *)
(***************************************************************************)

\* What a status says of the money is true although handlers write statuses
\* from readings that are long out of date: an order shown as received,
\* in settlement or settled was credited to the account, and in the last two
\* debited again, unless a confirmation of it had found no active account
\* and posted nothing, which payment.py and services.py allow.
StatusBacked ==
    /\ order.status \in {"PAY_RECEIVED", "PENDING_SETTLE", "SETTLED"}
       => entries.payment > 0 \/ unbooked
    /\ order.status \in {"PENDING_SETTLE", "SETTLED"}
       => entries.settlement > 0 \/ unbooked

\* The collection is credited once, although a stale save can bring an order
\* back to PENDING_PAY, after which it is confirmed again.
CreditedOnce == entries.payment <= 1

\* Every refund's reversal is posted at most once, and only for money the bank
\* has sent back, although executions overlap, crash and are retried.
ReversedOnce ==
    \A f \in Refunds : entries.refund[f] <= (IF f \in paidOut THEN 1 ELSE 0)

\* The balance is what its entries explain.
LedgerExplained ==
    va + Amount * entries.settlement
       + SumFunction([f \in Refunds |-> entries.refund[f] * refund[f].amount])
    = Float + Amount * entries.payment

\* An order is REFUNDED only when the bank has sent back all of its amount.
RefundedInFull == order.status = "REFUNDED" => TotalOf(paidOut) >= Amount

\* What the sources say of it, which the interleavings above do not keep.

\* close_order.py: only an order that awaits payment can be closed.
ClosedNotCollected == order.status = "CLOSED" => entries.payment = 0

\* services.py: the debit is idempotent on SETTLEMENT and the order.
SettlementDebitedOnce == entries.settlement <= 1

\* views.py: the refunds of an order are checked against its amount.
RefundsWithinAmount == TotalOf(Outstanding) <= Amount

\* refund.py: rejecting a refund restores the status the order had before.
SettledStaysSettled ==
    batch = "paid" => order.status \in {"SETTLED", "REFUNDING", "REFUNDED"}
=============================================================================
