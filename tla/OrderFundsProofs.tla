-------------------------- MODULE OrderFundsProofs --------------------------
(***************************************************************************)
(* Proofs about OrderFunds, for any number of workers and refunds, any     *)
(* amount and any balance left on the account by other orders.             *)
(***************************************************************************)
EXTENDS OrderFunds, SumTheorems

JobRow == [at : Steps, ref : Refunds \cup {"none"}, amount : 0 .. Amount, read : OrderRow]
EntryRow == [payment : Nat, settlement : Nat, refund : [Refunds -> Nat]]

\* A handler past its first step on a refund is on an actual refund.
OnRefund ==
    \A w \in Workers :
        job[w].at \in {"approve", "execute", "succeeded", "full", "partial",
                       "failed", "reject", "check", "restore"}
        => job[w].ref \in Refunds

TypeInv == TypeOK /\ OnRefund

\* The order's money came, and went, or a confirmation posted nothing.
Collected == entries.payment > 0 \/ unbooked
Debited == entries.settlement > 0 \/ unbooked

\* What a status, in a row or in a reading of it, says of the ledger.
Backed(s) ==
    /\ s \in {"PAY_RECEIVED", "PENDING_SETTLE", "SETTLED"} => Collected
    /\ s \in {"PENDING_SETTLE", "SETTLED"} => Debited

\* The strengthening of StatusBacked: the history, every reading a handler
\* still holds, and the batch are backed too.
JobBacked(w) ==
    /\ Backed(job[w].read.last)
    /\ job[w].at \in {"lookup", "debit", "advance"} => Collected
    /\ job[w].at = "advance" => Debited

JobsBacked == \A w \in Workers : JobBacked(w)

OrderBacked == Backed(order.status) /\ Backed(order.last)

BatchBacked == batch # "none" => Collected /\ Debited

BackedInv == OrderBacked /\ JobsBacked /\ BatchBacked

\* The strengthening of ReversedOnce: an execution that goes on was paid.
PaidInv ==
    /\ ReversedOnce
    /\ \A w \in Workers :
          job[w].at \in {"succeeded", "full", "partial"} => job[w].ref \in paidOut

-----------------------------------------------------------------------------
LEMMA StepNames ==
    /\ {"idle", "close", "confirm", "refresh", "lookup", "debit", "advance",
        "create", "approve", "execute", "succeeded", "full", "partial", "failed",
        "reject", "check", "restore"} \subseteq Steps
    /\ \A s \in OrderStatuses : Status(s) \in OrderRow
    /\ Idle \in JobRow
    /\ OrderStatuses = {"PENDING_PAY", "PAY_RECEIVED", "PENDING_SETTLE", "SETTLED",
                        "CLOSED", "REFUNDING", "REFUNDED"}
  <1>1. \A s \in OrderStatuses : Status(s) \in OrderRow
    BY DEF Status, OrderRow
  <1>2. Status("PENDING_PAY") \in OrderRow
    BY <1>1 DEF OrderStatuses
  <1>3. 0 \in 0 .. Amount
    BY FundsParameters
  <1>. QED
    BY <1>1, <1>2, <1>3 DEF Idle, JobRow, Steps, OrderStatuses

\* The ways a handler moves.
LEMMA JobTyped ==
    ASSUME TypeOK, NEW w \in Workers
    PROVE  /\ \A s \in Steps : Go(w, s) => job' \in [Workers -> JobRow]
           /\ Return(w) => job' \in [Workers -> JobRow]
           /\ \A s \in Steps, f \in Refunds :
                 /\ [job EXCEPT ![w].at = s, ![w].ref = f] \in [Workers -> JobRow]
                 /\ [job EXCEPT ![w].at = s, ![w].ref = f, ![w].read = order]
                       \in [Workers -> JobRow]
           /\ \A a \in 1 .. Amount :
                 [job EXCEPT ![w] = [at |-> "create", ref |-> "none", amount |-> a,
                                     read |-> order]] \in [Workers -> JobRow]
  <1>. job \in [Workers -> JobRow] /\ job[w] \in JobRow /\ order \in OrderRow
    BY DEF TypeOK, JobRow
  <1>1. ASSUME NEW s \in Steps
        PROVE  [job[w] EXCEPT !.at = s] \in JobRow
    BY DEF JobRow
  <1>2. ASSUME NEW s \in Steps, NEW f \in Refunds
        PROVE  /\ [job[w] EXCEPT !.at = s, !.ref = f] \in JobRow
               /\ [job[w] EXCEPT !.at = s, !.ref = f, !.read = order] \in JobRow
    BY DEF JobRow
  <1>3. ASSUME NEW a \in 1 .. Amount
        PROVE  [at |-> "create", ref |-> "none", amount |-> a, read |-> order] \in JobRow
    <2>1. a \in 0 .. Amount /\ "create" \in Steps
      BY FundsParameters, StepNames
    <2>. QED
      BY <2>1 DEF JobRow
  <1>4. \A s \in Steps : Go(w, s) => job' \in [Workers -> JobRow]
    BY <1>1 DEF Go
  <1>5. Return(w) => job' \in [Workers -> JobRow]
    BY StepNames DEF Return
  <1>6. ASSUME NEW s \in Steps, NEW f \in Refunds
        PROVE  /\ [job EXCEPT ![w].at = s, ![w].ref = f] \in [Workers -> JobRow]
               /\ [job EXCEPT ![w].at = s, ![w].ref = f, ![w].read = order]
                     \in [Workers -> JobRow]
    BY <1>2
  <1>7. ASSUME NEW a \in 1 .. Amount
        PROVE  [job EXCEPT ![w] = [at |-> "create", ref |-> "none", amount |-> a,
                                   read |-> order]] \in [Workers -> JobRow]
    BY <1>3
  <1>. QED
    BY <1>4, <1>5, <1>6, <1>7

LEMMA EntriesTyped ==
    ASSUME TypeOK
    PROVE  /\ entries \in EntryRow /\ va \in Nat
           /\ [entries EXCEPT !.payment = @ + 1] \in EntryRow
           /\ [entries EXCEPT !.settlement = @ + 1] \in EntryRow
           /\ [entries EXCEPT !.settlement = 1] \in EntryRow
           /\ \A f \in Refunds : [entries EXCEPT !.refund[f] = @ + 1] \in EntryRow
           /\ \A f \in Refunds : refund[f].amount \in Nat
           /\ \A n \in Nat : va + n \in Nat /\ (va >= n => va - n \in Nat)
  <1>1. entries \in EntryRow /\ va \in Nat
    BY DEF TypeOK, EntryRow
  <1>2. entries.payment + 1 \in Nat /\ entries.settlement + 1 \in Nat
    BY <1>1 DEF EntryRow
  <1>3. ASSUME NEW f \in Refunds
        PROVE  /\ [entries.refund EXCEPT ![f] = @ + 1] \in [Refunds -> Nat]
               /\ refund[f].amount \in Nat
    BY <1>1, FundsParameters DEF EntryRow, TypeOK, RefundRow
  <1>4. \A f \in Refunds : [entries EXCEPT !.refund[f] = @ + 1] \in EntryRow
    BY <1>1, <1>3 DEF EntryRow
  <1>. QED
    BY <1>1, <1>2, <1>3, <1>4 DEF EntryRow

LEMMA InitFunds == Init => TypeInv /\ BackedInv /\ PaidInv
  <1>. SUFFICES ASSUME Init PROVE TypeInv /\ BackedInv /\ PaidInv
    OBVIOUS
  <1>1. TypeOK
    <2>1. order \in OrderRow
      BY StepNames DEF Init
    <2>2. refund \in [Refunds -> RefundRow]
      BY FundsParameters DEF Init, RefundRow, RefundStatuses
    <2>3. va \in Nat
      BY FundsParameters DEF Init
    <2>4. job \in [Workers -> JobRow]
      BY StepNames DEF Init
    <2>. QED
      BY <2>1, <2>2, <2>3, <2>4 DEF Init, TypeOK, JobRow
  <1>2. \A w \in Workers : job[w].at = "idle" /\ job[w].read.last = "PENDING_PAY"
    BY DEF Init, Idle, Status
  <1>3. OnRefund
    BY <1>2 DEF OnRefund
  <1>4. BackedInv
    BY <1>2 DEF Init, BackedInv, OrderBacked, JobsBacked, JobBacked, BatchBacked, Backed, Status
  <1>5. PaidInv
    BY <1>2 DEF Init, PaidInv, ReversedOnce
  <1>. QED
    BY <1>1, <1>3, <1>4, <1>5 DEF TypeInv

\* Moves of a handler that leave it on the refund it was on, or on none.
LEMMA MoveKeepsRefund ==
    ASSUME TypeInv, NEW w \in Workers
    PROVE  /\ \A s \in Steps :
                 Go(w, s) /\ (s \in {"approve", "execute", "succeeded", "full", "partial",
                                     "failed", "reject", "check", "restore"} => job[w].ref \in Refunds)
                 => OnRefund'
           /\ Return(w) => OnRefund'
  <1>. job \in [Workers -> JobRow]
    BY DEF TypeInv, TypeOK, JobRow
  <1>1. ASSUME NEW s \in Steps, Go(w, s),
               s \in {"approve", "execute", "succeeded", "full", "partial",
                      "failed", "reject", "check", "restore"} => job[w].ref \in Refunds
        PROVE  OnRefund'
    <2>1. /\ \A x \in Workers \ {w} : job'[x] = job[x]
          /\ job'[w].at = s /\ job'[w].ref = job[w].ref
      BY <1>1 DEF Go, JobRow
    <2>. QED
      BY <1>1, <2>1 DEF TypeInv, OnRefund
  <1>2. ASSUME Return(w)
        PROVE  OnRefund'
    <2>1. (\A x \in Workers \ {w} : job'[x] = job[x]) /\ job'[w].at = "idle"
      BY <1>2 DEF Return, Idle
    <2>. QED
      BY <2>1 DEF TypeInv, OnRefund
  <1>. QED
    BY <1>1, <1>2

LEMMA ConfirmTyped ==
    ASSUME TypeOK, ConfirmPayment
    PROVE  order' \in OrderRow /\ va' \in Nat /\ entries' \in EntryRow /\ unbooked' \in BOOLEAN
  <1>1. order' \in OrderRow
    BY StepNames DEF ConfirmPayment
  <1>2. va' \in Nat /\ entries' \in EntryRow
    BY EntriesTyped, FundsParameters DEF ConfirmPayment, PostCollection
  <1>3. unbooked' \in BOOLEAN
    BY DEF ConfirmPayment, PostCollection, TypeOK
  <1>. QED
    BY <1>1, <1>2, <1>3

LEMMA TransferTyped ==
    ASSUME TypeInv, NEW w \in Workers, Transfer(w)
    PROVE  TypeInv'
  <1>. TypeOK /\ Amount \in Nat
    BY FundsParameters DEF TypeInv
  <1>1. CASE ReadTransfer(w)
    <2>1. job' \in [Workers -> JobRow]
      BY <1>1, JobTyped, StepNames DEF ReadTransfer, Begin
    <2>2. OnRefund'
      BY <1>1, MoveKeepsRefund, StepNames DEF ReadTransfer, Begin
    <2>. QED
      BY <1>1, <2>1, <2>2 DEF ReadTransfer, TypeInv, TypeOK, JobRow
  <1>2. CASE ConfirmFirst(w)
    <2>1. job' \in [Workers -> JobRow]
      BY <1>2, JobTyped, StepNames DEF ConfirmFirst
    <2>2. OnRefund'
      BY <1>2, MoveKeepsRefund, StepNames DEF ConfirmFirst
    <2>3. order' \in OrderRow /\ va' \in Nat /\ entries' \in EntryRow /\ unbooked' \in BOOLEAN
      BY <1>2, ConfirmTyped, EntriesTyped DEF ConfirmFirst, TypeOK
    <2>. QED
      BY <1>2, <2>1, <2>2, <2>3 DEF ConfirmFirst, TypeInv, TypeOK, JobRow, EntryRow
  <1>3. CASE Refresh(w)
    <2>1. job' \in [Workers -> JobRow]
      BY <1>3, JobTyped, StepNames DEF Refresh
    <2>2. OnRefund'
      BY <1>3, MoveKeepsRefund, StepNames DEF Refresh
    <2>. QED
      BY <1>3, <2>1, <2>2 DEF Refresh, TypeInv, TypeOK, JobRow
  <1>4. CASE LookUpEntry(w)
    <2>1. job' \in [Workers -> JobRow]
      BY <1>4, JobTyped, StepNames DEF LookUpEntry
    <2>2. OnRefund'
      BY <1>4, MoveKeepsRefund, StepNames DEF LookUpEntry
    <2>. QED
      BY <1>4, <2>1, <2>2 DEF LookUpEntry, TypeInv, TypeOK, JobRow
  <1>5. CASE DebitSettlement(w)
    <2>1. job' \in [Workers -> JobRow]
      BY <1>5, JobTyped, StepNames DEF DebitSettlement
    <2>2. OnRefund'
      BY <1>5, MoveKeepsRefund, StepNames DEF DebitSettlement
    <2>3. va' \in Nat /\ entries' \in EntryRow
      BY <1>5, EntriesTyped DEF DebitSettlement
    <2>. QED
      BY <1>5, <2>1, <2>2, <2>3 DEF DebitSettlement, TypeInv, TypeOK, JobRow, EntryRow
  <1>6. CASE Advance(w)
    <2>1. job' \in [Workers -> JobRow] /\ OnRefund'
      BY <1>6, JobTyped, MoveKeepsRefund DEF Advance
    <2>2. order' \in OrderRow
      BY <1>6, StepNames DEF Advance
    <2>. QED
      BY <1>6, <2>1, <2>2 DEF Advance, TypeInv, TypeOK, JobRow
  <1>. QED
    BY <1>1, <1>2, <1>3, <1>4, <1>5, <1>6 DEF Transfer

LEMMA RefundTyped ==
    ASSUME TypeOK, NEW f \in Refunds, NEW s \in RefundStatuses
    PROVE  /\ SetRefund(f, s) => refund' \in [Refunds -> RefundRow]
           /\ \A a \in 0 .. Amount :
                 [refund EXCEPT ![f] = [status |-> s, amount |-> a]] \in [Refunds -> RefundRow]
  <1>1. refund \in [Refunds -> RefundRow] /\ refund[f] \in RefundRow
    BY DEF TypeOK
  <1>2. /\ [refund[f] EXCEPT !.status = s] \in RefundRow
        /\ \A a \in 0 .. Amount : [status |-> s, amount |-> a] \in RefundRow
    BY <1>1 DEF RefundRow
  <1>3. SetRefund(f, s) => refund' \in [Refunds -> RefundRow]
    BY <1>1, <1>2 DEF SetRefund
  <1>. QED
    BY <1>1, <1>2, <1>3

LEMMA ReviewTyped ==
    ASSUME TypeInv, NEW w \in Workers, NEW f \in Refunds, ReadReview(w, f)
    PROVE  TypeInv'
  <1>. TypeOK
    BY DEF TypeInv
  <1>. job \in [Workers -> JobRow]
    BY DEF TypeOK, JobRow
  <1>1. PICK s \in {"approve", "reject", "execute"} :
           \/ job' = [job EXCEPT ![w].at = s, ![w].ref = f]
           \/ job' = [job EXCEPT ![w].at = s, ![w].ref = f, ![w].read = order]
    BY DEF ReadReview
  <1>2. s \in Steps
    BY <1>1, StepNames
  <1>3. job' \in [Workers -> JobRow]
    <2>1. CASE job' = [job EXCEPT ![w].at = s, ![w].ref = f]
      BY <2>1, <1>2, JobTyped
    <2>2. CASE job' = [job EXCEPT ![w].at = s, ![w].ref = f, ![w].read = order]
      BY <2>2, <1>2, JobTyped
    <2>. QED
      BY <1>1, <2>1, <2>2
  <1>4. (\A x \in Workers \ {w} : job'[x] = job[x]) /\ job'[w].ref = f
    BY <1>1 DEF JobRow
  <1>5. OnRefund'
    BY <1>4 DEF OnRefund, TypeInv
  <1>. QED
    BY <1>3, <1>5 DEF ReadReview, TypeInv, TypeOK, JobRow

LEMMA RefundHandlingTyped ==
    ASSUME TypeInv, NEW w \in Workers, RefundHandling(w)
    PROVE  TypeInv'
  <1>. TypeOK
    BY DEF TypeInv
  <1>. job \in [Workers -> JobRow] /\ job[w] \in JobRow
    BY DEF TypeOK, JobRow
  <1>1. ASSUME NEW a \in 1 .. Amount, ReadRefund(w, a)
        PROVE  TypeInv'
    <2>1. job' \in [Workers -> JobRow]
      BY <1>1, JobTyped DEF ReadRefund
    <2>2. (\A x \in Workers \ {w} : job'[x] = job[x]) /\ job'[w].at = "create"
      BY <1>1 DEF ReadRefund
    <2>3. OnRefund'
      BY <2>2 DEF OnRefund, TypeInv
    <2>. QED
      BY <1>1, <2>1, <2>3 DEF ReadRefund, TypeInv, TypeOK, JobRow
  <1>2. ASSUME NEW f \in Refunds, CreateRefund(w, f)
        PROVE  TypeInv'
    <2>1. job' \in [Workers -> JobRow] /\ OnRefund'
      BY <1>2, JobTyped, MoveKeepsRefund DEF CreateRefund
    <2>2. job[w].amount \in 0 .. Amount /\ job[w].read.last \in OrderStatuses
      BY DEF JobRow, OrderRow
    <2>3. refund' \in [Refunds -> RefundRow]
      BY <1>2, <2>2, RefundTyped DEF CreateRefund, RefundStatuses
    <2>4. order' \in OrderRow
      BY <1>2, <2>2, StepNames DEF CreateRefund, OrderRow
    <2>. QED
      BY <1>2, <2>1, <2>3, <2>4 DEF CreateRefund, TypeInv, TypeOK, JobRow
  <1>3. ASSUME Approve(w)
        PROVE  TypeInv'
    <2>1. job[w].ref \in Refunds
      BY <1>3 DEF Approve, TypeInv, OnRefund
    <2>2. job' \in [Workers -> JobRow] /\ OnRefund'
      BY <1>3, <2>1, JobTyped, MoveKeepsRefund, StepNames DEF Approve
    <2>3. refund' \in [Refunds -> RefundRow]
      BY <1>3, <2>1, RefundTyped DEF Approve, RefundStatuses
    <2>. QED
      BY <1>3, <2>2, <2>3 DEF Approve, TypeInv, TypeOK, JobRow
  <1>4. ASSUME CallBank(w)
        PROVE  TypeInv'
    <2>1. job[w].ref \in Refunds
      BY <1>4 DEF CallBank, TypeInv, OnRefund
    <2>2. job' \in [Workers -> JobRow]
      BY <1>4, JobTyped, StepNames DEF CallBank
    <2>3. OnRefund'
      BY <1>4, <2>1, MoveKeepsRefund, StepNames DEF CallBank
    <2>. QED
      BY <1>4, <2>1, <2>2, <2>3 DEF CallBank, TypeInv, TypeOK, JobRow
  <1>5. ASSUME FinishRefund(w) \/ SaveRefund(w)
        PROVE  TypeInv'
    <2>1. job[w].ref \in Refunds
      BY <1>5 DEF FinishRefund, SaveRefund, TypeInv, OnRefund
    <2>2. job' \in [Workers -> JobRow] /\ OnRefund'
      BY <1>5, JobTyped, MoveKeepsRefund DEF FinishRefund, SaveRefund
    <2>3. \E full \in BOOLEAN : SaveOutcome(job[w].ref, full)
      BY <1>5 DEF FinishRefund, SaveRefund, SaveOutcome
    <2>4. refund' \in [Refunds -> RefundRow]
      BY <2>1, <2>3, RefundTyped DEF SaveOutcome, RefundStatuses
    <2>5. order' \in OrderRow
      BY <2>3, StepNames, SMTT(30) DEF SaveOutcome, TypeOK, OrderRow
    <2>6. va' \in Nat /\ entries' \in EntryRow
      BY <1>5, <2>1, EntriesTyped DEF FinishRefund, SaveRefund, ReverseCollection
    <2>. QED
      BY <1>5, <2>2, <2>4, <2>5, <2>6
      DEF FinishRefund, SaveRefund, TypeInv, TypeOK, JobRow, EntryRow
  <1>6. ASSUME SumRefunds(w)
        PROVE  TypeInv'
    <2>1. job[w].ref \in Refunds
      BY <1>6 DEF SumRefunds, TypeInv, OnRefund
    <2>2. job' \in [Workers -> JobRow]
      BY <1>6, JobTyped, StepNames DEF SumRefunds
    <2>3. OnRefund'
      BY <1>6, <2>1, MoveKeepsRefund, StepNames DEF SumRefunds
    <2>. QED
      BY <1>6, <2>2, <2>3 DEF SumRefunds, TypeInv, TypeOK, JobRow
  <1>7. ASSUME FailRefund(w)
        PROVE  TypeInv'
    <2>1. job[w].ref \in Refunds
      BY <1>7 DEF FailRefund, TypeInv, OnRefund
    <2>2. job' \in [Workers -> JobRow] /\ OnRefund'
      BY <1>7, JobTyped, MoveKeepsRefund DEF FailRefund
    <2>3. refund' \in [Refunds -> RefundRow]
      BY <1>7, <2>1, RefundTyped DEF FailRefund, RefundStatuses
    <2>. QED
      BY <1>7, <2>2, <2>3 DEF FailRefund, TypeInv, TypeOK, JobRow
  <1>8. ASSUME Reject(w)
        PROVE  TypeInv'
    <2>1. job[w].ref \in Refunds
      BY <1>8 DEF Reject, TypeInv, OnRefund
    <2>2. job' \in [Workers -> JobRow]
      BY <1>8, JobTyped, StepNames DEF Reject
    <2>3. OnRefund'
      BY <1>8, <2>1, MoveKeepsRefund, StepNames DEF Reject
    <2>4. refund' \in [Refunds -> RefundRow]
      BY <1>8, <2>1, RefundTyped DEF Reject, RefundStatuses
    <2>. QED
      BY <1>8, <2>2, <2>3, <2>4 DEF Reject, TypeInv, TypeOK, JobRow
  <1>9. ASSUME Restore(w)
        PROVE  TypeInv'
    <2>1. job' \in [Workers -> JobRow] /\ OnRefund'
      BY <1>9, JobTyped, MoveKeepsRefund DEF Restore
    <2>2. job[w].read.last \in OrderStatuses
      BY DEF JobRow, OrderRow
    <2>3. order' \in OrderRow
      BY <1>9, <2>2 DEF Restore, TypeOK, OrderRow
    <2>. QED
      BY <1>9, <2>1, <2>3 DEF Restore, TypeInv, TypeOK, JobRow
  <1>10. ASSUME CheckSucceeded(w)
         PROVE  TypeInv'
    <2>1. job[w].ref \in Refunds
      BY <1>10 DEF CheckSucceeded, TypeInv, OnRefund
    <2>2. job' \in [Workers -> JobRow]
      BY <1>10, JobTyped, StepNames DEF CheckSucceeded
    <2>3. OnRefund'
      BY <1>10, <2>1, MoveKeepsRefund, StepNames DEF CheckSucceeded
    <2>. QED
      BY <1>10, <2>2, <2>3 DEF CheckSucceeded, TypeInv, TypeOK, JobRow
  <1>. QED
    BY <1>1, <1>2, <1>3, <1>4, <1>5, <1>6, <1>7, <1>8, <1>9, <1>10, ReviewTyped
    DEF RefundHandling

LEMMA FundsStepTyped ==
    ASSUME TypeInv, [Next]_vars
    PROVE  TypeInv'
  <1>. TypeOK
    BY DEF TypeInv
  <1>1. ASSUME Confirm
        PROVE  TypeInv'
    <2>1. order' \in OrderRow /\ va' \in Nat /\ entries' \in EntryRow /\ unbooked' \in BOOLEAN
      BY <1>1, ConfirmTyped DEF Confirm
    <2>. QED
      BY <1>1, <2>1 DEF Confirm, TypeInv, TypeOK, EntryRow, OnRefund
  <1>2. ASSUME BatchOrder \/ PayoutFails \/ UNCHANGED vars
        PROVE  TypeInv'
    BY <1>2 DEF BatchOrder, PayoutFails, vars, TypeInv, TypeOK, OnRefund
  <1>3. ASSUME Finalize
        PROVE  TypeInv'
    <2>1. order' \in OrderRow
      BY <1>3, StepNames DEF Finalize, TypeOK, OrderRow
    <2>2. va' \in Nat /\ entries' \in EntryRow
      BY <1>3, EntriesTyped, FundsParameters DEF Finalize
    <2>. QED
      BY <1>3, <2>1, <2>2 DEF Finalize, TypeInv, TypeOK, EntryRow, OnRefund
  <1>4. ASSUME NEW w \in Workers, ReadClose(w)
        PROVE  TypeInv'
    <2>1. job' \in [Workers -> JobRow] /\ OnRefund'
      BY <1>4, JobTyped, MoveKeepsRefund, StepNames DEF ReadClose, Begin
    <2>. QED
      BY <1>4, <2>1 DEF ReadClose, TypeInv, TypeOK, JobRow
  <1>5. ASSUME NEW w \in Workers, WriteClose(w)
        PROVE  TypeInv'
    <2>1. job' \in [Workers -> JobRow] /\ OnRefund'
      BY <1>5, JobTyped, MoveKeepsRefund DEF WriteClose
    <2>2. order' \in OrderRow
      BY <1>5, StepNames DEF WriteClose
    <2>. QED
      BY <1>5, <2>1, <2>2 DEF WriteClose, TypeInv, TypeOK, JobRow
  <1>6. ASSUME NEW w \in Workers, Crash(w)
        PROVE  TypeInv'
    <2>1. job' \in [Workers -> JobRow] /\ OnRefund'
      BY <1>6, JobTyped, MoveKeepsRefund DEF Crash
    <2>. QED
      BY <1>6, <2>1 DEF Crash, TypeInv, TypeOK, JobRow
  <1>. QED
    BY <1>1, <1>2, <1>3, <1>4, <1>5, <1>6, TransferTyped, RefundHandlingTyped DEF Next

\* TypeOK of the runs: whatever the interleaving of the handlers, no debit takes
\* the account's balance below zero, and every row keeps its type.
THEOREM FundsTyped == Spec => []TypeOK
  <1>1. TypeInv /\ [Next]_vars => TypeInv'
    BY FundsStepTyped
  <1>2. TypeInv => TypeOK
    BY DEF TypeInv
  <1>. QED
    BY InitFunds, <1>1, <1>2, PTL DEF Spec

-----------------------------------------------------------------------------
\* An entry that is there stays there, and what was not booked is remembered.
EntriesKept ==
    /\ Collected => Collected'
    /\ Debited => Debited'

LEMMA EntriesGrow ==
    ASSUME TypeInv, [Next]_vars
    PROVE  EntriesKept
  <1>. entries \in EntryRow
    BY DEF TypeInv, TypeOK, EntryRow
  <1>1. \/ entries' = entries
        \/ entries' = [entries EXCEPT !.payment = @ + 1]
        \/ entries' = [entries EXCEPT !.settlement = @ + 1]
        \/ entries' = [entries EXCEPT !.settlement = 1]
        \/ \E f \in Refunds : entries' = [entries EXCEPT !.refund[f] = @ + 1]
    <2>1. ASSUME NEW w \in Workers, Transfer(w)
          PROVE  <1>1
      BY <2>1 DEF Transfer, ReadTransfer, ConfirmFirst, ConfirmPayment, PostCollection,
                  Refresh, LookUpEntry, DebitSettlement, Advance
    <2>2. ASSUME NEW w \in Workers, FinishRefund(w)
          PROVE  <1>1
      BY <2>2 DEF FinishRefund, ReverseCollection, TypeInv, OnRefund
    <2>3. ASSUME NEW w \in Workers, RefundHandling(w), ~FinishRefund(w)
          PROVE  entries' = entries
      BY <2>3 DEF RefundHandling, ReadRefund, CreateRefund, ReadReview, Approve, CallBank,
                  SumRefunds, SaveRefund, FailRefund, Reject, CheckSucceeded, Restore
    <2>4. ASSUME Confirm \/ BatchOrder \/ Finalize \/ PayoutFails \/ UNCHANGED vars
          PROVE  <1>1
      BY <2>4 DEF Confirm, ConfirmPayment, PostCollection, BatchOrder, Finalize, PayoutFails,
                  vars
    <2>5. ASSUME NEW w \in Workers, ReadClose(w) \/ WriteClose(w) \/ Crash(w)
          PROVE  entries' = entries
      BY <2>5 DEF ReadClose, WriteClose, Crash
    <2>. QED
      BY <2>1, <2>2, <2>3, <2>4, <2>5 DEF Next
  <1>2. unbooked => unbooked'
    <2>1. ASSUME NEW w \in Workers, Transfer(w)
          PROVE  unbooked => unbooked'
      BY <2>1 DEF Transfer, ReadTransfer, ConfirmFirst, ConfirmPayment, PostCollection,
                  Refresh, LookUpEntry, DebitSettlement, Advance
    <2>2. ASSUME NEW w \in Workers, RefundHandling(w)
          PROVE  unbooked' = unbooked
      BY <2>2 DEF RefundHandling, ReadRefund, CreateRefund, ReadReview, Approve, CallBank,
                  FinishRefund, SumRefunds, SaveRefund, FailRefund, Reject, CheckSucceeded,
                  Restore
    <2>3. ASSUME Confirm \/ BatchOrder \/ Finalize \/ PayoutFails \/ UNCHANGED vars
          PROVE  unbooked => unbooked'
      BY <2>3 DEF Confirm, ConfirmPayment, PostCollection, BatchOrder, Finalize, PayoutFails,
                  vars
    <2>4. ASSUME NEW w \in Workers, ReadClose(w) \/ WriteClose(w) \/ Crash(w)
          PROVE  unbooked' = unbooked
      BY <2>4 DEF ReadClose, WriteClose, Crash
    <2>. QED
      BY <2>1, <2>2, <2>3, <2>4 DEF Next
  <1>3. /\ entries.payment > 0 => entries'.payment > 0
        /\ entries.settlement > 0 => entries'.settlement > 0
    BY <1>1 DEF EntryRow
  <1>. QED
    BY <1>2, <1>3 DEF EntriesKept, Collected, Debited

LEMMA BackingKept ==
    ASSUME EntriesKept
    PROVE  /\ \A s : Backed(s) => Backed(s)'
           /\ order' = order /\ OrderBacked => OrderBacked'
           /\ batch' = batch /\ BatchBacked => BatchBacked'
           /\ job' = job /\ JobsBacked => JobsBacked'
  BY DEF EntriesKept, Backed, OrderBacked, BatchBacked, JobsBacked, JobBacked

\* A handler that moves keeps what it has read; where it goes must be backed.
LEMMA MoveKeepsBacking ==
    ASSUME TypeInv, BackedInv, EntriesKept, NEW w \in Workers
    PROVE  /\ Return(w) => JobsBacked'
           /\ \A s \in Steps :
                 /\ Go(w, s)
                 /\ s \in {"lookup", "debit", "advance"} => Collected'
                 /\ s = "advance" => Debited'
                 => JobsBacked'
  <1>. job \in [Workers -> JobRow]
    BY DEF TypeInv, TypeOK, JobRow
  <1>1. ASSUME \A x \in Workers \ {w} : job'[x] = job[x], JobBacked(w)'
        PROVE  JobsBacked'
    BY <1>1 DEF BackedInv, JobsBacked, JobBacked, Backed, EntriesKept
  <1>2. ASSUME Return(w)
        PROVE  JobsBacked'
    <2>1. /\ \A x \in Workers \ {w} : job'[x] = job[x]
          /\ job'[w].at = "idle" /\ job'[w].read.last = "PENDING_PAY"
      BY <1>2 DEF Return, Idle, Status
    <2>. QED
      BY <1>1, <2>1 DEF JobBacked, Backed
  <1>3. ASSUME NEW s \in Steps, Go(w, s),
               s \in {"lookup", "debit", "advance"} => Collected',
               s = "advance" => Debited'
        PROVE  JobsBacked'
    <2>1. /\ \A x \in Workers \ {w} : job'[x] = job[x]
          /\ job'[w].at = s /\ job'[w].read = job[w].read
      BY <1>3 DEF Go, JobRow
    <2>2. JobBacked(w)'
      BY <1>3, <2>1 DEF BackedInv, JobsBacked, JobBacked, Backed, EntriesKept
    <2>. QED
      BY <1>1, <2>1, <2>2
  <1>. QED
    BY <1>2, <1>3

LEMMA TransferBacked ==
    ASSUME TypeInv, BackedInv, EntriesKept, NEW w \in Workers, Transfer(w)
    PROVE  BackedInv'
  <1>. TypeOK /\ OrderBacked /\ BatchBacked /\ JobBacked(w)
    BY DEF TypeInv, BackedInv, JobsBacked
  <1>. entries \in EntryRow
    BY DEF TypeOK, EntryRow
  <1>1. batch' = batch /\ BatchBacked'
    <2>1. batch' = batch
      BY DEF Transfer, ReadTransfer, ConfirmFirst, Refresh, LookUpEntry, DebitSettlement,
             Advance
    <2>. QED
      BY <2>1, BackingKept
  <1>2. CASE ReadTransfer(w)
    <2>1. JobsBacked'
      BY <1>2, MoveKeepsBacking, StepNames DEF ReadTransfer, Begin
    <2>. QED
      BY <1>1, <1>2, <2>1, BackingKept DEF ReadTransfer, BackedInv
  <1>3. CASE ConfirmFirst(w)
    <2>1. JobsBacked'
      BY <1>3, MoveKeepsBacking, StepNames DEF ConfirmFirst
    <2>2. OrderBacked'
      <3>1. CASE ConfirmPayment
        BY <3>1 DEF ConfirmPayment, PostCollection, Status, OrderBacked, Backed, EntryRow,
                    Collected
      <3>2. CASE ~ConfirmPayment
        BY <1>3, <3>2, BackingKept DEF ConfirmFirst
      <3>. QED
        BY <3>1, <3>2
    <2>. QED
      BY <1>1, <2>1, <2>2 DEF BackedInv
  <1>4. CASE Refresh(w)
    <2>1. order.status = "PAY_RECEIVED" => Collected'
      BY DEF OrderBacked, Backed, EntriesKept
    <2>2. JobsBacked'
      BY <1>4, <2>1, MoveKeepsBacking, StepNames DEF Refresh
    <2>. QED
      BY <1>1, <1>4, <2>2, BackingKept DEF Refresh, BackedInv
  <1>5. CASE LookUpEntry(w)
    <2>1. Collected' /\ (entries.settlement > 0 \/ entries.payment = 0 => Debited')
      BY <1>5 DEF LookUpEntry, JobBacked, EntriesKept, Collected, Debited
    <2>2. JobsBacked'
      BY <1>5, <2>1, MoveKeepsBacking, StepNames DEF LookUpEntry
    <2>. QED
      BY <1>1, <1>5, <2>2, BackingKept DEF LookUpEntry, BackedInv
  <1>6. CASE DebitSettlement(w)
    <2>1. Collected'
      BY <1>6 DEF DebitSettlement, JobBacked, EntriesKept
    <2>2. entries' = [entries EXCEPT !.settlement = @ + 1] => Debited'
      BY DEF EntryRow, Debited
    <2>3. JobsBacked'
      BY <1>6, <2>1, <2>2, MoveKeepsBacking, StepNames DEF DebitSettlement
    <2>. QED
      BY <1>1, <1>6, <2>3, BackingKept DEF DebitSettlement, BackedInv
  <1>7. CASE Advance(w)
    <2>1. JobsBacked'
      BY <1>7, MoveKeepsBacking DEF Advance
    <2>2. OrderBacked'
      BY <1>7 DEF Advance, JobBacked, Status, OrderBacked, Backed, EntriesKept
    <2>. QED
      BY <1>1, <2>1, <2>2 DEF BackedInv
  <1>. QED
    BY <1>2, <1>3, <1>4, <1>5, <1>6, <1>7 DEF Transfer

LEMMA RefundHandlingBacked ==
    ASSUME TypeInv, BackedInv, EntriesKept, NEW w \in Workers, RefundHandling(w)
    PROVE  BackedInv'
  <1>. TypeOK /\ OrderBacked /\ BatchBacked /\ JobsBacked /\ JobBacked(w)
    BY DEF TypeInv, BackedInv, JobsBacked
  <1>. job \in [Workers -> JobRow] /\ order \in OrderRow
    BY DEF TypeOK, JobRow
  <1>1. BatchBacked'
    <2>1. batch' = batch
      BY DEF RefundHandling, ReadRefund, CreateRefund, ReadReview, Approve, CallBank,
             FinishRefund, SumRefunds, SaveRefund, FailRefund, Reject, CheckSucceeded, Restore
    <2>. QED
      BY <2>1, BackingKept
  <1>2. ASSUME NEW a \in 1 .. Amount, ReadRefund(w, a)
        PROVE  BackedInv'
    <2>1. /\ \A x \in Workers \ {w} : job'[x] = job[x]
          /\ job'[w].at = "create" /\ job'[w].read = order
      BY <1>2 DEF ReadRefund
    <2>2. JobsBacked'
      BY <2>1 DEF JobsBacked, JobBacked, OrderBacked, Backed, EntriesKept
    <2>. QED
      BY <1>1, <1>2, <2>2, BackingKept DEF ReadRefund, BackedInv
  <1>3. ASSUME NEW f \in Refunds, ReadReview(w, f)
        PROVE  BackedInv'
    <2>1. /\ \A x \in Workers \ {w} : job'[x] = job[x]
          /\ job'[w].at \in {"approve", "reject", "execute"}
          /\ job'[w].read \in {job[w].read, order}
      BY <1>3 DEF ReadReview, JobRow
    <2>2. JobsBacked'
      BY <2>1 DEF JobsBacked, JobBacked, OrderBacked, Backed, EntriesKept
    <2>. QED
      BY <1>1, <1>3, <2>2, BackingKept DEF ReadReview, BackedInv
  <1>4. ASSUME NEW f \in Refunds, CreateRefund(w, f)
        PROVE  BackedInv'
    <2>1. JobsBacked'
      BY <1>4, MoveKeepsBacking DEF CreateRefund
    <2>2. OrderBacked'
      BY <1>4 DEF CreateRefund, JobBacked, OrderBacked, Backed, EntriesKept
    <2>. QED
      BY <1>1, <2>1, <2>2 DEF BackedInv
  <1>5. ASSUME \/ Approve(w) \/ CallBank(w) \/ SumRefunds(w) \/ FailRefund(w)
               \/ Reject(w) \/ CheckSucceeded(w)
        PROVE  BackedInv'
    <2>1. JobsBacked'
      <3>1. CASE Approve(w)
        BY <3>1, MoveKeepsBacking, StepNames DEF Approve
      <3>2. CASE CallBank(w)
        BY <3>2, MoveKeepsBacking, StepNames DEF CallBank
      <3>3. CASE SumRefunds(w)
        BY <3>3, MoveKeepsBacking, StepNames DEF SumRefunds
      <3>4. CASE FailRefund(w)
        BY <3>4, MoveKeepsBacking DEF FailRefund
      <3>5. CASE Reject(w)
        BY <3>5, MoveKeepsBacking, StepNames DEF Reject
      <3>6. CASE CheckSucceeded(w)
        BY <3>6, MoveKeepsBacking, StepNames DEF CheckSucceeded
      <3>. QED
        BY <1>5, <3>1, <3>2, <3>3, <3>4, <3>5, <3>6
    <2>2. OrderBacked'
      BY <1>5, BackingKept DEF Approve, CallBank, SumRefunds, FailRefund, Reject,
                               CheckSucceeded
    <2>. QED
      BY <1>1, <2>1, <2>2 DEF BackedInv
  <1>6. ASSUME FinishRefund(w) \/ SaveRefund(w)
        PROVE  BackedInv'
    <2>1. JobsBacked'
      BY <1>6, MoveKeepsBacking DEF FinishRefund, SaveRefund
    <2>2. \E full \in BOOLEAN : SaveOutcome(job[w].ref, full)
      BY <1>6 DEF FinishRefund, SaveRefund, SaveOutcome
    <2>3. order' = order \/ (order'.status = "REFUNDED" /\ order'.last = order.last)
      BY <2>2 DEF SaveOutcome, OrderRow
    <2>4. OrderBacked'
      BY <2>3 DEF OrderBacked, Backed, EntriesKept
    <2>. QED
      BY <1>1, <2>1, <2>4 DEF BackedInv
  <1>7. ASSUME Restore(w)
        PROVE  BackedInv'
    <2>1. JobsBacked'
      BY <1>7, MoveKeepsBacking DEF Restore
    <2>2. order' = order \/ (order'.status = job[w].read.last /\ order'.last = order.last)
      BY <1>7 DEF Restore, OrderRow
    <2>3. OrderBacked'
      BY <2>2 DEF OrderBacked, JobBacked, Backed, EntriesKept
    <2>. QED
      BY <1>1, <2>1, <2>3 DEF BackedInv
  <1>. QED
    BY <1>2, <1>3, <1>4, <1>5, <1>6, <1>7 DEF RefundHandling

LEMMA BackedStep ==
    ASSUME TypeInv, BackedInv, [Next]_vars
    PROVE  BackedInv'
  <1>. EntriesKept
    BY EntriesGrow
  <1>. TypeOK /\ OrderBacked /\ BatchBacked /\ JobsBacked
    BY DEF TypeInv, BackedInv
  <1>. entries \in EntryRow /\ order \in OrderRow
    BY DEF TypeOK, EntryRow
  <1>1. ASSUME Confirm
        PROVE  BackedInv'
    <2>1. OrderBacked'
      BY <1>1 DEF Confirm, ConfirmPayment, PostCollection, Status, OrderBacked, Backed,
                  EntryRow, Collected
    <2>. QED
      BY <1>1, <2>1, BackingKept DEF Confirm, BackedInv
  <1>2. ASSUME BatchOrder
        PROVE  BackedInv'
    <2>1. BatchBacked'
      BY <1>2 DEF BatchOrder, BatchBacked, OrderBacked, Backed, EntriesKept
    <2>. QED
      BY <1>2, <2>1, BackingKept DEF BatchOrder, BackedInv
  <1>3. ASSUME Finalize \/ PayoutFails
        PROVE  BackedInv'
    <2>1. BatchBacked' /\ Collected' /\ Debited'
      BY <1>3 DEF Finalize, PayoutFails, BatchBacked, EntriesKept
    <2>2. order'.last = order.last
      BY <1>3 DEF Finalize, PayoutFails, OrderRow
    <2>3. OrderBacked'
      BY <2>1, <2>2 DEF OrderBacked, Backed
    <2>4. JobsBacked'
      BY <1>3, BackingKept DEF Finalize, PayoutFails
    <2>. QED
      BY <2>1, <2>3, <2>4 DEF BackedInv
  <1>4. ASSUME NEW w \in Workers, ReadClose(w) \/ Crash(w)
        PROVE  BackedInv'
    <2>1. JobsBacked'
      BY <1>4, MoveKeepsBacking, StepNames DEF ReadClose, Begin, Crash
    <2>. QED
      BY <1>4, <2>1, BackingKept DEF ReadClose, Crash, BackedInv
  <1>5. ASSUME NEW w \in Workers, WriteClose(w)
        PROVE  BackedInv'
    <2>1. JobsBacked'
      BY <1>5, MoveKeepsBacking DEF WriteClose
    <2>2. OrderBacked'
      BY <1>5 DEF WriteClose, Status, OrderBacked, Backed
    <2>. QED
      BY <1>5, <2>1, <2>2, BackingKept DEF WriteClose, BackedInv
  <1>6. ASSUME UNCHANGED vars
        PROVE  BackedInv'
    BY <1>6, BackingKept DEF vars, BackedInv
  <1>. QED
    BY <1>1, <1>2, <1>3, <1>4, <1>5, <1>6, TransferBacked, RefundHandlingBacked DEF Next

\* StatusBacked of the runs: in every interleaving, an order shown as received,
\* in settlement or settled was credited to the account, and in the last two
\* debited, unless a confirmation of it had found no active account.
THEOREM StatusesBacked == Spec => []StatusBacked
  <1>1. Init => TypeInv /\ BackedInv
    BY InitFunds
  <1>2. TypeInv /\ BackedInv /\ [Next]_vars => (TypeInv /\ BackedInv)'
    BY FundsStepTyped, BackedStep
  <1>3. TypeInv /\ BackedInv => StatusBacked
    BY DEF BackedInv, OrderBacked, Backed, StatusBacked, Collected, Debited
  <1>. QED
    BY <1>1, <1>2, <1>3, PTL DEF Spec

-----------------------------------------------------------------------------
PaidJobs ==
    \A w \in Workers :
        job[w].at \in {"succeeded", "full", "partial"} => job[w].ref \in paidOut

LEMMA Moves ==
    ASSUME TypeInv, NEW w \in Workers
    PROVE  /\ \A s : Go(w, s) => /\ \A x \in Workers \ {w} : job'[x] = job[x]
                                /\ job'[w].at = s /\ job'[w].ref = job[w].ref
           /\ Return(w) => /\ \A x \in Workers \ {w} : job'[x] = job[x]
                           /\ job'[w].at = "idle"
  <1>. job \in [Workers -> JobRow]
    BY DEF TypeInv, TypeOK, JobRow
  <1>. QED
    BY DEF Go, Return, Idle, JobRow

\* A handler that moves, with no reversal posted.
LEMMA MoveKeepsPaid ==
    ASSUME TypeInv, PaidInv, NEW w \in Workers,
           \A x \in Workers \ {w} : job'[x] = job[x],
           job'[w].at \in {"succeeded", "full", "partial"} => job'[w].ref \in paidOut',
           paidOut \subseteq paidOut', entries'.refund = entries.refund
    PROVE  PaidInv'
  <1>. entries \in EntryRow
    BY DEF TypeInv, TypeOK, EntryRow
  <1>1. PaidJobs'
    BY DEF PaidJobs, PaidInv
  <1>2. ReversedOnce'
    BY DEF PaidInv, ReversedOnce, EntryRow
  <1>. QED
    BY <1>1, <1>2 DEF PaidInv, PaidJobs

LEMMA TransferPaid ==
    ASSUME TypeInv, PaidInv, NEW w \in Workers,
           Transfer(w) \/ ReadClose(w) \/ WriteClose(w) \/ Crash(w)
    PROVE  PaidInv'
  <1>. entries \in EntryRow
    BY DEF TypeInv, TypeOK, EntryRow
  <1>1. /\ \A x \in Workers \ {w} : job'[x] = job[x]
        /\ job'[w].at \notin {"succeeded", "full", "partial"}
    BY Moves DEF Transfer, ReadTransfer, Begin, ConfirmFirst, Refresh, LookUpEntry,
                 DebitSettlement, Advance, ReadClose, WriteClose, Crash
  <1>2. paidOut' = paidOut
    BY DEF Transfer, ReadTransfer, ConfirmFirst, Refresh, LookUpEntry,
           DebitSettlement, Advance, ReadClose, WriteClose, Crash
  <1>3. entries'.refund = entries.refund
    BY DEF Transfer, ReadTransfer, ConfirmFirst, ConfirmPayment, PostCollection, Refresh,
           LookUpEntry, DebitSettlement, Advance, ReadClose, WriteClose, Crash, EntryRow
  <1>. QED
    BY <1>1, <1>2, <1>3, MoveKeepsPaid

LEMMA RefundHandlingPaid ==
    ASSUME TypeInv, PaidInv, NEW w \in Workers, RefundHandling(w)
    PROVE  PaidInv'
  <1>. job \in [Workers -> JobRow] /\ entries \in EntryRow
    BY DEF TypeInv, TypeOK, JobRow, EntryRow
  <1>1. ASSUME \/ \E a \in 1 .. Amount : ReadRefund(w, a)
               \/ \E f \in Refunds : CreateRefund(w, f) \/ ReadReview(w, f)
               \/ Approve(w) \/ SaveRefund(w) \/ FailRefund(w) \/ Reject(w)
               \/ CheckSucceeded(w) \/ Restore(w)
        PROVE  PaidInv'
    <2>1. /\ \A x \in Workers \ {w} : job'[x] = job[x]
          /\ job'[w].at \notin {"succeeded", "full", "partial"}
      <3>1. CASE \E a \in 1 .. Amount : ReadRefund(w, a)
        BY <3>1 DEF ReadRefund
      <3>2. CASE \E f \in Refunds : ReadReview(w, f)
        BY <3>2 DEF ReadReview, JobRow
      <3>3. CASE \/ \E f \in Refunds : CreateRefund(w, f)
                 \/ Approve(w) \/ SaveRefund(w) \/ FailRefund(w) \/ Reject(w)
                 \/ CheckSucceeded(w) \/ Restore(w)
        BY <3>3, Moves DEF CreateRefund, Approve, SaveRefund, FailRefund, Reject, CheckSucceeded, Restore
      <3>. QED
        BY <1>1, <3>1, <3>2, <3>3
    <2>2. paidOut' = paidOut /\ entries' = entries
      BY <1>1 DEF ReadRefund, CreateRefund, ReadReview, Approve, SaveRefund, FailRefund,
                  Reject, CheckSucceeded, Restore
    <2>. QED
      BY <2>1, <2>2, MoveKeepsPaid
  <1>2. ASSUME CallBank(w)
        PROVE  PaidInv'
    <2>1. /\ \A x \in Workers \ {w} : job'[x] = job[x]
          /\ job'[w].ref = job[w].ref
          /\ \/ job'[w].at = "succeeded" /\ paidOut' = paidOut \cup {job[w].ref}
             \/ job'[w].at = "failed" /\ paidOut \subseteq paidOut'
      BY <1>2, Moves DEF CallBank
    <2>2. entries' = entries
      BY <1>2 DEF CallBank
    <2>. QED
      BY <2>1, <2>2, MoveKeepsPaid
  <1>3. ASSUME SumRefunds(w)
        PROVE  PaidInv'
    <2>1. job[w].at = "succeeded" /\ paidOut' = paidOut /\ entries' = entries
      BY <1>3 DEF SumRefunds
    <2>2. (\A x \in Workers \ {w} : job'[x] = job[x]) /\ job'[w].ref = job[w].ref
      BY <1>3, Moves DEF SumRefunds
    <2>3. job[w].ref \in paidOut
      BY <2>1 DEF PaidInv
    <2>. QED
      BY <2>1, <2>2, <2>3, MoveKeepsPaid
  <1>4. ASSUME FinishRefund(w)
        PROVE  PaidInv'
    <2>. DEFINE f == job[w].ref
    <2>1. f \in Refunds /\ f \in paidOut /\ paidOut' = paidOut
      BY <1>4 DEF FinishRefund, PaidInv, TypeInv, OnRefund
    <2>2. (\A x \in Workers \ {w} : job'[x] = job[x]) /\ job'[w].at = "idle"
      BY <1>4, Moves DEF FinishRefund
    <2>3. CASE entries' = entries
      BY <2>1, <2>2, <2>3, MoveKeepsPaid
    <2>4. CASE entries' = [entries EXCEPT !.refund[f] = @ + 1]
      <3>1. entries.refund[f] = 0
        BY <1>4 DEF FinishRefund, Reversible
      <3>2. entries'.refund[f] = 1 /\ \A g \in Refunds \ {f} : entries'.refund[g] = entries.refund[g]
        BY <2>1, <2>4, <3>1 DEF EntryRow
      <3>3. ReversedOnce'
        BY <2>1, <3>2 DEF PaidInv, ReversedOnce
      <3>4. PaidJobs'
        BY <2>1, <2>2 DEF PaidJobs, PaidInv
      <3>. QED
        BY <3>3, <3>4 DEF PaidInv, PaidJobs
    <2>. QED
      BY <1>4, <2>3, <2>4 DEF FinishRefund, ReverseCollection
  <1>. QED
    BY <1>1, <1>2, <1>3, <1>4 DEF RefundHandling

LEMMA PaidStep ==
    ASSUME TypeInv, PaidInv, [Next]_vars
    PROVE  PaidInv'
  <1>1. ASSUME Confirm \/ BatchOrder \/ Finalize \/ PayoutFails \/ UNCHANGED vars
        PROVE  PaidInv'
    <2>1. entries \in EntryRow
      BY DEF TypeInv, TypeOK, EntryRow
    <2>2. job' = job /\ paidOut' = paidOut
      BY <1>1 DEF Confirm, BatchOrder, Finalize, PayoutFails, vars
    <2>3. entries'.refund = entries.refund
      BY <1>1, <2>1 DEF Confirm, ConfirmPayment, PostCollection, BatchOrder, Finalize,
                        PayoutFails, vars, EntryRow
    <2>. QED
      BY <2>2, <2>3 DEF PaidInv, ReversedOnce
  <1>. QED
    BY <1>1, TransferPaid, RefundHandlingPaid DEF Next

\* ReversedOnce of the runs: executions of a refund overlap, crash and are
\* retried, and the reversal of its collection is posted at most once, only
\* after the bank has paid it.
THEOREM ReversalsOnce == Spec => []ReversedOnce
  <1>1. Init => TypeInv /\ PaidInv
    BY InitFunds
  <1>2. TypeInv /\ PaidInv /\ [Next]_vars => (TypeInv /\ PaidInv)'
    BY FundsStepTyped, PaidStep
  <1>3. TypeInv /\ PaidInv => ReversedOnce
    BY DEF PaidInv
  <1>. QED
    BY <1>1, <1>2, <1>3, PTL DEF Spec

\* CreditedOnce of the runs: a stale save may bring the order back to
\* PENDING_PAY and its payment be confirmed again, without a second credit.
THEOREM CollectionCreditedOnce == Spec => []CreditedOnce
  <1>1. Init => TypeInv /\ CreditedOnce
    BY InitFunds DEF Init, CreditedOnce
  <1>2. ASSUME TypeInv, CreditedOnce, [Next]_vars
        PROVE  CreditedOnce'
    <2>. entries \in EntryRow
      BY <1>2 DEF TypeInv, TypeOK, EntryRow
    <2>1. ASSUME PostCollection
          PROVE  entries'.payment <= 1
      BY <1>2, <2>1 DEF PostCollection, CreditedOnce, EntryRow
    <2>2. ASSUME ~PostCollection
          PROVE  entries'.payment = entries.payment
      <3>1. ASSUME NEW w \in Workers, Transfer(w)
            PROVE  entries'.payment = entries.payment
        BY <2>2, <3>1 DEF Transfer, ReadTransfer, ConfirmFirst, ConfirmPayment, Refresh,
               LookUpEntry, DebitSettlement, Advance, EntryRow
      <3>2. ASSUME NEW w \in Workers, RefundHandling(w)
            PROVE  entries'.payment = entries.payment
        BY <3>2 DEF RefundHandling, ReadRefund, CreateRefund, ReadReview, Approve, CallBank,
               FinishRefund, ReverseCollection, SumRefunds, SaveRefund, FailRefund, Reject,
               CheckSucceeded, Restore, EntryRow
      <3>3. ASSUME NEW w \in Workers, ReadClose(w) \/ WriteClose(w) \/ Crash(w)
            PROVE  entries'.payment = entries.payment
        BY <3>3 DEF ReadClose, WriteClose, Crash
      <3>4. ASSUME BatchOrder \/ Finalize \/ PayoutFails
            PROVE  entries'.payment = entries.payment
        BY <3>4 DEF BatchOrder, Finalize, PayoutFails, EntryRow
      <3>5. ~Confirm
        BY <2>2 DEF Confirm, ConfirmPayment
      <3>. QED
        BY <1>2, <3>1, <3>2, <3>3, <3>4, <3>5 DEF Next, vars
    <2>. QED
      BY <1>2, <2>1, <2>2 DEF CreditedOnce
  <1>. QED
    BY <1>1, <1>2, FundsStepTyped, PTL DEF Spec

-----------------------------------------------------------------------------
\* The strengthening of LedgerExplained and RefundedInFull: which refunds have
\* been asked for and which have been paid, and what a handler that is going to
\* write REFUNDED has seen.
Handling == {"approve", "execute", "succeeded", "full", "partial", "failed",
             "reject", "check", "restore"}

RefundInv ==
    /\ \A f \in Refunds :
          /\ refund[f].status = "NONE" => f \notin paidOut
          /\ refund[f].status = "SUCCESS" => f \in paidOut
    /\ \A w \in Workers : job[w].at \in Handling => refund[job[w].ref].status # "NONE"

\* No history, nor a reading of one, says REFUNDED: a restored status is an
\* earlier one.
HistoryInv ==
    /\ order.last # "REFUNDED"
    /\ \A w \in Workers : job[w].read.last # "REFUNDED"

Repaid == TotalOf(paidOut) >= Amount

FullInv ==
    /\ RefundedInFull
    /\ \A w \in Workers : job[w].at = "full" => Repaid

RowsKept ==
    \A f \in Refunds :
        refund[f].status # "NONE"
        => refund'[f].status # "NONE" /\ refund'[f].amount = refund[f].amount

\* What every step does to the refunds: rows asked for keep their amount, and
\* what the bank has paid stays paid.
RefundStep == RowsKept /\ paidOut \subseteq paidOut' /\ RefundInv'

\* A handler that moves, while the refunds stay or one of them changes status.
LEMMA MoveKeepsRefunds ==
    ASSUME TypeInv, RefundInv, NEW w \in Workers,
           \A x \in Workers \ {w} : job'[x] = job[x],
           job'[w].at \in Handling
              => job'[w].ref \in Refunds /\ refund[job'[w].ref].status # "NONE",
           paidOut \subseteq paidOut',
           \/ refund' = refund
           \/ \E f \in Refunds, s \in RefundStatuses :
                 /\ refund[f].status # "NONE" /\ s # "NONE"
                 /\ s = "SUCCESS" => f \in paidOut'
                 /\ SetRefund(f, s),
           \A f \in Refunds : refund[f].status = "NONE" => f \notin paidOut'
    PROVE  RefundStep
  <1>. refund \in [Refunds -> RefundRow]
    BY DEF TypeInv, TypeOK
  <1>1. /\ RowsKept
        /\ \A f \in Refunds :
              /\ refund[f].status = "NONE" <=> refund'[f].status = "NONE"
              /\ refund'[f].status = "SUCCESS"
                    => f \in paidOut' \/ refund[f].status = "SUCCESS"
    <2>1. CASE refund' = refund
      BY <2>1 DEF RowsKept
    <2>2. CASE refund' # refund
      <3>1. PICK f \in Refunds, s \in RefundStatuses :
                /\ refund[f].status # "NONE" /\ s # "NONE"
                /\ s = "SUCCESS" => f \in paidOut'
                /\ SetRefund(f, s)
        BY <2>2
      <3>2. /\ \A g \in Refunds \ {f} : refund'[g] = refund[g]
            /\ refund'[f].status = s /\ refund'[f].amount = refund[f].amount
        BY <3>1 DEF SetRefund, RefundRow
      <3>. QED
        BY <3>1, <3>2 DEF RowsKept
    <2>. QED
      BY <2>1, <2>2
  <1>2. \A x \in Workers : job[x].at \in Handling => job[x].ref \in Refunds
    BY DEF TypeInv, OnRefund, Handling
  <1>3. \A x \in Workers : job'[x].at \in Handling
            => job'[x].ref \in Refunds /\ refund[job'[x].ref].status # "NONE"
    BY <1>2 DEF RefundInv
  <1>. QED
    BY <1>1, <1>3 DEF RefundStep, RefundInv

LEMMA TransferRefunds ==
    ASSUME TypeInv, RefundInv, NEW w \in Workers,
           Transfer(w) \/ ReadClose(w) \/ WriteClose(w) \/ Crash(w)
    PROVE  RefundStep
  <1>1. /\ \A x \in Workers \ {w} : job'[x] = job[x]
        /\ job'[w].at \notin Handling
    BY Moves DEF Transfer, ReadTransfer, Begin, ConfirmFirst, Refresh, LookUpEntry,
                 DebitSettlement, Advance, ReadClose, WriteClose, Crash, Handling
  <1>2. paidOut' = paidOut /\ refund' = refund
    BY DEF Transfer, ReadTransfer, ConfirmFirst, Refresh, LookUpEntry,
           DebitSettlement, Advance, ReadClose, WriteClose, Crash
  <1>3. \A f \in Refunds : refund[f].status = "NONE" => f \notin paidOut'
    BY <1>2 DEF RefundInv
  <1>. QED
    BY <1>1, <1>2, <1>3, MoveKeepsRefunds

LEMMA RefundHandlingRefunds ==
    ASSUME TypeInv, RefundInv, PaidInv, NEW w \in Workers, RefundHandling(w)
    PROVE  RefundStep
  <1>. /\ job \in [Workers -> JobRow] /\ refund \in [Refunds -> RefundRow]
       /\ job[w] \in JobRow
    BY DEF TypeInv, TypeOK, JobRow
  <1>. DEFINE f == job[w].ref
  <1>0. /\ job[w].at \in Handling => f \in Refunds /\ refund[f].status # "NONE"
        /\ job[w].at \in {"succeeded", "full", "partial"} => f \in paidOut
        /\ \A g \in Refunds : refund[g].status = "NONE" => g \notin paidOut
    BY DEF TypeInv, OnRefund, RefundInv, Handling, PaidInv
  <1>1. ASSUME \E a \in 1 .. Amount : ReadRefund(w, a)
        PROVE  RefundStep
    <2>1. (\A x \in Workers \ {w} : job'[x] = job[x]) /\ job'[w].at \notin Handling
      BY <1>1 DEF ReadRefund, Handling
    <2>2. paidOut' = paidOut /\ refund' = refund
      BY <1>1 DEF ReadRefund
    <2>. QED
      BY <1>0, <2>1, <2>2, MoveKeepsRefunds
  <1>2. ASSUME NEW g \in Refunds, CreateRefund(w, g)
        PROVE  RefundStep
    <2>1. (\A x \in Workers \ {w} : job'[x] = job[x]) /\ job'[w].at = "idle"
      BY <1>2, Moves DEF CreateRefund
    <2>2. /\ refund[g].status = "NONE" /\ refund'[g].status = "PENDING_REVIEW"
          /\ \A h \in Refunds \ {g} : refund'[h] = refund[h]
          /\ paidOut' = paidOut
      BY <1>2 DEF CreateRefund
    <2>3. RowsKept
      BY <2>2 DEF RowsKept
    <2>4. \A x \in Workers : job'[x].at \in Handling
              => job[x].at \in Handling /\ job'[x] = job[x] /\ job[x].ref \in Refunds
      BY <2>1 DEF TypeInv, OnRefund, Handling
    <2>5. RefundInv'
      BY <2>2, <2>3, <2>4 DEF RefundInv, RowsKept
    <2>. QED
      BY <2>2, <2>3, <2>5 DEF RefundStep
  <1>3. ASSUME NEW g \in Refunds, ReadReview(w, g)
        PROVE  RefundStep
    <2>1. /\ \A x \in Workers \ {w} : job'[x] = job[x]
          /\ job'[w].ref = g /\ refund[g].status # "NONE"
      BY <1>3 DEF ReadReview, JobRow
    <2>2. paidOut' = paidOut /\ refund' = refund
      BY <1>3 DEF ReadReview
    <2>. QED
      BY <1>0, <2>1, <2>2, MoveKeepsRefunds
  <1>4. ASSUME CallBank(w)
        PROVE  RefundStep
    <2>1. /\ \A x \in Workers \ {w} : job'[x] = job[x]
          /\ job'[w].ref = f /\ job[w].at \in Handling
      BY <1>4, Moves DEF CallBank, Handling
    <2>2. refund' = refund /\ (paidOut' = paidOut \/ paidOut' = paidOut \cup {f})
      BY <1>4 DEF CallBank
    <2>3. \A g \in Refunds : refund[g].status = "NONE" => g \notin paidOut'
      BY <1>0, <2>1, <2>2
    <2>. QED
      BY <1>0, <2>1, <2>2, <2>3, MoveKeepsRefunds
  <1>5. ASSUME SumRefunds(w) \/ CheckSucceeded(w) \/ Restore(w)
        PROVE  RefundStep
    <2>1. /\ \A x \in Workers \ {w} : job'[x] = job[x]
          /\ job'[w].at \in Handling => job'[w].ref = f
          /\ job[w].at \in Handling
      BY <1>5, Moves DEF SumRefunds, CheckSucceeded, Restore, Handling
    <2>2. paidOut' = paidOut /\ refund' = refund
      BY <1>5 DEF SumRefunds, CheckSucceeded, Restore
    <2>. QED
      BY <1>0, <2>1, <2>2, MoveKeepsRefunds
  <1>6. ASSUME Approve(w) \/ Reject(w) \/ FailRefund(w) \/ SaveRefund(w) \/ FinishRefund(w)
        PROVE  RefundStep
    <2>1. /\ \A x \in Workers \ {w} : job'[x] = job[x]
          /\ job'[w].at \in Handling => job'[w].ref = f
          /\ job[w].at \in Handling
      BY <1>6, Moves DEF Approve, Reject, FailRefund, SaveRefund, FinishRefund, Handling
    <2>2. /\ paidOut' = paidOut
          /\ \E s \in RefundStatuses :
                /\ s # "NONE" /\ SetRefund(f, s)
                /\ s = "SUCCESS" => f \in paidOut
      <3>1. CASE Approve(w)
        BY <3>1 DEF Approve, RefundStatuses
      <3>2. CASE Reject(w)
        BY <3>2 DEF Reject, RefundStatuses
      <3>3. CASE FailRefund(w)
        BY <3>3 DEF FailRefund, RefundStatuses
      <3>4. CASE SaveRefund(w) \/ FinishRefund(w)
        <4>1. paidOut' = paidOut /\ SetRefund(f, "SUCCESS")
          BY <3>4 DEF SaveRefund, FinishRefund, SaveOutcome
        <4>2. f \in paidOut
          BY <3>4, <1>0 DEF SaveRefund, FinishRefund
        <4>. QED
          BY <4>1, <4>2 DEF RefundStatuses
      <3>. QED
        BY <1>6, <3>1, <3>2, <3>3, <3>4
    <2>3. PICK s \in RefundStatuses :
              /\ s # "NONE" /\ SetRefund(f, s)
              /\ s = "SUCCESS" => f \in paidOut
      BY <2>2
    <2>. QED
      BY <1>0, <2>1, <2>2, <2>3, MoveKeepsRefunds
  <1>. QED
    BY <1>1, <1>2, <1>3, <1>4, <1>5, <1>6 DEF RefundHandling

LEMMA RefundsStep ==
    ASSUME TypeInv, RefundInv, PaidInv, [Next]_vars
    PROVE  RefundStep
  <1>1. ASSUME Confirm \/ BatchOrder \/ Finalize \/ PayoutFails \/ UNCHANGED vars
        PROVE  RefundStep
    <2>1. job' = job /\ paidOut' = paidOut /\ refund' = refund
      BY <1>1 DEF Confirm, BatchOrder, Finalize, PayoutFails, vars
    <2>. QED
      BY <2>1 DEF RefundStep, RefundInv, RowsKept
  <1>. QED
    BY <1>1, TransferRefunds, RefundHandlingRefunds DEF Next

LEMMA InitRefunds == Init => RefundInv
  BY DEF Init, RefundInv, Idle, Handling

-----------------------------------------------------------------------------
\* The sum in LedgerExplained: a reversal's amount counts once it is posted.
Reversal(f) == entries.refund[f] * refund[f].amount
Reversed == SumFunction([f \in Refunds |-> Reversal(f)])

LEMMA ReversalTyped ==
    ASSUME TypeInv
    PROVE  (\A f \in Refunds : Reversal(f) \in Nat) /\ Reversed \in Nat
  <1>1. \A f \in Refunds : entries.refund[f] \in Nat /\ refund[f].amount \in Nat
    BY FundsParameters DEF TypeInv, TypeOK, RefundRow
  <1>2. \A e, a \in Nat : e * a \in Nat
    OBVIOUS
  <1>3. \A f \in Refunds : Reversal(f) \in Nat
    BY <1>1, <1>2 DEF Reversal
  <1>. HIDE DEF Reversal
  <1>. DEFINE g == [f \in Refunds |-> Reversal(f)]
  <1>4. SumFunctionOnSet(g, Refunds) \in Nat
    <2>1. \A f \in Refunds : g[f] \in Nat
      BY <1>3
    <2>. HIDE DEF g
    <2>. QED
      BY <2>1, FundsParameters, SumNat
  <1>. QED
    BY <1>3, <1>4 DEF Reversed, SumFunction

\* Amounts of refunds with an entry do not change, so the sum changes only
\* with the entries.
LEMMA ReversedKept ==
    ASSUME TypeInv, TypeInv', RefundInv, PaidInv, RefundStep,
           entries'.refund = entries.refund
    PROVE  Reversed' = Reversed
  <1>1. ASSUME NEW f \in Refunds
        PROVE  Reversal(f)' = Reversal(f)
    <2>1. CASE refund[f].status = "NONE"
      <3>1. entries.refund[f] = 0 /\ entries'.refund[f] = 0
        BY <2>1 DEF RefundInv, PaidInv, ReversedOnce, TypeInv, TypeOK
      <3>2. refund[f].amount \in Nat /\ refund'[f].amount \in Nat
        BY FundsParameters DEF TypeInv, TypeOK, RefundRow
      <3>3. \A a \in Nat : 0 * a = 0
        OBVIOUS
      <3>. QED
        BY <3>1, <3>2, <3>3 DEF Reversal
    <2>2. CASE refund[f].status # "NONE"
      BY <2>2 DEF RefundStep, RowsKept, Reversal
    <2>. QED
      BY <2>1, <2>2
  <1>2. [f \in Refunds |-> Reversal(f)]' = [f \in Refunds |-> Reversal(f)]
    <2>. HIDE DEF Reversal
    <2>. QED
      BY <1>1
  <1>. QED
    BY <1>2 DEF Reversed

LEMMA ReversedGrows ==
    ASSUME TypeInv, TypeInv', RefundInv, PaidInv, RefundStep,
           NEW f \in Refunds, refund[f].status # "NONE", entries.refund[f] = 0,
           entries' = [entries EXCEPT !.refund[f] = @ + 1]
    PROVE  Reversed' = Reversed + refund[f].amount
  <1>. entries \in EntryRow
    BY DEF TypeInv, TypeOK, EntryRow
  <1>1. ASSUME NEW x \in Refunds, x # f
        PROVE  Reversal(x)' = Reversal(x)
    <2>1. entries'.refund[x] = entries.refund[x]
      BY <1>1 DEF EntryRow
    <2>2. CASE refund[x].status = "NONE"
      <3>1. entries.refund[x] = 0
        BY <2>2 DEF RefundInv, PaidInv, ReversedOnce, EntryRow
      <3>2. refund[x].amount \in Nat /\ refund'[x].amount \in Nat
        BY FundsParameters DEF TypeInv, TypeOK, RefundRow
      <3>3. \A a \in Nat : 0 * a = 0
        OBVIOUS
      <3>. QED
        BY <2>1, <3>1, <3>2, <3>3 DEF Reversal
    <2>3. CASE refund[x].status # "NONE"
      BY <2>1, <2>3 DEF RefundStep, RowsKept, Reversal
    <2>. QED
      BY <2>2, <2>3
  <1>2. Reversal(f) = 0 /\ Reversal(f)' = refund[f].amount
    <2>1. entries'.refund[f] = 1
      <3>1. entries.refund \in [Refunds -> Nat]
        BY DEF EntryRow
      <3>2. entries'.refund = [entries.refund EXCEPT ![f] = @ + 1]
        BY DEF EntryRow
      <3>. QED
        BY <3>1, <3>2
    <2>2. refund'[f].amount = refund[f].amount
      BY DEF RefundStep, RowsKept
    <2>3. PICK a \in Nat : a = refund[f].amount
      BY FundsParameters DEF TypeInv, TypeOK, RefundRow
    <2>4. Reversal(f) = 0 * a
      BY <2>3 DEF Reversal
    <2>5. Reversal(f)' = 1 * a
      BY <2>1, <2>2, <2>3 DEF Reversal
    <2>6. 0 * a = 0 /\ 1 * a = a
      OBVIOUS
    <2>. QED
      BY <2>3, <2>4, <2>5, <2>6, Zenon
  <1>3. \A x \in Refunds : Reversal(x) \in Int /\ Reversal(x)' \in Int
    <2>1. \A x \in Refunds : Reversal(x) \in Int
      BY ReversalTyped
    <2>2. refund[f].amount \in Int
      BY FundsParameters DEF TypeInv, TypeOK, RefundRow
    <2>. HIDE DEF Reversal
    <2>. QED
      BY <1>1, <1>2, <2>1, <2>2
  <1>. PICK g : g = [x \in Refunds |-> Reversal(x)]
    OBVIOUS
  <1>. PICK h : h = [x \in Refunds |-> Reversal(x)']
    OBVIOUS
  <1>4. /\ \A x \in Refunds : g[x] \in Int /\ h[x] \in Int
        /\ \A x \in Refunds : x # f => g[x] = h[x]
        /\ g[f] = 0 /\ h[f] = refund[f].amount
    <2>. HIDE DEF Reversal
    <2>. QED
      BY <1>1, <1>2, <1>3
  <1>5. SumFunctionOnSet(h, Refunds) = SumFunctionOnSet(g, Refunds) - g[f] + h[f]
    BY <1>4, FundsParameters, SumChange
  <1>6. Reversed = SumFunctionOnSet(g, Refunds) /\ Reversed' = SumFunctionOnSet(h, Refunds)
    BY DEF Reversed, SumFunction
  <1>7. Reversed \in Int /\ refund[f].amount \in Int
    BY ReversalTyped, FundsParameters DEF TypeInv, TypeOK, RefundRow
  <1>. QED
    BY <1>4, <1>5, <1>6, <1>7

\* The balance of the ledger, step by step: each way a step moves the money.
Book == va + Amount * entries.settlement + Reversed
Source == Float + Amount * entries.payment

LEMMA BookIs == LedgerExplained <=> Book = Source
  BY DEF LedgerExplained, Book, Source, Reversed, Reversal

LEMMA BookKept ==
    ASSUME TypeInv, TypeInv', RefundInv, PaidInv, RefundStep, Book = Source,
           entries'.refund = entries.refund,
           \/ /\ va' = va /\ entries'.payment = entries.payment
              /\ entries'.settlement = entries.settlement
           \/ /\ va' = va + Amount /\ entries'.payment = entries.payment + 1
              /\ entries'.settlement = entries.settlement
           \/ /\ va' = va - Amount /\ entries'.payment = entries.payment
              /\ entries'.settlement = entries.settlement + 1
    PROVE  Book' = Source'
  <1>1. Reversed' = Reversed /\ Reversed \in Nat
    BY ReversedKept, ReversalTyped
  <1>2. /\ va \in Nat /\ Amount \in Nat /\ Float \in Nat
        /\ entries.payment \in Nat /\ entries.settlement \in Nat
    BY FundsParameters DEF TypeInv, TypeOK
  <1>3. \A n \in Nat : Amount * (n + 1) = Amount * n + Amount /\ Amount * n \in Nat
    BY <1>2
  <1>4. /\ Amount * (entries.payment + 1) = Amount * entries.payment + Amount
        /\ Amount * (entries.settlement + 1) = Amount * entries.settlement + Amount
        /\ Amount * entries.payment \in Nat /\ Amount * entries.settlement \in Nat
    BY <1>2, <1>3
  <1>. PICK paid, settled \in Nat : /\ paid = Amount * entries.payment
                                   /\ settled = Amount * entries.settlement
    BY <1>4
  <1>5. va + settled + Reversed = Float + paid
    BY DEF Book, Source
  <1>6. CASE /\ va' = va /\ entries'.payment = entries.payment
             /\ entries'.settlement = entries.settlement
    BY <1>1, <1>6 DEF Book, Source
  <1>7. CASE /\ va' = va + Amount /\ entries'.payment = entries.payment + 1
             /\ entries'.settlement = entries.settlement
    <2>1. Amount * entries'.payment = paid + Amount /\ Amount * entries'.settlement = settled
      BY <1>4, <1>7
    <2>2. (va + Amount) + settled + Reversed = Float + (paid + Amount)
      BY <1>1, <1>2, <1>5
    <2>. QED
      BY <1>1, <1>7, <2>1, <2>2 DEF Book, Source
  <1>8. CASE /\ va' = va - Amount /\ entries'.payment = entries.payment
             /\ entries'.settlement = entries.settlement + 1
    <2>1. Amount * entries'.payment = paid /\ Amount * entries'.settlement = settled + Amount
      BY <1>4, <1>8
    <2>2. (va - Amount) + (settled + Amount) + Reversed = Float + paid
      BY <1>1, <1>2, <1>5
    <2>. QED
      BY <1>1, <1>8, <2>1, <2>2 DEF Book, Source
  <1>. QED
    BY <1>6, <1>7, <1>8

LEMMA BookReversed ==
    ASSUME TypeInv, TypeInv', RefundInv, PaidInv, RefundStep, Book = Source,
           NEW f \in Refunds, refund[f].status # "NONE", entries.refund[f] = 0,
           va' = va - refund[f].amount,
           entries' = [entries EXCEPT !.refund[f] = @ + 1]
    PROVE  Book' = Source'
  <1>1. Reversed' = Reversed + refund[f].amount /\ Reversed \in Nat
    BY ReversedGrows, ReversalTyped
  <1>2. entries'.payment = entries.payment /\ entries'.settlement = entries.settlement
    BY DEF TypeInv, TypeOK
  <1>3. va \in Nat /\ refund[f].amount \in Nat /\ Amount * entries.settlement \in Nat
    <2>1. \A m, n \in Nat : m * n \in Nat
      OBVIOUS
    <2>. QED
      BY <2>1, FundsParameters DEF TypeInv, TypeOK, RefundRow
  <1>. QED
    BY <1>1, <1>2, <1>3 DEF Book, Source

LEMMA BookStep ==
    ASSUME TypeInv, TypeInv', RefundInv, PaidInv, RefundStep, Book = Source, [Next]_vars
    PROVE  Book' = Source'
  <1>. entries \in EntryRow
    BY DEF TypeInv, TypeOK, EntryRow
  <1>1. ASSUME va' = va, entries' = entries
        PROVE  Book' = Source'
    BY <1>1, BookKept
  <1>2. ASSUME PostCollection
        PROVE  Book' = Source'
    <2>1. \/ va' = va /\ entries' = entries
          \/ /\ va' = va + Amount /\ entries'.payment = entries.payment + 1
             /\ entries'.settlement = entries.settlement
             /\ entries'.refund = entries.refund
      BY <1>2 DEF PostCollection, EntryRow
    <2>. QED
      BY <1>1, <2>1, BookKept
  <1>3. ASSUME NEW w \in Workers, Transfer(w)
        PROVE  Book' = Source'
    <2>1. CASE DebitSettlement(w)
      <3>1. \/ va' = va /\ entries' = entries
            \/ /\ va' = va - Amount /\ entries'.settlement = entries.settlement + 1
               /\ entries'.payment = entries.payment
               /\ entries'.refund = entries.refund
        BY <2>1 DEF DebitSettlement, EntryRow
      <3>. QED
        BY <1>1, <3>1, BookKept
    <2>2. CASE ConfirmFirst(w)
      BY <1>1, <1>2, <2>2 DEF ConfirmFirst, ConfirmPayment
    <2>3. CASE ReadTransfer(w) \/ Refresh(w) \/ LookUpEntry(w) \/ Advance(w)
      BY <1>1, <2>3 DEF ReadTransfer, Refresh, LookUpEntry, Advance
    <2>. QED
      BY <1>3, <2>1, <2>2, <2>3 DEF Transfer
  <1>4. ASSUME NEW w \in Workers, RefundHandling(w)
        PROVE  Book' = Source'
    <2>1. CASE FinishRefund(w)
      <3>. DEFINE f == job[w].ref
      <3>1. f \in Refunds /\ refund[f].status # "NONE" /\ entries.refund[f] = 0
        BY <2>1 DEF FinishRefund, TypeInv, OnRefund, RefundInv, Handling, Reversible
      <3>2. \/ va' = va /\ entries' = entries
            \/ /\ va' = va - refund[f].amount
               /\ entries' = [entries EXCEPT !.refund[f] = @ + 1]
        BY <2>1 DEF FinishRefund, ReverseCollection
      <3>. HIDE DEF f
      <3>. QED
        BY <1>1, <3>1, <3>2, BookReversed
    <2>2. CASE ~FinishRefund(w)
      <3>1. va' = va /\ entries' = entries
        BY <1>4, <2>2 DEF RefundHandling, ReadRefund, CreateRefund, ReadReview, Approve,
               CallBank, SumRefunds, SaveRefund, FailRefund, Reject, CheckSucceeded, Restore
      <3>. QED
        BY <1>1, <3>1
    <2>. QED
      BY <2>1, <2>2
  <1>5. ASSUME NEW w \in Workers, ReadClose(w) \/ WriteClose(w) \/ Crash(w)
        PROVE  Book' = Source'
    BY <1>1, <1>5 DEF ReadClose, WriteClose, Crash
  <1>6. ASSUME Finalize
        PROVE  Book' = Source'
    <2>1. \/ va' = va /\ entries' = entries
          \/ /\ va' = va - Amount /\ entries'.settlement = entries.settlement + 1
             /\ entries'.payment = entries.payment
             /\ entries'.refund = entries.refund
      BY <1>6 DEF Finalize, EntryRow
    <2>. QED
      BY <1>1, <2>1, BookKept
  <1>7. ASSUME BatchOrder \/ PayoutFails \/ UNCHANGED vars
        PROVE  Book' = Source'
    BY <1>1, <1>7 DEF BatchOrder, PayoutFails, vars
  <1>8. ASSUME Confirm
        PROVE  Book' = Source'
    BY <1>2, <1>8 DEF Confirm, ConfirmPayment
  <1>. QED
    BY <1>3, <1>4, <1>5, <1>6, <1>7, <1>8 DEF Next

LEMMA InitBook == Init => Book = Source
  <1>. SUFFICES ASSUME Init
                PROVE  Book = Source
    OBVIOUS
  <1>1. va = Float /\ entries.payment = 0 /\ entries.settlement = 0
    BY DEF Init
  <1>2. \A f \in Refunds : Reversal(f) = 0
    BY DEF Init, Reversal
  <1>3. Reversed = 0
    <2>. PICK g : g = [f \in Refunds |-> Reversal(f)]
      OBVIOUS
    <2>1. \A f \in Refunds : g[f] = 0
      BY <1>2
    <2>2. SumFunctionOnSet(g, Refunds) = 0
      BY <2>1, FundsParameters, SumZero
    <2>. QED
      BY <2>2 DEF Reversed, SumFunction
  <1>. QED
    BY <1>1, <1>3, FundsParameters DEF Book, Source

\* LedgerExplained of the runs: whatever order collection, transfer, refunds,
\* settlement, crashes and retries run in, the balance of the virtual account
\* is the float and the sum of the entries, so no handler moves the balance
\* without an entry nor posts an entry without moving it.
THEOREM LedgerBalances == Spec => []LedgerExplained
  <1>. DEFINE Inv == TypeInv /\ PaidInv /\ RefundInv /\ Book = Source
  <1>1. Init => Inv
    BY InitFunds, InitRefunds, InitBook
  <1>2. Inv /\ [Next]_vars => Inv'
    BY FundsStepTyped, PaidStep, RefundsStep, BookStep DEF RefundStep
  <1>3. Inv => LedgerExplained
    BY BookIs
  <1>. QED
    BY <1>1, <1>2, <1>3, PTL DEF Spec

-----------------------------------------------------------------------------
\* A restored status is never REFUNDED.
LEMMA HistoryStep ==
    ASSUME TypeInv, HistoryInv, [Next]_vars
    PROVE  HistoryInv'
  <1>. job \in [Workers -> JobRow] /\ order \in OrderRow
    BY DEF TypeInv, TypeOK, JobRow
  <1>1. \A w \in Workers, s \in Steps : Go(w, s) => \A x \in Workers : job'[x].read = job[x].read
    BY DEF Go, JobRow
  <1>2. \A w \in Workers : Return(w) =>
            \A x \in Workers : job'[x].read = job[x].read \/ job'[x].read.last = "PENDING_PAY"
    BY DEF Return, Idle, Status
  <1>3. \A s \in OrderStatuses \ {"REFUNDED"} : Status(s).last # "REFUNDED"
    BY DEF Status
  <1>4. \A s \in OrderStatuses : [order EXCEPT !.status = s].last # "REFUNDED"
    BY DEF HistoryInv, OrderRow
  <1>5. ASSUME job' = job, order' = order
        PROVE  HistoryInv'
    BY <1>5 DEF HistoryInv
  <1>6. ASSUME order'.last # "REFUNDED",
               \A x \in Workers : \/ job'[x].read = job[x].read
                                  \/ job'[x].read.last # "REFUNDED"
        PROVE  HistoryInv'
    BY <1>6 DEF HistoryInv
  <1>7. order.last # "REFUNDED" /\ \A w \in Workers : job[w].read.last # "REFUNDED"
    BY DEF HistoryInv
  <1>8. ASSUME NEW w \in Workers, Transfer(w) \/ ReadClose(w) \/ WriteClose(w) \/ Crash(w)
        PROVE  HistoryInv'
    <2>1. \/ order' = order
          \/ \E s \in OrderStatuses \ {"REFUNDED"} : order' = Status(s)
      BY <1>8 DEF Transfer, ReadTransfer, ConfirmFirst, ConfirmPayment, Refresh, LookUpEntry,
                  DebitSettlement, Advance, ReadClose, WriteClose, Crash, OrderStatuses
    <2>2. \/ Return(w)
          \/ \E s \in Steps : Go(w, s)
      BY <1>8, StepNames DEF Transfer, ReadTransfer, Begin, ConfirmFirst, Refresh, LookUpEntry,
                  DebitSettlement, Advance, ReadClose, WriteClose, Crash
    <2>. QED
      BY <1>1, <1>2, <1>3, <1>6, <1>7, <2>1, <2>2
  <1>9. ASSUME NEW w \in Workers, RefundHandling(w)
        PROVE  HistoryInv'
    <2>1. CASE \E a \in 1 .. Amount : ReadRefund(w, a)
      BY <2>1, <1>6, <1>7 DEF ReadRefund
    <2>2. CASE \E f \in Refunds : CreateRefund(w, f)
      BY <2>2, <1>2, <1>6, <1>7 DEF CreateRefund
    <2>3. CASE \E f \in Refunds : ReadReview(w, f)
      <3>1. order' = order
        BY <2>3 DEF ReadReview
      <3>2. \A x \in Workers : job'[x].read = job[x].read \/ job'[x].read = order
        BY <2>3 DEF ReadReview, JobRow
      <3>. QED
        BY <1>6, <1>7, <3>1, <3>2
    <2>4. CASE Approve(w) \/ CallBank(w) \/ SumRefunds(w) \/ FailRefund(w) \/ Reject(w)
               \/ CheckSucceeded(w)
      <3>1. order' = order
        BY <2>4 DEF Approve, CallBank, SumRefunds, FailRefund, Reject, CheckSucceeded
      <3>2. Return(w) \/ \E s \in Steps : Go(w, s)
        BY <2>4, StepNames DEF Approve, CallBank, SumRefunds, FailRefund, Reject, CheckSucceeded
      <3>. QED
        BY <1>1, <1>2, <1>6, <1>7, <3>1, <3>2
    <2>5. CASE FinishRefund(w) \/ SaveRefund(w) \/ Restore(w)
      <3>1. \/ order' = order
            \/ \E s \in OrderStatuses : order' = [order EXCEPT !.status = s]
        BY <2>5 DEF FinishRefund, SaveRefund, SaveOutcome, Restore, OrderStatuses, JobRow, OrderRow
      <3>2. Return(w)
        BY <2>5 DEF FinishRefund, SaveRefund, Restore
      <3>. QED
        BY <1>2, <1>4, <1>6, <1>7, <3>1, <3>2
    <2>. QED
      BY <1>9, <2>1, <2>2, <2>3, <2>4, <2>5 DEF RefundHandling
  <1>10. ASSUME Confirm \/ BatchOrder \/ Finalize \/ PayoutFails
         PROVE  HistoryInv'
    <2>1. job' = job
      BY <1>10 DEF Confirm, BatchOrder, Finalize, PayoutFails
    <2>2. \/ order' = order
          \/ order' = Status("PAY_RECEIVED")
          \/ order' = [order EXCEPT !.status = "SETTLED"]
      BY <1>10 DEF Confirm, ConfirmPayment, BatchOrder, Finalize, PayoutFails
    <2>. QED
      BY <1>3, <1>4, <1>6, <1>7, <2>1, <2>2 DEF OrderStatuses
  <1>11. ASSUME UNCHANGED vars
         PROVE  HistoryInv'
    BY <1>5, <1>11 DEF vars
  <1>. QED
    BY <1>8, <1>9, <1>10, <1>11 DEF Next

\* What the bank has paid back does not become less.
LEMMA RepaidStays ==
    ASSUME TypeInv, TypeInv', RefundInv, RefundStep, Repaid
    PROVE  Repaid'
  <1>. PICK g : g = [f \in Refunds |-> refund[f].amount]
    OBVIOUS
  <1>. PICK h : h = [f \in Refunds |-> refund'[f].amount]
    OBVIOUS
  <1>1. /\ paidOut \subseteq Refunds /\ paidOut' \subseteq Refunds /\ paidOut \subseteq paidOut'
        /\ \A f \in Refunds : g[f] \in Nat /\ h[f] \in Nat
    BY FundsParameters DEF TypeInv, TypeOK, RefundRow, RefundStep
  <1>2. \A f \in paidOut : g[f] = h[f]
    BY <1>1 DEF RefundInv, RefundStep, RowsKept
  <1>3. IsFiniteSet(paidOut) /\ IsFiniteSet(paidOut')
    BY <1>1, FundsParameters, FS_Subset
  <1>4. SumFunctionOnSet(g, paidOut) = SumFunctionOnSet(h, paidOut)
    BY ONLY <1>2, <1>3, SumSame, Zenon
  <1>5. SumFunctionOnSet(h, paidOut) <= SumFunctionOnSet(h, paidOut')
    BY <1>1, <1>3, SumSubset
  <1>6. SumFunctionOnSet(h, paidOut) \in Nat /\ SumFunctionOnSet(h, paidOut') \in Nat
    BY <1>1, <1>3, SumNat
  <1>7. TotalOf(paidOut) = SumFunctionOnSet(g, paidOut)
    BY DEF TotalOf
  <1>8. TotalOf(paidOut)' = SumFunctionOnSet(h, paidOut')
    BY DEF TotalOf
  <1>. QED
    BY <1>4, <1>5, <1>6, <1>7, <1>8, FundsParameters DEF Repaid

\* The sum execute_refund takes counts only refunds the bank has paid.
LEMMA FullMeansRepaid ==
    ASSUME TypeInv, RefundInv, NEW f \in paidOut, FullyRefunded(f)
    PROVE  Repaid
  <1>. PICK g : g = [x \in Refunds |-> refund[x].amount]
    OBVIOUS
  <1>. PICK S : S = Succeeded \cup {f}
    OBVIOUS
  <1>1. S \subseteq paidOut /\ paidOut \subseteq Refunds /\ IsFiniteSet(paidOut)
    BY FundsParameters, FS_Subset DEF RefundInv, Succeeded, TypeInv, TypeOK
  <1>2. \A x \in paidOut : g[x] \in Nat
    BY <1>1, FundsParameters DEF TypeInv, TypeOK, RefundRow
  <1>3. SumFunctionOnSet(g, S) <= SumFunctionOnSet(g, paidOut)
    BY <1>1, <1>2, SumSubset
  <1>4. SumFunctionOnSet(g, S) = Amount
    BY DEF FullyRefunded, TotalOf
  <1>5. TotalOf(paidOut) = SumFunctionOnSet(g, paidOut) /\ SumFunctionOnSet(g, paidOut) \in Nat
    BY <1>1, <1>2, SumNat DEF TotalOf
  <1>. QED
    BY <1>3, <1>4, <1>5, FundsParameters DEF Repaid

LEMMA FullStep ==
    ASSUME TypeInv, TypeInv', RefundInv, PaidInv, HistoryInv, RefundStep, FullInv, [Next]_vars
    PROVE  FullInv'
  <1>. job \in [Workers -> JobRow] /\ order \in OrderRow
    BY DEF TypeInv, TypeOK, JobRow
  <1>0. /\ order.status = "REFUNDED" => Repaid
        /\ \A w \in Workers : job[w].at = "full" => Repaid
    BY DEF FullInv, RefundedInFull, Repaid
  <1>1. ASSUME order'.status = "REFUNDED" => order.status = "REFUNDED" \/ Repaid,
               \A w \in Workers : job'[w].at = "full" => job[w].at = "full" \/ Repaid
        PROVE  FullInv'
    <2>1. Repaid => Repaid'
      BY RepaidStays
    <2>. HIDE DEF Repaid
    <2>2. /\ order'.status = "REFUNDED" => Repaid'
          /\ \A w \in Workers : job'[w].at = "full" => Repaid'
      BY <1>0, <1>1, <2>1
    <2>. QED
      BY <2>2 DEF FullInv, RefundedInFull, Repaid
  <1>2. \A w \in Workers, s \in Steps :
            Go(w, s) => /\ \A x \in Workers \ {w} : job'[x].at = job[x].at
                        /\ job'[w].at = s
    BY DEF Go, JobRow
  <1>3. \A w \in Workers :
            Return(w) => /\ \A x \in Workers \ {w} : job'[x].at = job[x].at
                         /\ job'[w].at = "idle"
    BY DEF Return, Idle
  <1>4. \A s \in OrderStatuses : Status(s).status = s
    BY DEF Status
  <1>5. ASSUME NEW w \in Workers, Transfer(w) \/ ReadClose(w) \/ WriteClose(w) \/ Crash(w)
        PROVE  FullInv'
    <2>1. \/ order' = order
          \/ \E s \in OrderStatuses \ {"REFUNDED"} : order' = Status(s)
      BY <1>5 DEF Transfer, ReadTransfer, ConfirmFirst, ConfirmPayment, Refresh, LookUpEntry,
                  DebitSettlement, Advance, ReadClose, WriteClose, Crash, OrderStatuses
    <2>2. Return(w) \/ \E s \in Steps \ {"full"} : Go(w, s)
      BY <1>5, StepNames DEF Transfer, ReadTransfer, Begin, ConfirmFirst, Refresh, LookUpEntry,
                  DebitSettlement, Advance, ReadClose, WriteClose, Crash
    <2>. QED
      BY <1>1, <1>2, <1>3, <1>4, <2>1, <2>2
  <1>6. ASSUME NEW w \in Workers, RefundHandling(w)
        PROVE  FullInv'
    <2>1. CASE \E a \in 1 .. Amount : ReadRefund(w, a)
      BY <2>1, <1>1 DEF ReadRefund
    <2>2. CASE \E f \in Refunds : CreateRefund(w, f)
      BY <2>2, <1>1, <1>3 DEF CreateRefund
    <2>3. CASE \E f \in Refunds : ReadReview(w, f)
      <3>1. order' = order
        BY <2>3 DEF ReadReview
      <3>2. \A x \in Workers : job'[x].at = "full" => job[x].at = "full"
        BY <2>3 DEF ReadReview, JobRow
      <3>. QED
        BY <1>1, <3>1, <3>2
    <2>4. CASE Approve(w) \/ CallBank(w) \/ FailRefund(w) \/ Reject(w) \/ CheckSucceeded(w)
      <3>1. order' = order
        BY <2>4 DEF Approve, CallBank, FailRefund, Reject, CheckSucceeded
      <3>2. Return(w) \/ \E s \in Steps \ {"full"} : Go(w, s)
        BY <2>4, StepNames DEF Approve, CallBank, FailRefund, Reject, CheckSucceeded
      <3>. QED
        BY <1>1, <1>2, <1>3, <3>1, <3>2
    <2>5. CASE SumRefunds(w)
      <3>1. order' = order
        BY <2>5 DEF SumRefunds
      <3>2. \/ Go(w, "partial")
            \/ Go(w, "full") /\ FullyRefunded(job[w].ref)
        BY <2>5 DEF SumRefunds
      <3>3. job[w].ref \in paidOut
        BY <2>5 DEF SumRefunds, PaidInv
      <3>4. Go(w, "full") => Repaid
        BY <2>5, <3>3, FullMeansRepaid, <1>2, <3>2, StepNames
      <3>. HIDE DEF Repaid
      <3>. QED
        BY <1>1, <1>2, <3>1, <3>2, <3>4, StepNames
    <2>6. CASE FinishRefund(w)
      <3>1. Return(w)
        BY <2>6 DEF FinishRefund
      <3>2. \/ order' = order
            \/ FullyRefunded(job[w].ref)
        BY <2>6 DEF FinishRefund, SaveOutcome
      <3>3. job[w].ref \in paidOut
        BY <2>6 DEF FinishRefund, PaidInv
      <3>4. order' = order \/ Repaid
        BY <3>2, <3>3, FullMeansRepaid
      <3>. HIDE DEF Repaid
      <3>. QED
        BY <1>1, <1>3, <3>1, <3>4
    <2>7. CASE SaveRefund(w)
      <3>1. Return(w)
        BY <2>7 DEF SaveRefund
      <3>2. order' = order \/ job[w].at = "full"
        BY <2>7 DEF SaveRefund, SaveOutcome
      <3>. HIDE DEF Repaid
      <3>. QED
        BY <1>0, <1>1, <1>3, <3>1, <3>2
    <2>8. CASE Restore(w)
      <3>1. Return(w)
        BY <2>8 DEF Restore
      <3>2. order'.status # "REFUNDED"
        BY <2>8 DEF Restore, HistoryInv, OrderRow
      <3>. QED
        BY <1>1, <1>3, <3>1, <3>2
    <2>. QED
      BY <1>6, <2>1, <2>2, <2>3, <2>4, <2>5, <2>6, <2>7, <2>8 DEF RefundHandling
  <1>7. ASSUME Confirm \/ BatchOrder \/ Finalize \/ PayoutFails \/ UNCHANGED vars
        PROVE  FullInv'
    <2>1. job' = job
      BY <1>7 DEF Confirm, BatchOrder, Finalize, PayoutFails, vars
    <2>2. \/ order' = order
          \/ order' = Status("PAY_RECEIVED")
          \/ order' = [order EXCEPT !.status = "SETTLED"]
      BY <1>7 DEF Confirm, ConfirmPayment, BatchOrder, Finalize, PayoutFails, vars
    <2>3. order'.status = "REFUNDED" => order.status = "REFUNDED"
      BY <2>2 DEF Status, OrderRow
    <2>. QED
      BY <1>1, <2>1, <2>3
  <1>. QED
    BY <1>5, <1>6, <1>7 DEF Next

\* RefundedInFull of the runs: an order is shown as REFUNDED only when the
\* refunds the bank has paid add up to its amount, although executions that
\* post no reversal sum the refunds without a lock and a rejection restores a
\* status read long before.
THEOREM RefundedMeansRepaid == Spec => []RefundedInFull
  <1>. DEFINE Inv == TypeInv /\ PaidInv /\ RefundInv /\ HistoryInv /\ FullInv
  <1>1. Init => HistoryInv /\ FullInv
    BY DEF Init, HistoryInv, FullInv, RefundedInFull, Idle, Status
  <1>2. Init => Inv
    BY <1>1, InitFunds, InitRefunds
  <1>3. Inv /\ [Next]_vars => Inv'
    BY FundsStepTyped, PaidStep, RefundsStep, HistoryStep, FullStep DEF RefundStep
  <1>4. Inv => RefundedInFull
    BY DEF FullInv
  <1>. QED
    BY <1>2, <1>3, <1>4, PTL DEF Spec
=============================================================================
