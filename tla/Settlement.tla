----------------------------- MODULE Settlement -----------------------------
(***************************************************************************)
(* Daily settlement: SettlementBatchCreator, FundsDistributor, the job     *)
(* run_daily_settlement that drives them and the operators' approval of a  *)
(* batch, over the orders that are collected and confirmed meanwhile.      *)
(*                                                                         *)
(* The job is started by hand or by a scheduler and may overlap itself.    *)
(* create_daily_batches is one transaction, but its queries see what       *)
(* others have committed before each of them, and the key of               *)
(* SettlementDetail, one-to-one with the order, is what stops a second     *)
(* listing.  distribute is several transactions around a bank transfer and *)
(* goes by the status of the batch instance its caller holds: the job's    *)
(* own, as it was created, or the one an operator read.                    *)
(*                                                                         *)
(* A run makes at most one batch per book, so batch[j][b] is the batch of  *)
(* book b made by run j.  Refunds are here for what they do to the status  *)
(* of an order; their own rows and races are in OrderFunds.                *)
(***************************************************************************)
EXTENDS Integers, FiniteSets

CONSTANTS Orders,
          Books,       \* merchants and agents, with the currency of the batch
          BookOf,      \* [Orders -> Books]
          Runs,        \* executions of run_daily_settlement
          Operators,   \* processes serving approvals
          MaxDay       \* bound: the calendar stops here

ASSUME SettlementParameters ==
    /\ BookOf \in [Orders -> Books]
    /\ Runs \cap Operators = {}
    /\ MaxDay \in Nat /\ MaxDay >= 2

VARIABLES today,       \* the local date
          night,       \* the UTC date is still that of the day before
          order,       \* [Orders -> row]
          refunds,     \* history: orders a refund was ever requested for
          batch,       \* [Runs -> [Books -> row]]: SettlementBatch and its details
          job,         \* [Runs -> the state of create_daily_batches]
          payout,      \* [Processes -> the distribute it is in]
          transfers    \* how often each process made the bank pay a batch

vars == <<today, night, order, refunds, batch, job, payout, transfers>>

Processes == Runs \cup Operators
Days == 0 .. MaxDay

OrderRow == [status : {"PENDING_PAY", "PAY_RECEIVED", "PENDING_SETTLE", "SETTLED",
                       "REFUNDING", "REFUNDED"},
             receivedOn : Days, confirmedOn : Days]
BatchRow == [status : {"NONE", "PENDING", "PROCESSING", "SETTLED", "FAILED"},
             orders : SUBSET Orders]
JobState == [at : {"new", "screen", "create", "distribute", "done", "dead"},
             date : Days, picked : SUBSET Orders, todo : SUBSET Books]
PayoutState == [at : {"idle", "pending", "processing", "paid", "failed"},
                run : Runs \cup {"none"}, book : Books \cup {"none"}]

TypeOK ==
    /\ today \in 2 .. MaxDay
    /\ night \in BOOLEAN
    /\ order \in [Orders -> OrderRow]
    /\ refunds \subseteq Orders
    /\ batch \in [Runs -> [Books -> BatchRow]]
    /\ job \in [Runs -> JobState]
    /\ payout \in [Processes -> PayoutState]
    /\ transfers \in [Runs -> [Books -> [Processes -> Nat]]]

-----------------------------------------------------------------------------
Idle == [at |-> "idle", run |-> "none", book |-> "none"]

Init ==
    /\ today = 2
    /\ night = FALSE
    /\ order = [o \in Orders |-> [status |-> "PENDING_PAY", receivedOn |-> 0,
                                  confirmedOn |-> 0]]
    /\ refunds = {}
    /\ batch = [j \in Runs |-> [b \in Books |-> [status |-> "NONE", orders |-> {}]]]
    /\ job = [j \in Runs |-> [at |-> "new", date |-> 0, picked |-> {}, todo |-> {}]]
    /\ payout = [p \in Processes |-> Idle]
    /\ transfers = [j \in Runs |-> [b \in Books |-> [p \in Processes |-> 0]]]

\* _confirm_payment and confirm_transfer, as far as settlement sees them.
Receive(o) ==
    /\ order[o].status = "PENDING_PAY"
    /\ order' = [order EXCEPT ![o].status = "PAY_RECEIVED", ![o].receivedOn = today]
    /\ UNCHANGED <<today, night, refunds, batch, job, payout, transfers>>

ConfirmTransfer(o) ==
    /\ order[o].status = "PAY_RECEIVED"
    /\ order' = [order EXCEPT ![o].status = "PENDING_SETTLE", ![o].confirmedOn = today]
    /\ UNCHANGED <<today, night, refunds, batch, job, payout, transfers>>

\* request_refund: the order may be anywhere, in a batch or not.
RequestRefund(o) ==
    /\ order[o].status \in {"PENDING_PAY", "PAY_RECEIVED", "PENDING_SETTLE", "SETTLED"}
    /\ order' = [order EXCEPT ![o].status = "REFUNDING"]
    /\ refunds' = refunds \cup {o}
    /\ UNCHANGED <<today, night, batch, job, payout, transfers>>

\* _get_previous_status: the last entry of status_history that is not
\* REFUNDING; SETTLED is never entered there.
LastInHistory(o) ==
    CASE order[o].confirmedOn # 0 -> "PENDING_SETTLE"
      [] order[o].confirmedOn = 0 /\ order[o].receivedOn # 0 -> "PAY_RECEIVED"
      [] order[o].confirmedOn = 0 /\ order[o].receivedOn = 0 -> "PENDING_PAY"

\* reject_refund gives a status back on whatever day it comes, and
\* execute_refund ends the order.  How many refunds of it are open is left out.
RejectRefund(o) ==
    /\ order[o].status = "REFUNDING"
    /\ order' = [order EXCEPT ![o].status = LastInHistory(o)]
    /\ UNCHANGED <<today, night, refunds, batch, job, payout, transfers>>

CompleteRefund(o) ==
    /\ o \in refunds
    /\ order[o].status # "REFUNDED"
    /\ order' = [order EXCEPT ![o].status = "REFUNDED"]
    /\ UNCHANGED <<today, night, refunds, batch, job, payout, transfers>>

-----------------------------------------------------------------------------
\* SettlementDetail rows, by their orders.
Listed == UNION {batch[j][b].orders : j \in Runs, b \in Books}

\* run_daily_settlement takes yesterday from the UTC clock; the dates of the
\* orders are local.  Between local midnight and UTC midnight they differ.
SettleDate == IF night THEN today - 2 ELSE today - 1

Pending(d) == {o \in Orders : order[o].status = "PENDING_SETTLE" /\ order[o].receivedOn = d}

\* A variant with a bug: off by one day.
ListPendingLate(j) ==
    /\ job[j].at = "new"
    /\ job' = [job EXCEPT ![j].at = IF Pending(SettleDate - 1) = {} THEN "done" ELSE "screen",
                          ![j].date = SettleDate, ![j].picked = Pending(SettleDate - 1)]
    /\ UNCHANGED <<today, night, order, refunds, batch, payout, transfers>>

\* create_daily_batches: the query for pending orders.
ListPending(j) ==
    /\ job[j].at = "new"
    /\ job' = [job EXCEPT ![j].at = IF Pending(SettleDate) = {} THEN "done" ELSE "screen",
                          ![j].date = SettleDate, ![j].picked = Pending(SettleDate)]
    /\ UNCHANGED <<today, night, order, refunds, batch, payout, transfers>>

\* The orders that have a detail are passed over.
Screen(j) ==
    /\ job[j].at = "screen"
    /\ job' = [job EXCEPT ![j].at = IF job[j].picked \subseteq Listed THEN "done" ELSE "create",
                          ![j].picked = @ \ Listed]
    /\ UNCHANGED <<today, night, order, refunds, batch, payout, transfers>>

PickedOf(j, b) == {o \in job[j].picked : BookOf[o] = b}

MakeBatches(j) ==
    /\ batch' = [batch EXCEPT ![j] =
                    [b \in Books |-> [status |-> IF PickedOf(j, b) = {} THEN "NONE"
                                                 ELSE "PENDING",
                                      orders |-> PickedOf(j, b)]]]
    /\ job' = [job EXCEPT ![j].at = "distribute", ![j].picked = {},
                          ![j].todo = {b \in Books : PickedOf(j, b) # {}}]

\* A variant with a bug: nothing keeps an order from being listed twice.
CreateAnyway(j) ==
    /\ job[j].at = "create"
    /\ MakeBatches(j)
    /\ UNCHANGED <<today, night, order, refunds, payout, transfers>>

\* One batch per book; another run's detail for one of the orders breaks the
\* one-to-one key and rolls back all of them.
CreateBatches(j) ==
    /\ job[j].at = "create"
    /\ job[j].picked \cap Listed = {}
    /\ MakeBatches(j)
    /\ UNCHANGED <<today, night, order, refunds, payout, transfers>>

LoseBatches(j) ==
    /\ job[j].at = "create"
    /\ job[j].picked \cap Listed # {}
    /\ job' = [job EXCEPT ![j].at = "dead", ![j].picked = {}]
    /\ UNCHANGED <<today, night, order, refunds, batch, payout, transfers>>

-----------------------------------------------------------------------------
Step(p, s) == payout' = [payout EXCEPT ![p].at = s]
Return(p) == payout' = [payout EXCEPT ![p] = Idle]
SetStatus(p, s) == batch' = [batch EXCEPT ![payout[p].run][payout[p].book].status = s]

\* The job distributes the batches it made, by the instances it made.
TakeBatch(j, b) ==
    /\ job[j].at = "distribute"
    /\ payout[j].at = "idle"
    /\ b \in job[j].todo
    /\ job' = [job EXCEPT ![j].todo = @ \ {b}]
    /\ payout' = [payout EXCEPT ![j] = [at |-> "pending", run |-> j, book |-> b]]
    /\ UNCHANGED <<today, night, order, refunds, batch, transfers>>

\* A variant with a bug: a failed batch can be approved again.
ReadApprovalOfFailed(w, j, b) ==
    /\ payout[w].at = "idle"
    /\ batch[j][b].status \in {"PENDING", "FAILED"}
    /\ payout' = [payout EXCEPT ![w] = [at |-> "pending", run |-> j, book |-> b]]
    /\ UNCHANGED <<today, night, order, refunds, batch, job, transfers>>

\* SettlementBatchViewSet.approve
ReadApproval(w, j, b) ==
    /\ payout[w].at = "idle"
    /\ batch[j][b].status = "PENDING"
    /\ payout' = [payout EXCEPT ![w] = [at |-> "pending", run |-> j, book |-> b]]
    /\ UNCHANGED <<today, night, order, refunds, batch, job, transfers>>

\* A variant with a bug: the orders take the status of their batch.
SettleOrdersAsBatch(p) ==
    order' = [o \in Orders |->
                 IF o \in batch[payout[p].run][payout[p].book].orders
                 THEN [order[o] EXCEPT !.status = batch[payout[p].run][payout[p].book].status]
                 ELSE order[o]]

SettleOrders(p) ==
    order' = [o \in Orders |->
                 IF o \in batch[payout[p].run][payout[p].book].orders
                 THEN [order[o] EXCEPT !.status = "SETTLED"] ELSE order[o]]

\* A variant with a bug: the orders are settled when the transfer is sent.
MarkProcessingAndOrders(p) ==
    /\ payout[p].at = "pending"
    /\ SetStatus(p, "PROCESSING")
    /\ SettleOrders(p)
    /\ Step(p, "processing")
    /\ UNCHANGED <<today, night, refunds, job, transfers>>

\* distribute: PROCESSING is saved, whatever the row is by now.
MarkProcessing(p) ==
    /\ payout[p].at = "pending"
    /\ SetStatus(p, "PROCESSING")
    /\ Step(p, "processing")
    /\ UNCHANGED <<today, night, order, refunds, job, transfers>>

\* The bank pays and says so, or its answer is lost, or it does not pay.
Transfer(p) ==
    /\ payout[p].at = "processing"
    /\ \/ /\ transfers' = [transfers EXCEPT ![payout[p].run][payout[p].book][p] = @ + 1]
          /\ Step(p, "paid") \/ Step(p, "failed")
       \/ Step(p, "failed") /\ UNCHANGED transfers
    /\ UNCHANGED <<today, night, order, refunds, batch, job>>

\* _finalize_success: the batch and its orders, in one transaction, or
\* neither if a statement of it fails.
Finalize(p) ==
    /\ payout[p].at = "paid"
    /\ \/ SetStatus(p, "SETTLED") /\ SettleOrders(p) /\ Return(p)
       \/ Step(p, "failed") /\ UNCHANGED <<order, batch>>
    /\ UNCHANGED <<today, night, refunds, job, transfers>>

RecordFailure(p) ==
    /\ payout[p].at = "failed"
    /\ SetStatus(p, "FAILED")
    /\ Return(p)
    /\ UNCHANGED <<today, night, order, refunds, job, transfers>>

\* A process dies: a run before its transaction commits leaves nothing, later
\* the batches it has not come to.
CrashRun(j) ==
    /\ job[j].at \in {"screen", "create", "distribute"}
    /\ job' = [job EXCEPT ![j].at = IF @ = "distribute" THEN "done" ELSE "dead",
                          ![j].picked = {}, ![j].todo = {}]
    /\ Return(j)
    /\ UNCHANGED <<today, night, order, refunds, batch, transfers>>

CrashOperator(w) ==
    /\ payout[w].at # "idle"
    /\ Return(w)
    /\ UNCHANGED <<today, night, order, refunds, batch, job, transfers>>

-----------------------------------------------------------------------------
\* The job's schedule: a run has settled yesterday before a day ends.  Nothing
\* was received before the first day.
SettledYesterday ==
    \/ today = 2
    \/ \E j \in Runs : job[j].date = today - 1 /\ job[j].at \in {"distribute", "done"}

Midnight ==
    /\ today < MaxDay
    /\ SettledYesterday
    /\ today' = today + 1
    /\ night' = TRUE
    /\ UNCHANGED <<order, refunds, batch, job, payout, transfers>>

UtcMidnight ==
    /\ night
    /\ night' = FALSE
    /\ UNCHANGED <<today, order, refunds, batch, job, payout, transfers>>

Collection(o) == Receive(o) \/ ConfirmTransfer(o)

Refunding(o) == RequestRefund(o) \/ RejectRefund(o) \/ CompleteRefund(o)

Creation(j) == ListPending(j) \/ Screen(j) \/ CreateBatches(j) \/ LoseBatches(j)

Distribution(p) == MarkProcessing(p) \/ Transfer(p) \/ Finalize(p) \/ RecordFailure(p)

Next ==
    \/ \E o \in Orders : Collection(o) \/ Refunding(o)
    \/ \E j \in Runs : Creation(j) \/ CrashRun(j)
    \/ \E j \in Runs, b \in Books :
          TakeBatch(j, b) \/ \E w \in Operators : ReadApproval(w, j, b)
    \/ \E p \in Processes : Distribution(p)
    \/ \E w \in Operators : CrashOperator(w)
    \/ Midnight
    \/ UtcMidnight

Spec == Init /\ [][Next]_vars

-----------------------------------------------------------------------------
(***************************************************************************)
(* Properties                                                              *)
(***************************************************************************)

\* However runs of the job overlap, an order is in one batch only.
ListedOnce ==
    \A j, k \in Runs, b, c \in Books :
        batch[j][b].orders \cap batch[k][c].orders # {} => j = k /\ b = c

\* Orders are settled with their batch, unless a refund is asked for, and only
\* after the bank has paid it, although an approval, the job, a lost answer or
\* a crash may each write or leave another status in the batch.
SettledAfterPayout ==
    /\ \A j \in Runs, b \in Books : batch[j][b].status = "SETTLED" =>
          \A o \in batch[j][b].orders \ refunds : order[o].status = "SETTLED"
    /\ \A o \in Orders : order[o].status = "SETTLED" =>
          \E j \in Runs, b \in Books :
              o \in batch[j][b].orders /\ \E p \in Processes : transfers[j][b][p] > 0

\* No process pays a batch twice, and no run of the job pays another run's:
\* without approvals, no order is paid out twice.
PaidOnceByEach ==
    \A j \in Runs, b \in Books, p \in Processes :
        /\ transfers[j][b][p] <= 1
        /\ transfers[j][b][p] > 0 /\ p \in Runs => p = j

InTime(o) ==
    /\ o \notin refunds
    /\ order[o].status \in {"PENDING_SETTLE", "SETTLED"}
    /\ order[o].confirmedOn = order[o].receivedOn

\* An order confirmed on the day it was received is in a batch by the end of
\* the next, although a run may crash, lose its batches to another, or take a
\* different date for yesterday during the first hours of a day.  Not so once a
\* refund was asked for: the run of its day passes over an order in refund, and
\* a rejection brings it back when no run asks for that day any more.
ListedNextDay ==
    \A o \in Orders : InTime(o) /\ today > order[o].receivedOn + 1 => o \in Listed

\* views.py, of confirm_transfer: a confirmed order waits for the daily batch.
\* The job passes over the orders confirmed on a later day.
ConfirmedIsListed ==
    \A o \in Orders \ refunds :
        /\ order[o].status = "PENDING_SETTLE"
        /\ today > order[o].confirmedOn + 1
        => o \in Listed
=============================================================================
