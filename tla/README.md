# CapitalPay in TLA+

CapitalPay is a Django back end for cross-border B2B payments: a merchant or an
agent applies for a remittance, operations review it, the payer pays against a
payment reference number (PRN), the collection is credited to a virtual account
(VA), the transfer is confirmed, the order is settled in a daily batch and may be
refunded. Around that, operators move money between accounts, reconcile the
day with the banks, and take on customers. This directory models the part of it
in which several web and job processes write the same rows. TLC checks the models on small instances; TLAPS
proves what matters most for every value of the constants.

- `RemittanceIntake`, `RemittanceApplication`, `RemittanceApplicationProofs`:
  applications, quotations, daily limits, operations review.
- `OrderFunds`, `OrderFundsProofs`: the money of one order after its approval.
- `Settlement`, `SettlementProofs`: the daily batches and their payouts.
- `Books`: the nostro accounts and virtual accounts, extended by
  `FundTransfers`, `Deposits` and `Disbursements`, which `Treasury` composes
  (`TreasuryProofs`), and by `Adjustments`, which `Reconciliation` composes with
  `StatementMatching` (`ReconciliationProofs`, `MatchingTheorems`).
- `MerchantLifecycle`, extended by `CustomerOnboarding`
  (`CustomerOnboardingProofs`): customers and merchants.
- `SumTheorems`: sums over finite sets, which the proofs about balances use.
- `MC*.tla`, `MC*.cfg`: the instances TLC checks.
- `PROJECT.json`: the lines of `src/` each definition stands for, the runs, the
  mutants that show each property can fail, the hazards, the findings.

Run `tlc -workers 2 -config MCOrderFunds.cfg MCOrderFunds` and
`tlapm OrderFundsProofs.tla`, and the like for the other files.

## 1. The system

Python under `src/apps`, MySQL (InnoDB) as the only shared memory, several web
workers and command-line jobs (`run_daily_settlement`, `close_expired_orders`,
`suspend_expired_licenses`, notification retries) that may overlap. Django runs
at READ COMMITTED, `ATOMIC_REQUESTS` is not set, and
`b2b_payment/settings/production.py:55` relies on MySQL's row locks and unique
constraints. So a statement is atomic, a `transaction.atomic` block is all or
nothing but sees what others commit between its statements, and a row is stable
only from `select_for_update` (or the first write of it) to the commit.

A recurring pattern decides what can go wrong: a view loads a model instance with
`get_object()`, a service tests the status of that instance, and `save()` writes
it back, with no lock and no second reading. Where a handler does that it is two
steps in the models, and the values of the reading are kept between them.

### Components

| component (source) | state | operations | correct when | where |
|---|---|---|---|---|
| Remittance application (`payment/services/remittance_application.py`, `payment/views.py`) | `PaymentOrder` with its idempotency key and payload hash | submit, review (approve, reject) | a retry gets the booking it repeats; one booking per key and per quotation | `RemittanceApplication` |
| Daily limits (same, `merchant/services.py`) | `*DailyRemittanceUsage` rows | count in submit, `release_reserved_usage` | what is counted is what is in force; limits hold under races | `RemittanceApplication` |
| Quotation (`payment/services/remittance_quote.py`) | `RemittanceQuote`: status, `expires_at` | create, consume, expire | used once, not used after expiry or by another book | `RemittanceApplication`; pricing planned |
| PRN (`payment/services/prn_service.py`) | `PaymentReferenceNumber`, the sequence of a day | generate, apply, bind, match | unique codes, one order per code | generation in `RemittanceApplication`; the rest planned |
| Collection (`payment/services/payment.py`, `reconciliation/engine/confirmation_handler.py`) | order status, VA credit | `_confirm_payment` | credited once, or not at all without an active account | `OrderFunds` |
| Closure (`payment/services/close_order.py`) | order status | `close_order`, `close_expired_orders` | only an order that awaits payment | `OrderFunds`, `RemittanceApplication` |
| Confirm transfer (`payment/views.py`) | order status, VA debit | `confirm_transfer` | debited once, before settlement | `OrderFunds` |
| Refunds (`payment/services/refund.py`) | `RefundOrder`, order status and history | request, review, execute, retry | never more than the order; reversed once; the order's status restored | `OrderFunds` |
| VA ledger (`account/services.py`) | `VirtualAccount.ledger_balance`, `VaLedgerEntry` | `post_va_entry`, `debit_va_for_order_outflow` | the balance is what the entries say | `OrderFunds` (one account, the entries of one order) |
| Settlement (`settlement/engine/*`, `settlement/tasks.py`, `settlement/views.py`) | `SettlementBatch`, `SettlementDetail` | daily job, approve, distribute | every order settled, each batch paid once | `Settlement`; one batch against the money of refunds in `OrderFunds` |
| Fee sharing (`settlement/engine/calculator.py`) | `FeeShareRecord` | calculate | shares add up to the fee | planned |
| Write-offs (`settlement/views.py`) | `DifferenceWriteOff`, account balance | create, update, delete, approve, write off | credited once, unless a form sets the status | `Adjustments` |
| Nostro transfers, deposits, recharges, disbursements (`account/services.py`, `account/views.py`) | `FundTransfer`, `DepositRequest`, `Disbursement`, account balances | approve, reject, execute | two authorisations, paid once, balances are what was posted | `FundTransfers`, `Deposits`, `Disbursements`, `Treasury` |
| VA status (`account/views.py`) | `VirtualAccount.status` | activate, deactivate, revoke, generic update | a posting finds a usable account | `Books` |
| Merchant lifecycle and KYC (`merchant/services.py`, `merchant/tasks.py`) | `Merchant.status`, KYC and licence data | transition, `set_kyc`, `review_kyc`, expiry job | active only with reviewed, valid data; closed for good; the events tell the status | `MerchantLifecycle` |
| Customers (`user_portal/services.py`) | `EndUser`, onboarding submissions | submit, agent's review, operations review | one merchant per customer; no approval past the agent | `CustomerOnboarding` |
| Reconciliation (`reconciliation/*`) | batches, differences | match, resolve | every line and order reported; a resolution has had its effect; the batch closes | `StatementMatching`, `Reconciliation` |
| Adjustments (`adjustment/services.py`) | `AdjustmentApplication` | create, update, approve, reject, cancel, delete | posted as often as approved, unless a form sets the status | `Adjustments` |
| Merchant notification (`payment/tasks.py`) | notification attempts | notify, retry | at most ten attempts | candidate |

Money movements, bank credit notifications, payout routing, fund trace, reports,
exchange rates and parameters are records or reference data that no handler of
the above reads back to decide a change of state. Roles, the open API, most of the
user portal, pre-orders and the cashier are entrances to the same services. Compliance
screening is one of the causes of `Abort`. `PROJECT.json` lists them all, with the
reason each is left out.

### Interactions

```
apply -> quotation (locked) -> book (locked) -> usage row (locked) -> order
review approve -> PRN -> order PENDING_PAY       review reject -> usage row
bank line / operator -> _confirm_payment -> VA credit, order PAY_RECEIVED
confirm transfer -> VA debit -> order PENDING_SETTLE
daily job -> batch -> bank -> order SETTLED (bulk update)
refund request -> order REFUNDING -> review -> bank -> VA debit, order REFUNDED
expiry job, operator -> order CLOSED

transfer -> bank -> two account balances
deposit review -> VA credit          disbursement -> bank -> VA debit
recharge, generic save -> account balance (from a reading)
statement + orders -> matcher -> differences -> resolution -> adjustment -> balance
customer -> submission -> agent -> operations -> merchant, KYC -> ACTIVE
KYC, licence, risk, sanctions -> merchant SUSPENDED
```

Every arrow that ends in `order` but one (`_confirm_payment`) writes the order
from a reading that may be out of date. That is the heart of `OrderFunds`.

### What is hard to test

The hazards, each at its line, are in `PROJECT.json`. In short: retries that race
the delivery they repeat; the last of a quota taken twice; midnight between two
readings of the calendar; a status saved over a later one; look-ups that make an
entry idempotent but hold no lock; a bank that has paid while the worker dies;
sums over rows another transaction is about to change; a history that some
changes of status are not written to; batches and jobs that overlap.

## 2. What is modelled

### RemittanceApplication

A table is a function from its keys to rows. `req[r]` is the state of one HTTP
delivery inside `submit`, `order[r]` the `PaymentOrder` it created (an order is
named after its delivery), `quote` the quotations, `usage` the usage rows of each
book and day, `today` the calendar.

| action | code |
|---|---|
| `CheckKey` | look-up by idempotency key: replay, conflict or go on |
| `QuoteUnusable` | the locked quotation is foreign, used (then the key is looked up again) or expired |
| `Reserve` | quotation, book and usage row of today locked |
| `Evaluate` | `assert_eligible` on the usage row of the day it reads itself |
| `Commit`, `Abort` | order created, usage counted and quotation used; or everything rolled back |
| `Approve`, `Reject`, `Close` | `review_remittance`, with `generate_prn` and `release_reserved_usage`; `close_order` |
| `ExpireQuote`, `Midnight` | time |

The lock waits are the guards `QuoteFree`, `BookFree` and `UsageRowFree`. The three
locks of `Reserve` are taken in one step: every submission takes them in the same
order and they are not released before the end, so no interleaving is lost that
a property could see. Blockers that do not depend on the usage row (KYC, licence,
risk level, product, sanctions) make `Abort` possible at any time. The agent's own
review and codes issued to agents beforehand are left to later modules; a new
order always starts at `PENDING_REVIEW`. `Close` is one step here, its stale
reading is in `OrderFunds`; closing does not release usage, as in the code.

`RemittanceIntake` is what the endpoint promises, with no locks, transactions or
clock: a delivery books, replays or is refused; a booking takes its key and its
quotation; a delivery of a booked application is never refused. The run and the
theorem `IntakePromiseKept` show that `submit` implements it.

### OrderFunds

One order, its refunds, the one batch that can list it (`SettlementDetail` is
one-to-one with the order), the VA it was collected on, and workers. `job[w]` is
the handler a worker is in: the next step, the refund it works on, the amount and
the order as it was read.

| handler | steps |
|---|---|
| `_confirm_payment` | `Confirm`: the one handler that locks the order and reads it again |
| `close_order` | `ReadClose`, `WriteClose` |
| `confirm_transfer` | `ReadTransfer`, `ConfirmFirst`, `Refresh`, `LookUpEntry`, `DebitSettlement`, `Advance` |
| `request_refund` | `ReadRefund`, `CreateRefund` |
| `review`, `reject_refund` | `ReadReview`, `Approve`, `Reject`, `CheckSucceeded`, `Restore` |
| `execute_refund` | `CallBank`, `FinishRefund` or `SumRefunds` and `SaveRefund`, `FailRefund` |
| daily job, payout | `BatchOrder`, `Finalize`, `PayoutFails` |
| crash | `Crash` at any step: uncommitted writes are lost, what the bank did is not |

`execute_refund` first writes the refund row and holds it to its commit
(`RowFree`), so its intermediate PROCESSING is never seen by others. When it has a
collection to reverse it locks the VA before it sums the refunds, and two
executions follow each other (`FinishRefund`); when it has none, neither may see
the other's success, which is why summing and saving are then two steps.
`status_history` is kept as its last entry other than REFUNDING, the only thing
`_get_previous_status` looks for. A call of the bank that fails may have paid.

A collection looks for an active account of the merchant or the agent in the
currency, and when there is none posts nothing and still advances the order
(`payment.py:223`); `confirm_transfer` and the payout of the batch then go on without
a debit, unless an account has become active meanwhile (`account/services.py:286`).
`unbooked` remembers that a confirmation of the order met this. A debit that the balance does not cover is
ignored by `_reverse_collection_ledger` and aborts `confirm_transfer`; the master
account's balance is not modelled and may fail either at any time.

Left out: fee credits and the agent pool mirror (their failure is a rollback, as
`Crash`), the choice of banks, the agent's payout gate (it only refuses), money
movements, statuses no handler of new orders writes (PRE_CREATE, PROCESSING,
COMPLETED).

### Settlement

Many orders, their books (a merchant or agent with a currency), the executions of
`run_daily_settlement`, which may overlap, and the processes that serve approvals.
A run makes at most one batch per book, so `batch[j][b]` is the batch of book `b`
made by run `j`, with the orders of its details. `job[j]` is where run `j` is in
`create_daily_batches`, `payout[p]` where process `p` is in `distribute`, and
`transfers` counts what each process made the bank pay.

| code | steps |
|---|---|
| `_confirm_payment`, `confirm_transfer` | `Receive`, `ConfirmTransfer`: the status and the local date of each |
| `request_refund`, `reject_refund`, `execute_refund` | `RequestRefund`, `RejectRefund`, `CompleteRefund`: what they do to the status of an order, listed or not |
| `create_daily_batches` | `ListPending` (yesterday by the UTC clock), `Screen`, `CreateBatches`, or `LoseBatches` when another run's detail breaks the one-to-one key |
| the loop of the job | `TakeBatch`: each batch by the instance as it was created |
| `approve` | `ReadApproval`: the row as it was read |
| `distribute`, `_finalize_success` | `MarkProcessing`, `Transfer`, `Finalize`, `RecordFailure` |
| crash | `CrashRun` before or after the transaction of the run commits, `CrashOperator` |
| time | `Midnight`; `UtcMidnight` three hours later (Africa/Nairobi) |

`create_daily_batches` is one transaction at READ COMMITTED: its queries see what
others committed in between. The insertion of details waits for an insertion of the
same order by another run and then fails, so creation is one step with two
outcomes. The look-ups of details, one per order, are one step: the only use of
the result is to drop orders that are already listed, and the key is checked again
at the end. The bank may pay and answer, pay without its answer arriving, or not
pay. After a success a statement of `_finalize_success` may still fail, which rolls
back the batch and the orders together and leads to FAILED.

A refund takes an order to REFUNDING, where the run of its day passes over it, and a
rejection gives it the last status of its history back (`LastInHistory`), possibly
after that run: then no run asks for its day again. `refunds` keeps the orders a
refund was ever requested for, which the two properties about the day of an order
except. The order is not modelled as late but as never listed, as in the code.

Left out: the amounts and their split, routing, account numbers, fee shares (their
failure is logged and passed over), money movements and the VA debit (in
`OrderFunds`). `confirm_transfer` and the refund handlers are one step each, and the
number of refunds open at a time is not counted; their races with themselves and
with each other are in `OrderFunds`.

### Books and Treasury

`Books` holds the balances: `nostro[a]` and `va[v]`, the virtual accounts that divide
a nostro account, and `job[w]`, the handler a worker is in, with the balance it
read. `post_va_entry` and `update_balance` are operators (`PostVa`, `Covers`) that
the modules of the handlers use; each handler is one step up to its first wait,
commit or look-up outside a lock.

| module | code | steps |
|---|---|---|
| `Books` | `recharge`, the generic update of a nostro account | `ReadRecharge`, `WriteRecharge`; `ReadNostro`, `SaveNostro` |
| | `deactivate` of accounts; activate, deactivate, revoke and update of VAs | `DeactivateNostro`, `SetVaStatus`, `ReadDeactivateVa`, `DeactivateVa`, `ReadVa`, `SaveVa` |
| `FundTransfers` | `execute_transfer` | `ReadTransfer`, `CallTransfer`, `Shift` |
| `Deposits` | `approve_deposit`, `reject_deposit` | `StartApproval`, `FinishApproval`, `ApproveUncredited`, `RejectDeposit` |
| `Disbursements` | `approve`, `reject`, `execute` | `ReadDisbursement`, `AuthoriseFirst`, `AuthoriseSecond`, `RejectDisbursement`, `CheckBalance`, `CallBank`, `Book`, `Debit`, `RollBack` |

The form of a nostro account has the balance among its fields: `SaveNostro` writes
the balance it read or one an operator typed (`FormBalances`, of either sign). The
create of a transfer asks neither for a positive amount nor for two accounts: a
`TransferSum` is any integer, `From` and `To` may be one account, and `Shift` asks the
balance for its DEBIT only, so that a transfer of a negative sum takes from the
receiver unasked (`account/services.py:43`). `Drained` are the receivers it happened to.

FAILED of a transfer and EXECUTING and FAILED of a disbursement are saved inside a
transaction that the exception reporting the failure rolls back, so nobody reads
them. What the bank did stays: `moved` and `paid` count it. `overlapped` names the
accounts whose balance a save took back to an older one, or replaced by a typed one;
`disturbed` the
disbursements two handlers were at together or whose payout was rolled back.

Left out: the available balance and freezing, which nothing calls (FROZEN is one
of the ways to be INACTIVE); the generic update of transfers, deposits and
disbursements, which saves the whole row with the status, the amount and the payee
of the form or of an old reading, so that what is shown of these rows is about
their own handlers; amounts of deposits and disbursements that are not positive,
which `post_va_entry` refuses; deletion flags; the creation of accounts; the choice of another currency's account by
`get_agent_account`. Two things the code allows hold no property: `activate` takes a
REVOKED account back (`account/views.py:413`), and nothing compares an account with
the sum of the VAs under it, which recharges and transfers change apart.

### Reconciliation

`StatementMatching` is `ReconciliationMatcher.match` as operators on two sequences:
the pairs by reference, by transaction number and by amount and time, and what
becomes of the rest. Each round keeps the first line and the last order of a key,
as the dictionaries of the code do.

`Reconciliation` has the task (`run`, `batch`, `Fetch`, `Match`, `CheckSettlements`,
`CreateDiffs`, `KillTask`) and the operators who resolve differences (`ReadDiff`, then
`AskBank` or `AdjustPlatform`, `SaveDiff`, `CountPending`, `CloseBatch`, or
`AbandonDiff`). No handler here is in a transaction, so every save is a step.
`process_matches` confirms nothing: the orders it is given were listed because they
are collected. A resolution as ADJUST_PLATFORM creates an application in
`Adjustments`, whose approval posts it (`ReadApp`, `ApproveApp`, `PostApp`, `FinishApp`,
`UpdateApp`). An application may also be created by hand (`FileByHand`), and the
create takes any status its form carries, COMPLETED among them.

Write-offs have a plain `ModelViewSet` beside the two actions `approve` and `write_off`:
they are created and updated with any of their four statuses and any amount, of
either sign, and deleted (`CreateWriteOff`, `EditWriteOff`, `DeleteWriteOff`). The
approval saves every column it read, the posting only the status
(`ReadWriteOff`, then `ApproveWriteOff`, or `CreditWriteOff` and `SaveWriteOff`). The credit
is of the amount read, asks no balance, and does not happen for a merchant without
an account. `written` is the sum a write-off was credited, `drawn` the accounts that
were credited a negative one.

`contested` names the rows two handlers were at together, or one left half done,
and those whose status a form has set: a row can be made COMPLETED or WRITTEN_OFF
that way without a posting, or be taken back and posted again.

What the model shows on the way: a line without a transaction number, or with that
of a matched line, falls out of the report; a difference with equal amounts (a
settlement batch that is not SETTLED) becomes an application over the full amount;
a day whose statement could not be fetched, or whose task died before
`bulk_create`, is DIFF with nothing to resolve. Fetching, parsing, alerts and the balance check are
left out, and so are the amounts and the account an update of an application may
change and the merchant an update of a write-off may change.

### CustomerOnboarding

`MerchantLifecycle` has the merchants: status, licence, risk level (`blocked`),
sanctions, KYC and product. `transition` locks the merchant and writes status and
event together (`Write`); `told` is the last event's status and `gaps` the merchants
whose chain of events is broken.

| code | steps |
|---|---|
| `activate`, suspend, close | `ReadActivate` (locked, KYC and product read), `CommitActivate`; `Stop` |
| `set_kyc` | `ReadKyc` (no lock), `LockKyc`, `CommitKyc` |
| `review_kyc` | `ReviewKyc`: both rows locked |
| `update_risk_level`, `update_sanction_status`, the audit's `--fix` | `ReadRestrict`, `SaveRestriction`, `SuspendRestricted`; `Lift` |
| the generic update and `Merchant.save` | `ReadProfile`, `GuardProfile`, `SaveProfile` |
| `perform_destroy` | `Destroy`, `SaveDeleted` |
| `suspend_expired_licenses` | `StartLicenceJob`, `SuspendOverdue`, `KillLicenceJob` |

`CustomerOnboarding` adds the customers: `Submit` (with or without an agent's code,
whatever the status), `ReviewByAgent`, `StartReview`, `RejectUser`, and the approval,
which creates a merchant and activates it in one transaction (`ApproveNew`), or
reviews the KYC of the merchant there is (`ApproveBound`). `unguarded` names the
merchants two handlers were at together, one left half done, or the profile form
restricted, which does not suspend.

The docstring at `merchant/services.py:146` calls the lifecycle service the only
place that writes the status; `Merchant.save` (`models.py:78`) compares the status it
read with the database's and then writes every column, so a change that commits
between the two is written back without an event. `EventsExplainStatus` and
`ClosedForGood` except the merchants that happened to (`overlapped`).

Left out: fees, limits, settlement accounts and the assignment of agents; agents'
own onboarding; login.

## 3. What TLC checks

| run | instance | shows |
|---|---|---|
| `application` | `MCRemittanceApplication.cfg` | the properties below hold; every delivery ends; `RemittanceIntake` is implemented |
| `midnight_release` | `MCMidnightRelease.cfg` | finding: a rejection gives back on the wrong day |
| `order_funds` | `MCOrderFunds.cfg` | what ledger and statuses keep under all interleavings and crashes |
| `close_race` | `MCCloseRace.cfg` | finding: a closure overwrites a confirmed payment |
| `double_debit` | `MCDoubleDebit.cfg` | finding: a transfer is debited twice |
| `over_refund` | `MCOverRefund.cfg` | finding: refunds exceed the order |
| `reject_settled` | `MCRejectSettled.cfg` | finding: a settled order goes back to the settlement queue |
| `settlement` | `MCSettlement.cfg` | what is listed, paid and settled, how often and by when |
| `late_settlement` | `MCLateConfirm.cfg` | finding: an order confirmed a day late is in no batch |
| `treasury` | `MCTreasury.cfg` | transfers, deposits and disbursements against operators who edit the accounts |
| `reconciliation` | `MCReconciliation.cfg` | the matcher over all small days; resolutions, adjustments and write-offs |
| `customer` | `MCCustomerOnboarding.cfg` | one merchant per customer; status, events and KYC; the licence job |

Properties that hold:

- `QuoteConsumedOnce`: a quotation backs at most one order and is USED exactly when
  it backs one.
- `ReservedCountExact`, `DailyLimitsKept`: the usage row of a day counts the orders
  in force, and they stay within amount and count, on every day that no submission
  crosses midnight. The restriction is the finding `midnight_release`.
- `KeepsIntakePromise`, `EveryDeliveryAnswered`.
- `StatusBacked`: an order shown as received, in settlement or settled was
  collected, and the last two were debited, although statuses are written from
  stale readings, unless a confirmation of it found no active account
  (`unbooked`). It holds because a collection and a debit are never undone and each
  stale status was true when it was read. For an unbooked order the code keeps no
  such promise: it goes through to SETTLED with nothing posted.
- `CreditedOnce`, `ReversedOnce`, `LedgerExplained`, `RefundedInFull`: the money.
- `ListedOnce`: an order is in one batch, although two runs may both find it
  unlisted and both insert it.
- `SettledAfterPayout`: the orders of a SETTLED batch are settled, but for those a
  refund was requested for, and a settled order, refunds or not, is in a batch the
  bank was made to pay. A batch's own status proves less:
  an approval that fails writes FAILED over the job's SETTLED.
- `PaidOnceByEach`: no process pays a batch twice and no run pays another's. It is
  the most that holds: the job and an approval can each pay the same batch.
- `ListedNextDay`: an order confirmed on the day it was collected, and never in
  refund, is in a batch by the end of the next day. An order whose refund was
  rejected too late is in none (above). The property needs that some run takes that day at all
  (`SettledYesterday`), not that it is the only one or the first, or that it does
  not fall into the hours in which the UTC date is behind.

- `TypeOK` of `Treasury` and of `Reconciliation` also says which accounts can be below
  zero: those a save overwrote, a transfer of a negative sum took from (`Drained`),
  or a write-off of a negative amount was credited to (`drawn`), and no other,
  however the debits of others overlap.
- `VaExplained`, `PoolExplained`: every balance is what the postings add up to,
  transfers of negative sums among them, but for the accounts a save took back or
  an operator typed a balance for (`overlapped`).
- `DepositCreditedOnce`: two reviews of a deposit do not both decide it.
- `TransferBacked`: balances move no more often than the bank's money. That a
  transfer is made once does not hold (`execute_transfer` tests the status before
  it locks the row), and nothing in the repository says it.
- `TwoPrincipals`, `DisbursementDebitedOnce`, `PaidOnceUndisturbed`: a payout was
  authorised by two, is debited once, and paid once as long as nothing disturbs it;
  two executions can pay twice.
- `EverythingReported`, `MatchedOneToOne`, `NothingLeftOver`: the matcher.
- `SideEffectFirst`, `ResolvedTogether`: resolutions. The last two differences may be
  resolved together; one of the two counts finds nothing pending.
- `PostedAsApproved`, `WrittenOffOnce`: an application is never posted more often than
  approved; one that is not `contested` is posted when it is COMPLETED and only
  then, and such a write-off is credited once when it is WRITTEN_OFF, though its
  amount is edited or the row deleted afterwards. `AdjustmentsExplain`: every
  balance is the sum of what was posted, contested or not.
- `ApprovedOnce`, `ActiveCleared`, `EventsExplainStatus`, `ClosedForGood`,
  `OverdueSuspended`: customers and merchants.

The findings are properties that a docstring or a comment states and the code
does not keep; `PROJECT.json` quotes the line and gives the shortest run. Each is a
race or a sequence of legal calls; none is in a single handler run alone, except
`reject_settled`, which needs a settled order, a refund request and its rejection.

### Bounds

`MCRemittanceApplication`: three deliveries (the first, its retry, and a
competitor), two keys, three contents: two of a merchant whose quotations do not
fit its daily amount together, one that names a foreign quotation. Two days give
one midnight. Two PRN numbers let approvals reach the limit of a day (99 in the
code). Contents are enumerated up to a permutation of the deliveries. A race
in `submit` is between two deliveries for one row; the third shows what it
leaves for others.

`MCOrderFunds`: two workers, so that any two handlers overlap at every step, plus
the unbounded environment (`Confirm`, the batch); two refunds, amount 2, so that
refunds are partial or full and can exceed the order together; a float of 2, so
that a second debit is stopped by the code and not by the balance. Workers and
refunds are symmetric. An order whose collection was not booked has one refund
(`OneRefundUnbooked`): two refunds race for the reversal of a collection, and here
there is nothing to reverse. An order debited twice is not followed further
(`FewDebits`; the finding `double_debit`). One of the two refunds at most is in full,
and one is requested at a time (`FewRefunds`): their sum still passes the amount,
since a refund that failed is not counted against the order and may be executed
again, and two requests at a time are the finding `over_refund`, which has neither
bound. There are no liveness properties there, for which symmetry would be
unsound. `MCRejectSettled` needs one worker only.

`MCSettlement`: two runs, so that they overlap at every step, one operator, and an
order in each of two books, so that a run picks both, one or none and a lost
transaction takes back an order only it had. A third order, which would put two
in one batch, made the run more than ten times as long; the orders of a batch are
never told apart by the code. Days 2 to 4: received on 2, settled on 3, overdue on
4; `MCLateConfirm` needs a fifth. Runs are symmetric, and so are the two orders with
their books. Refunds are requested of one of the orders and with one run
(`OneInRefund`): what a refund changes is whether a run finds the order, which one
run and one order show; the other order keeps the rest of its batch.

`MCTreasury`: two workers and two principals, a customer's and an agent's account with
a VA each, a transfer of 1 from the agent's account to the customer's and one of -1
the other way, a deposit by each and a disbursement of all the agent has. Two of
the five requests are open at a time (the negative transfer not with a deposit),
which gives the pairs of handlers on one row and on one balance. Operators do two
things to the accounts (a stale save needs one, and one in between), one while a
disbursement or the negative transfer is open, and none while a disbursement and a
transfer are; they may type a balance of -1. The bank is called twice for a row.
The start has transfers that are FAILED, deposits and disbursements that are
REJECTED: a form can set the first.

`MCReconciliation`: every pair of a statement and a day of at most two items over two
transaction numbers, one reference, two amounts and two times goes through the
matcher. Operators then take up the lists in `Interesting`, the smallest of each
kind; write-offs and applications by hand belong to a day without differences,
with which they share no row but the account. There are two write-offs, of a
merchant with an account and of one without, over 1 or -1. What becomes of a
contested row, and the write-off without an account, are explored with no other
row there (`Alone`): the handlers of different rows meet only at the balance, which
the rows that are not contested show. A side effect happens twice at most.

`MCCustomerOnboarding`: a customer who submits twice, an established merchant, and one
more row; a third is taken only if the customer were given a second merchant.
Three operations on merchants, so that two can meet and a third can profit; what the
customer does comes before what happens to the established merchant, with which it
shares nothing.

Deadlock is not checked: the systems stop when everything is answered or settled,
and the calendar at its bound.

### Fairness

`WF_vars(Submit(r))` for each delivery: a worker process runs a request until it
returns or its transaction rolls back, and a row lock is released then. Nothing
is assumed of reviews, closures, expiry or the calendar. `OrderFunds` and
`Settlement` state no fairness and no liveness. `Settlement` has one assumption on
scheduling, as a guard of `Midnight`: a run has taken yesterday before a day ends
(the README of the repository lists settlement among the scheduled jobs; it does
not say when they start).

`CustomerOnboarding` has weak fairness of `LicenceJob` (one of the jobs of
`run_scheduled_jobs.py`, :17) and of `Proceed(w)`: a worker ends what it is
in the middle of, so that no lock is held for ever. An operator may still kill
the job (`KillLicenceJob`), a bounded number of times. `Treasury` and
`Reconciliation` state no fairness.

## 4. What is proved

Eight modules hold proofs: six are about a component, and two, `SumTheorems` and
`MatchingTheorems`, about the operators they need. The theorems hold for any number
of workers, rows, days and amounts that meet the assumptions: `RemittanceApplicationProofs`
(`RequestsFinite`, `ParametersTyped`), `OrderFundsProofs` (`FundsParameters`),
`SettlementProofs` (`SettlementParameters`), `TreasuryProofs` (`BooksParameters`,
`TransferParameters`, `DepositParameters`, `DisbursementParameters`,
`RowsDisjoint`), `CustomerOnboardingProofs` (`MerchantParameters`) and
`ReconciliationProofs` (`BooksParameters`, `AdjustmentParameters`,
`MatchingParameters`, `ReconciliationParameters`). The sums of transfers and
write-offs and the balances a form may carry are any integers, and a transfer may
have one account on both sides; deposits and disbursements are positive, as
`post_va_entry` demands. The theorems are about `Spec` of the
module, with all its actions at a time; an MC module may take fewer
(`MCReconciliation`).

| theorem | property | argument |
|---|---|---|
| `TypeCorrect` | `TypeOK` | directly inductive; `Monus` keeps counters natural |
| `QuotesConsumedOnce` | `QuoteConsumedOnce` | `BookingInv`: a delivery that holds a quotation holds it alone, that quotation is ACTIVE and of its own book, a key is booked once, and whatever a delivery was answered with is an order of its key and contents. Without the parts about locks a commit could meet a quotation already used |
| `UsageCountsReserved` | `ReservedCountExact` | `CountInv` adds that a rejected order is CLOSED, so it is rejected once; a straddled day stays so, and a rejection removes exactly one element of `Reserved` (`FiniteSetTheorems`), so the clamp at zero never acts |
| `LimitsKept` | `DailyLimitsKept` | `DailyInv`: on a day that is not straddled the amount counter is the sum over `Reserved`, both counters are within the limits, and a delivery that has been found eligible today still fits: it holds the usage row, so nothing can take the room it has seen. A rejection takes out one summand, which the sum contains, so `Monus` is a subtraction |
| `IntakePromiseKept` | `KeepsIntakePromise` | `BookingInv` and a refinement mapping: `Commit` is `Book`, the look-ups are `Replay` or `Refuse`, every other step stutters |
| `FundsTyped` | `TypeOK` | `TypeInv` adds that a worker inside a refund step names a refund |
| `StatusesBacked` | `StatusBacked` | `BackedInv`: besides the order's status, every status that is still to be written (`last` in the history, the readings of the workers, the steps "lookup" to "advance") and the batch are backed by their entries, or by a confirmation that posted nothing (`Collected`, `Debited`), which holds for ever after |
| `CollectionCreditedOnce` | `CreditedOnce` | the look-up and the entry are one step under the order's lock |
| `ReversalsOnce` | `ReversedOnce` | `PaidInv`: a worker at "succeeded" or later works on a refund the bank has paid |
| `LedgerBalances` | `LedgerExplained` | `BookStep`: every step moves both sides of the equation by the same amount, a reversal by one summand (`SumMoved`); with `PaidInv` and `RefundInv` (a refund nobody has asked for is not paid, and a handler is at one that was asked for) the amounts of the refunds with an entry no longer change |
| `RefundedMeansRepaid` | `RefundedInFull` | `FullInv`: also a worker that has found the order fully refunded, and is about to save that, is right, since `paidOut` only grows and the amounts of its refunds are fixed; `HistoryInv`: no status that could be restored is REFUNDED |
| `SettlementTyped` | `TypeOK` | `MadeInv` adds that a process in `distribute` names a batch that was made, that a run before its commit has none, and that a batch not made has no orders |
| `BatchesDisjoint` | `ListedOnce` | creation picks orders outside `Listed`, and of different books for its own batches; nothing else changes the orders of a batch |
| `ListedForGood` | (stated in the proof module) | `ListingGrows`: creation writes only batches that were not made, `distribute` and the approvals leave the orders of a batch as they are |
| `NoSettlementUnpaid` | `SettledAfterPayout` | `SettledInv` adds that who is at "paid" has made the bank pay the batch it names; no history holds SETTLED, so a rejection restores a status that claims nothing, and only an order in `refunds` leaves the status its batch gave it |
| `PayoutOnceEach` | `PaidOnceByEach` | `OnceInv`: a batch nobody has marked is unpaid, a batch a run has yet to take is unpaid by that run, and whoever marked it left a status from which no approval starts again |
| `NoneOverlooked` | `ListedNextDay` | `DatesInv`: what a run has done about its date at each point (`Picked`, `Covered`), and that a run's date is always past, so that a confirmation of today cannot be late for it; `RefundsKnown`: an order outside `refunds` is not in refund, so it stays where the run looks |
| `TreasuryTyped` | `TypeOK` | `TypeInv` adds the kind of row a job is on; the balance of an account that is neither overwritten nor drained stays above zero, since a debit asks under the lock, a credit of a positive sum only adds, and `Drained` grows with the first shift of a negative one |
| `TransfersBacked` | `TransferBacked` | `TransferInv`: who is about to shift the balances is alone at its transfer, for it holds the row, and that transfer has a movement at the bank not matched yet |
| `DepositsCreditedOnce` | `DepositCreditedOnce` | `DepositInv`: an approval under way is alone at a request that is PENDING and has no entry |
| `PaidByTwo` | `TwoPrincipals` | `AuthInv`: an authorisation is never taken back and the earliest one stays the first, so whoever spends was read as APPROVED when two principals had signed |
| `DebitedOnce` | `DisbursementDebitedOnce` | `DebitInv`: whoever books or debits holds the row alone, after the bank has paid |
| `UndisturbedPaidOnce` | `PaidOnceUndisturbed` | `OnceInv`: an undisturbed disbursement has one worker, is open and unrejected as long as it has, and is unpaid until that worker pays |
| `VaBalances` | `VaExplained` | inductive with `TypeInv`: `MoneyStep` sums up what any step of `Next` does to balances and counts (nothing, one deposit, one disbursement, one transfer, a recharge, a save), and each kind moves the balance and one summand by the same amount |
| `PoolBalances` | `PoolExplained` | the same with transfers, whose debit and credit are summands of two sums, and with the entries of all virtual accounts of an account, a sum of sums |
| `OnboardingTyped` | `TypeOK` | `BaseInv` adds that a job's merchant exists, and who activates is alone with it |
| `OneMerchantPerUser` | `ApprovedOnce` | `UsersInv`: whoever operations may approve needs no agent's word or has it |
| `StatusExplained`, `ClosedStaysClosed` | `EventsExplainStatus`, `ClosedForGood` | `Effect` sums up what any step does to one merchant (`RowStep`) and to the jobs (`JobsStep`); both properties follow from it and `BaseInv` |
| `ActiveIsCleared` | `ActiveCleared` | `ClearInv`: at an unguarded merchant one handler is at work, and what it read, or is about to save, is what the merchant still is (`Sound`) |
| `ReconciliationTyped` | `TypeOK` | `SizesInv` bounds the list: `ReportShape` shows that an order is in one difference at most, and `ListBound` counts; `JobsInv` says that who resolves a difference resolves a row of the list; `Solvent`: the only postings are the adjustments, of which a debit asks under the lock, and the write-offs, of which a negative one puts its account into `drawn` |
| `ApplicationsPosted` | `PostedAsApproved` | `AppInv`: approvals cover the postings and the workers about to post (`Covered`, by cardinality); at an uncontested application one worker is at work, and its step tells status and postings (`AppSound`); a form that creates one with another status than pending contests it (`AppStays`) |
| `WriteOffsCredited` | `WrittenOffOnce` | `WriteOffInv`: at an uncontested write-off one worker is at work, and its step tells status and credits (`WriteOffSound`): who is about to save has credited, and a form that leaves the status as it was, whatever the amount, changes neither |
| `ResolutionsFounded` | `SideEffectFirst` | `DiffInv`: who is about to save a resolution has had its side effect, and an uncontested difference that is pending has had none, or has its worker about to save |
| `BatchClosed` | `ResolvedTogether` | `BatchInv`: a worker about to close the batch has seen the last difference resolved, and none becomes pending again |
| `ReportComplete`, `ReportAgrees`, `ReportFinal` | `EverythingReported`, `MatchedOneToOne`, `NothingLeftOver` | `MatchingTheorems`, below, for the two lists of any state |
| `BalancesExplained` | `AdjustmentsExplain` | `ExplainInv`: the balance is the opening balance and two sums over all applications and write-offs, the second of what each was credited (`written`), since its amount may be edited afterwards, and an application that does not exist has never been posted (`NeverGranted`), so that creating one, which gives it an account and an amount, changes no sum |

An invariant about a row that "nobody contests" always has the same shape: the
property, that one worker at most is at the row, and what that worker's step says
of the row. Without the last two a second worker could act on a reading that is
no longer true, and the step would break the property; the ghost variables
(`disturbed`, `unguarded`, `contested`) name the rows where the code allows just
that. Each family of handlers (`TransferInv`, `DepositInv`, and so on) has an invariant of
its own, and a frame lemma shows that the other families leave it alone.

The sums. The balances are compared with `SumFunctionOnSet`, which the community
modules define by recursion on the set. `SumTheorems` derives what the proofs use
from that definition: the sum of the empty set, that any element may be taken out
(`SumRemove`, although the recursion takes out the one CHOOSE gives), that equal
summands give equal sums (`SumSame`), and that moving one summand moves the sum by
as much (`SumMoved`). Induction theorems with an operator as parameter cannot be
used, so an induction is a smallest counterexample: a set of naturals, or a family
of finite sets, for which a statement fails has a smallest member (`LeastNat`,
`LeastSet`, from the well-founded order of the library), and that leads to a
contradiction. A sum is over a finite set of rows, whence the assumptions that the
rows are finitely many (`RequestsFinite`, `FundsParameters`, `RowsDisjoint`,
`AdjustmentParameters`); a row that has no entry is a summand of 0.

The matching. `MatchingTheorems` shows, for a statement and orders of any length,
that each round of `match` pairs lines and orders one to one, and that no round
touches what an earlier one has used (`PrnShape`, `ExactShape`, `FuzzyPaired`,
`LateApart`). The round by amount and time is a loop over the lines; `TurnsExist`
shows that its recursion has a solution, and `Paired` is its loop invariant:
besides the pairs being near and separate, no line the loop has passed is left over
with a near order that is left over too. `ReportExhaustive`, `ReportOneToOne` and
`ReportLeavesNothing` follow. TLC checks the same on lists of two.

Every safety and action property of the passing runs is thus stated by a theorem.
Only model-checked:

- liveness (`EveryDeliveryAnswered`, `OverdueSuspended`), which the prover does not
  reach;
- the runs that expect a violation, which are about counterexamples.

## 5. Plan

1. Done: application, quotation and limits; the funds of an order; settlement.
2. Done: `Treasury`, `Reconciliation`, `CustomerOnboarding`.
3. `PaymentReference`: issuing, binding and matching of PRN codes across years.
4. Pure operators against reference definitions: fee and rate of a quotation, fee
   sharing.
5. An abstract `Payout` (each listed order is paid by its batch, and when) that
   `Settlement` without approvals implements; liveness of the refunds and of the
   payouts.
6. Done: proofs of the safety properties of every component, the sums and the
   matching among them (`SumTheorems`, `MatchingTheorems`).

## 6. Not modelled

Pure I/O and presentation (front end, cashier pages, reports, exports), permission
checks, encryption and masking, logging and audit records, formats of numbers and
codes, reference data, deployment. The bank is external: what it answers is a
nondeterministic choice, and a payment it made is never undone.

Most of the implementation is of these kinds: more than half of its lines are the
portals' pages and forms, reports and analytics, seed data, imports of sanctions
lists and generators of documents, which keep no state that handlers race for.
What remains of the core is the PRN's issuance and matching (plan, 3), pricing
and fee sharing (plan, 4), and the callbacks to merchants, an HTTP request with a
bounded number of retries that saves nothing but its own state and count.
