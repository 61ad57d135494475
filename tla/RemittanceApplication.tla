----------------------- MODULE RemittanceApplication -----------------------
(***************************************************************************)
(* Submission and review of remittance applications:                       *)
(* RemittanceApplicationService.submit, the operations review of the       *)
(* resulting order and release_reserved_usage.                             *)
(*                                                                         *)
(* The tables are modelled by columns of functions: req is the state of    *)
(* each HTTP delivery inside submit, order the PaymentOrder it created (an *)
(* order is named after the delivery that created it), quote the           *)
(* RemittanceQuote rows and usage the *DailyRemittanceUsage rows.  submit  *)
(* is one transaction, but it reads the calendar three times, for the      *)
(* usage row, for the eligibility check and for created_at, and waits for  *)
(* row locks in between; each of these is a step.  The locks it holds are  *)
(* those of the stages "reserved" and "eligible".                          *)
(***************************************************************************)
EXTENDS Naturals, FiniteSets, FiniteSetsExt

CONSTANTS Requests,    \* deliveries of an application, retries included
          Keys,        \* values of the Idempotency-Key header
          Digests,     \* request_payload_hash: payload, book and user
          Quotes,
          Books,       \* merchants and agents, each with daily limits
          QuoteOf,     \* [Digests -> Quotes]
          Principal,   \* [Digests -> Books]: the authenticated book
          Owner,       \* [Quotes -> Books]
          Amount,      \* [Quotes -> Nat \ {0}]
          DailyLimit,  \* [Books -> Nat]
          DailyCount,  \* [Books -> Nat]; an agent's is above any count reached
          MaxDay,      \* bound: the calendar stops here
          MaxPrn       \* PRN sequence numbers of a day (99 in the code)

ASSUME RequestsFinite == IsFiniteSet(Requests)
ASSUME ParametersTyped ==
    /\ QuoteOf \in [Digests -> Quotes]
    /\ Principal \in [Digests -> Books]
    /\ Owner \in [Quotes -> Books]
    /\ Amount \in [Quotes -> Nat \ {0}]
    /\ DailyLimit \in [Books -> Nat]
    /\ DailyCount \in [Books -> Nat]
    /\ MaxDay \in Nat \ {0}
    /\ MaxPrn \in Nat

VARIABLES today, quote, req, order, usage

vars == <<today, quote, req, order, usage>>

Days == 1 .. MaxDay
Stages == {"new", "checked", "reserved", "eligible", "answered", "refused"}
Statuses == {"NONE", "PENDING_REVIEW", "PENDING_PAY", "CLOSED"}

QuoteRow == [status : {"ACTIVE", "USED"}, expired : BOOLEAN]
Delivery == [stage : Stages, key : Keys, digest : Digests, day : Days, reply : Requests]
OrderRow == [status : Statuses, rejected : BOOLEAN, reservedOn : Days,
             createdOn : Days, prnDay : Days, prnSeq : Nat]
UsageRow == [amount : Nat, count : Nat]

TypeOK ==
    /\ today \in Days
    /\ quote \in [Quotes -> QuoteRow]
    /\ req \in [Requests -> Delivery]
    /\ order \in [Requests -> OrderRow]
    /\ usage \in [Books -> [Days -> UsageRow]]

-----------------------------------------------------------------------------
QuoteFor(r) == QuoteOf[req[r].digest]
BookFor(r) == Owner[QuoteFor(r)]

Exists(o) == order[o].status # "NONE"
Orders == {o \in Requests : Exists(o)}

\* The PaymentOrder with the idempotency key of r, as a set: the key is unique.
WithKeyOf(r) == {o \in Orders : req[o].key = req[r].key}
ReplayOf(r) == {o \in WithKeyOf(r) : req[o].digest = req[r].digest}

\* submit holds the rows of its quotation, its book and its usage day.
Holding(r) == req[r].stage \in {"reserved", "eligible"}
QuoteFree(r) == ~ \E s \in Requests : Holding(s) /\ QuoteFor(s) = QuoteFor(r)
BookFree(r) == ~ \E s \in Requests : Holding(s) /\ BookFor(s) = BookFor(r)
UsageRowFree(b, d) ==
    ~ \E s \in Requests : Holding(s) /\ BookFor(s) = b /\ req[s].day = d

\* A variant with a bug: the application itself is not counted.
WithinLimitsSoFar(r, d) ==
    LET row == usage[BookFor(r)][d]
    IN  /\ row.amount <= DailyLimit[BookFor(r)]
        /\ row.count <= DailyCount[BookFor(r)]

\* RemittanceEligibilityPolicy.evaluate, the part on the usage row of day d.
WithinDailyLimits(r, d) ==
    LET row == usage[BookFor(r)][d]
    IN  /\ row.amount + Amount[QuoteFor(r)] <= DailyLimit[BookFor(r)]
        /\ row.count + 1 <= DailyCount[BookFor(r)]

SetStage(r, s) == req' = [req EXCEPT ![r].stage = s]
AnswerWith(r, o) == req' = [req EXCEPT ![r].stage = "answered", ![r].reply = o]

-----------------------------------------------------------------------------
Init ==
    /\ today = 1
    /\ quote = [q \in Quotes |-> [status |-> "ACTIVE", expired |-> FALSE]]
    /\ \E k \in [Requests -> Keys], d \in [Requests -> Digests] :
          req = [r \in Requests |-> [stage |-> "new", key |-> k[r], digest |-> d[r],
                                     day |-> 1, reply |-> r]]
    /\ order = [r \in Requests |-> [status |-> "NONE", rejected |-> FALSE,
                                    reservedOn |-> 1, createdOn |-> 1,
                                    prnDay |-> 1, prnSeq |-> 0]]
    /\ usage = [b \in Books |-> [d \in Days |-> [amount |-> 0, count |-> 0]]]

\* submit, the look-up by idempotency key: replayed, in conflict, or unknown.
CheckKey(r) ==
    /\ req[r].stage = "new"
    /\ \/ \E o \in ReplayOf(r) : AnswerWith(r, o)
       \/ WithKeyOf(r) # {} /\ ReplayOf(r) = {} /\ SetStage(r, "refused")
       \/ WithKeyOf(r) = {} /\ SetStage(r, "checked")
    /\ UNCHANGED <<today, quote, order, usage>>

\* Variants with a bug: a consumed quotation is refused without looking the key
\* up again, or an expired one is left without an answer.
QuoteUnusableNoRetry(r) ==
    /\ req[r].stage = "checked"
    /\ QuoteFree(r)
    /\ \/ Principal[req[r].digest] # BookFor(r)
       \/ quote[QuoteFor(r)].status # "ACTIVE"
       \/ quote[QuoteFor(r)].expired
    /\ SetStage(r, "refused")
    /\ UNCHANGED <<today, quote, order, usage>>

QuoteUnusableNoExpiry(r) ==
    /\ req[r].stage = "checked"
    /\ QuoteFree(r)
    /\ \/ Principal[req[r].digest] # BookFor(r)
       \/ quote[QuoteFor(r)].status # "ACTIVE"
    /\ \/ \E o \in ReplayOf(r) : AnswerWith(r, o)
       \/ ReplayOf(r) = {} /\ SetStage(r, "refused")
    /\ UNCHANGED <<today, quote, order, usage>>

\* submit, the locked quotation is of another book, was consumed, or expired.
QuoteUnusable(r) ==
    /\ req[r].stage = "checked"
    /\ QuoteFree(r)
    /\ \/ Principal[req[r].digest] # BookFor(r) /\ SetStage(r, "refused")
       \/ /\ Principal[req[r].digest] = BookFor(r)
          /\ quote[QuoteFor(r)].status # "ACTIVE"
          /\ \/ \E o \in ReplayOf(r) : AnswerWith(r, o)
             \/ ReplayOf(r) = {} /\ SetStage(r, "refused")
       \/ /\ quote[QuoteFor(r)].status = "ACTIVE"
          /\ quote[QuoteFor(r)].expired
          /\ SetStage(r, "refused")
    /\ UNCHANGED <<today, quote, order, usage>>

\* submit, quotation, book and the usage row of today are locked.
Reserve(r) ==
    /\ req[r].stage = "checked"
    /\ QuoteFree(r)
    /\ BookFree(r)
    /\ Principal[req[r].digest] = BookFor(r)
    /\ quote[QuoteFor(r)].status = "ACTIVE"
    /\ ~quote[QuoteFor(r)].expired
    /\ req' = [req EXCEPT ![r].stage = "reserved", ![r].day = today]
    /\ UNCHANGED <<today, quote, order, usage>>

\* assert_eligible reads the usage row of its own reading of the calendar.
Evaluate(r) ==
    /\ req[r].stage = "reserved"
    /\ WithinDailyLimits(r, today)
    /\ SetStage(r, "eligible")
    /\ UNCHANGED <<today, quote, order, usage>>

\* A blocker, a sanctions hit, no fee share, a duplicate key, or a lost
\* connection: the transaction is rolled back.
Abort(r) ==
    /\ Holding(r)
    /\ SetStage(r, "refused")
    /\ UNCHANGED <<today, quote, order, usage>>

\* A variant with a bug: the quotation stays ACTIVE.
CommitUnspent(r) ==
    /\ req[r].stage = "eligible"
    /\ WithKeyOf(r) = {}
    /\ order' = [order EXCEPT ![r].status = "PENDING_REVIEW",
                              ![r].reservedOn = req[r].day,
                              ![r].createdOn = today]
    /\ usage' = [usage EXCEPT ![BookFor(r)][req[r].day] =
                    [amount |-> @.amount + Amount[QuoteFor(r)], count |-> @.count + 1]]
    /\ AnswerWith(r, r)
    /\ UNCHANGED <<today, quote>>

\* The order is created, its usage counted and its quotation consumed.
Commit(r) ==
    /\ req[r].stage = "eligible"
    /\ WithKeyOf(r) = {}                  \* idempotency_key is unique
    /\ order' = [order EXCEPT ![r].status = "PENDING_REVIEW",
                              ![r].reservedOn = req[r].day,
                              ![r].createdOn = today]
    /\ usage' = [usage EXCEPT ![BookFor(r)][req[r].day] =
                    [amount |-> @.amount + Amount[QuoteFor(r)], count |-> @.count + 1]]
    /\ quote' = [quote EXCEPT ![QuoteFor(r)].status = "USED"]
    /\ AnswerWith(r, r)
    /\ UNCHANGED today

-----------------------------------------------------------------------------
\* Variants with a bug: a subtraction that does not stop at zero, and a release
\* on the day of the rejection.
Unclamped(a, b) == a - b

ReleaseToday(o) ==
    usage' = [usage EXCEPT ![BookFor(o)][today] =
                 [amount |-> IF @.amount > Amount[QuoteFor(o)]
                             THEN @.amount - Amount[QuoteFor(o)] ELSE 0,
                  count |-> IF @.count > 1 THEN @.count - 1 ELSE 0]]

\* release_reserved_usage goes by the day of created_at and never below zero.
Monus(a, b) == IF a > b THEN a - b ELSE 0

ReleaseUsage(o) ==
    usage' = [usage EXCEPT ![BookFor(o)][order[o].createdOn] =
                 [amount |-> Monus(@.amount, Amount[QuoteFor(o)]),
                  count |-> Monus(@.count, 1)]]

\* review_remittance, reject.
Reject(o) ==
    /\ order[o].status = "PENDING_REVIEW"
    /\ UsageRowFree(BookFor(o), order[o].createdOn)
    /\ order' = [order EXCEPT ![o].status = "CLOSED", ![o].rejected = TRUE]
    /\ ReleaseUsage(o)
    /\ UNCHANGED <<today, quote, req>>

\* generate_prn: one more than the largest sequence number of the day.
PrnsOf(d) == {order[o].prnSeq : o \in {x \in Requests : order[x].prnDay = d}}
NextPrn(d) == 1 + (IF PrnsOf(d) = {} THEN 0 ELSE Max(PrnsOf(d)))

\* review_remittance, approve: a PRN is bound and payment awaited.
Approve(o) ==
    /\ order[o].status = "PENDING_REVIEW"
    /\ NextPrn(today) \in 1 .. MaxPrn
    /\ order' = [order EXCEPT ![o].status = "PENDING_PAY",
                              ![o].prnDay = today, ![o].prnSeq = NextPrn(today)]
    /\ UNCHANGED <<today, quote, req, usage>>

\* close_order, by an operator or the expiry job: the usage is not released.
Close(o) ==
    /\ order[o].status = "PENDING_PAY"
    /\ order' = [order EXCEPT ![o].status = "CLOSED"]
    /\ UNCHANGED <<today, quote, req, usage>>

-----------------------------------------------------------------------------
\* The environment: a quotation reaches expires_at; midnight passes.
ExpireQuote(q) ==
    /\ ~quote[q].expired
    /\ quote' = [quote EXCEPT ![q].expired = TRUE]
    /\ UNCHANGED <<today, req, order, usage>>

Midnight ==
    /\ today < MaxDay
    /\ today' = today + 1
    /\ UNCHANGED <<quote, req, order, usage>>

Submit(r) ==
    CheckKey(r) \/ QuoteUnusable(r) \/ Reserve(r) \/ Evaluate(r) \/ Abort(r) \/ Commit(r)

Review(o) == Reject(o) \/ Approve(o) \/ Close(o)

Next ==
    \/ \E r \in Requests : Submit(r) \/ Review(r)
    \/ \E q \in Quotes : ExpireQuote(q)
    \/ Midnight

\* A worker process runs each delivery until it returns or rolls back.
Fairness == \A r \in Requests : WF_vars(Submit(r))

Spec == Init /\ [][Next]_vars
FairSpec == Spec /\ Fairness

-----------------------------------------------------------------------------
(***************************************************************************)
(* Properties                                                              *)
(***************************************************************************)

\* A quotation backs at most one order, and is USED exactly when an order was
\* created from it: neither a retry racing the first delivery nor a rolled
\* back submit spends a quotation twice or for nothing.
QuoteConsumedOnce ==
    /\ \A a, b \in Orders : QuoteFor(a) = QuoteFor(b) => a = b
    /\ \A q \in Quotes :
          quote[q].status = "USED" <=> \E o \in Orders : QuoteFor(o) = q

\* The orders of a book whose usage was taken on a day and not given back.
Reserved(b, d) ==
    {o \in Orders : BookFor(o) = b /\ order[o].reservedOn = d /\ ~order[o].rejected}

\* Days of a book touched by an order that was submitted across midnight:
\* counted on one day, created on the next.
Straddled(b, d) ==
    \E o \in Orders :
        /\ BookFor(o) = b
        /\ order[o].reservedOn # order[o].createdOn
        /\ d \in {order[o].reservedOn, order[o].createdOn}

\* The usage row of a day counts exactly the orders submitted on it and not
\* rejected, whatever the order of submissions, rejections and roll-backs, on
\* every day no submission crosses midnight.
ReservedCountExact ==
    \A b \in Books, d \in Days :
        ~Straddled(b, d) => usage[b][d].count = Cardinality(Reserved(b, d))

\* On such a day the orders in force stay within the book's daily amount and
\* the daily number of orders, although requests race for the
\* last of it and rejections give it back.
DailyLimitsKept ==
    \A b \in Books, d \in Days :
        ~Straddled(b, d) =>
            /\ SumFunctionOnSet([o \in Requests |-> Amount[QuoteFor(o)]], Reserved(b, d))
                  <= DailyLimit[b]
            /\ Cardinality(Reserved(b, d)) <= DailyCount[b]

\* What release_reserved_usage says of itself, without that restriction: a
\* rejection gives back what the submission took.
RejectionReleasesUsage ==
    \A b \in Books, d \in Days : usage[b][d].count = Cardinality(Reserved(b, d))

\* Every delivery is answered or refused: no row lock is kept for ever.
EveryDeliveryAnswered ==
    \A r \in Requests : <>(req[r].stage \in {"answered", "refused"})

\* What the caller of a delivery sees of it.
Outcome(r) ==
    IF req[r].stage \in {"answered", "refused"} THEN req[r].stage ELSE "pending"

Intake == INSTANCE RemittanceIntake WITH
    key <- [r \in Requests |-> req[r].key],
    digest <- [r \in Requests |-> req[r].digest],
    outcome <- [r \in Requests |-> Outcome(r)],
    answer <- [r \in Requests |-> req[r].reply]

\* submit keeps the promise of RemittanceIntake: one booking per key and per
\* quotation, and a retry of a booked application gets that booking, never a
\* refusal, however deliveries interleave.
KeepsIntakePromise == Intake!Spec
=============================================================================
