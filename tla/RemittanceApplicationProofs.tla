-------------------- MODULE RemittanceApplicationProofs --------------------
(***************************************************************************)
(* Proofs about RemittanceApplication, for every set of deliveries, keys,  *)
(* quotations and books, every limit and every calendar.                   *)
(***************************************************************************)
EXTENDS RemittanceApplication, SumTheorems

\* Two submits inside their locked part never share a book, hence a quotation.
LocksExclusive ==
    \A r, s \in Requests :
        Holding(r) /\ Holding(s) /\ BookFor(r) = BookFor(s) => r = s

\* Who locked a quotation found it active, and nobody else can spend it.
HeldQuoteActive ==
    \A r \in Requests : Holding(r) => quote[QuoteFor(r)].status = "ACTIVE"

\* A delivery is past the ownership check once it holds locks.
OwnQuoteOnly ==
    \A r \in Requests :
        Holding(r) \/ Exists(r) => Principal[req[r].digest] = BookFor(r)

KeyBookedOnce ==
    \A a, b \in Orders : req[a].key = req[b].key => a = b

\* An order exists exactly when the delivery it is named after was answered
\* with it; any other answer is an order of the same application.
AnsweredByBooking ==
    /\ \A r \in Requests :
          Exists(r) <=> req[r].stage = "answered" /\ req[r].reply = r
    /\ \A r \in Requests :
          req[r].stage = "answered" =>
              /\ Exists(req[r].reply)
              /\ req[req[r].reply].key = req[r].key
              /\ req[req[r].reply].digest = req[r].digest

\* The inductive strengthening of QuoteConsumedOnce.
BookingInv ==
    /\ LocksExclusive
    /\ HeldQuoteActive
    /\ OwnQuoteOnly
    /\ QuoteConsumedOnce
    /\ KeyBookedOnce
    /\ AnsweredByBooking

-----------------------------------------------------------------------------
LEMMA Constants ==
    /\ \A d \in Digests : QuoteOf[d] \in Quotes
    /\ \A q \in Quotes : Owner[q] \in Books /\ Amount[q] \in Nat
    /\ 1 \in Days
    /\ MaxDay \in Nat
  BY ParametersTyped DEF Days

LEMMA Lookups ==
    ASSUME TypeOK
    PROVE  \A r \in Requests :
              /\ req[r].digest \in Digests /\ req[r].key \in Keys
              /\ req[r].day \in Days /\ req[r].reply \in Requests
              /\ QuoteFor(r) \in Quotes /\ BookFor(r) \in Books
  BY Constants DEF TypeOK, QuoteFor, BookFor, Delivery

-----------------------------------------------------------------------------
LEMMA InitTyped == Init => TypeOK
  <1>. SUFFICES ASSUME Init PROVE TypeOK
    OBVIOUS
  <1>1. PICK k \in [Requests -> Keys], d \in [Requests -> Digests] :
           req = [r \in Requests |-> [stage |-> "new", key |-> k[r], digest |-> d[r],
                                      day |-> 1, reply |-> r]]
    BY DEF Init
  <1>2. today \in Days
    BY Constants DEF Init
  <1>3. req \in [Requests -> Delivery]
    BY <1>1, Constants DEF Delivery, Stages
  <1>4. order \in [Requests -> OrderRow]
    BY Constants DEF Init, OrderRow, Statuses
  <1>5. quote \in [Quotes -> QuoteRow]
    BY DEF Init, QuoteRow
  <1>6. usage \in [Books -> [Days -> UsageRow]]
    BY DEF Init, UsageRow
  <1>. QED
    BY <1>2, <1>3, <1>4, <1>5, <1>6 DEF TypeOK

\* The ways a row of each table is written.
LEMMA DeliveryTyped ==
    ASSUME TypeOK, NEW r \in Requests
    PROVE  /\ \A s \in Stages : SetStage(r, s) => req' \in [Requests -> Delivery]
           /\ \A o \in Requests : AnswerWith(r, o) => req' \in [Requests -> Delivery]
           /\ \A s \in Stages, d \in Days :
                 req' = [req EXCEPT ![r].stage = s, ![r].day = d]
                 => req' \in [Requests -> Delivery]
           /\ ReplayOf(r) \subseteq Requests
           /\ {"checked", "reserved", "eligible", "answered", "refused"} \subseteq Stages
  <1>. req[r] \in Delivery
    BY DEF TypeOK
  <1>1. ASSUME NEW s \in Stages, NEW d \in Days, NEW o \in Requests
        PROVE  /\ [req[r] EXCEPT !.stage = s] \in Delivery
               /\ [req[r] EXCEPT !.stage = s, !.day = d] \in Delivery
               /\ [req[r] EXCEPT !.stage = s, !.reply = o] \in Delivery
    BY <1>1 DEF Delivery
  <1>2. "answered" \in Stages
    BY DEF Stages
  <1>3. ASSUME NEW s \in Stages, SetStage(r, s)
        PROVE  req' \in [Requests -> Delivery]
    BY <1>1, <1>3, Constants DEF TypeOK, SetStage
  <1>4. ASSUME NEW o \in Requests, AnswerWith(r, o)
        PROVE  req' \in [Requests -> Delivery]
    BY <1>1, <1>2, <1>4, Constants DEF TypeOK, AnswerWith
  <1>5. ASSUME NEW s \in Stages, NEW d \in Days,
               req' = [req EXCEPT ![r].stage = s, ![r].day = d]
        PROVE  req' \in [Requests -> Delivery]
    BY <1>1, <1>5 DEF TypeOK
  <1>6. ReplayOf(r) \subseteq Requests
    BY DEF ReplayOf, WithKeyOf, Orders
  <1>7. {"checked", "reserved", "eligible", "answered", "refused"} \subseteq Stages
    BY DEF Stages
  <1>. QED
    BY <1>3, <1>4, <1>5, <1>6, <1>7

LEMMA OrderTyped ==
    ASSUME TypeOK, NEW o \in Requests, NEW s \in Statuses
    PROVE  /\ [order EXCEPT ![o].status = s] \in [Requests -> OrderRow]
           /\ [order EXCEPT ![o].status = s, ![o].rejected = TRUE] \in [Requests -> OrderRow]
           /\ \A d, e \in Days :
                 [order EXCEPT ![o].status = s, ![o].reservedOn = d, ![o].createdOn = e]
                    \in [Requests -> OrderRow]
           /\ \A d \in Days, n \in Nat :
                 [order EXCEPT ![o].status = s, ![o].prnDay = d, ![o].prnSeq = n]
                    \in [Requests -> OrderRow]
  <1>. order \in [Requests -> OrderRow] /\ order[o] \in OrderRow
    BY DEF TypeOK
  <1>1. /\ [order[o] EXCEPT !.status = s] \in OrderRow
        /\ [order[o] EXCEPT !.status = s, !.rejected = TRUE] \in OrderRow
    BY DEF OrderRow
  <1>2. ASSUME NEW d \in Days, NEW e \in Days
        PROVE  [order[o] EXCEPT !.status = s, !.reservedOn = d, !.createdOn = e] \in OrderRow
    BY DEF OrderRow
  <1>3. ASSUME NEW d \in Days, NEW n \in Nat
        PROVE  [order[o] EXCEPT !.status = s, !.prnDay = d, !.prnSeq = n] \in OrderRow
    BY DEF OrderRow
  <1>. QED
    BY <1>1, <1>2, <1>3

LEMMA UsageTyped ==
    ASSUME TypeOK, NEW b \in Books, NEW d \in Days, NEW row \in UsageRow
    PROVE  [usage EXCEPT ![b][d] = row] \in [Books -> [Days -> UsageRow]]
  BY DEF TypeOK

LEMMA StepTyped ==
    ASSUME TypeOK, [Next]_vars
    PROVE  TypeOK'
  <1>1. ASSUME NEW r \in Requests, CheckKey(r)
        PROVE  TypeOK'
    BY <1>1, DeliveryTyped DEF CheckKey, TypeOK
  <1>2. ASSUME NEW r \in Requests, QuoteUnusable(r)
        PROVE  TypeOK'
    BY <1>2, DeliveryTyped DEF QuoteUnusable, TypeOK
  <1>3. ASSUME NEW r \in Requests, Reserve(r)
        PROVE  TypeOK'
    BY <1>3, DeliveryTyped DEF Reserve, TypeOK
  <1>4. ASSUME NEW r \in Requests, Evaluate(r) \/ Abort(r)
        PROVE  TypeOK'
    BY <1>4, DeliveryTyped DEF Evaluate, Abort, TypeOK
  <1>5. ASSUME NEW r \in Requests, Commit(r)
        PROVE  TypeOK'
    <2>1. req' \in [Requests -> Delivery]
      BY <1>5, DeliveryTyped DEF Commit
    <2>2. order' \in [Requests -> OrderRow]
      <3>1. "PENDING_REVIEW" \in Statuses /\ today \in Days /\ req[r].day \in Days
        BY Lookups DEF Statuses, TypeOK
      <3>. QED
        BY <1>5, <3>1, OrderTyped DEF Commit
    <2>3. usage' \in [Books -> [Days -> UsageRow]]
      <3>1. BookFor(r) \in Books /\ req[r].day \in Days /\ Amount[QuoteFor(r)] \in Nat
        BY Lookups, Constants
      <3>2. usage[BookFor(r)][req[r].day] \in UsageRow
        BY <3>1 DEF TypeOK
      <3>. QED
        BY <1>5, <3>1, <3>2, UsageTyped DEF Commit, UsageRow
    <2>4. quote' \in [Quotes -> QuoteRow]
      BY <1>5, Lookups DEF Commit, TypeOK, QuoteRow
    <2>. QED
      BY <1>5, <2>1, <2>2, <2>3, <2>4 DEF Commit, TypeOK
  <1>6. ASSUME NEW o \in Requests, Reject(o)
        PROVE  TypeOK'
    <2>1. order' \in [Requests -> OrderRow]
      BY <1>6, OrderTyped DEF Reject, Statuses
    <2>2. usage' \in [Books -> [Days -> UsageRow]]
      <3>1. BookFor(o) \in Books /\ order[o].createdOn \in Days /\ Amount[QuoteFor(o)] \in Nat
        BY Lookups, Constants DEF TypeOK, OrderRow
      <3>2. usage[BookFor(o)][order[o].createdOn] \in UsageRow
        BY <3>1 DEF TypeOK
      <3>3. \A a, b \in Nat : Monus(a, b) \in Nat
        BY DEF Monus
      <3>. QED
        BY <1>6, <3>1, <3>2, <3>3, UsageTyped DEF Reject, ReleaseUsage, UsageRow
    <2>. QED
      BY <1>6, <2>1, <2>2 DEF Reject, TypeOK
  <1>7. ASSUME NEW o \in Requests, Approve(o)
        PROVE  TypeOK'
    <2>1. NextPrn(today) \in Nat
      BY <1>7, ParametersTyped DEF Approve
    <2>2. order' \in [Requests -> OrderRow]
      BY <1>7, <2>1, OrderTyped DEF Approve, Statuses, TypeOK
    <2>. QED
      BY <1>7, <2>2 DEF Approve, TypeOK
  <1>8. ASSUME NEW o \in Requests, Close(o)
        PROVE  TypeOK'
    BY <1>8, OrderTyped DEF Close, TypeOK, Statuses
  <1>9. ASSUME NEW q \in Quotes, ExpireQuote(q)
        PROVE  TypeOK'
    BY <1>9 DEF ExpireQuote, TypeOK, QuoteRow
  <1>10. ASSUME Midnight
         PROVE  TypeOK'
    <2>1. today' \in Days
      BY <1>10, Constants DEF Midnight, TypeOK, Days
    <2>. QED
      BY <1>10, <2>1 DEF Midnight, TypeOK
  <1>11. ASSUME UNCHANGED vars
         PROVE  TypeOK'
    BY <1>11 DEF vars, TypeOK
  <1>. QED
    BY <1>1, <1>2, <1>3, <1>4, <1>5, <1>6, <1>7, <1>8, <1>9, <1>10, <1>11
       DEF Next, Submit, Review

\* Every state of every table is of its type: PRN sequence numbers and usage
\* counters never leave the naturals, dates never leave the calendar.
THEOREM TypeCorrect == Spec => []TypeOK
  <1>1. TypeOK /\ [Next]_vars => TypeOK'
    BY StepTyped
  <1>. QED
    BY InitTyped, <1>1, PTL DEF Spec

-----------------------------------------------------------------------------
(***************************************************************************)
(* QuoteConsumedOnce.  The invariant that carries it says who holds locks, *)
(* what a lock holder was shown, and what an answer stands for.            *)
(***************************************************************************)

\* What a delivery asks for never changes.
LEMMA ContentsFixed ==
    ASSUME TypeOK, [Next]_vars, NEW r \in Requests
    PROVE  /\ req'[r].key = req[r].key /\ req'[r].digest = req[r].digest
           /\ QuoteFor(r)' = QuoteFor(r) /\ BookFor(r)' = BookFor(r)
  <1>1. ASSUME NEW s \in Requests, Submit(s)
        PROVE  req'[r].key = req[r].key /\ req'[r].digest = req[r].digest
    <2>. req \in [Requests -> Delivery] /\ ReplayOf(s) \subseteq Requests
      BY DeliveryTyped DEF TypeOK
    <2>. QED
      BY <1>1 DEF Submit, CheckKey, QuoteUnusable, Reserve, Evaluate, Abort, Commit,
                  SetStage, AnswerWith, Delivery
  <1>2. ASSUME req' = req
        PROVE  req'[r].key = req[r].key /\ req'[r].digest = req[r].digest
    BY <1>2
  <1>3. req'[r].key = req[r].key /\ req'[r].digest = req[r].digest
    BY <1>1, <1>2 DEF Next, Review, Reject, Approve, Close, ExpireQuote, Midnight, vars
  <1>. QED
    BY <1>3 DEF QuoteFor, BookFor

LEMMA InitBooking == Init => BookingInv
  BY DEF Init, BookingInv, LocksExclusive, HeldQuoteActive, OwnQuoteOnly,
         QuoteConsumedOnce, KeyBookedOnce, AnsweredByBooking, Holding, Exists, Orders

\* Answers stay good when orders persist and every new answer is good.
LEMMA AnswersKept ==
    ASSUME TypeOK, AnsweredByBooking, [Next]_vars,
           \A x \in Requests : order[x].status # "NONE" => order'[x].status # "NONE",
           \A x \in Requests : order'[x].status # "NONE"
                                  <=> req'[x].stage = "answered" /\ req'[x].reply = x,
           \A x \in Requests : req'[x].stage = "answered" =>
              \/ req[x].stage = "answered" /\ req'[x].reply = req[x].reply
              \/ /\ req'[x].reply \in Requests
                 /\ order'[req'[x].reply].status # "NONE"
                 /\ req[req'[x].reply].key = req[x].key
                 /\ req[req'[x].reply].digest = req[x].digest
    PROVE  AnsweredByBooking'
  <1>1. ASSUME NEW x \in Requests, req'[x].stage = "answered"
        PROVE  /\ order'[req'[x].reply].status # "NONE"
               /\ req'[req'[x].reply].key = req'[x].key
               /\ req'[req'[x].reply].digest = req'[x].digest
    <2>1. /\ req'[x].reply \in Requests
          /\ order'[req'[x].reply].status # "NONE"
          /\ req[req'[x].reply].key = req[x].key
          /\ req[req'[x].reply].digest = req[x].digest
      BY <1>1, Lookups DEF AnsweredByBooking, Exists
    <2>. QED
      BY <2>1, ContentsFixed
  <1>. QED
    BY <1>1 DEF AnsweredByBooking, Exists

\* A delivery is answered with the order of an earlier one.
LEMMA ReplayKeepsBooking ==
    ASSUME TypeOK, BookingInv, [Next]_vars, NEW r \in Requests, NEW o \in ReplayOf(r),
           req[r].stage \in {"new", "checked"}, AnswerWith(r, o),
           quote' = quote, order' = order
    PROVE  BookingInv'
  <1>. DEFINE Same(s) == /\ req'[s].key = req[s].key /\ req'[s].digest = req[s].digest
                         /\ QuoteFor(s)' = QuoteFor(s) /\ BookFor(s)' = BookFor(s)
  <1>1. \A s \in Requests : Same(s)
    BY ContentsFixed
  <1>2. /\ \A s \in Requests \ {r} : req'[s] = req[s]
        /\ req'[r].stage = "answered" /\ req'[r].reply = o
    BY DEF AnswerWith, TypeOK, Delivery
  <1>3. /\ o \in Requests /\ Exists(o)
        /\ req[o].key = req[r].key /\ req[o].digest = req[r].digest
    BY DEF ReplayOf, WithKeyOf, Orders
  <1>4. /\ \A s \in Requests : Exists(s)' <=> Exists(s)
        /\ Orders' = Orders /\ ~Exists(r) /\ o # r
        /\ \A s \in Requests : Holding(s)' => Holding(s)
    BY <1>2, <1>3 DEF Exists, Orders, Holding, BookingInv, AnsweredByBooking
  <1>5. LocksExclusive'
    BY <1>1, <1>4 DEF LocksExclusive, BookingInv
  <1>6. HeldQuoteActive' /\ OwnQuoteOnly'
    BY <1>1, <1>4 DEF HeldQuoteActive, OwnQuoteOnly, BookingInv
  <1>7. QuoteConsumedOnce' /\ KeyBookedOnce'
    BY <1>1, <1>4 DEF QuoteConsumedOnce, KeyBookedOnce, Orders, BookingInv
  <1>8. AnsweredByBooking'
    BY <1>2, <1>3, <1>4, AnswersKept DEF AnsweredByBooking, BookingInv, Exists
  <1>. QED
    BY <1>5, <1>6, <1>7, <1>8 DEF BookingInv

\* A delivery goes on, or gives up, without an answer and without new locks.
LEMMA LeaveKeepsBooking ==
    ASSUME TypeOK, BookingInv, [Next]_vars, NEW r \in Requests, NEW s \in Stages,
           req[r].stage \notin {"answered", "refused"}, SetStage(r, s),
           s # "answered", s \in {"reserved", "eligible"} => Holding(r),
           quote' = quote, order' = order
    PROVE  BookingInv'
  <1>1. \A x \in Requests : /\ req'[x].key = req[x].key /\ req'[x].digest = req[x].digest
                            /\ QuoteFor(x)' = QuoteFor(x) /\ BookFor(x)' = BookFor(x)
    BY ContentsFixed
  <1>2. /\ \A x \in Requests \ {r} : req'[x] = req[x]
        /\ req'[r].stage = s
    BY DEF SetStage, TypeOK, Delivery
  <1>3. /\ \A x \in Requests : Exists(x)' <=> Exists(x)
        /\ Orders' = Orders /\ ~Exists(r)
        /\ \A x \in Requests : Holding(x)' => Holding(x)
    BY <1>2 DEF Exists, Orders, Holding, BookingInv, AnsweredByBooking
  <1>4. LocksExclusive'
    BY <1>1, <1>3 DEF LocksExclusive, BookingInv
  <1>5. HeldQuoteActive' /\ OwnQuoteOnly'
    BY <1>1, <1>3 DEF HeldQuoteActive, OwnQuoteOnly, BookingInv
  <1>6. QuoteConsumedOnce' /\ KeyBookedOnce'
    BY <1>1, <1>3 DEF QuoteConsumedOnce, KeyBookedOnce, Orders, BookingInv
  <1>7. AnsweredByBooking'
    BY <1>2, <1>3, AnswersKept DEF AnsweredByBooking, BookingInv, Exists
  <1>. QED
    BY <1>4, <1>5, <1>6, <1>7 DEF BookingInv

LEMMA ReserveKeepsBooking ==
    ASSUME TypeOK, BookingInv, [Next]_vars, NEW r \in Requests, Reserve(r)
    PROVE  BookingInv'
  <1>1. \A x \in Requests : /\ req'[x].key = req[x].key /\ req'[x].digest = req[x].digest
                            /\ QuoteFor(x)' = QuoteFor(x) /\ BookFor(x)' = BookFor(x)
    BY ContentsFixed
  <1>2. /\ \A x \in Requests \ {r} : req'[x] = req[x]
        /\ req[r].stage = "checked" /\ req'[r].stage = "reserved"
    BY DEF Reserve, TypeOK, Delivery
  <1>3. /\ \A x \in Requests : Exists(x)' <=> Exists(x)
        /\ Orders' = Orders /\ ~Exists(r) /\ quote' = quote
        /\ \A x \in Requests \ {r} : Holding(x)' <=> Holding(x)
    BY <1>2 DEF Reserve, Exists, Orders, Holding, BookingInv, AnsweredByBooking
  <1>4. LocksExclusive'
    BY <1>1, <1>3 DEF Reserve, BookFree, LocksExclusive, BookingInv
  <1>5. HeldQuoteActive' /\ OwnQuoteOnly'
    BY <1>1, <1>3 DEF Reserve, HeldQuoteActive, OwnQuoteOnly, BookingInv
  <1>6. QuoteConsumedOnce' /\ KeyBookedOnce'
    BY <1>1, <1>3 DEF QuoteConsumedOnce, KeyBookedOnce, Orders, BookingInv
  <1>7. AnsweredByBooking'
    BY <1>2, <1>3, AnswersKept DEF AnsweredByBooking, BookingInv, Exists
  <1>. QED
    BY <1>4, <1>5, <1>6, <1>7 DEF BookingInv

LEMMA CommitKeepsBooking ==
    ASSUME TypeOK, BookingInv, [Next]_vars, NEW r \in Requests, Commit(r)
    PROVE  BookingInv'
  <1>1. \A x \in Requests : /\ req'[x].key = req[x].key /\ req'[x].digest = req[x].digest
                            /\ QuoteFor(x)' = QuoteFor(x) /\ BookFor(x)' = BookFor(x)
    BY ContentsFixed
  <1>2. /\ \A x \in Requests \ {r} : req'[x] = req[x]
        /\ req[r].stage = "eligible" /\ req'[r].stage = "answered" /\ req'[r].reply = r
    BY DEF Commit, AnswerWith, TypeOK, Delivery
  <1>3. /\ \A x \in Requests \ {r} : Exists(x)' <=> Exists(x)
        /\ Exists(r)' /\ ~Exists(r) /\ Orders' = Orders \cup {r}
    <2>1. \A x \in Requests \ {r} : order'[x] = order[x]
      BY DEF Commit, TypeOK
    <2>2. order'[r].status = "PENDING_REVIEW"
      BY DEF Commit, TypeOK, OrderRow
    <2>3. ~Exists(r)
      BY <1>2 DEF BookingInv, AnsweredByBooking
    <2>. QED
      BY <2>1, <2>2, <2>3 DEF Exists, Orders
  <1>4. /\ Holding(r) /\ ~Holding(r)'
        /\ \A x \in Requests \ {r} : Holding(x)' <=> Holding(x)
    BY <1>2 DEF Holding
  <1>5. /\ \A q \in Quotes \ {QuoteFor(r)} : quote'[q] = quote[q]
        /\ quote'[QuoteFor(r)].status = "USED"
        /\ QuoteFor(r) \in Quotes /\ quote[QuoteFor(r)].status = "ACTIVE"
    BY <1>4, Lookups DEF Commit, TypeOK, QuoteRow, BookingInv, HeldQuoteActive
  <1>6. LocksExclusive'
    BY <1>1, <1>4 DEF LocksExclusive, BookingInv
  <1>7. HeldQuoteActive'
    <2>1. ASSUME NEW x \in Requests, Holding(x)'
          PROVE  quote'[QuoteFor(x)].status = "ACTIVE"
      <3>1. x # r /\ Holding(x) /\ QuoteFor(x) \in Quotes
        BY <2>1, <1>4, Lookups
      <3>2. BookFor(x) # BookFor(r)
        BY <3>1, <1>4 DEF BookingInv, LocksExclusive
      <3>3. QuoteFor(x) # QuoteFor(r)
        BY <3>2 DEF BookFor
      <3>. QED
        BY <3>1, <3>3, <1>5 DEF BookingInv, HeldQuoteActive
    <2>. QED
      BY <2>1, <1>1 DEF HeldQuoteActive
  <1>8. OwnQuoteOnly'
    BY <1>1, <1>3, <1>4 DEF OwnQuoteOnly, BookingInv
  <1>9. QuoteConsumedOnce'
    <2>1. \A o \in Orders : QuoteFor(o) # QuoteFor(r)
      BY <1>5 DEF BookingInv, QuoteConsumedOnce
    <2>2. \A a, b \in Orders' : QuoteFor(a)' = QuoteFor(b)' => a = b
      BY <2>1, <1>1, <1>3 DEF BookingInv, QuoteConsumedOnce, Orders
    <2>3. \A q \in Quotes :
             quote'[q].status = "USED" <=> \E o \in Orders' : QuoteFor(o)' = q
      BY <2>1, <1>1, <1>3, <1>5 DEF BookingInv, QuoteConsumedOnce, Orders
    <2>. QED
      BY <2>2, <2>3 DEF QuoteConsumedOnce
  <1>10. KeyBookedOnce'
    BY <1>1, <1>3 DEF Commit, WithKeyOf, KeyBookedOnce, Orders, BookingInv
  <1>11. AnsweredByBooking'
    BY <1>2, <1>3, AnswersKept DEF AnsweredByBooking, BookingInv, Exists
  <1>. QED
    BY <1>6, <1>7, <1>8, <1>9, <1>10, <1>11 DEF BookingInv

\* Review, expiry and midnight neither create nor remove an order.
LEMMA OthersKeepBooking ==
    ASSUME TypeOK, BookingInv, [Next]_vars, req' = req,
           \A o \in Requests : Exists(o)' <=> Exists(o),
           \A q \in Quotes : quote'[q].status = quote[q].status
    PROVE  BookingInv'
  <1>1. \A x \in Requests : /\ QuoteFor(x)' = QuoteFor(x) /\ BookFor(x)' = BookFor(x)
                            /\ Holding(x)' <=> Holding(x)
                            /\ QuoteFor(x) \in Quotes
    BY Lookups DEF QuoteFor, BookFor, Holding
  <1>2. Orders' = Orders
    BY DEF Orders
  <1>3. LocksExclusive' /\ HeldQuoteActive' /\ OwnQuoteOnly'
    BY <1>1 DEF LocksExclusive, HeldQuoteActive, OwnQuoteOnly, BookingInv
  <1>4. QuoteConsumedOnce' /\ KeyBookedOnce'
    BY <1>1, <1>2 DEF QuoteConsumedOnce, KeyBookedOnce, Orders, BookingInv
  <1>5. AnsweredByBooking'
    BY DEF AnsweredByBooking, BookingInv, TypeOK, Delivery, Exists
  <1>. QED
    BY <1>3, <1>4, <1>5 DEF BookingInv

LEMMA StepBooking ==
    ASSUME TypeOK, BookingInv, [Next]_vars
    PROVE  BookingInv'
  <1>1. ASSUME NEW r \in Requests, CheckKey(r)
        PROVE  BookingInv'
    BY <1>1, ReplayKeepsBooking, LeaveKeepsBooking DEF CheckKey, Stages
  <1>2. ASSUME NEW r \in Requests, QuoteUnusable(r)
        PROVE  BookingInv'
    BY <1>2, ReplayKeepsBooking, LeaveKeepsBooking DEF QuoteUnusable, Stages
  <1>3. ASSUME NEW r \in Requests, Reserve(r)
        PROVE  BookingInv'
    BY <1>3, ReserveKeepsBooking
  <1>4. ASSUME NEW r \in Requests, Evaluate(r) \/ Abort(r)
        PROVE  BookingInv'
    BY <1>4, LeaveKeepsBooking DEF Evaluate, Abort, Holding, Stages
  <1>5. ASSUME NEW r \in Requests, Commit(r)
        PROVE  BookingInv'
    BY <1>5, CommitKeepsBooking
  <1>6. ASSUME NEW o \in Requests, Review(o)
        PROVE  BookingInv'
    <2>1. /\ \A x \in Requests \ {o} : order'[x] = order[x]
          /\ order[o].status # "NONE" /\ order'[o].status # "NONE"
          /\ req' = req /\ quote' = quote
      BY <1>6 DEF Review, Reject, Approve, Close, TypeOK, OrderRow
    <2>. QED
      BY <2>1, OthersKeepBooking DEF Exists
  <1>7. ASSUME NEW q \in Quotes, ExpireQuote(q)
        PROVE  BookingInv'
    <2>1. \A p \in Quotes : quote'[p].status = quote[p].status
      BY <1>7 DEF ExpireQuote, TypeOK, QuoteRow
    <2>. QED
      BY <2>1, <1>7, OthersKeepBooking DEF ExpireQuote, Exists
  <1>8. ASSUME Midnight \/ UNCHANGED vars
        PROVE  BookingInv'
    BY <1>8, OthersKeepBooking DEF Midnight, vars, Exists
  <1>. QED
    BY <1>1, <1>2, <1>3, <1>4, <1>5, <1>6, <1>7, <1>8 DEF Next, Submit

\* A quotation backs at most one order and is USED exactly when it backs one,
\* for any number of deliveries, keys, quotations and books, in any order.
THEOREM QuotesConsumedOnce == Spec => []QuoteConsumedOnce
  <1>1. Init => TypeOK /\ BookingInv
    BY InitTyped, InitBooking
  <1>2. TypeOK /\ BookingInv /\ [Next]_vars => (TypeOK /\ BookingInv)'
    BY StepTyped, StepBooking
  <1>3. BookingInv => QuoteConsumedOnce
    BY DEF BookingInv
  <1>. QED
    BY <1>1, <1>2, <1>3, PTL DEF Spec

-----------------------------------------------------------------------------
(***************************************************************************)
(* ReservedCountExact.                                                     *)
(***************************************************************************)

\* A rejection is final, so that it cannot be counted twice.
RejectedClosed == \A o \in Requests : order[o].rejected => order[o].status = "CLOSED"

CountInv == RejectedClosed /\ ReservedCountExact

LEMMA ReservedFinite ==
    ASSUME NEW b, NEW d
    PROVE  IsFiniteSet(Reserved(b, d)) /\ Cardinality(Reserved(b, d)) \in Nat
  <1>1. Reserved(b, d) \in SUBSET Requests
    BY DEF Reserved, Orders
  <1>2. IsFiniteSet(Reserved(b, d))
    BY <1>1, RequestsFinite, FS_Subset
  <1>. QED
    BY <1>2, FS_CardinalityType

LEMMA InitCount == Init => CountInv
  <1>. SUFFICES ASSUME Init PROVE CountInv
    OBVIOUS
  <1>1. RejectedClosed
    BY DEF Init, RejectedClosed
  <1>2. \A b \in Books, d \in Days : Reserved(b, d) = {} /\ usage[b][d].count = 0
    BY DEF Init, Reserved, Orders, Exists
  <1>. QED
    BY <1>1, <1>2, FS_EmptySet DEF CountInv, ReservedCountExact

LEMMA RejectionsFinal ==
    ASSUME TypeOK, BookingInv, RejectedClosed, [Next]_vars, NEW r \in Requests,
           Commit(r) \/ Reject(r)
    PROVE  /\ RejectedClosed' /\ order[r].rejected = FALSE
           /\ Commit(r) => ~Exists(r)
  <1>1. Commit(r) => ~Exists(r)
    BY DEF Commit, BookingInv, AnsweredByBooking
  <1>2. order[r].rejected = FALSE /\ (Commit(r) \/ order'[r].status = "CLOSED")
    <2>1. order[r].rejected \in BOOLEAN
      BY DEF TypeOK, OrderRow
    <2>. QED
      BY <1>1, <2>1 DEF Reject, Exists, RejectedClosed, TypeOK, OrderRow
  <1>3. /\ \A x \in Requests \ {r} : order'[x] = order[x]
        /\ Commit(r) => order'[r].rejected = order[r].rejected
    BY DEF Commit, Reject, TypeOK, OrderRow
  <1>. QED
    BY <1>1, <1>2, <1>3 DEF RejectedClosed

\* An accepted application is counted on the day whose row it locked; on a day
\* that is not straddled afterwards it was also evaluated on that day.
LEMMA CommitReserves ==
    ASSUME TypeOK, BookingInv, RejectedClosed, [Next]_vars, NEW r \in Requests, Commit(r),
           NEW b \in Books, NEW d \in Days, ~Straddled(b, d)'
    PROVE  /\ ~Straddled(b, d)
           /\ IF b = BookFor(r) /\ d = req[r].day
              THEN /\ d = today
                   /\ Reserved(b, d)' = Reserved(b, d) \cup {r} /\ r \notin Reserved(b, d)
                   /\ usage'[b][d] = [amount |-> usage[b][d].amount + Amount[QuoteFor(r)],
                                      count |-> usage[b][d].count + 1]
              ELSE Reserved(b, d)' = Reserved(b, d) /\ usage'[b][d] = usage[b][d]
  <1>. DEFINE rb == BookFor(r)
              rd == req[r].day
  <1>1. \A x \in Requests : BookFor(x)' = BookFor(x)
    BY ContentsFixed
  <1>2. /\ \A x \in Requests \ {r} : order'[x] = order[x]
        /\ order'[r].status = "PENDING_REVIEW" /\ order'[r].rejected = order[r].rejected
        /\ order'[r].reservedOn = rd /\ order'[r].createdOn = today
    BY DEF Commit, TypeOK, OrderRow
  <1>3. ~Exists(r) /\ order[r].rejected = FALSE
    BY RejectionsFinal
  <1>4. Orders' = Orders \cup {r} /\ r \notin Orders
    BY <1>2, <1>3 DEF Orders, Exists
  <1>5. ~Straddled(b, d)
    <2>1. \A o \in Orders : /\ o \in Orders' /\ order'[o] = order[o]
                            /\ BookFor(o)' = BookFor(o)
      BY <1>1, <1>2, <1>4 DEF Orders
    <2>. QED
      BY <2>1 DEF Straddled
  <1>6. CASE b = rb /\ d = rd
    <2>1. d = today
      BY <1>1, <1>2, <1>4, <1>6 DEF Straddled
    <2>2. Reserved(b, d)' = Reserved(b, d) \cup {r} /\ r \notin Reserved(b, d)
      BY <1>1, <1>2, <1>3, <1>4, <1>6 DEF Reserved, Orders
    <2>3. usage'[b][d] = [amount |-> usage[b][d].amount + Amount[QuoteFor(r)],
                          count |-> usage[b][d].count + 1]
      BY <1>6 DEF Commit, TypeOK
    <2>. QED
      BY <1>5, <1>6, <2>1, <2>2, <2>3
  <1>7. CASE ~(b = rb /\ d = rd)
    <2>1. Reserved(b, d)' = Reserved(b, d)
      BY <1>1, <1>2, <1>4, <1>7 DEF Reserved, Orders
    <2>2. usage'[b][d] = usage[b][d]
      BY <1>7 DEF Commit, TypeOK
    <2>. QED
      BY <1>5, <1>7, <2>1, <2>2
  <1>. QED
    BY <1>6, <1>7

\* A rejection gives the usage back on the day of created_at, which on days
\* that are not straddled is the day it was taken.
LEMMA RejectReleases ==
    ASSUME TypeOK, BookingInv, RejectedClosed, [Next]_vars, NEW o \in Requests, Reject(o),
           NEW b \in Books, NEW d \in Days, ~Straddled(b, d)'
    PROVE  /\ ~Straddled(b, d)
           /\ IF b = BookFor(o) /\ d = order[o].createdOn
              THEN /\ Reserved(b, d)' = Reserved(b, d) \ {o} /\ o \in Reserved(b, d)
                   /\ usage'[b][d] = [amount |-> Monus(usage[b][d].amount, Amount[QuoteFor(o)]),
                                      count |-> Monus(usage[b][d].count, 1)]
              ELSE Reserved(b, d)' = Reserved(b, d) /\ usage'[b][d] = usage[b][d]
  <1>. DEFINE ob == BookFor(o)
              od == order[o].createdOn
  <1>1. \A x \in Requests : BookFor(x)' = BookFor(x)
    BY ContentsFixed
  <1>2. /\ \A x \in Requests \ {o} : order'[x] = order[x]
        /\ order'[o].status = "CLOSED" /\ order'[o].rejected = TRUE
        /\ order'[o].reservedOn = order[o].reservedOn
        /\ order'[o].createdOn = order[o].createdOn
    BY DEF Reject, TypeOK, OrderRow
  <1>3. Exists(o) /\ ~order[o].rejected
    BY RejectionsFinal DEF Reject, Exists
  <1>4. Orders' = Orders /\ o \in Orders
    BY <1>2, <1>3 DEF Orders, Exists
  <1>5. ~Straddled(b, d)
    <2>1. \A x \in Orders : /\ x \in Orders' /\ BookFor(x)' = BookFor(x)
                            /\ order'[x].reservedOn = order[x].reservedOn
                            /\ order'[x].createdOn = order[x].createdOn
      BY <1>1, <1>2, <1>4 DEF Orders
    <2>. QED
      BY <2>1 DEF Straddled
  <1>6. CASE b = ob /\ d = od
    <2>1. order[o].reservedOn = d
      BY <1>4, <1>5, <1>6 DEF Straddled
    <2>2. Reserved(b, d)' = Reserved(b, d) \ {o} /\ o \in Reserved(b, d)
      BY <1>1, <1>2, <1>3, <1>4, <1>6, <2>1 DEF Reserved, Orders
    <2>3. usage'[b][d] = [amount |-> Monus(usage[b][d].amount, Amount[QuoteFor(o)]),
                          count |-> Monus(usage[b][d].count, 1)]
      BY <1>6 DEF Reject, ReleaseUsage, TypeOK
    <2>. QED
      BY <1>5, <1>6, <2>2, <2>3
  <1>7. CASE ~(b = ob /\ d = od)
    <2>1. order[o].reservedOn # d \/ b # ob
      BY <1>4, <1>5, <1>7 DEF Straddled
    <2>2. Reserved(b, d)' = Reserved(b, d)
      BY <1>1, <1>2, <1>4, <2>1 DEF Reserved, Orders
    <2>3. usage'[b][d] = usage[b][d]
      BY <1>7 DEF Reject, ReleaseUsage, TypeOK
    <2>. QED
      BY <1>5, <1>7, <2>2, <2>3
  <1>. QED
    BY <1>6, <1>7

LEMMA CommitKeepsCount ==
    ASSUME TypeOK, BookingInv, CountInv, [Next]_vars, NEW r \in Requests, Commit(r)
    PROVE  CountInv'
  <1>1. RejectedClosed /\ RejectedClosed'
    BY RejectionsFinal DEF CountInv
  <1>2. ASSUME NEW b \in Books, NEW d \in Days, ~Straddled(b, d)'
        PROVE  usage'[b][d].count = Cardinality(Reserved(b, d)')
    <2>1. usage[b][d].count = Cardinality(Reserved(b, d))
      BY <1>1, <1>2, CommitReserves DEF CountInv, ReservedCountExact
    <2>2. CASE b = BookFor(r) /\ d = req[r].day
      <3>0. /\ Reserved(b, d)' = Reserved(b, d) \cup {r} /\ r \notin Reserved(b, d)
            /\ usage'[b][d] = [amount |-> usage[b][d].amount + Amount[QuoteFor(r)],
                               count |-> usage[b][d].count + 1]
        BY <1>1, <1>2, <2>2, CommitReserves
      <3>1. /\ Reserved(b, d)' = Reserved(b, d) \cup {r} /\ r \notin Reserved(b, d)
            /\ usage'[b][d].count = usage[b][d].count + 1
        BY <3>0
      <3>2. Cardinality(Reserved(b, d) \cup {r}) = Cardinality(Reserved(b, d)) + 1
        BY <3>1, ReservedFinite, FS_AddElement
      <3>. QED
        BY <2>1, <3>1, <3>2
    <2>3. CASE ~(b = BookFor(r) /\ d = req[r].day)
      BY <1>1, <1>2, <2>1, <2>3, CommitReserves, ZenonT(60)
    <2>. QED
      BY <2>2, <2>3
  <1>. QED
    BY <1>1, <1>2 DEF CountInv, ReservedCountExact

LEMMA RejectKeepsCount ==
    ASSUME TypeOK, BookingInv, CountInv, [Next]_vars, NEW o \in Requests, Reject(o)
    PROVE  CountInv'
  <1>1. RejectedClosed /\ RejectedClosed'
    BY RejectionsFinal DEF CountInv
  <1>2. ASSUME NEW b \in Books, NEW d \in Days, ~Straddled(b, d)'
        PROVE  usage'[b][d].count = Cardinality(Reserved(b, d)')
    <2>1. usage[b][d].count = Cardinality(Reserved(b, d))
      BY <1>1, <1>2, RejectReleases DEF CountInv, ReservedCountExact
    <2>2. CASE b = BookFor(o) /\ d = order[o].createdOn
      <3>0. /\ Reserved(b, d)' = Reserved(b, d) \ {o} /\ o \in Reserved(b, d)
            /\ usage'[b][d] = [amount |-> Monus(usage[b][d].amount, Amount[QuoteFor(o)]),
                               count |-> Monus(usage[b][d].count, 1)]
        BY <1>1, <1>2, <2>2, RejectReleases
      <3>1. /\ Reserved(b, d)' = Reserved(b, d) \ {o} /\ o \in Reserved(b, d)
            /\ usage'[b][d].count = Monus(usage[b][d].count, 1)
        BY <3>0
      <3>2. Cardinality(Reserved(b, d) \ {o}) = Cardinality(Reserved(b, d)) - 1
        BY <3>1, ReservedFinite, FS_RemoveElement
      <3>3. usage[b][d].count \in Nat /\ usage[b][d].count > 0
        <4>1. Cardinality(Reserved(b, d)) # 0
          BY <3>1, ReservedFinite, FS_EmptySet
        <4>. QED
          BY <4>1, <2>1, ReservedFinite
      <3>. QED
        BY <2>1, <3>1, <3>2, <3>3 DEF Monus
    <2>3. CASE ~(b = BookFor(o) /\ d = order[o].createdOn)
      BY <1>1, <1>2, <2>1, <2>3, RejectReleases, ZenonT(60)
    <2>. QED
      BY <2>2, <2>3
  <1>. QED
    BY <1>1, <1>2 DEF CountInv, ReservedCountExact

\* Every other step leaves usage, and what is reserved, alone.
LEMMA ReservationsKept ==
    ASSUME TypeOK, [Next]_vars, \A r \in Requests : ~Commit(r) /\ ~Reject(r)
    PROVE  /\ usage' = usage
           /\ \A o \in Requests : /\ Exists(o)' <=> Exists(o)
                                  /\ order'[o].rejected = order[o].rejected
                                  /\ order'[o].reservedOn = order[o].reservedOn
                                  /\ order'[o].createdOn = order[o].createdOn
                                  /\ order[o].status = "CLOSED" => order'[o].status = "CLOSED"
           /\ \A b \in Books, d \in Days :
                 Reserved(b, d)' = Reserved(b, d) /\ (Straddled(b, d)' <=> Straddled(b, d))
  <1>. DEFINE Kept == /\ usage' = usage
                      /\ \A o \in Requests :
                            /\ Exists(o)' <=> Exists(o)
                            /\ order'[o].rejected = order[o].rejected
                            /\ order'[o].reservedOn = order[o].reservedOn
                            /\ order'[o].createdOn = order[o].createdOn
                            /\ order[o].status = "CLOSED" => order'[o].status = "CLOSED"
  <1>1. ASSUME UNCHANGED <<order, usage>>
        PROVE  Kept
    BY <1>1 DEF Exists
  <1>2. ASSUME NEW o \in Requests, Approve(o) \/ Close(o)
        PROVE  Kept
    <2>1. /\ \A x \in Requests \ {o} : order'[x] = order[x]
          /\ order[o].status \in {"PENDING_REVIEW", "PENDING_PAY"}
          /\ order'[o].status \in {"PENDING_PAY", "CLOSED"}
          /\ order'[o].rejected = order[o].rejected
          /\ order'[o].reservedOn = order[o].reservedOn
          /\ order'[o].createdOn = order[o].createdOn
          /\ usage' = usage
      BY <1>2 DEF Approve, Close, TypeOK, OrderRow
    <2>. QED
      BY <2>1 DEF Exists
  <1>3. Kept
    BY <1>1, <1>2 DEF Next, Submit, CheckKey, QuoteUnusable, Reserve, Evaluate, Abort,
                      Review, ExpireQuote, Midnight, vars
  <1>4. \A x \in Requests : BookFor(x)' = BookFor(x)
    BY ContentsFixed
  <1>5. Orders' = Orders
    BY <1>3 DEF Orders
  <1>6. ASSUME NEW b \in Books, NEW d \in Days
        PROVE  Reserved(b, d)' = Reserved(b, d) /\ (Straddled(b, d)' <=> Straddled(b, d))
    BY <1>3, <1>4, <1>5 DEF Reserved, Straddled, Orders
  <1>. QED
    BY <1>3, <1>6

LEMMA StepCount ==
    ASSUME TypeOK, BookingInv, CountInv, [Next]_vars
    PROVE  CountInv'
  <1>1. ASSUME \A r \in Requests : ~Commit(r) /\ ~Reject(r)
        PROVE  CountInv'
    <2>1. RejectedClosed'
      BY <1>1, ReservationsKept DEF CountInv, RejectedClosed
    <2>2. ReservedCountExact'
      <3>1. /\ usage' = usage
            /\ \A b \in Books, d \in Days :
                  Reserved(b, d)' = Reserved(b, d) /\ (Straddled(b, d)' <=> Straddled(b, d))
        BY <1>1, ReservationsKept
      <3>. QED
        BY <3>1 DEF CountInv, ReservedCountExact
    <2>. QED
      BY <2>1, <2>2 DEF CountInv
  <1>. QED
    BY <1>1, CommitKeepsCount, RejectKeepsCount

\* On every day no submission crosses midnight, the usage row counts exactly
\* the orders submitted on it and not rejected, however submissions,
\* rejections and roll-backs interleave; so release_reserved_usage never meets
\* the zero it stops at.
THEOREM UsageCountsReserved == Spec => []ReservedCountExact
  <1>1. Init => TypeOK /\ BookingInv /\ CountInv
    BY InitTyped, InitBooking, InitCount
  <1>2. TypeOK /\ BookingInv /\ CountInv /\ [Next]_vars
           => (TypeOK /\ BookingInv /\ CountInv)'
    BY StepTyped, StepBooking, StepCount
  <1>3. CountInv => ReservedCountExact
    BY DEF CountInv
  <1>. QED
    BY <1>1, <1>2, <1>3, PTL DEF Spec

-----------------------------------------------------------------------------
(***************************************************************************)
(* DailyLimitsKept.  The invariant that carries it says that the amount of *)
(* the usage row is the sum of the orders it counts, and that what an      *)
(* eligible application was shown of the row it holds is still true, as    *)
(* long as the day it was evaluated on lasts.                              *)
(***************************************************************************)

Amounts == [o \in Requests |-> Amount[QuoteFor(o)]]

ReservedAmountExact ==
    \A b \in Books, d \in Days :
        ~Straddled(b, d) => usage[b][d].amount = SumFunctionOnSet(Amounts, Reserved(b, d))

UsageWithinLimits ==
    \A b \in Books, d \in Days :
        ~Straddled(b, d) => /\ usage[b][d].amount <= DailyLimit[b]
                            /\ usage[b][d].count <= DailyCount[b]

\* The usage row locked is of today or of an earlier day.
DayPassed == \A r \in Requests : req[r].day <= today

EligibleFits ==
    \A r \in Requests :
        req[r].stage = "eligible" /\ req[r].day = today => WithinDailyLimits(r, today)

DailyInv == ReservedAmountExact /\ UsageWithinLimits /\ DayPassed /\ EligibleFits

LEMMA AmountsTyped ==
    ASSUME TypeOK
    PROVE  \A o \in Requests : Amounts[o] = Amount[QuoteFor(o)] /\ Amounts[o] \in Nat
  BY Lookups, Constants DEF Amounts

LEMMA AmountsFixed ==
    ASSUME TypeOK, [Next]_vars
    PROVE  Amounts' = Amounts
  BY ContentsFixed DEF Amounts

LEMMA ReservedSumTyped ==
    ASSUME TypeOK, NEW b, NEW d
    PROVE  /\ SumFunctionOnSet(Amounts, Reserved(b, d)) \in Nat
           /\ \A o \in Reserved(b, d) :
                 /\ SumFunctionOnSet(Amounts, Reserved(b, d)) =
                       Amounts[o] + SumFunctionOnSet(Amounts, Reserved(b, d) \ {o})
                 /\ SumFunctionOnSet(Amounts, Reserved(b, d) \ {o}) \in Nat
           /\ \A r \in Requests : r \notin Reserved(b, d) =>
                 SumFunctionOnSet(Amounts, Reserved(b, d) \cup {r}) =
                    Amounts[r] + SumFunctionOnSet(Amounts, Reserved(b, d))
  <1>. PICK S : S = Reserved(b, d)
    OBVIOUS
  <1>. PICK g : g = Amounts
    OBVIOUS
  <1>1. S \subseteq Requests /\ IsFiniteSet(S)
    BY ReservedFinite DEF Reserved, Orders
  <1>2. \A o \in Requests : g[o] \in Nat /\ g[o] \in Int
    BY AmountsTyped
  <1>3. SumFunctionOnSet(g, S) \in Nat
    BY <1>1, <1>2, SumNat
  <1>4. ASSUME NEW o \in S
        PROVE  /\ SumFunctionOnSet(g, S) = g[o] + SumFunctionOnSet(g, S \ {o})
               /\ SumFunctionOnSet(g, S \ {o}) \in Nat
    <2>. PICK T : T = S \ {o}
      OBVIOUS
    <2>1. SumFunctionOnSet(g, S) = g[o] + SumFunctionOnSet(g, S \ {o})
      BY <1>1, <1>2, SumRemove
    <2>2. IsFiniteSet(T) /\ \A x \in T : g[x] \in Nat
      BY <1>1, <1>2, FS_Subset
    <2>3. SumFunctionOnSet(g, T) \in Nat
      BY <2>2, SumNat
    <2>. QED
      BY <2>1, <2>3
  <1>5. ASSUME NEW r \in Requests, r \notin S
        PROVE  SumFunctionOnSet(g, S \cup {r}) = g[r] + SumFunctionOnSet(g, S)
    BY <1>1, <1>2, <1>5, SumAdd
  <1>. QED
    BY <1>3, <1>4, <1>5

LEMMA InitDaily == Init => DailyInv
  <1>. SUFFICES ASSUME Init PROVE DailyInv
    OBVIOUS
  <1>1. \A b \in Books, d \in Days :
           Reserved(b, d) = {} /\ usage[b][d].count = 0 /\ usage[b][d].amount = 0
    BY DEF Init, Reserved, Orders, Exists
  <1>2. \A b \in Books : DailyLimit[b] \in Nat /\ DailyCount[b] \in Nat
    BY ParametersTyped
  <1>3. today = 1 /\ \A r \in Requests : req[r].day = 1 /\ req[r].stage = "new"
    BY DEF Init
  <1>4. \A b \in Books, d \in Days : SumFunctionOnSet(Amounts, Reserved(b, d)) = 0
    <2>. PICK g : g = Amounts
      OBVIOUS
    <2>1. SumFunctionOnSet(g, {}) = 0
      BY SumEmpty
    <2>. QED
      BY <1>1, <2>1
  <1>5. ReservedAmountExact /\ UsageWithinLimits
    BY <1>1, <1>2, <1>4 DEF ReservedAmountExact, UsageWithinLimits
  <1>6. DayPassed /\ EligibleFits
    BY <1>3 DEF DayPassed, EligibleFits
  <1>. QED
    BY <1>5, <1>6 DEF DailyInv

\* Nobody else writes the row an eligible application holds.
LEMMA HeldRowKept ==
    ASSUME TypeOK, BookingInv, [Next]_vars, NEW r \in Requests, Holding(r),
           Holding(r)', req'[r].day = req[r].day
    PROVE  usage'[BookFor(r)][req[r].day] = usage[BookFor(r)][req[r].day]
  <1>0. usage \in [Books -> [Days -> UsageRow]] /\ BookFor(r) \in Books /\ req[r].day \in Days
    BY Lookups DEF TypeOK
  <1>1. ASSUME NEW s \in Requests, Commit(s)
        PROVE  usage'[BookFor(r)][req[r].day] = usage[BookFor(r)][req[r].day]
    <2>1. s # r
      BY <1>1 DEF Commit, AnswerWith, Holding, TypeOK, Delivery
    <2>2. BookFor(s) # BookFor(r)
      BY <1>1, <2>1 DEF Commit, Holding, BookingInv, LocksExclusive
    <2>. QED
      BY <1>0, <1>1, <2>2 DEF Commit
  <1>2. ASSUME NEW o \in Requests, Reject(o)
        PROVE  usage'[BookFor(r)][req[r].day] = usage[BookFor(r)][req[r].day]
    <2>1. ~(BookFor(r) = BookFor(o) /\ req[r].day = order[o].createdOn)
      BY <1>2 DEF Reject, UsageRowFree
    <2>. QED
      BY <1>0, <1>2, <2>1 DEF Reject, ReleaseUsage
  <1>. QED
    BY <1>1, <1>2 DEF Next, Submit, CheckKey, QuoteUnusable, Reserve, Evaluate, Abort,
                      Review, Approve, Close, ExpireQuote, Midnight, vars

LEMMA DaysPass ==
    ASSUME TypeOK, DayPassed, [Next]_vars
    PROVE  DayPassed' /\ today <= today'
  <1>0. today \in Nat /\ \A r \in Requests : req[r].day \in Nat
    BY Lookups, Constants DEF TypeOK, Days
  <1>1. today' = today \/ today' = today + 1
    BY DEF Next, Submit, CheckKey, QuoteUnusable, Reserve, Evaluate, Abort, Commit,
           Review, Reject, Approve, Close, ExpireQuote, Midnight, vars
  <1>2. \A r \in Requests : req'[r].day = req[r].day \/ req'[r].day = today
    <2>1. ASSUME NEW s \in Requests, Submit(s)
          PROVE  \A r \in Requests : req'[r].day = req[r].day \/ req'[r].day = today
      <3>. req \in [Requests -> Delivery]
        BY DEF TypeOK
      <3>. QED
        BY <2>1 DEF Submit, CheckKey, QuoteUnusable, Reserve, Evaluate, Abort, Commit,
                    SetStage, AnswerWith, Delivery
    <2>. QED
      BY <2>1 DEF Next, Review, Reject, Approve, Close, ExpireQuote, Midnight, vars
  <1>. QED
    BY <1>0, <1>1, <1>2 DEF DayPassed

LEMMA EligibleStays ==
    ASSUME TypeOK, BookingInv, DayPassed, EligibleFits, [Next]_vars
    PROVE  EligibleFits'
  <1>1. SUFFICES ASSUME NEW r \in Requests, req'[r].stage = "eligible", req'[r].day = today'
                 PROVE  WithinDailyLimits(r, today)'
    BY DEF EligibleFits, WithinDailyLimits
  <1>. USE <1>1
  <1>2. QuoteFor(r)' = QuoteFor(r) /\ BookFor(r)' = BookFor(r)
    BY ContentsFixed
  <1>3. ASSUME NEW s \in Requests, Evaluate(s), s = r
        PROVE  WithinDailyLimits(r, today)'
    BY <1>2, <1>3 DEF Evaluate, WithinDailyLimits
  <1>4. ASSUME \A s \in Requests : Evaluate(s) => s # r
        PROVE  req[r].stage = "eligible" /\ req'[r].day = req[r].day
    <2>1. ASSUME NEW s \in Requests, Submit(s)
          PROVE  req[r].stage = "eligible" /\ req'[r].day = req[r].day
      <3>. req \in [Requests -> Delivery]
        BY DEF TypeOK
      <3>. QED
        BY <1>4, <2>1 DEF Submit, CheckKey, QuoteUnusable, Reserve, Evaluate, Abort, Commit,
                          SetStage, AnswerWith, Delivery
    <2>. QED
      BY <2>1 DEF Next, Review, Reject, Approve, Close, ExpireQuote, Midnight, vars
  <1>5. ASSUME req[r].stage = "eligible", req'[r].day = req[r].day
        PROVE  WithinDailyLimits(r, today)'
    <2>1. today' = today /\ req[r].day = today
      <3>1. req[r].day <= today /\ today <= today' /\ req[r].day = today'
        BY <1>5, DaysPass DEF DayPassed
      <3>2. today \in Nat /\ today' \in Nat /\ req[r].day \in Nat
        <4>1. TypeOK'
          BY StepTyped
        <4>. QED
          BY <4>1, Lookups, Constants DEF TypeOK, Days
      <3>. QED
        BY <3>1, <3>2
    <2>2. usage'[BookFor(r)][req[r].day] = usage[BookFor(r)][req[r].day]
      BY <1>5, HeldRowKept DEF Holding
    <2>3. WithinDailyLimits(r, today)
      BY <1>5, <2>1 DEF EligibleFits
    <2>. QED
      BY <1>2, <2>1, <2>2, <2>3 DEF WithinDailyLimits
  <1>. QED
    BY <1>3, <1>4, <1>5

\* The commit adds what the row was evaluated for: an application evaluated on
\* another day than the row's leaves a straddled day.
LEMMA CommitKeepsDaily ==
    ASSUME TypeOK, BookingInv, CountInv, DailyInv, [Next]_vars, NEW r \in Requests, Commit(r)
    PROVE  ReservedAmountExact' /\ UsageWithinLimits'
  <1>. SUFFICES ASSUME NEW b \in Books, NEW d \in Days, ~Straddled(b, d)'
                PROVE  /\ usage'[b][d].amount = SumFunctionOnSet(Amounts, Reserved(b, d))'
                       /\ usage'[b][d].amount <= DailyLimit[b]
                       /\ usage'[b][d].count <= DailyCount[b]
    BY DEF ReservedAmountExact, UsageWithinLimits
  <1>0. RejectedClosed
    BY DEF CountInv
  <1>1. /\ ~Straddled(b, d)
        /\ IF b = BookFor(r) /\ d = req[r].day
           THEN /\ d = today
                /\ Reserved(b, d)' = Reserved(b, d) \cup {r} /\ r \notin Reserved(b, d)
                /\ usage'[b][d] = [amount |-> usage[b][d].amount + Amount[QuoteFor(r)],
                                   count |-> usage[b][d].count + 1]
           ELSE Reserved(b, d)' = Reserved(b, d) /\ usage'[b][d] = usage[b][d]
    BY <1>0, CommitReserves
  <1>2. /\ usage[b][d].amount = SumFunctionOnSet(Amounts, Reserved(b, d))
        /\ usage[b][d].amount <= DailyLimit[b]
        /\ usage[b][d].count <= DailyCount[b]
    BY <1>1 DEF DailyInv, ReservedAmountExact, UsageWithinLimits
  <1>3. Amounts' = Amounts
    BY AmountsFixed
  <1>4. CASE b = BookFor(r) /\ d = req[r].day
    <2>1. WithinDailyLimits(r, d)
      BY <1>1, <1>4 DEF Commit, DailyInv, EligibleFits
    <2>2. /\ usage'[b][d].amount = usage[b][d].amount + Amount[QuoteFor(r)]
          /\ usage'[b][d].count = usage[b][d].count + 1
      <3>1. usage'[b][d] = [amount |-> usage[b][d].amount + Amount[QuoteFor(r)],
                            count |-> usage[b][d].count + 1]
        BY <1>1, <1>4
      <3>. QED
        BY <3>1
    <2>3. /\ usage'[b][d].amount <= DailyLimit[b]
          /\ usage'[b][d].count <= DailyCount[b]
      BY <1>4, <2>1, <2>2 DEF WithinDailyLimits
    <2>4. SumFunctionOnSet(Amounts, Reserved(b, d) \cup {r})
          = Amount[QuoteFor(r)] + SumFunctionOnSet(Amounts, Reserved(b, d))
      BY <1>1, <1>4, ReservedSumTyped, AmountsTyped
    <2>5. SumFunctionOnSet(Amounts, Reserved(b, d)) \in Nat /\ Amount[QuoteFor(r)] \in Nat
      BY ReservedSumTyped, Lookups, Constants
    <2>6. usage'[b][d].amount = SumFunctionOnSet(Amounts, Reserved(b, d) \cup {r})
      BY <1>2, <2>2, <2>4, <2>5
    <2>7. SumFunctionOnSet(Amounts, Reserved(b, d))'
          = SumFunctionOnSet(Amounts, Reserved(b, d) \cup {r})
      BY <1>1, <1>3, <1>4
    <2>. QED
      BY <2>3, <2>6, <2>7
  <1>5. CASE ~(b = BookFor(r) /\ d = req[r].day)
    <2>1. Reserved(b, d)' = Reserved(b, d) /\ usage'[b][d] = usage[b][d]
      BY <1>1, <1>5
    <2>. QED
      BY <1>2, <1>3, <2>1
  <1>. QED
    BY <1>4, <1>5

LEMMA RejectKeepsDaily ==
    ASSUME TypeOK, BookingInv, CountInv, DailyInv, [Next]_vars, NEW o \in Requests, Reject(o)
    PROVE  ReservedAmountExact' /\ UsageWithinLimits'
  <1>. SUFFICES ASSUME NEW b \in Books, NEW d \in Days, ~Straddled(b, d)'
                PROVE  /\ usage'[b][d].amount = SumFunctionOnSet(Amounts, Reserved(b, d))'
                       /\ usage'[b][d].amount <= DailyLimit[b]
                       /\ usage'[b][d].count <= DailyCount[b]
    BY DEF ReservedAmountExact, UsageWithinLimits
  <1>0. RejectedClosed
    BY DEF CountInv
  <1>1. /\ ~Straddled(b, d)
        /\ IF b = BookFor(o) /\ d = order[o].createdOn
           THEN /\ Reserved(b, d)' = Reserved(b, d) \ {o} /\ o \in Reserved(b, d)
                /\ usage'[b][d] = [amount |-> Monus(usage[b][d].amount, Amount[QuoteFor(o)]),
                                   count |-> Monus(usage[b][d].count, 1)]
           ELSE Reserved(b, d)' = Reserved(b, d) /\ usage'[b][d] = usage[b][d]
    BY <1>0, RejectReleases
  <1>2. /\ usage[b][d].amount = SumFunctionOnSet(Amounts, Reserved(b, d))
        /\ usage[b][d].amount <= DailyLimit[b]
        /\ usage[b][d].count <= DailyCount[b]
    BY <1>1 DEF DailyInv, ReservedAmountExact, UsageWithinLimits
  <1>3. Amounts' = Amounts
    BY AmountsFixed
  <1>4. /\ usage[b][d].amount \in Nat /\ usage[b][d].count \in Nat
        /\ DailyLimit[b] \in Nat /\ DailyCount[b] \in Nat
        /\ Amount[QuoteFor(o)] \in Nat
    BY Lookups, Constants, ParametersTyped DEF TypeOK, UsageRow
  <1>5. CASE b = BookFor(o) /\ d = order[o].createdOn
    <2>1. /\ usage'[b][d].amount = Monus(usage[b][d].amount, Amount[QuoteFor(o)])
          /\ usage'[b][d].count = Monus(usage[b][d].count, 1)
      <3>1. usage'[b][d] = [amount |-> Monus(usage[b][d].amount, Amount[QuoteFor(o)]),
                            count |-> Monus(usage[b][d].count, 1)]
        BY <1>1, <1>5
      <3>. QED
        BY <3>1
    <2>2. /\ usage'[b][d].amount <= DailyLimit[b]
          /\ usage'[b][d].count <= DailyCount[b]
      BY <1>2, <1>4, <2>1 DEF Monus
    <2>3. /\ SumFunctionOnSet(Amounts, Reserved(b, d))
             = Amount[QuoteFor(o)] + SumFunctionOnSet(Amounts, Reserved(b, d) \ {o})
          /\ SumFunctionOnSet(Amounts, Reserved(b, d) \ {o}) \in Nat
      BY <1>1, <1>5, ReservedSumTyped, AmountsTyped
    <2>4. usage'[b][d].amount = SumFunctionOnSet(Amounts, Reserved(b, d) \ {o})
      BY <1>2, <1>4, <2>1, <2>3 DEF Monus
    <2>5. SumFunctionOnSet(Amounts, Reserved(b, d))'
          = SumFunctionOnSet(Amounts, Reserved(b, d) \ {o})
      BY <1>1, <1>3, <1>5
    <2>. QED
      BY <2>2, <2>4, <2>5
  <1>6. CASE ~(b = BookFor(o) /\ d = order[o].createdOn)
    <2>1. Reserved(b, d)' = Reserved(b, d) /\ usage'[b][d] = usage[b][d]
      BY <1>1, <1>6
    <2>. QED
      BY <1>2, <1>3, <2>1
  <1>. QED
    BY <1>5, <1>6

LEMMA StepDaily ==
    ASSUME TypeOK, BookingInv, CountInv, DailyInv, [Next]_vars
    PROVE  DailyInv'
  <1>1. DayPassed' /\ EligibleFits'
    BY DaysPass, EligibleStays DEF DailyInv
  <1>2. ReservedAmountExact' /\ UsageWithinLimits'
    <2>1. ASSUME \A r \in Requests : ~Commit(r) /\ ~Reject(r)
          PROVE  ReservedAmountExact' /\ UsageWithinLimits'
      <3>1. /\ usage' = usage /\ Amounts' = Amounts
            /\ \A b \in Books, d \in Days :
                 Reserved(b, d)' = Reserved(b, d) /\ (Straddled(b, d)' <=> Straddled(b, d))
        BY <2>1, ReservationsKept, AmountsFixed
      <3>. QED
        BY <3>1 DEF DailyInv, ReservedAmountExact, UsageWithinLimits
    <2>. QED
      BY <2>1, CommitKeepsDaily, RejectKeepsDaily
  <1>. QED
    BY <1>1, <1>2 DEF DailyInv

\* On every day no submission crosses midnight, the orders in force stay within
\* the daily amount and number of the book, for any number of racing
\* deliveries: the check of assert_eligible still holds when the transaction
\* that made it commits.
THEOREM LimitsKept == Spec => []DailyLimitsKept
  <1>. DEFINE Inv == TypeOK /\ BookingInv /\ CountInv /\ DailyInv
  <1>1. Init => Inv
    BY InitTyped, InitBooking, InitCount, InitDaily
  <1>2. Inv /\ [Next]_vars => Inv'
    BY StepTyped, StepBooking, StepCount, StepDaily
  <1>3. Inv => DailyLimitsKept
    BY DEF CountInv, ReservedCountExact, DailyInv, ReservedAmountExact, UsageWithinLimits,
           DailyLimitsKept, Amounts
  <1>. QED
    BY <1>1, <1>2, <1>3, PTL DEF Spec

-----------------------------------------------------------------------------
(***************************************************************************)
(* The refinement of RemittanceIntake.                                     *)
(***************************************************************************)

\* The bookings of the specification are the orders of the implementation.
LEMMA BookedAreOrders ==
    ASSUME TypeOK, BookingInv
    PROVE  Intake!Booked = Orders
  BY DEF Intake!Booked, Outcome, Orders, BookingInv, AnsweredByBooking

\* A delivery that moves without being answered or refused is a stutter.
LEMMA UnfinishedStutters ==
    ASSUME TypeOK, [Next]_vars,
           \A x \in Requests : Outcome(x)' = Outcome(x) /\ req'[x].reply = req[x].reply
    PROVE  UNCHANGED Intake!vars
  <1>1. \A x \in Requests : req'[x].key = req[x].key /\ req'[x].digest = req[x].digest
    BY ContentsFixed
  <1>. QED
    BY <1>1 DEF Intake!vars

\* Refused: allowed unless the application is booked.
LEMMA RefusalMaps ==
    ASSUME TypeOK, BookingInv, [Next]_vars, NEW r \in Requests,
           Outcome(r) = "pending", SetStage(r, "refused"), ReplayOf(r) = {}
    PROVE  Intake!Refuse(r)
  <1>1. \A x \in Requests : req'[x].key = req[x].key /\ req'[x].digest = req[x].digest
    BY ContentsFixed
  <1>2. /\ \A x \in Requests \ {r} : req'[x] = req[x]
        /\ req'[r].stage = "refused" /\ req'[r].reply = req[r].reply
    BY DEF SetStage, TypeOK, Delivery
  <1>3. ~ \E o \in Intake!Booked : Intake!SameApplication(r, o)
    BY BookedAreOrders DEF ReplayOf, WithKeyOf, Orders, Intake!SameApplication
  <1>4. [x \in Requests |-> Outcome(x)'] =
           [[x \in Requests |-> Outcome(x)] EXCEPT ![r] = "refused"]
    BY <1>2 DEF Outcome
  <1>. QED
    BY <1>1, <1>2, <1>3, <1>4 DEF Intake!Refuse

LEMMA ReplayMaps ==
    ASSUME TypeOK, BookingInv, [Next]_vars, NEW r \in Requests,
           Outcome(r) = "pending", NEW o \in ReplayOf(r), AnswerWith(r, o)
    PROVE  Intake!Replay(r)
  <1>1. \A x \in Requests : req'[x].key = req[x].key /\ req'[x].digest = req[x].digest
    BY ContentsFixed
  <1>2. /\ \A x \in Requests \ {r} : req'[x] = req[x]
        /\ req'[r].stage = "answered" /\ req'[r].reply = o
    BY DEF AnswerWith, TypeOK, Delivery
  <1>3. o \in Intake!Booked /\ Intake!SameApplication(r, o)
    BY BookedAreOrders DEF ReplayOf, WithKeyOf, Orders, Intake!SameApplication
  <1>4. [x \in Requests |-> Outcome(x)'] =
           [[x \in Requests |-> Outcome(x)] EXCEPT ![r] = "answered"]
    BY <1>2 DEF Outcome
  <1>5. [x \in Requests |-> req'[x].reply] =
           [[x \in Requests |-> req[x].reply] EXCEPT ![r] = o]
    BY <1>2
  <1>. QED
    BY <1>1, <1>3, <1>4, <1>5 DEF Intake!Replay

LEMMA CommitMaps ==
    ASSUME TypeOK, BookingInv, [Next]_vars, NEW r \in Requests, Commit(r)
    PROVE  Intake!Book(r)
  <1>1. \A x \in Requests : req'[x].key = req[x].key /\ req'[x].digest = req[x].digest
    BY ContentsFixed
  <1>2. /\ \A x \in Requests \ {r} : req'[x] = req[x]
        /\ req[r].stage = "eligible" /\ req'[r].stage = "answered" /\ req'[r].reply = r
    BY DEF Commit, AnswerWith, TypeOK, Delivery
  <1>3. \A o \in Orders : req[o].key # req[r].key /\ QuoteFor(o) # QuoteFor(r)
    <2>1. quote[QuoteFor(r)].status = "ACTIVE" /\ QuoteFor(r) \in Quotes
      BY <1>2, Lookups DEF Holding, BookingInv, HeldQuoteActive
    <2>. QED
      BY <2>1 DEF Commit, WithKeyOf, BookingInv, QuoteConsumedOnce
  <1>4. [x \in Requests |-> Outcome(x)'] =
           [[x \in Requests |-> Outcome(x)] EXCEPT ![r] = "answered"]
    BY <1>2 DEF Outcome
  <1>5. [x \in Requests |-> req'[x].reply] =
           [[x \in Requests |-> req[x].reply] EXCEPT ![r] = r]
    BY <1>2
  <1>6. \A o \in Intake!Booked :
           /\ [x \in Requests |-> req[x].key][o] # [x \in Requests |-> req[x].key][r]
           /\ QuoteOf[[x \in Requests |-> req[x].digest][o]]
                 # QuoteOf[[x \in Requests |-> req[x].digest][r]]
    BY <1>3, BookedAreOrders DEF Orders, QuoteFor
  <1>7. Outcome(r) = "pending"
    BY <1>2 DEF Outcome
  <1>. QED
    BY <1>1, <1>4, <1>5, <1>6, <1>7 DEF Intake!Book

\* Where submit refuses after the key was unknown, the quotation shows that
\* the application is not booked: it is another's, or it is still ACTIVE.
LEMMA UnspentNotBooked ==
    ASSUME TypeOK, BookingInv, NEW r \in Requests,
           \/ Principal[req[r].digest] # BookFor(r)
           \/ quote[QuoteFor(r)].status = "ACTIVE"
    PROVE  ReplayOf(r) = {}
  <1>1. ASSUME NEW o \in ReplayOf(r) PROVE FALSE
    <2>1. /\ o \in Orders /\ QuoteFor(o) = QuoteFor(r) /\ BookFor(o) = BookFor(r)
          /\ Principal[req[o].digest] = Principal[req[r].digest]
      BY DEF ReplayOf, WithKeyOf, QuoteFor, BookFor
    <2>2. quote[QuoteFor(r)].status = "USED"
      BY <2>1, Lookups DEF BookingInv, QuoteConsumedOnce
    <2>3. Principal[req[o].digest] = BookFor(o)
      BY <2>1 DEF BookingInv, OwnQuoteOnly, Orders
    <2>. QED
      BY <2>1, <2>2, <2>3
  <1>. QED
    BY <1>1

LEMMA InitMaps == ASSUME Init PROVE Intake!Init
  <1>1. PICK k \in [Requests -> Keys], d \in [Requests -> Digests] :
           req = [r \in Requests |-> [stage |-> "new", key |-> k[r], digest |-> d[r],
                                      day |-> 1, reply |-> r]]
    BY DEF Init
  <1>2. /\ [r \in Requests |-> req[r].key] \in [Requests -> Keys]
        /\ [r \in Requests |-> req[r].digest] \in [Requests -> Digests]
        /\ [r \in Requests |-> req[r].reply] = [r \in Requests |-> r]
    BY <1>1
  <1>3. [r \in Requests |-> Outcome(r)] = [r \in Requests |-> "pending"]
    BY <1>1 DEF Outcome
  <1>. QED
    BY <1>2, <1>3 DEF Intake!Init

LEMMA StepMaps ==
    ASSUME TypeOK, BookingInv, [Next]_vars
    PROVE  [Intake!Next]_Intake!vars
  <1>1. ASSUME NEW r \in Requests, CheckKey(r)
        PROVE  [Intake!Next]_Intake!vars
    <2>1. Outcome(r) = "pending"
      BY <1>1 DEF CheckKey, Outcome
    <2>2. CASE \E o \in ReplayOf(r) : AnswerWith(r, o)
      BY <2>1, <2>2, ReplayMaps DEF Intake!Next
    <2>3. CASE ReplayOf(r) = {} /\ SetStage(r, "refused")
      BY <2>1, <2>3, RefusalMaps DEF Intake!Next
    <2>4. CASE SetStage(r, "checked")
      <3>1. \A x \in Requests : Outcome(x)' = Outcome(x) /\ req'[x].reply = req[x].reply
        BY <2>1, <2>4 DEF SetStage, Outcome, TypeOK, Delivery
      <3>. QED
        BY <3>1, UnfinishedStutters
    <2>. QED
      BY <1>1, <2>2, <2>3, <2>4 DEF CheckKey
  <1>2. ASSUME NEW r \in Requests, QuoteUnusable(r)
        PROVE  [Intake!Next]_Intake!vars
    <2>1. Outcome(r) = "pending"
      BY <1>2 DEF QuoteUnusable, Outcome
    <2>2. CASE \E o \in ReplayOf(r) : AnswerWith(r, o)
      BY <2>1, <2>2, ReplayMaps DEF Intake!Next
    <2>3. CASE SetStage(r, "refused") /\ ReplayOf(r) = {}
      BY <2>1, <2>3, RefusalMaps DEF Intake!Next
    <2>. QED
      BY <1>2, <2>2, <2>3, UnspentNotBooked DEF QuoteUnusable
  <1>3. ASSUME NEW r \in Requests, Reserve(r) \/ Evaluate(r)
        PROVE  [Intake!Next]_Intake!vars
    <2>1. \A x \in Requests : Outcome(x)' = Outcome(x) /\ req'[x].reply = req[x].reply
      BY <1>3 DEF Reserve, Evaluate, SetStage, Outcome, TypeOK, Delivery
    <2>. QED
      BY <2>1, UnfinishedStutters
  <1>4. ASSUME NEW r \in Requests, Abort(r)
        PROVE  [Intake!Next]_Intake!vars
    <2>1. Outcome(r) = "pending"
      BY <1>4 DEF Abort, Holding, Outcome
    <2>2. ReplayOf(r) = {}
      BY <1>4, UnspentNotBooked DEF Abort, BookingInv, HeldQuoteActive
    <2>. QED
      BY <1>4, <2>1, <2>2, RefusalMaps DEF Abort, Intake!Next
  <1>5. ASSUME NEW r \in Requests, Commit(r)
        PROVE  [Intake!Next]_Intake!vars
    BY <1>5, CommitMaps DEF Intake!Next
  <1>6. ASSUME UNCHANGED req
        PROVE  [Intake!Next]_Intake!vars
    BY <1>6, UnfinishedStutters DEF Outcome
  <1>. QED
    BY <1>1, <1>2, <1>3, <1>4, <1>5, <1>6
       DEF Next, Submit, Review, Reject, Approve, Close, ExpireQuote, Midnight, vars

\* submit implements RemittanceIntake: whatever the locks, roll-backs, clocks
\* and the review of orders do, callers see a service that books each key and
\* each quotation once, answers a retry with the booking it retries, and
\* never refuses such a retry.
THEOREM IntakePromiseKept == Spec => KeepsIntakePromise
  <1>1. Init => Intake!Init
    BY InitMaps
  <1>2. Init => TypeOK /\ BookingInv
    BY InitTyped, InitBooking
  <1>3. TypeOK /\ BookingInv /\ [Next]_vars => (TypeOK /\ BookingInv)'
    BY StepTyped, StepBooking
  <1>4. TypeOK /\ BookingInv /\ [Next]_vars => [Intake!Next]_Intake!vars
    BY StepMaps
  <1>. QED
    BY <1>1, <1>2, <1>3, <1>4, PTL DEF Spec, KeepsIntakePromise, Intake!Spec
=============================================================================
