------------------------ MODULE ReconciliationProofs ------------------------
(***************************************************************************)
(* Reconciliation, for any statements, orders, differences, applications,  *)
(* write-offs and workers: types, among them that the list of differences  *)
(* is no longer than the statement and the day's orders together; what     *)
(* precedes a resolution and a posting; that the batch is resolved with    *)
(* its last difference; what a matching reports; and that the postings     *)
(* explain the balances.                                                   *)
(***************************************************************************)
EXTENDS Reconciliation, MatchingTheorems

\* Before the differences are created there are none, and lists are bounded.
SizesInv ==
    /\ Len(statement) <= MaxItems /\ Len(collected) <= MaxItems
    /\ IsFiniteSet(listed) /\ Cardinality(listed) <= Len(Differences)
    /\ \A d \in listed : d.bank \in Nat /\ d.platform \in Nat
    /\ Len(diff) <= Len(Differences)
    /\ run \in {"fetch", "match", "create"} => diff = << >>

\* What the row of a worker's job is.
JobsInv ==
    \A w \in Workers :
        /\ job[w].at \in AppSteps => job[w].on \in Applications
        /\ job[w].at \in WriteOffSteps => job[w].on \in WriteOffs
        /\ job[w].at \in DiffSteps => job[w].on \in Listed

\* The conjuncts of TypeOK but the last, which is shown with the money.
RowsTyped ==
    /\ BooksTypeOK(Steps)
    /\ AdjustTypeOK
    /\ statement \in Seq(Item)
    /\ collected \in Seq(Item)
    /\ run \in {"fetch", "match", "create", "done", "dead"}
    /\ batch \in {"FETCHING", "MATCHING", "MATCHED", "DIFF", "RESOLVED"}
    /\ diff \in Seq(DiffRow)
    /\ asked \in [Range(Differences) -> Nat]
    /\ filed \in [Range(Differences) -> Nat]

TypeInv == RowsTyped /\ SizesInv /\ JobsInv

JobType == Job(Steps, Accounts \cup Vas \cup Subjects)

-----------------------------------------------------------------------------
\* An order is in one difference at most.
LEMMA ReportShape ==
    ASSUME NEW lines \in Seq(Item), NEW orders \in Seq(Item)
    PROVE  LET r == Report(lines, orders)
           IN  /\ r.bankOnly \subseteq DOMAIN lines
               /\ r.platformOnly \subseteq DOMAIN orders
               /\ r.prnDiff \cup r.amountDiff \subseteq (DOMAIN lines) \X (DOMAIN orders)
               /\ \A p, q \in r.prnDiff \cup r.amountDiff : p[2] = q[2] => p = q
               /\ \A p \in r.prnDiff \cup r.amountDiff : p[2] \notin r.platformOnly
  <1>. DEFINE prn == PrnPairs(lines, orders)
              exact == prn \cup ExactPairs(lines, orders, prn)
              fuzzy == FuzzyPairs(lines, orders, exact)
              prnDiff == {p \in prn : ~ SameAmount(lines[p[1]], orders[p[2]])}
              diffs == AmountDiffs(lines, orders, exact \cup fuzzy)
              r == Report(lines, orders)
              pairs == (DOMAIN lines) \X (DOMAIN orders)
  <1>1. /\ r.prnDiff = prnDiff /\ r.amountDiff = diffs
        /\ r.bankOnly = Unused(lines, exact) \ Lines(fuzzy)
        /\ r.platformOnly = (DOMAIN orders) \ Orders(exact \cup fuzzy \cup diffs)
    BY DEF Report
  <1>2. DOMAIN lines = 1 .. Len(lines) /\ DOMAIN orders = 1 .. Len(orders)
        /\ Len(lines) \in Nat /\ Len(orders) \in Nat
    OBVIOUS
  <1>3. prnDiff \subseteq prn /\ prn \subseteq pairs
    BY DEF PrnPairs
  <1>4. diffs \subseteq pairs
    BY DEF AmountDiffs
  <1>5. \A p \in pairs : p = <<p[1], p[2]>> /\ p[1] \in DOMAIN lines /\ p[2] \in DOMAIN orders
    OBVIOUS
  <1>6. ASSUME NEW p \in prnDiff, NEW q \in prnDiff, p[2] = q[2]
        PROVE  p = q
    <2>1. p \in prn /\ q \in prn /\ p \in pairs /\ q \in pairs
      BY <1>3
    <2>2. /\ lines[p[1]].prn = orders[p[2]].prn
          /\ \A i \in 1 .. p[1] - 1 : lines[i].prn # orders[p[2]].prn
      BY <2>1 DEF PrnPairs
    <2>3. /\ lines[q[1]].prn = orders[p[2]].prn
          /\ \A i \in 1 .. q[1] - 1 : lines[i].prn # orders[p[2]].prn
      BY <1>6, <2>1 DEF PrnPairs
    <2>4. p[1] \in 1 .. Len(lines) /\ q[1] \in 1 .. Len(lines)
      BY <1>2, <1>5, <2>1
    <2>5. \A i, j \in 1 .. Len(lines) : i = j \/ j \in 1 .. i - 1 \/ i \in 1 .. j - 1
      BY <1>2
    <2>6. p[1] = q[1]
      BY <2>2, <2>3, <2>4, <2>5
    <2>. QED
      BY <1>5, <1>6, <2>1, <2>6
  <1>7. ASSUME NEW p \in diffs, NEW q \in diffs, p[2] = q[2]
        PROVE  p = q
    <2>1. p \in pairs /\ q \in pairs
      BY <1>4
    <2>2. /\ lines[p[1]].txn = orders[p[2]].txn
          /\ \A i \in p[1] + 1 .. Len(lines) : lines[i].txn # orders[p[2]].txn
      BY DEF AmountDiffs
    <2>3. /\ lines[q[1]].txn = orders[p[2]].txn
          /\ \A i \in q[1] + 1 .. Len(lines) : lines[i].txn # orders[p[2]].txn
      BY <1>7 DEF AmountDiffs
    <2>4. p[1] \in 1 .. Len(lines) /\ q[1] \in 1 .. Len(lines)
      BY <1>2, <1>5, <2>1
    <2>5. \A i, j \in 1 .. Len(lines) :
             i = j \/ j \in i + 1 .. Len(lines) \/ i \in j + 1 .. Len(lines)
      BY <1>2
    <2>6. p[1] = q[1]
      BY <2>2, <2>3, <2>4, <2>5
    <2>. QED
      BY <1>5, <1>7, <2>1, <2>6
  <1>8. \A q \in diffs : q[2] \notin Orders(exact \cup fuzzy)
    BY <1>5 DEF AmountDiffs
  <1>9. \A p \in prnDiff : p[2] \in Orders(exact \cup fuzzy)
    BY DEF Orders
  <1>10. \A p \in prnDiff \cup diffs : p[2] \in Orders(exact \cup fuzzy \cup diffs)
    BY DEF Orders
  <1>11. Unused(lines, exact) \subseteq DOMAIN lines
    BY DEF Unused
  <1>. HIDE DEF prn, exact, fuzzy, prnDiff, diffs, r, pairs
  <1>12. \A p, q \in prnDiff \cup diffs : p[2] = q[2] => p = q
    BY <1>6, <1>7, <1>8, <1>9
  <1>13. /\ r.bankOnly \subseteq DOMAIN lines
         /\ r.platformOnly \subseteq DOMAIN orders
         /\ r.prnDiff \cup r.amountDiff \subseteq pairs
         /\ \A p, q \in r.prnDiff \cup r.amountDiff : p[2] = q[2] => p = q
         /\ \A p \in r.prnDiff \cup r.amountDiff : p[2] \notin r.platformOnly
    BY <1>1, <1>3, <1>4, <1>10, <1>11, <1>12
  <1>. QED
    BY <1>13 DEF r, pairs

\* A list in which every order, and every line without an order, occurs once.
LEMMA ListBound ==
    ASSUME NEW n \in Nat, NEW m \in Nat, NEW S,
           \A d \in S : /\ d.line \in 0 .. m /\ d.order \in 0 .. n
                        /\ d.order # 0 \/ d.line # 0,
           \A d, e \in S : d.order = e.order /\ (d.order # 0 \/ d.line = e.line) => d = e
    PROVE  IsFiniteSet(S) /\ Cardinality(S) <= n + m
  <1>. DEFINE f == [d \in S |-> IF d.order = 0 THEN n + d.line ELSE d.order]
  <1>1. f \in [S -> 1 .. n + m]
    OBVIOUS
  <1>2. \A d, e \in S : f[d] = f[e] => d = e
    OBVIOUS
  <1>3. f \in Injection(S, 1 .. n + m)
    BY <1>1, <1>2 DEF Injection, IsInjective
  <1>4. IsFiniteSet(1 .. n + m) /\ Cardinality(1 .. n + m) = n + m
    <2>1. PICK k \in Nat : k = n + m
      OBVIOUS
    <2>2. IsFiniteSet(1 .. k) /\ Cardinality(1 .. k) = IF 1 > k THEN 0 ELSE k - 1 + 1
      BY FS_Interval
    <2>3. IsFiniteSet(1 .. k) /\ Cardinality(1 .. k) = k
      BY <2>2
    <2>. QED
      BY <2>1, <2>3
  <1>5. \E g : g \in Injection(S, 1 .. n + m)
    BY <1>3
  <1>6. ASSUME NEW T, IsFiniteSet(T), NEW g \in Injection(S, T)
        PROVE  IsFiniteSet(S) /\ Cardinality(S) <= Cardinality(T)
    BY <1>6, FS_Injection
  <1>. QED
    BY <1>4, <1>5, <1>6


\* A list the task may hand to bulk_create.
Creatable(S) ==
    /\ IsFiniteSet(S) /\ Cardinality(S) <= Len(Differences)
    /\ \A d \in S : d.bank \in Nat /\ d.platform \in Nat

LEMMA DifferencesMade ==
    \A i, j, b, p : /\ Difference(i, j, b, p).line = i /\ Difference(i, j, b, p).order = j
                    /\ Difference(i, j, b, p).bank = b /\ Difference(i, j, b, p).platform = p
  BY DEF Difference

LEMMA Lengths ==
    /\ MaxItems \in Nat /\ Len(Differences) \in Nat
    /\ DOMAIN Differences = 1 .. Len(Differences)
    /\ \A n, m \in Nat : n <= MaxItems /\ m <= MaxItems => n + m <= Len(Differences)
  <1>1. Differences \in Seq(Range(Differences)) /\ MaxItems \in Nat
        /\ 2 * MaxItems <= Len(Differences)
    BY ReconciliationParameters
  <1>2. Len(Differences) \in Nat /\ DOMAIN Differences = 1 .. Len(Differences)
    BY <1>1
  <1>. QED
    BY <1>1, <1>2

LEMMA DifferingCreatable ==
    ASSUME statement \in Seq(Item), collected \in Seq(Item),
           Len(statement) <= MaxItems, Len(collected) <= MaxItems
    PROVE  Creatable(Differing(Report(statement, collected)))
  <1>. DEFINE r == Report(statement, collected)
              m == Len(statement)
              n == Len(collected)
              S == Differing(r)
  <1>1. /\ r.bankOnly \subseteq DOMAIN statement
        /\ r.platformOnly \subseteq DOMAIN collected
        /\ r.prnDiff \cup r.amountDiff \subseteq (DOMAIN statement) \X (DOMAIN collected)
        /\ \A p, q \in r.prnDiff \cup r.amountDiff : p[2] = q[2] => p = q
        /\ \A p \in r.prnDiff \cup r.amountDiff : p[2] \notin r.platformOnly
    BY ReportShape
  <1>2. /\ m \in Nat /\ n \in Nat
        /\ DOMAIN statement = 1 .. m /\ DOMAIN collected = 1 .. n
    OBVIOUS
  <1>3. /\ \A i \in 1 .. m : statement[i].amount \in Nat
        /\ \A j \in 1 .. n : collected[j].amount \in Nat
    <2>1. /\ \A i \in 1 .. m : statement[i] \in Item
          /\ \A j \in 1 .. n : collected[j] \in Item
      BY <1>2
    <2>2. \A x \in Item : x.amount \in Nat
      BY MatchingParameters DEF Item
    <2>. QED
      BY <2>1, <2>2
  <1>. DEFINE Alone(i) == Difference(i, 0, statement[i].amount, 0)
              Missing(j) == Difference(0, j, 0, collected[j].amount)
              Both(p) == Difference(p[1], p[2], statement[p[1]].amount, collected[p[2]].amount)
  <1>. HIDE DEF r
  <1>4. S = {Alone(i) : i \in r.bankOnly} \cup {Missing(j) : j \in r.platformOnly}
            \cup {Both(p) : p \in r.prnDiff \cup r.amountDiff}
    BY DEF Differing
  <1>5. /\ \A i : /\ Alone(i).line = i /\ Alone(i).order = 0
                  /\ Alone(i).bank = statement[i].amount /\ Alone(i).platform = 0
        /\ \A j : /\ Missing(j).line = 0 /\ Missing(j).order = j
                  /\ Missing(j).bank = 0 /\ Missing(j).platform = collected[j].amount
        /\ \A p : /\ Both(p).line = p[1] /\ Both(p).order = p[2]
                  /\ Both(p).bank = statement[p[1]].amount
                  /\ Both(p).platform = collected[p[2]].amount
    BY DifferencesMade
  <1>6. /\ \A i \in r.bankOnly : i \in 1 .. m
        /\ \A j \in r.platformOnly : j \in 1 .. n
        /\ \A p \in r.prnDiff \cup r.amountDiff : p[1] \in 1 .. m /\ p[2] \in 1 .. n
    BY <1>1, <1>2
  <1>. DEFINE IsAlone(d) == \E i \in r.bankOnly : d = Alone(i) /\ d.line = i /\ d.order = 0
              IsMissing(d) == \E j \in r.platformOnly : d = Missing(j) /\ d.line = 0 /\ d.order = j
              IsBoth(d) == \E p \in r.prnDiff \cup r.amountDiff :
                              d = Both(p) /\ d.line = p[1] /\ d.order = p[2]
  <1>. HIDE DEF Alone, Missing, Both, m, n
  <1>7. \A d \in S : /\ IsAlone(d) \/ IsMissing(d) \/ IsBoth(d)
                     /\ d.bank \in Nat /\ d.platform \in Nat
    <2>. SUFFICES ASSUME NEW d \in S
                  PROVE  /\ IsAlone(d) \/ IsMissing(d) \/ IsBoth(d)
                         /\ d.bank \in Nat /\ d.platform \in Nat
      OBVIOUS
    <2>1. CASE \E i \in r.bankOnly : d = Alone(i)
      <3>1. PICK i \in r.bankOnly : d = Alone(i)
        BY <2>1
      <3>2. IsAlone(d)
        BY <3>1, <1>5
      <3>3. d.bank = statement[i].amount /\ d.platform = 0
        BY <3>1, <1>5
      <3>4. i \in 1 .. m /\ statement[i].amount \in Nat
        BY <1>3, <1>6
      <3>5. d.bank \in Nat /\ d.platform \in Nat
        BY <3>3, <3>4
      <3>. QED
        BY <3>2, <3>5
    <2>2. CASE \E j \in r.platformOnly : d = Missing(j)
      <3>1. PICK j \in r.platformOnly : d = Missing(j)
        BY <2>2
      <3>2. IsMissing(d)
        BY <3>1, <1>5
      <3>3. d.bank = 0 /\ d.platform = collected[j].amount
        BY <3>1, <1>5
      <3>4. j \in 1 .. n /\ collected[j].amount \in Nat
        BY <1>3, <1>6
      <3>5. d.bank \in Nat /\ d.platform \in Nat
        BY <3>3, <3>4
      <3>. QED
        BY <3>2, <3>5
    <2>3. CASE \E p \in r.prnDiff \cup r.amountDiff : d = Both(p)
      <3>1. PICK p \in r.prnDiff \cup r.amountDiff : d = Both(p)
        BY <2>3
      <3>2. IsBoth(d)
        BY <3>1, <1>5
      <3>3. d.bank = statement[p[1]].amount /\ d.platform = collected[p[2]].amount
        BY <3>1, <1>5
      <3>4. p[1] \in 1 .. m /\ p[2] \in 1 .. n
        BY <1>6
      <3>5. d.bank \in Nat /\ d.platform \in Nat
        BY <1>3, <3>3, <3>4
      <3>. QED
        BY <3>2, <3>5
    <2>. QED
      BY <2>1, <2>2, <2>3, <1>4
  <1>. HIDE DEF S
  <1>8. \A d \in S : d.line \in 0 .. m /\ d.order \in 0 .. n /\ (d.order # 0 \/ d.line # 0)
    <2>. SUFFICES ASSUME NEW d \in S
                  PROVE  /\ d.line \in 0 .. m /\ d.order \in 0 .. n
                         /\ d.order # 0 \/ d.line # 0
      OBVIOUS
    <2>1. \/ d.line \in 1 .. m /\ d.order = 0
          \/ d.line = 0 /\ d.order \in 1 .. n
          \/ d.line \in 1 .. m /\ d.order \in 1 .. n
      BY <1>6, <1>7
    <2>. QED
      BY <1>2, <2>1
  <1>9. ASSUME NEW d \in S, NEW e \in S, d.order = e.order, d.order # 0 \/ d.line = e.line
        PROVE  d = e
    <2>1. CASE IsAlone(d)
      <3>1. d.order = 0
        BY <2>1
      <3>2. IsAlone(e)
        BY <3>1, <1>2, <1>6, <1>7, <1>9
      <3>. QED
        BY <2>1, <3>1, <3>2, <1>9
    <2>2. CASE IsMissing(d)
      <3>1. d.order # 0 /\ d.order \in r.platformOnly
        BY <2>2, <1>2, <1>6
      <3>2. IsMissing(e)
        BY <3>1, <1>1, <1>7, <1>9
      <3>. QED
        BY <2>2, <3>2, <1>9
    <2>3. CASE IsBoth(d)
      <3>1. d.order # 0 /\ d.order \notin r.platformOnly
        BY <2>3, <1>1, <1>2, <1>6
      <3>2. IsBoth(e)
        BY <3>1, <1>7, <1>9
      <3>. QED
        BY <2>3, <3>2, <1>1, <1>9
    <2>. QED
      BY <2>1, <2>2, <2>3, <1>7
  <1>10. IsFiniteSet(S) /\ Cardinality(S) <= n + m
    BY <1>2, <1>8, <1>9, ListBound
  <1>11. n + m <= Len(Differences)
    BY <1>2, Lengths DEF n, m
  <1>12. \A d \in S : d.bank \in Nat /\ d.platform \in Nat
    BY <1>7
  <1>13. Cardinality(S) \in Nat
    BY <1>10, FS_CardinalityType
  <1>14. Creatable(S)
    BY <1>2, <1>10, <1>11, <1>12, <1>13, Lengths DEF Creatable
  <1>. QED
    BY <1>14 DEF S, r

\* The settlement fund's list.
LEMMA UnsettledCreatable ==
    ASSUME collected \in Seq(Item), Len(collected) <= MaxItems,
           NEW unsettled \in SUBSET DOMAIN collected
    PROVE  Creatable({Difference(0, j, collected[j].amount, collected[j].amount) :
                         j \in unsettled})
  <1>. DEFINE Row(j) == Difference(0, j, collected[j].amount, collected[j].amount)
              S == {Row(j) : j \in unsettled}
              n == Len(collected)
  <1>1. n \in Nat /\ DOMAIN collected = 1 .. n
    OBVIOUS
  <1>2. \A j \in unsettled : j \in 1 .. n /\ collected[j].amount \in Nat
    <2>1. \A j \in unsettled : j \in 1 .. n /\ collected[j] \in Item
      BY <1>1
    <2>2. \A x \in Item : x.amount \in Nat
      BY MatchingParameters DEF Item
    <2>. QED
      BY <2>1, <2>2
  <1>3. \A j : /\ Row(j).line = 0 /\ Row(j).order = j
               /\ Row(j).bank = collected[j].amount /\ Row(j).platform = collected[j].amount
    BY DifferencesMade
  <1>4. \A d \in S : \E j \in unsettled : d = Row(j)
    OBVIOUS
  <1>. HIDE DEF S, Row, n
  <1>5. \A d \in S : d.line \in 0 .. 0 /\ d.order \in 0 .. n /\ (d.order # 0 \/ d.line # 0)
    BY <1>1, <1>2, <1>3, <1>4
  <1>6. \A d, e \in S : d.order = e.order /\ (d.order # 0 \/ d.line = e.line) => d = e
    BY <1>3, <1>4
  <1>7. IsFiniteSet(S) /\ Cardinality(S) <= n + 0
    BY <1>1, <1>5, <1>6, ListBound
  <1>8. Cardinality(S) \in Nat
    BY <1>7, FS_CardinalityType
  <1>9. n + 0 <= Len(Differences)
    BY <1>1, Lengths DEF n
  <1>10. Creatable(S)
    BY <1>1, <1>2, <1>3, <1>4, <1>7, <1>8, <1>9, Lengths DEF Creatable
  <1>. QED
    BY <1>10 DEF S, Row


-----------------------------------------------------------------------------
LEMMA Typed ==
    ASSUME TypeInv
    PROVE  /\ nostro \in [Accounts -> NostroRow] /\ va \in [Vas -> VaRow]
           /\ job \in [Workers -> JobType] /\ recharged \in [Accounts -> Nat]
           /\ overlapped \subseteq Accounts \cup Vas /\ admin \in Nat
           /\ app \in [Applications -> AppRow] /\ granted \in [Applications -> Nat]
           /\ posted \in [Applications -> Nat] /\ writeOff \in [WriteOffs -> WriteOffRow]
           /\ credited \in [WriteOffs -> Nat] /\ written \in [WriteOffs -> Int]
           /\ drawn \subseteq Accounts /\ contested \subseteq Subjects
           /\ diff \in Seq(DiffRow)
           /\ asked \in [Range(Differences) -> Nat] /\ filed \in [Range(Differences) -> Nat]
  BY DEF TypeInv, RowsTyped, BooksTypeOK, AdjustTypeOK, JobType

LEMMA StepNames ==
    /\ AppSteps \subseteq Steps /\ WriteOffSteps \subseteq Steps /\ DiffSteps \subseteq Steps
    /\ AppSteps \cap WriteOffSteps = {} /\ AppSteps \cap DiffSteps = {}
    /\ WriteOffSteps \cap DiffSteps = {}
    /\ "idle" \notin AppSteps \cup WriteOffSteps \cup DiffSteps
    /\ "idle" \in Steps /\ Steps = {"idle"} \cup AppSteps \cup WriteOffSteps \cup DiffSteps
    /\ AdjustSteps = AppSteps \cup WriteOffSteps
  BY DEF Steps, AdjustSteps, AppSteps, WriteOffSteps, DiffSteps

LEMMA Entering ==
    ASSUME TypeInv, NEW w \in Workers, NEW s \in Steps,
           NEW row \in Accounts \cup Vas \cup Subjects, NEW n \in Int, Enter(w, s, row, n)
    PROVE  /\ job' \in [Workers -> JobType]
           /\ job[w].at = "idle"
           /\ job'[w].at = s /\ job'[w].on = row
           /\ \A u \in Workers : u # w => job'[u] = job[u]
  <1>1. job \in [Workers -> JobType]
    BY Typed
  <1>2. [at |-> s, on |-> row, seen |-> n] \in JobType
    BY DEF JobType, Job
  <1>3. job' = [job EXCEPT ![w] = [at |-> s, on |-> row, seen |-> n]] /\ job[w].at = "idle"
    BY DEF Enter
  <1>. QED
    BY <1>1, <1>2, <1>3

LEMMA Beginning ==
    ASSUME TypeInv, NEW w \in Workers, NEW s \in Steps,
           NEW row \in Accounts \cup Vas \cup Subjects, Begin(w, s, row)
    PROVE  /\ job' \in [Workers -> JobType]
           /\ job[w].at = "idle"
           /\ job'[w].at = s /\ job'[w].on = row
           /\ \A u \in Workers : u # w => job'[u] = job[u]
  BY Entering DEF Begin

LEMMA Going ==
    ASSUME TypeInv, NEW w \in Workers, NEW s \in Steps, Go(w, s)
    PROVE  /\ job' \in [Workers -> JobType]
           /\ job'[w].at = s /\ job'[w].on = job[w].on
           /\ \A u \in Workers : u # w => job'[u] = job[u]
  <1>1. job \in [Workers -> JobType] /\ job[w] \in JobType
    BY Typed
  <1>2. [job[w] EXCEPT !.at = s] \in JobType
    BY <1>1 DEF JobType, Job
  <1>3. job' = [job EXCEPT ![w] = [job[w] EXCEPT !.at = s]]
    BY <1>1 DEF Go
  <1>4. job'[w] = [job[w] EXCEPT !.at = s]
    BY <1>1, <1>3
  <1>5. job'[w].at = s /\ job'[w].on = job[w].on
    BY <1>1, <1>4 DEF JobType, Job
  <1>. QED
    BY <1>1, <1>2, <1>3, <1>5

LEMMA Returning ==
    ASSUME TypeInv, NEW w \in Workers, Return(w)
    PROVE  /\ job' \in [Workers -> JobType]
           /\ job'[w].at = "idle" /\ job'[w].on = "none"
           /\ \A u \in Workers : u # w => job'[u] = job[u]
  <1>1. job \in [Workers -> JobType]
    BY Typed
  <1>2. Idle \in JobType /\ Idle.at = "idle" /\ Idle.on = "none"
    BY StepNames DEF Idle, JobType, Job
  <1>. QED
    BY <1>1, <1>2 DEF Return

\* Jobs keep their kinds of rows.
LEMMA RowsKept ==
    ASSUME TypeInv, NEW w \in Workers, Listed \subseteq Listed',
           \A u \in Workers : u # w => job'[u] = job[u],
           \/ job'[w].at = "idle"
           \/ job'[w].at \in AppSteps /\ job'[w].on \in Applications
           \/ job'[w].at \in WriteOffSteps /\ job'[w].on \in WriteOffs
           \/ job'[w].at \in DiffSteps /\ job'[w].on \in Listed
    PROVE  JobsInv'
  BY StepNames DEF TypeInv, JobsInv

LEMMA OnRows ==
    ASSUME TypeInv, NEW w \in Workers
    PROVE  /\ job[w].at \in AppSteps => job[w].on \in Applications
           /\ job[w].at \in WriteOffSteps => job[w].on \in WriteOffs
           /\ job[w].at \in DiffSteps => job[w].on \in Listed
  BY DEF TypeInv, JobsInv

LEMMA RowKinds ==
    ASSUME TypeInv
    PROVE  /\ Listed \subseteq Range(Differences)
           /\ Range(Differences) \subseteq Subjects /\ Applications \subseteq Subjects
           /\ WriteOffs \subseteq Subjects
           /\ Range(Differences) \cap Applications = {}
           /\ Range(Differences) \cap WriteOffs = {}
           /\ Applications \cap WriteOffs = {}
           /\ "none" \notin Subjects
  <1>1. /\ diff \in Seq(DiffRow) /\ Len(diff) <= Len(Differences)
        /\ DOMAIN Differences = 1 .. Len(Differences) /\ Len(Differences) \in Nat
    BY Lengths DEF TypeInv, RowsTyped, SizesInv
  <1>2. DOMAIN diff \subseteq DOMAIN Differences
    BY <1>1
  <1>3. Listed \subseteq Range(Differences)
    BY <1>2 DEF Listed, Range
  <1>. QED
    BY <1>3, ReconciliationParameters

LEMMA Placed ==
    ASSUME TypeInv, NEW d \in Listed
    PROVE  Place(d) \in DOMAIN diff /\ Differences[Place(d)] = d /\ diff[Place(d)] \in DiffRow
  <1>1. \E k \in DOMAIN diff : Differences[k] = d
    BY DEF Listed
  <1>2. Place(d) \in DOMAIN diff /\ Differences[Place(d)] = d
    BY <1>1 DEF Place
  <1>. QED
    BY <1>2, Typed

\* A handler leaves the task, but for the batch, and the books, but for balances,
\* alone.
LEMMA TypeKept ==
    ASSUME TypeInv, nostro' \in [Accounts -> NostroRow], job' \in [Workers -> JobType],
           UNCHANGED <<va, recharged, overlapped, admin>>, AdjustTypeOK',
           UNCHANGED <<statement, collected, run, listed>>,
           batch' = batch \/ batch' = "RESOLVED",
           diff' \in Seq(DiffRow), Len(diff') = Len(diff), diff = << >> => diff' = << >>,
           asked' \in [Range(Differences) -> Nat], filed' \in [Range(Differences) -> Nat],
           JobsInv'
    PROVE  TypeInv'
  <1>1. BooksTypeOK(Steps)'
    BY DEF TypeInv, RowsTyped, BooksTypeOK, JobType
  <1>2. RowsTyped'
    BY <1>1 DEF TypeInv, RowsTyped
  <1>3. SizesInv'
    BY DEF TypeInv, SizesInv
  <1>. QED
    BY <1>2, <1>3 DEF TypeInv

LEMMA AppsKept ==
    ASSUME TypeInv, job' \in [Workers -> JobType], JobsInv',
           nostro' \in [Accounts -> NostroRow],
           UNCHANGED <<va, recharged, overlapped, admin>>, UNCHANGED taskVars,
           UNCHANGED diffVars, AdjustTypeOK'
    PROVE  TypeInv'
  <1>1. UNCHANGED <<diff, asked, filed>> /\ UNCHANGED <<statement, collected, run, batch, listed>>
    BY DEF diffVars, taskVars
  <1>. QED
    BY <1>1, Typed, TypeKept


-----------------------------------------------------------------------------
\* Jobs at steps of S do not change; rows once contested stay so.
Quiet(S) == \A w \in Workers : job[w].at \in S \/ job'[w].at \in S => job'[w] = job[w]

Contests == contested \subseteq contested'

\* One worker at most is at steps of S for a row.
Alone(row, S) ==
    \A u, w \in Workers : /\ job[u].at \in S /\ job[u].on = row
                          /\ job[w].at \in S /\ job[w].on = row
                          => u = w

-----------------------------------------------------------------------------
\* The approvals of an application cover its postings and those under way.
Posting(a) == {w \in Workers : job[w].at = "postApp" /\ job[w].on = a}

Covered(a) ==
    IsFiniteSet(Posting(a)) /\ posted[a] + Cardinality(Posting(a)) <= granted[a]

\* What each step of a handler finds, for an application nobody contests.
AppSound(j, a) ==
    /\ j.at \in {"approveApp", "rejectApp", "updateApp", "cancelApp"}
          => app[a].status = "pending" /\ posted[a] = 0
    /\ j.at = "destroyApp" => app[a].status \in {"pending", "cancelled"} /\ posted[a] = 0
    /\ j.at = "postApp" => app[a].status = "approved" /\ posted[a] = 0
    /\ j.at = "completeApp" =>
          /\ app[a].status = "approved"
          /\ ~ PostsNothing(a) => posted[a] = 1

Settled(a) ==
    /\ posted[a] <= 1
    /\ app[a].status = "completed" /\ ~ PostsNothing(a) => posted[a] = 1
    /\ posted[a] = 1 => app[a].status = "completed" \/ Locked(a, {"completeApp"})

OneApp(a) ==
    a \notin contested =>
        /\ Alone(a, AppSteps)
        /\ Settled(a)
        /\ \A w \in Workers : job[w].at \in AppSteps /\ job[w].on = a => AppSound(job[w], a)

AppInv == \A a \in Applications : Covered(a) /\ OneApp(a)

\* A step that leaves an application alone, or creates it.
LEMMA AppStays ==
    ASSUME NEW a \in Applications, Covered(a), OneApp(a), a \in contested => a \in contested',
           posted'[a] = posted[a], granted'[a] = granted[a], posted[a] \in Nat,
           \/ app'[a] = app[a]
           \/ app[a].status = "none" /\ (app'[a].status = "pending" \/ a \in contested'),
           \A w \in Workers :
               \/ job[w].at \in AppSteps /\ job[w].on = a
               \/ job'[w].at \in AppSteps /\ job'[w].on = a
               => job'[w] = job[w]
    PROVE  Covered(a)' /\ OneApp(a)'
  <1>1. Covered(a)'
    <2>1. Posting(a)' = Posting(a)
      BY DEF Posting, AppSteps
    <2>. QED
      BY <2>1 DEF Covered
  <1>2. ASSUME a \notin contested'
        PROVE  /\ Alone(a, AppSteps)'
               /\ Settled(a)'
               /\ \A w \in Workers :
                     job'[w].at \in AppSteps /\ job'[w].on = a => AppSound(job[w], a)'
    <2>1. /\ Alone(a, AppSteps) /\ Settled(a)
          /\ \A w \in Workers : job[w].at \in AppSteps /\ job[w].on = a => AppSound(job[w], a)
      BY <1>2 DEF OneApp
    <2>2. Alone(a, AppSteps)'
      BY <2>1 DEF Alone
    <2>3. Locked(a, {"completeApp"})' <=> Locked(a, {"completeApp"})
      BY DEF Locked, AppSteps
    <2>4. CASE app'[a] = app[a]
      <3>1. Settled(a)'
        BY <2>1, <2>3, <2>4 DEF Settled, PostsNothing
      <3>2. ASSUME NEW w \in Workers, job'[w].at \in AppSteps, job'[w].on = a
            PROVE  AppSound(job[w], a)'
        <4>1. job'[w] = job[w] /\ AppSound(job[w], a)
          BY <2>1, <3>2
        <4>. QED
          BY <2>4, <4>1 DEF AppSound, PostsNothing
      <3>. QED
        BY <2>2, <3>1, <3>2
    <2>5. CASE app[a].status = "none" /\ (app'[a].status = "pending" \/ a \in contested')
      <3>1. \A w \in Workers : ~ (job[w].at \in AppSteps /\ job[w].on = a)
        BY <2>1, <2>5 DEF AppSound, AppSteps
      <3>2. posted[a] # 1
        BY <2>1, <2>5, <3>1 DEF Settled, Locked, AppSteps
      <3>3. Settled(a)'
        BY <1>2, <2>1, <2>5, <3>2 DEF Settled
      <3>. QED
        BY <2>2, <3>1, <3>3
    <2>. QED
      BY <2>4, <2>5
  <1>. QED
    BY <1>1, <1>2 DEF OneApp

\* The applications a step is not about.
LEMMA AppFrame ==
    ASSUME TypeInv, AppInv, Contests, UNCHANGED <<posted, granted>>,
           \A a \in Applications :
               \/ app'[a] = app[a]
               \/ app[a].status = "none" /\ (app'[a].status = "pending" \/ a \in contested'),
           Quiet(AppSteps)
    PROVE  AppInv'
  BY Typed, AppStays DEF AppInv, Contests, Quiet

\* The handlers of an application: a worker's job at it begins, goes on and
\* ends.
LEMMA AppOthers ==
    ASSUME TypeInv, AppInv, NEW a \in Applications, NEW w \in Workers, Contests,
           \A x \in Applications : x # a =>
               posted'[x] = posted[x] /\ granted'[x] = granted[x] /\ app'[x] = app[x],
           \A u \in Workers : u # w => job'[u] = job[u],
           job[w].at \in AppSteps => job[w].on = a,
           job'[w].at \in AppSteps => job'[w].on = a,
           Covered(a)', OneApp(a)'
    PROVE  AppInv'
  <1>. SUFFICES ASSUME NEW x \in Applications, x # a PROVE Covered(x)' /\ OneApp(x)'
    BY DEF AppInv
  <1>. QED
    BY Typed, AppStays DEF AppInv, Contests

LEMMA AppGoes ==
    ASSUME TypeInv, NEW a \in Applications, OneApp(a), NEW w \in Workers,
           job[w].at \in AppSteps, job[w].on = a, NEW s \in AppSteps, Go(w, s),
           UNCHANGED contested,
           AppSound(job[w], a) =>
               /\ AppSound(job[w], a)'
               /\ app'[a].status # "completed" /\ posted'[a] <= 1
               /\ posted'[a] = 1 => s = "completeApp"
    PROVE  OneApp(a)'
  <1>. SUFFICES ASSUME a \notin contested
                PROVE  /\ Alone(a, AppSteps)'
                       /\ Settled(a)'
                       /\ \A u \in Workers :
                             job'[u].at \in AppSteps /\ job'[u].on = a => AppSound(job[u], a)'
    BY DEF OneApp
  <1>1. /\ job'[w].at = s /\ job'[w].on = a /\ \A u \in Workers : u # w => job'[u] = job[u]
    BY Going, StepNames
  <1>2. Alone(a, AppSteps) /\ AppSound(job[w], a)
    BY DEF OneApp
  <1>3. \A u \in Workers : job'[u].at \in AppSteps /\ job'[u].on = a => u = w
    BY <1>1, <1>2 DEF Alone
  <1>4. Settled(a)'
    BY <1>1, <1>2 DEF Settled, Locked
  <1>5. \A u \in Workers : job'[u].at \in AppSteps /\ job'[u].on = a => AppSound(job[u], a)'
    BY <1>2, <1>3 DEF AppSound
  <1>. QED
    BY <1>3, <1>4, <1>5 DEF Alone

LEMMA AppReturns ==
    ASSUME TypeInv, NEW a \in Applications, OneApp(a), NEW w \in Workers,
           job[w].at \in AppSteps, job[w].on = a, Return(w), Contests,
           a \notin contested' /\ AppSound(job[w], a) =>
               /\ posted'[a] <= 1
               /\ app'[a].status = "completed" /\ ~ PostsNothing(a)' => posted'[a] = 1
               /\ posted'[a] = 1 => app'[a].status = "completed"
    PROVE  OneApp(a)'
  <1>. SUFFICES ASSUME a \notin contested'
                PROVE  /\ Alone(a, AppSteps)'
                       /\ Settled(a)'
                       /\ \A u \in Workers :
                             job'[u].at \in AppSteps /\ job'[u].on = a => AppSound(job[u], a)'
    BY DEF OneApp
  <1>1. job'[w].at = "idle" /\ \A u \in Workers : u # w => job'[u] = job[u]
    BY Returning
  <1>2. Alone(a, AppSteps) /\ AppSound(job[w], a)
    BY DEF OneApp, Contests
  <1>3. \A u \in Workers : ~ (job'[u].at \in AppSteps /\ job'[u].on = a)
    BY <1>1, <1>2, StepNames DEF Alone
  <1>4. Settled(a)'
    BY <1>2 DEF Settled
  <1>. QED
    BY <1>3, <1>4 DEF Alone

LEMMA PostingEnds ==
    ASSUME TypeInv, NEW a \in Applications, Covered(a), NEW w \in Workers,
           job'[w].at # "postApp", \A u \in Workers : u # w => job'[u] = job[u],
           \/ posted'[a] = posted[a]
           \/ job[w].at = "postApp" /\ job[w].on = a /\ posted'[a] = posted[a] + 1,
           granted'[a] = granted[a]
    PROVE  Covered(a)'
  <1>1. Posting(a)' = Posting(a) \ {w}
    BY DEF Posting
  <1>2. IsFiniteSet(Posting(a)) /\ posted[a] + Cardinality(Posting(a)) <= granted[a]
    BY DEF Covered
  <1>3. /\ IsFiniteSet(Posting(a)')
        /\ Cardinality(Posting(a)') = IF w \in Posting(a) THEN Cardinality(Posting(a)) - 1
                                                          ELSE Cardinality(Posting(a))
    <2>1. PICK S : S = Posting(a)
      OBVIOUS
    <2>2. IsFiniteSet(S \ {w}) /\ Cardinality(S \ {w}) = IF w \in S THEN Cardinality(S) - 1
                                                                     ELSE Cardinality(S)
      BY <1>2, <2>1, FS_RemoveElement
    <2>. QED
      BY <1>1, <2>1, <2>2
  <1>4. Cardinality(Posting(a)) \in Nat /\ posted[a] \in Nat /\ granted[a] \in Nat
    BY <1>2, FS_CardinalityType, Typed
  <1>5. job[w].at = "postApp" /\ job[w].on = a => w \in Posting(a)
    BY DEF Posting
  <1>6. posted'[a] + Cardinality(Posting(a)') <= granted'[a]
    BY <1>2, <1>3, <1>4, <1>5
  <1>. QED
    BY <1>3, <1>6 DEF Covered
-----------------------------------------------------------------------------
\* A handler of an application changes one job, that is at its steps.
LEMMA AppJobs ==
    ASSUME TypeInv, NEW w \in Workers, UNCHANGED diffVars,
           job[w].at \in {"idle"} \cup AppSteps, job'[w].at \in {"idle"} \cup AppSteps,
           job'[w].at \in AppSteps => job'[w].on \in Applications,
           \A u \in Workers : u # w => job'[u] = job[u]
    PROVE  JobsInv' /\ Quiet(WriteOffSteps) /\ Quiet(DiffSteps)
  <1>1. Listed \subseteq Listed'
    BY DEF Listed, diffVars
  <1>2. JobsInv'
    BY <1>1, RowsKept
  <1>3. Quiet(WriteOffSteps) /\ Quiet(DiffSteps)
    BY StepNames DEF Quiet
  <1>. QED
    BY <1>2, <1>3

LEMMA AppRows ==
    ASSUME TypeInv, NEW a \in Applications, NEW s \in AppStatuses, SetApp(a, s)
    PROVE  /\ app' \in [Applications -> AppRow]
           /\ app'[a].status = s /\ (PostsNothing(a)' <=> PostsNothing(a))
           /\ \A x \in Applications : x # a => app'[x] = app[x]
  <1>1. app \in [Applications -> AppRow] /\ app[a] \in AppRow
    BY Typed
  <1>2. app' = [app EXCEPT ![a] = [app[a] EXCEPT !.status = s]]
    BY <1>1 DEF SetApp
  <1>3. [app[a] EXCEPT !.status = s] \in AppRow
    BY <1>1 DEF AppRow
  <1>4. app'[a] = [app[a] EXCEPT !.status = s]
    BY <1>1, <1>2
  <1>5. app'[a].status = s /\ (PostsNothing(a)' <=> PostsNothing(a))
    BY <1>1, <1>4 DEF AppRow, PostsNothing
  <1>. QED
    BY <1>1, <1>2, <1>3, <1>5

AppKept == TypeInv' /\ AppInv' /\ Quiet(WriteOffSteps) /\ Quiet(DiffSteps) /\ Contests

LEMMA ReadAppKeeps ==
    ASSUME TypeInv, AppInv, NEW w \in Workers, NEW a \in Applications, ReadApp(w, a),
           UNCHANGED <<taskVars, diffVars>>
    PROVE  AppKept
  <1>1. PICK s \in AppSteps \ {"postApp", "completeApp"} :
           /\ Begin(w, s, a)
           /\ \/ Open(a)
              \/ s = "destroyApp" /\ app[a].status = "cancelled"
    BY DEF ReadApp, AppSteps
  <1>2. /\ Contest(w, a)
        /\ UNCHANGED <<nostro, va, recharged, overlapped, admin, app, granted, posted,
                       writeOff, credited, written, drawn>>
    BY DEF ReadApp, writeOffVars
  <1>3. s \in Steps /\ a \in Accounts \cup Vas \cup Subjects
    BY StepNames, RowKinds
  <1>4. /\ job' \in [Workers -> JobType] /\ job[w].at = "idle"
        /\ job'[w].at = s /\ job'[w].on = a
        /\ \A u \in Workers : u # w => job'[u] = job[u]
    BY <1>1, <1>3, Beginning
  <1>5. JobsInv' /\ Quiet(WriteOffSteps) /\ Quiet(DiffSteps)
    <2>1. UNCHANGED diffVars /\ s \in AppSteps
      OBVIOUS
    <2>. QED
      BY <1>4, <2>1, AppJobs
  <1>6. Contests /\ AdjustTypeOK'
    BY <1>2, Typed, RowKinds DEF Contest, Contests, AdjustTypeOK
  <1>7. TypeInv'
    BY <1>2, <1>4, <1>5, <1>6, Typed, AppsKept
  <1>8. Covered(a)'
    BY <1>2, <1>4, PostingEnds DEF AppInv
  <1>9. OneApp(a)'
    <2>. SUFFICES ASSUME a \notin contested'
                  PROVE  /\ Alone(a, AppSteps)'
                         /\ Settled(a)'
                         /\ \A u \in Workers :
                               job'[u].at \in AppSteps /\ job'[u].on = a => AppSound(job[u], a)'
      BY DEF OneApp
    <2>1. ~ Locked(a, AdjustSteps) /\ a \notin contested
      BY <1>2 DEF Contest
    <2>2. \A u \in Workers : ~ (job[u].at \in AppSteps /\ job[u].on = a)
      BY <2>1, StepNames DEF Locked
    <2>3. \A u \in Workers : job'[u].at \in AppSteps /\ job'[u].on = a => u = w
      BY <1>4, <2>2
    <2>4. Settled(a) /\ ~ Locked(a, {"completeApp"})
      BY <2>1, <2>2 DEF AppInv, OneApp, Locked, AppSteps
    <2>5. posted[a] \in Nat /\ app[a].status # "completed"
      BY <1>1, Typed DEF Open
    <2>6. posted[a] = 0
      BY <2>4, <2>5 DEF Settled
    <2>7. Settled(a)'
      BY <1>2, <2>5, <2>6 DEF Settled
    <2>8. AppSound(job[w], a)'
      BY <1>1, <1>2, <1>4, <2>6 DEF AppSound, Open
    <2>. QED
      BY <2>3, <2>7, <2>8 DEF Alone
  <1>10. AppInv'
    BY <1>2, <1>4, <1>6, <1>8, <1>9, StepNames, AppOthers
  <1>. QED
    BY <1>5, <1>6, <1>7, <1>10 DEF AppKept

LEMMA ApproveAppKeeps ==
    ASSUME TypeInv, AppInv, NEW w \in Workers, ApproveApp(w), UNCHANGED <<taskVars, diffVars>>
    PROVE  AppKept
  <1>1. PICK a \in Applications : a = job[w].on
    BY OnRows DEF ApproveApp, AppSteps
  <1>2. /\ job[w].at = "approveApp" /\ SetApp(a, "approved") /\ Go(w, "postApp")
        /\ granted' = [granted EXCEPT ![a] = @ + 1]
        /\ UNCHANGED <<nostro, va, recharged, overlapped, admin, posted, writeOff, credited,
                       written, drawn, contested>>
    BY <1>1 DEF ApproveApp, writeOffVars
  <1>3. /\ app' \in [Applications -> AppRow]
        /\ app'[a].status = "approved" /\ (PostsNothing(a)' <=> PostsNothing(a))
        /\ \A x \in Applications : x # a => app'[x] = app[x]
    BY <1>2, AppRows DEF AppStatuses
  <1>4. /\ job' \in [Workers -> JobType] /\ job'[w].at = "postApp" /\ job'[w].on = a
        /\ \A u \in Workers : u # w => job'[u] = job[u]
    BY <1>1, <1>2, Going DEF Steps, AdjustSteps, AppSteps
  <1>5. JobsInv' /\ Quiet(WriteOffSteps) /\ Quiet(DiffSteps)
    BY <1>1, <1>2, <1>4, AppJobs DEF AppSteps
  <1>6. /\ granted' \in [Applications -> Nat] /\ granted'[a] = granted[a] + 1
        /\ \A x \in Applications : x # a => granted'[x] = granted[x]
    <2>1. granted \in [Applications -> Nat]
      BY Typed
    <2>. QED
      BY <1>2, <2>1
  <1>7. Contests /\ AdjustTypeOK'
    BY <1>2, <1>3, <1>6, Typed DEF Contests, AdjustTypeOK
  <1>8. TypeInv'
    BY <1>2, <1>4, <1>5, <1>7, Typed, AppsKept
  <1>9. Covered(a)'
    <2>1. PICK S : S = Posting(a)
      OBVIOUS
    <2>2. Posting(a)' = S \cup {w} /\ w \notin S
      BY <1>2, <1>4, <2>1 DEF Posting
    <2>3. IsFiniteSet(S) /\ posted[a] + Cardinality(S) <= granted[a]
      BY <2>1 DEF AppInv, Covered
    <2>4. IsFiniteSet(S \cup {w}) /\ Cardinality(S \cup {w}) = Cardinality(S) + 1
      BY <2>2, <2>3, FS_AddElement
    <2>5. Cardinality(S) \in Nat /\ posted[a] \in Nat /\ granted[a] \in Nat
      BY <2>3, FS_CardinalityType, Typed
    <2>6. posted'[a] + Cardinality(Posting(a)') <= granted'[a]
      BY <1>2, <1>6, <2>2, <2>3, <2>4, <2>5
    <2>. QED
      BY <2>2, <2>4, <2>6 DEF Covered
  <1>10. OneApp(a)'
    <2>1. AppSound(job[w], a) => posted[a] = 0
      BY <1>2 DEF AppSound
    <2>2. AppSound(job[w], a) => AppSound(job[w], a)'
      BY <1>2, <1>3, <1>4, <2>1 DEF AppSound
    <2>3. OneApp(a)
      BY DEF AppInv
    <2>. QED
      BY <1>1, <1>2, <1>3, <2>1, <2>2, <2>3, AppGoes DEF AppSteps
  <1>11. AppInv'
    BY <1>1, <1>2, <1>3, <1>4, <1>6, <1>7, <1>9, <1>10, AppOthers
  <1>. QED
    BY <1>5, <1>7, <1>8, <1>11 DEF AppKept

LEMMA PostAppKeeps ==
    ASSUME TypeInv, AppInv, NEW w \in Workers, PostApp(w), UNCHANGED <<taskVars, diffVars>>
    PROVE  AppKept
  <1>1. PICK a \in Applications : a = job[w].on
    BY OnRows DEF PostApp, AppSteps
  <1>2. /\ job[w].at = "postApp"
        /\ UNCHANGED <<va, recharged, overlapped, admin, app, granted, writeOff, credited,
                       written, drawn, contested>>
    BY DEF PostApp, writeOffVars
  <1>. DEFINE Nothing == PostsNothing(a) /\ Go(w, "completeApp")
                         /\ UNCHANGED <<nostro, posted>>
              Posts == /\ ~ PostsNothing(a) /\ Suffices(a)
                       /\ nostro' = [nostro EXCEPT ![app[a].account].balance = @ + Delta(a)]
                       /\ posted' = [posted EXCEPT ![a] = @ + 1]
                       /\ Go(w, "completeApp")
              Fails == Return(w) /\ UNCHANGED <<nostro, posted>>
  <1>3. Nothing \/ Posts \/ Fails
    BY <1>1 DEF PostApp
  <1>4. posted \in [Applications -> Nat] /\ nostro \in [Accounts -> NostroRow]
        /\ app[a] \in AppRow
    BY Typed
  <1>5. /\ posted' \in [Applications -> Nat]
        /\ \A x \in Applications : x # a => posted'[x] = posted[x]
    BY <1>3, <1>4
  <1>6. nostro' \in [Accounts -> NostroRow]
    <2>1. CASE Posts
      <3>1. PICK c \in Accounts : c = app[a].account
        BY <1>4, <2>1 DEF AppRow, PostsNothing
      <3>2. nostro[c] \in NostroRow /\ app[a].sum \in Int
        BY <1>4 DEF AppRow
      <3>3. nostro[c].balance + Delta(a) \in Int
        BY <3>2 DEF Delta, NostroRow
      <3>4. [nostro[c] EXCEPT !.balance = @ + Delta(a)] \in NostroRow
        BY <3>2, <3>3 DEF NostroRow
      <3>5. nostro' = [nostro EXCEPT ![c] = [nostro[c] EXCEPT !.balance = @ + Delta(a)]]
        BY <1>4, <2>1, <3>1
      <3>. QED
        BY <1>4, <3>4, <3>5
    <2>. QED
      BY <1>3, <1>4, <2>1
  <1>7. /\ job' \in [Workers -> JobType]
        /\ \A u \in Workers : u # w => job'[u] = job[u]
        /\ \/ job'[w].at = "completeApp" /\ job'[w].on = a /\ Go(w, "completeApp")
           \/ job'[w].at = "idle" /\ Fails
    <2>1. "completeApp" \in Steps
      BY DEF Steps, AdjustSteps, AppSteps
    <2>2. CASE Go(w, "completeApp")
      BY <1>1, <2>1, <2>2, Going
    <2>3. CASE Fails
      BY <2>3, Returning
    <2>. QED
      BY <1>3, <2>2, <2>3
  <1>8. JobsInv' /\ Quiet(WriteOffSteps) /\ Quiet(DiffSteps)
    <2>1. UNCHANGED diffVars /\ "postApp" \in AppSteps /\ "completeApp" \in AppSteps
      BY DEF AppSteps
    <2>. QED
      BY <1>1, <1>2, <1>7, <2>1, StepNames, AppJobs
  <1>9. Contests /\ AdjustTypeOK'
    BY <1>2, <1>5, Typed DEF Contests, AdjustTypeOK
  <1>10. TypeInv'
    BY <1>2, <1>6, <1>7, <1>8, <1>9, Typed, AppsKept
  <1>11. Covered(a)'
    <2>1. posted'[a] = posted[a] \/ posted'[a] = posted[a] + 1
      BY <1>3, <1>4
    <2>2. job'[w].at # "postApp" /\ granted'[a] = granted[a] /\ Covered(a)
      BY <1>2, <1>7 DEF AppInv
    <2>. QED
      BY <1>1, <1>2, <1>7, <2>1, <2>2, PostingEnds
  <1>12. OneApp(a)'
    <2>1. OneApp(a) /\ job[w].at \in AppSteps /\ "completeApp" \in AppSteps
      BY <1>2 DEF AppInv, AppSteps
    <2>2. CASE Go(w, "completeApp") /\ (Nothing \/ Posts)
      <3>1. AppSound(job[w], a) =>
               /\ posted[a] = 0 /\ app[a].status = "approved" /\ posted'[a] \in {0, 1}
               /\ ~ PostsNothing(a) => posted'[a] = 1
        BY <1>2, <1>4, <2>2 DEF AppSound
      <3>2. AppSound(job[w], a) =>
               /\ AppSound(job[w], a)'
               /\ app'[a].status # "completed" /\ posted'[a] <= 1
        BY <1>2, <1>7, <2>2, <3>1, Going DEF AppSound, Steps, AdjustSteps, AppSteps, PostsNothing
      <3>. QED
        BY <1>1, <1>2, <2>1, <2>2, <3>2, AppGoes
    <2>3. CASE Fails
      <3>1. AppSound(job[w], a) => posted'[a] = 0 /\ app'[a].status = "approved"
        BY <1>2, <2>3 DEF AppSound
      <3>. QED
        BY <1>1, <1>9, <2>1, <2>3, <3>1, AppReturns
    <2>. QED
      BY <1>3, <2>2, <2>3
  <1>13. AppInv'
    <2>1. "postApp" \in AppSteps /\ "completeApp" \in AppSteps
      BY DEF AppSteps
    <2>. QED
      BY <1>1, <1>2, <1>5, <1>7, <1>9, <1>11, <1>12, <2>1, StepNames, AppOthers
  <1>. QED
    BY <1>8, <1>9, <1>10, <1>13 DEF AppKept

\* The last save of a handler, and giving a handler up.
LEMMA AppEnds ==
    ASSUME TypeInv, AppInv, NEW w \in Workers, NEW a \in Applications,
           job[w].at \in AppSteps, job[w].on = a, Return(w), Contests,
           UNCHANGED <<nostro, va, recharged, overlapped, admin, granted, posted, writeOff,
                       credited, written, drawn, taskVars, diffVars>>,
           contested' \subseteq contested \cup {a},
           app' \in [Applications -> AppRow],
           \A x \in Applications : x # a => app'[x] = app[x],
           a \notin contested' /\ AppSound(job[w], a) =>
               /\ posted'[a] <= 1
               /\ app'[a].status = "completed" /\ ~ PostsNothing(a)' => posted'[a] = 1
               /\ posted'[a] = 1 => app'[a].status = "completed"
    PROVE  AppKept
  <1>1. /\ job' \in [Workers -> JobType] /\ job'[w].at = "idle"
        /\ \A u \in Workers : u # w => job'[u] = job[u]
    BY Returning
  <1>2. UNCHANGED diffVars
    OBVIOUS
  <1>3. JobsInv' /\ Quiet(WriteOffSteps) /\ Quiet(DiffSteps)
    BY <1>1, <1>2, StepNames, AppJobs
  <1>4. AdjustTypeOK'
    BY Typed, RowKinds DEF AdjustTypeOK
  <1>5. TypeInv'
    BY <1>1, <1>3, <1>4, Typed, AppsKept
  <1>6. Covered(a) /\ OneApp(a)
    BY DEF AppInv
  <1>7. Covered(a)'
    BY <1>1, <1>6, PostingEnds
  <1>8. OneApp(a)'
    BY <1>6, AppReturns
  <1>9. AppInv'
    BY <1>1, <1>7, <1>8, AppOthers, StepNames
  <1>. QED
    BY <1>3, <1>5, <1>9 DEF AppKept

LEMMA FinishAppKeeps ==
    ASSUME TypeInv, AppInv, NEW w \in Workers, FinishApp(w), UNCHANGED <<taskVars, diffVars>>
    PROVE  AppKept
  <1>1. job[w].at \in {"completeApp", "rejectApp", "cancelApp", "destroyApp"}
    BY DEF FinishApp
  <1>2. PICK a \in Applications : a = job[w].on
    BY <1>1, OnRows DEF AppSteps
  <1>3. PICK s : s = [completeApp |-> "completed", rejectApp |-> "rejected",
                      cancelApp |-> "cancelled", destroyApp |-> "deleted"][job[w].at]
    OBVIOUS
  <1>4. /\ s \in AppStatuses /\ SetApp(a, s) /\ Return(w)
        /\ UNCHANGED <<nostro, va, recharged, overlapped, admin, granted, posted, writeOff,
                       credited, written, drawn, contested>>
    BY <1>1, <1>2, <1>3 DEF FinishApp, AppStatuses, writeOffVars
  <1>5. /\ app' \in [Applications -> AppRow]
        /\ app'[a].status = s /\ (PostsNothing(a)' <=> PostsNothing(a))
        /\ \A x \in Applications : x # a => app'[x] = app[x]
    BY <1>4, AppRows
  <1>6. AppSound(job[w], a) /\ OneApp(a) /\ a \notin contested =>
           /\ posted[a] <= 1
           /\ s = "completed" /\ ~ PostsNothing(a) => posted[a] = 1
           /\ posted[a] = 1 => s = "completed"
    BY <1>1, <1>3 DEF AppSound, OneApp, Settled
  <1>7. /\ OneApp(a) /\ job[w].at \in AppSteps /\ Contests
        /\ contested' \subseteq contested \cup {a}
    BY <1>1, <1>4 DEF AppInv, AppSteps, Contests
  <1>. QED
    BY <1>2, <1>4, <1>5, <1>6, <1>7, AppEnds

LEMMA UpdateAppKeeps ==
    ASSUME TypeInv, AppInv, NEW w \in Workers, NEW status \in FormStatuses,
           UpdateApp(w, status), UNCHANGED <<taskVars, diffVars>>
    PROVE  AppKept
  <1>1. job[w].at = "updateApp"
    BY DEF UpdateApp
  <1>2. PICK a \in Applications : a = job[w].on
    BY <1>1, OnRows DEF AppSteps
  <1>3. /\ status \in AppStatuses /\ SetApp(a, status) /\ Return(w)
        /\ contested' = IF status = "pending" THEN contested ELSE contested \cup {a}
        /\ UNCHANGED <<nostro, va, recharged, overlapped, admin, granted, posted, writeOff,
                       credited, written, drawn>>
    BY <1>1, <1>2 DEF UpdateApp, FormStatuses, writeOffVars
  <1>4. /\ app' \in [Applications -> AppRow]
        /\ app'[a].status = status
        /\ \A x \in Applications : x # a => app'[x] = app[x]
    BY <1>3, AppRows
  <1>5. a \notin contested' /\ AppSound(job[w], a) => posted[a] = 0 /\ status = "pending"
    BY <1>1, <1>3 DEF AppSound
  <1>6. /\ job[w].at \in AppSteps /\ Contests
        /\ contested' \subseteq contested \cup {a}
    BY <1>1, <1>3 DEF AppSteps, Contests
  <1>. QED
    BY <1>2, <1>3, <1>4, <1>5, <1>6, AppEnds

LEMMA AppAbandoned ==
    ASSUME TypeInv, AppInv, NEW w \in Workers, job[w].at \in AppSteps,
           AbandonAdjustment(w), UNCHANGED <<taskVars, diffVars>>
    PROVE  AppKept
  <1>1. PICK a \in Applications : a = job[w].on
    BY OnRows
  <1>2. /\ contested' = contested \cup {a} /\ Return(w)
        /\ UNCHANGED <<nostro, va, recharged, overlapped, admin, app, granted, posted,
                       writeOff, credited, written, drawn>>
    BY <1>1 DEF AbandonAdjustment, writeOffVars
  <1>3. app' \in [Applications -> AppRow] /\ Contests
    BY <1>2, Typed DEF Contests
  <1>. QED
    BY <1>1, <1>2, <1>3, AppEnds

-----------------------------------------------------------------------------
\* What is known of a write-off that nobody contests, and what each step of a
\* handler finds.
WriteOffSound(j, x) ==
    /\ j.at = "approveWriteOff" => writeOff[x].status = "PENDING"
    /\ j.at = "creditWriteOff" => writeOff[x].status = "APPROVED" /\ credited[x] = 0
    /\ j.at = "saveWriteOff" =>
          /\ writeOff[x].status = "APPROVED"
          /\ WriteOffAccount[x] # "none" => credited[x] = 1
    /\ j.at = "editWriteOff" => writeOff[x].status \in WriteOffForms

Credited(x) ==
    /\ credited[x] <= 1
    /\ writeOff[x].status = "WRITTEN_OFF" /\ WriteOffAccount[x] # "none" => credited[x] = 1
    /\ credited[x] = 1 => writeOff[x].status \in {"WRITTEN_OFF", "deleted"}
                          \/ Locked(x, {"saveWriteOff"})

OneWriteOff(x) ==
    x \notin contested =>
        /\ Alone(x, WriteOffSteps)
        /\ Credited(x)
        /\ \A w \in Workers :
              job[w].at \in WriteOffSteps /\ job[w].on = x => WriteOffSound(job[w], x)

WriteOffInv == \A x \in WriteOffs : OneWriteOff(x)

LEMMA WriteOffStays ==
    ASSUME NEW x \in WriteOffs, OneWriteOff(x), Contests,
           writeOff'[x] = writeOff[x], credited'[x] = credited[x],
           \A w \in Workers :
               \/ job[w].at \in WriteOffSteps /\ job[w].on = x
               \/ job'[w].at \in WriteOffSteps /\ job'[w].on = x
               => job'[w] = job[w]
    PROVE  OneWriteOff(x)'
  <1>. SUFFICES ASSUME x \notin contested'
                PROVE  /\ Alone(x, WriteOffSteps)'
                       /\ Credited(x)'
                       /\ \A w \in Workers : job'[w].at \in WriteOffSteps /\ job'[w].on = x
                                                 => WriteOffSound(job[w], x)'
    BY DEF OneWriteOff
  <1>1. /\ Alone(x, WriteOffSteps) /\ Credited(x)
        /\ \A w \in Workers :
              job[w].at \in WriteOffSteps /\ job[w].on = x => WriteOffSound(job[w], x)
    BY DEF OneWriteOff, Contests
  <1>2. Locked(x, {"saveWriteOff"})' <=> Locked(x, {"saveWriteOff"})
    BY DEF Locked, WriteOffSteps
  <1>3. Credited(x)'
    BY <1>1, <1>2 DEF Credited
  <1>4. \A w \in Workers : job'[w].at \in WriteOffSteps /\ job'[w].on = x
                               => WriteOffSound(job[w], x)'
    BY <1>1 DEF WriteOffSound
  <1>5. Alone(x, WriteOffSteps)'
    BY <1>1 DEF Alone
  <1>. QED
    BY <1>3, <1>4, <1>5

LEMMA WriteOffFrame ==
    ASSUME WriteOffInv, Contests, UNCHANGED <<writeOff, credited>>, Quiet(WriteOffSteps)
    PROVE  WriteOffInv'
  BY WriteOffStays DEF WriteOffInv, Quiet

LEMMA WriteOffOthers ==
    ASSUME WriteOffInv, NEW x \in WriteOffs, NEW w \in Workers, Contests,
           \A y \in WriteOffs : y # x =>
               writeOff'[y] = writeOff[y] /\ credited'[y] = credited[y],
           \A u \in Workers : u # w => job'[u] = job[u],
           job[w].at \in WriteOffSteps => job[w].on = x,
           job'[w].at \in WriteOffSteps => job'[w].on = x,
           OneWriteOff(x)'
    PROVE  WriteOffInv'
  <1>. SUFFICES ASSUME NEW y \in WriteOffs, y # x PROVE OneWriteOff(y)'
    BY DEF WriteOffInv
  <1>. QED
    BY WriteOffStays DEF WriteOffInv

LEMMA WriteOffJobs ==
    ASSUME TypeInv, NEW w \in Workers, UNCHANGED diffVars,
           job[w].at \in {"idle"} \cup WriteOffSteps,
           job'[w].at \in {"idle"} \cup WriteOffSteps,
           job'[w].at \in WriteOffSteps => job'[w].on \in WriteOffs,
           \A u \in Workers : u # w => job'[u] = job[u]
    PROVE  JobsInv' /\ Quiet(AppSteps) /\ Quiet(DiffSteps)
  <1>1. Listed \subseteq Listed'
    BY DEF Listed, diffVars
  <1>2. JobsInv'
    BY <1>1, RowsKept
  <1>3. Quiet(AppSteps) /\ Quiet(DiffSteps)
    BY StepNames DEF Quiet
  <1>. QED
    BY <1>2, <1>3

WriteOffKept ==
    TypeInv' /\ WriteOffInv' /\ Quiet(AppSteps) /\ Quiet(DiffSteps) /\ Contests

\* What the variables of the write-offs may become in a step that is about x.
WriteOffStep(x) ==
    /\ UNCHANGED <<va, recharged, overlapped, admin, app, granted, posted, taskVars, diffVars>>
    /\ nostro' \in [Accounts -> NostroRow]
    /\ writeOff' \in [WriteOffs -> WriteOffRow]
    /\ credited' \in [WriteOffs -> Nat]
    /\ written' \in [WriteOffs -> Int]
    /\ drawn' \subseteq Accounts
    /\ \A y \in WriteOffs : y # x => writeOff'[y] = writeOff[y] /\ credited'[y] = credited[y]
    /\ contested \subseteq contested'
    /\ contested' \subseteq contested \cup {x}

\* A handler of a write-off: what is left to show of it is what becomes of the
\* write-off and of its worker.
LEMMA WriteOffHandler ==
    ASSUME TypeInv, WriteOffInv, NEW w \in Workers, NEW x \in WriteOffs, WriteOffStep(x),
           job' \in [Workers -> JobType],
           \A u \in Workers : u # w => job'[u] = job[u],
           job[w].at \in {"idle"} \cup WriteOffSteps,
           job'[w].at \in {"idle"} \cup WriteOffSteps,
           job[w].at \in WriteOffSteps => job[w].on = x,
           job'[w].at \in WriteOffSteps => job'[w].on = x,
           OneWriteOff(x)'
    PROVE  WriteOffKept
  <1>1. UNCHANGED diffVars /\ UNCHANGED taskVars /\ Contests
    BY DEF WriteOffStep, Contests
  <1>2. JobsInv' /\ Quiet(AppSteps) /\ Quiet(DiffSteps)
    BY <1>1, WriteOffJobs
  <1>3. AdjustTypeOK'
    BY Typed, RowKinds DEF AdjustTypeOK, WriteOffStep
  <1>4. TypeInv'
    BY <1>1, <1>2, <1>3, Typed, AppsKept DEF WriteOffStep
  <1>5. WriteOffInv'
    BY <1>1, WriteOffOthers DEF WriteOffStep
  <1>. QED
    BY <1>1, <1>2, <1>4, <1>5 DEF WriteOffKept

\* A handler of a write-off that no worker is in the middle of.
LEMMA WriteOffAtOnce ==
    ASSUME TypeInv, WriteOffInv, NEW x \in WriteOffs, WriteOffStep(x), job' = job,
           OneWriteOff(x)'
    PROVE  WriteOffKept
  <1>1. UNCHANGED diffVars /\ UNCHANGED taskVars /\ Contests
    BY DEF WriteOffStep, Contests
  <1>2. Quiet(AppSteps) /\ Quiet(WriteOffSteps) /\ Quiet(DiffSteps)
    BY DEF Quiet
  <1>3. Listed' = Listed
    BY <1>1 DEF Listed, diffVars
  <1>4. JobsInv'
    BY <1>3 DEF TypeInv, JobsInv
  <1>5. AdjustTypeOK'
    BY Typed, RowKinds DEF AdjustTypeOK, WriteOffStep
  <1>6. TypeInv'
    BY <1>1, <1>4, <1>5, Typed, AppsKept DEF WriteOffStep
  <1>7. ASSUME NEW y \in WriteOffs, y # x
        PROVE  OneWriteOff(y)'
    BY <1>1, <1>7, WriteOffStays DEF WriteOffInv, WriteOffStep
  <1>8. WriteOffInv'
    BY <1>7 DEF WriteOffInv
  <1>. QED
    BY <1>1, <1>2, <1>6, <1>8 DEF WriteOffKept

\* A worker remembers an amount.
LEMMA SeenTyped ==
    ASSUME TypeInv, NEW w \in Workers PROVE job[w].seen \in Int
  BY Typed DEF JobType, Job

\* The row of a write-off is written by its handlers alone.
LEMMA RowWritten ==
    ASSUME TypeInv, NEW x \in WriteOffs, NEW status \in WriteOffForms \cup {"deleted"},
           NEW sum \in Int,
           writeOff' = [writeOff EXCEPT ![x] = [status |-> status, sum |-> sum]]
    PROVE  /\ writeOff' \in [WriteOffs -> WriteOffRow] /\ writeOff'[x].status = status
           /\ \A y \in WriteOffs : y # x => writeOff'[y] = writeOff[y]
  <1>1. writeOff \in [WriteOffs -> WriteOffRow]
    BY Typed
  <1>2. [status |-> status, sum |-> sum] \in WriteOffRow
    BY DEF WriteOffRow
  <1>. QED
    BY <1>1, <1>2

LEMMA StatusWritten ==
    ASSUME TypeInv, NEW x \in WriteOffs, NEW status \in WriteOffForms \cup {"deleted"},
           writeOff' = [writeOff EXCEPT ![x].status = status]
    PROVE  /\ writeOff' \in [WriteOffs -> WriteOffRow] /\ writeOff'[x].status = status
           /\ \A y \in WriteOffs : y # x => writeOff'[y] = writeOff[y]
  <1>1. writeOff \in [WriteOffs -> WriteOffRow] /\ writeOff[x] \in WriteOffRow
    BY Typed
  <1>2. writeOff' = [writeOff EXCEPT ![x] = [writeOff[x] EXCEPT !.status = status]]
    BY <1>1
  <1>3. [writeOff[x] EXCEPT !.status = status] \in WriteOffRow
    BY <1>1 DEF WriteOffRow
  <1>4. [writeOff[x] EXCEPT !.status = status].status = status
    BY <1>1 DEF WriteOffRow
  <1>. QED
    BY <1>1, <1>2, <1>3, <1>4

\* A row that does not exist yet was not credited, and nobody is at it.
LEMMA CreateWriteOffKeeps ==
    ASSUME TypeInv, WriteOffInv, NEW x \in WriteOffs, NEW status \in WriteOffForms,
           NEW sum \in WriteOffSums, CreateWriteOff(x, status, sum),
           UNCHANGED <<taskVars, diffVars>>
    PROVE  WriteOffKept
  <1>1. /\ writeOff[x].status = "none"
        /\ writeOff' = [writeOff EXCEPT ![x] = [status |-> status, sum |-> sum]]
        /\ contested' = IF status = "PENDING" THEN contested ELSE contested \cup {x}
        /\ UNCHANGED <<nostro, va, job, recharged, overlapped, admin, app, granted, posted,
                       credited, written, drawn>>
    BY DEF CreateWriteOff, bookVars
  <1>2. sum \in Int
    BY AdjustmentParameters
  <1>3. /\ writeOff' \in [WriteOffs -> WriteOffRow] /\ writeOff'[x].status = status
        /\ \A y \in WriteOffs : y # x => writeOff'[y] = writeOff[y]
    BY <1>1, <1>2, RowWritten
  <1>4. WriteOffStep(x)
    BY <1>1, <1>3, Typed DEF WriteOffStep
  <1>5. OneWriteOff(x)'
    <2>. SUFFICES ASSUME x \notin contested'
                  PROVE  /\ Credited(x)'
                         /\ \A u \in Workers : ~ (job[u].at \in WriteOffSteps /\ job[u].on = x)
      BY <1>1 DEF OneWriteOff, Alone
    <2>1. /\ status = "PENDING" /\ Credited(x)
          /\ \A u \in Workers :
                job[u].at \in WriteOffSteps /\ job[u].on = x => WriteOffSound(job[u], x)
      BY <1>1 DEF WriteOffInv, OneWriteOff
    <2>2. \A u \in Workers : ~ (job[u].at \in WriteOffSteps /\ job[u].on = x)
      BY <1>1, <2>1 DEF WriteOffSound, WriteOffSteps, WriteOffForms
    <2>3. credited[x] # 1 /\ credited[x] <= 1
      BY <1>1, <2>1, <2>2 DEF Credited, Locked, WriteOffSteps
    <2>4. Credited(x)'
      BY <1>1, <1>3, <2>1, <2>3 DEF Credited
    <2>. QED
      BY <2>2, <2>4
  <1>. QED
    BY <1>1, <1>4, <1>5, WriteOffAtOnce

\* A row that is deleted while nobody is at it keeps what it was credited.
LEMMA DeleteWriteOffKeeps ==
    ASSUME TypeInv, WriteOffInv, NEW x \in WriteOffs, DeleteWriteOff(x),
           UNCHANGED <<taskVars, diffVars>>
    PROVE  WriteOffKept
  <1>1. /\ writeOff' = [writeOff EXCEPT ![x].status = "deleted"]
        /\ contested' = IF Locked(x, WriteOffSteps) THEN contested \cup {x} ELSE contested
        /\ UNCHANGED <<nostro, va, job, recharged, overlapped, admin, app, granted, posted,
                       credited, written, drawn>>
    BY DEF DeleteWriteOff, bookVars
  <1>2. /\ writeOff' \in [WriteOffs -> WriteOffRow] /\ writeOff'[x].status = "deleted"
        /\ \A y \in WriteOffs : y # x => writeOff'[y] = writeOff[y]
    BY <1>1, StatusWritten
  <1>3. WriteOffStep(x)
    BY <1>1, <1>2, Typed DEF WriteOffStep
  <1>4. OneWriteOff(x)'
    <2>. SUFFICES ASSUME x \notin contested'
                  PROVE  /\ Credited(x)'
                         /\ \A u \in Workers : ~ (job[u].at \in WriteOffSteps /\ job[u].on = x)
      BY <1>1 DEF OneWriteOff, Alone
    <2>1. ~ Locked(x, WriteOffSteps) /\ Credited(x)
      BY <1>1 DEF WriteOffInv, OneWriteOff
    <2>2. \A u \in Workers : ~ (job[u].at \in WriteOffSteps /\ job[u].on = x)
      BY <2>1 DEF Locked
    <2>3. Credited(x)'
      BY <1>1, <1>2, <2>1 DEF Credited
    <2>. QED
      BY <2>2, <2>3
  <1>. QED
    BY <1>1, <1>3, <1>4, WriteOffAtOnce

LEMMA ReadWriteOffKeeps ==
    ASSUME TypeInv, WriteOffInv, NEW w \in Workers, NEW x \in WriteOffs, ReadWriteOff(w, x),
           UNCHANGED <<taskVars, diffVars>>
    PROVE  WriteOffKept
  <1>1. PICK s \in {"approveWriteOff", "creditWriteOff", "editWriteOff"} :
           /\ Enter(w, s, x, writeOff[x].sum)
           /\ s = "approveWriteOff" => writeOff[x].status = "PENDING"
           /\ s = "creditWriteOff" => writeOff[x].status = "APPROVED"
           /\ writeOff[x].status \in WriteOffForms
    BY DEF ReadWriteOff, Approved, WriteOffForms
  <1>2. /\ Contest(w, x)
        /\ UNCHANGED <<nostro, va, recharged, overlapped, admin, app, granted, posted,
                       writeOff, credited, written, drawn>>
    BY DEF ReadWriteOff, writeOffVars
  <1>3. s \in Steps /\ s \in WriteOffSteps /\ x \in Accounts \cup Vas \cup Subjects
    BY RowKinds DEF Steps, AdjustSteps, WriteOffSteps
  <1>4. writeOff[x].sum \in Int
    BY Typed DEF WriteOffRow
  <1>5. /\ job' \in [Workers -> JobType] /\ job[w].at = "idle"
        /\ job'[w].at = s /\ job'[w].on = x
        /\ \A u \in Workers : u # w => job'[u] = job[u]
    BY <1>1, <1>3, <1>4, Entering
  <1>6. contested \subseteq contested' /\ contested' \subseteq contested \cup {x}
    BY <1>2 DEF Contest
  <1>7. WriteOffStep(x)
    BY <1>2, <1>6, Typed DEF WriteOffStep
  <1>8. OneWriteOff(x)'
    <2>. SUFFICES ASSUME x \notin contested'
                  PROVE  /\ Alone(x, WriteOffSteps)'
                         /\ Credited(x)'
                         /\ \A u \in Workers :
                               job'[u].at \in WriteOffSteps /\ job'[u].on = x
                                   => WriteOffSound(job[u], x)'
      BY DEF OneWriteOff
    <2>1. ~ Locked(x, AdjustSteps) /\ x \notin contested
      BY <1>2 DEF Contest
    <2>2. \A u \in Workers : ~ (job[u].at \in WriteOffSteps /\ job[u].on = x)
      BY <2>1, StepNames DEF Locked
    <2>3. \A u \in Workers : job'[u].at \in WriteOffSteps /\ job'[u].on = x => u = w
      BY <1>5, <2>2
    <2>4. ~ Locked(x, {"saveWriteOff"}) /\ Credited(x)
      BY <2>1, <2>2 DEF Locked, WriteOffSteps, WriteOffInv, OneWriteOff
    <2>5. credited[x] \in Nat /\ (credited[x] = 1 => writeOff[x].status = "WRITTEN_OFF")
      BY <1>1, <2>4, Typed DEF Credited, WriteOffForms
    <2>6. Credited(x)'
      BY <1>2, <2>4, <2>5 DEF Credited
    <2>7. s = "creditWriteOff" => credited[x] = 0
      BY <1>1, <2>4, <2>5 DEF Credited
    <2>8. WriteOffSound(job[w], x)'
      BY <1>1, <1>2, <1>5, <2>7 DEF WriteOffSound
    <2>. QED
      BY <2>3, <2>6, <2>8 DEF Alone
  <1>9. job[w].at \in {"idle"} \cup WriteOffSteps /\ job'[w].at \in {"idle"} \cup WriteOffSteps
        /\ job[w].at \notin WriteOffSteps
    BY <1>3, <1>5, StepNames
  <1>. QED
    BY <1>5, <1>7, <1>8, <1>9, WriteOffHandler

\* The last step of a handler, and giving a handler up.
LEMMA WriteOffReturns ==
    ASSUME TypeInv, WriteOffInv, NEW w \in Workers, NEW x \in WriteOffs,
           job[w].at \in WriteOffSteps, job[w].on = x, Return(w), WriteOffStep(x),
           UNCHANGED credited,
           x \notin contested' /\ WriteOffSound(job[w], x) =>
               /\ writeOff'[x].status = "WRITTEN_OFF" /\ WriteOffAccount[x] # "none"
                     => credited[x] = 1
               /\ credited[x] = 1 => writeOff'[x].status \in {"WRITTEN_OFF", "deleted"}
    PROVE  WriteOffKept
  <1>1. /\ job' \in [Workers -> JobType] /\ job'[w].at = "idle"
        /\ \A u \in Workers : u # w => job'[u] = job[u]
    BY Returning
  <1>2. OneWriteOff(x)'
    <2>. SUFFICES ASSUME x \notin contested'
                  PROVE  /\ Alone(x, WriteOffSteps)'
                         /\ Credited(x)'
                         /\ \A u \in Workers :
                               ~ (job'[u].at \in WriteOffSteps /\ job'[u].on = x)
      BY DEF OneWriteOff
    <2>1. Alone(x, WriteOffSteps) /\ Credited(x) /\ WriteOffSound(job[w], x)
      BY DEF WriteOffInv, OneWriteOff, WriteOffStep
    <2>2. \A u \in Workers : ~ (job'[u].at \in WriteOffSteps /\ job'[u].on = x)
      BY <1>1, <2>1, StepNames DEF Alone
    <2>3. Credited(x)'
      BY <2>1 DEF Credited
    <2>. QED
      BY <2>2, <2>3 DEF Alone
  <1>3. job'[w].at \in {"idle"} \cup WriteOffSteps /\ job'[w].at \notin WriteOffSteps
    BY <1>1, StepNames
  <1>. QED
    BY <1>1, <1>2, <1>3, WriteOffHandler

LEMMA ApproveWriteOffKeeps ==
    ASSUME TypeInv, WriteOffInv, NEW w \in Workers, ApproveWriteOff(w),
           UNCHANGED <<taskVars, diffVars>>
    PROVE  WriteOffKept
  <1>1. PICK x \in WriteOffs : x = job[w].on
    BY OnRows DEF ApproveWriteOff, WriteOffSteps
  <1>2. /\ job[w].at = "approveWriteOff" /\ Return(w)
        /\ writeOff' = [writeOff EXCEPT ![x] = [status |-> "APPROVED", sum |-> job[w].seen]]
        /\ UNCHANGED <<nostro, va, recharged, overlapped, admin, app, granted, posted,
                       credited, written, drawn, contested>>
    BY <1>1 DEF ApproveWriteOff
  <1>3. /\ writeOff' \in [WriteOffs -> WriteOffRow] /\ writeOff'[x].status = "APPROVED"
        /\ \A y \in WriteOffs : y # x => writeOff'[y] = writeOff[y]
    BY <1>2, SeenTyped, RowWritten DEF WriteOffForms
  <1>4. WriteOffStep(x)
    BY <1>2, <1>3, Typed DEF WriteOffStep
  <1>5. x \notin contested /\ WriteOffSound(job[w], x) => credited[x] # 1
    <2>. SUFFICES ASSUME x \notin contested, writeOff[x].status = "PENDING"
                  PROVE  credited[x] # 1
      BY <1>2 DEF WriteOffSound
    <2>1. ~ Locked(x, {"saveWriteOff"})
      BY DEF WriteOffInv, OneWriteOff, WriteOffSound, Locked, WriteOffSteps
    <2>. QED
      BY <2>1 DEF WriteOffInv, OneWriteOff, Credited
  <1>6. job[w].at \in WriteOffSteps
    BY <1>2 DEF WriteOffSteps
  <1>. QED
    BY <1>1, <1>2, <1>3, <1>4, <1>5, <1>6, WriteOffReturns

\* A form that leaves the status of an uncontested write-off as it is.
LEMMA EditWriteOffKeeps ==
    ASSUME TypeInv, WriteOffInv, NEW w \in Workers, NEW status \in WriteOffForms, NEW sum,
           EditWriteOff(w, status, sum), UNCHANGED <<taskVars, diffVars>>
    PROVE  WriteOffKept
  <1>1. PICK x \in WriteOffs : x = job[w].on
    BY OnRows DEF EditWriteOff, WriteOffSteps
  <1>2. /\ job[w].at = "editWriteOff" /\ Return(w)
        /\ sum \in WriteOffSums \cup {job[w].seen}
        /\ writeOff' = [writeOff EXCEPT ![x] = [status |-> status, sum |-> sum]]
        /\ contested' = IF status = writeOff[x].status THEN contested ELSE contested \cup {x}
        /\ UNCHANGED <<nostro, va, recharged, overlapped, admin, app, granted, posted,
                       credited, written, drawn>>
    BY <1>1 DEF EditWriteOff
  <1>3. sum \in Int
    BY <1>2, SeenTyped, AdjustmentParameters
  <1>4. /\ writeOff' \in [WriteOffs -> WriteOffRow] /\ writeOff'[x].status = status
        /\ \A y \in WriteOffs : y # x => writeOff'[y] = writeOff[y]
    BY <1>2, <1>3, RowWritten
  <1>5. WriteOffStep(x)
    BY <1>2, <1>4, Typed DEF WriteOffStep
  <1>6. job[w].at \in WriteOffSteps
    BY <1>2 DEF WriteOffSteps
  <1>7. x \notin contested' =>
           /\ writeOff'[x].status = "WRITTEN_OFF" /\ WriteOffAccount[x] # "none"
                 => credited[x] = 1
           /\ credited[x] = 1 => writeOff'[x].status \in {"WRITTEN_OFF", "deleted"}
    <2>. SUFFICES ASSUME x \notin contested'
                  PROVE  Credited(x) /\ ~ Locked(x, {"saveWriteOff"})
                         /\ writeOff[x].status = status
      BY <1>4 DEF Credited
    <2>1. x \notin contested /\ writeOff[x].status = status
      BY <1>2
    <2>2. Alone(x, WriteOffSteps) /\ Credited(x)
      BY <2>1 DEF WriteOffInv, OneWriteOff
    <2>3. ~ Locked(x, {"saveWriteOff"})
      BY <1>1, <1>2, <1>6, <2>2 DEF Locked, Alone, WriteOffSteps
    <2>. QED
      BY <2>1, <2>2, <2>3
  <1>. QED
    BY <1>1, <1>2, <1>5, <1>6, <1>7, WriteOffReturns

LEMMA CreditWriteOffKeeps ==
    ASSUME TypeInv, WriteOffInv, NEW w \in Workers, CreditWriteOff(w),
           UNCHANGED <<taskVars, diffVars>>
    PROVE  WriteOffKept
  <1>1. PICK x \in WriteOffs : x = job[w].on
    BY OnRows DEF CreditWriteOff, WriteOffSteps
  <1>. DEFINE Credits ==
                 /\ WriteOffAccount[x] # "none"
                 /\ nostro' = [nostro EXCEPT ![WriteOffAccount[x]].balance = @ + job[w].seen]
                 /\ credited' = [credited EXCEPT ![x] = @ + 1]
                 /\ written' = [written EXCEPT ![x] = @ + job[w].seen]
                 /\ drawn' = IF job[w].seen < 0 THEN drawn \cup {WriteOffAccount[x]} ELSE drawn
              Finds == /\ WriteOffAccount[x] = "none"
                       /\ UNCHANGED <<nostro, credited, written, drawn>>
  <1>2. /\ job[w].at = "creditWriteOff" /\ Go(w, "saveWriteOff")
        /\ Credits \/ Finds
        /\ UNCHANGED <<va, recharged, overlapped, admin, app, granted, posted, writeOff,
                       contested>>
    BY <1>1 DEF CreditWriteOff
  <1>3. /\ job' \in [Workers -> JobType] /\ job'[w].at = "saveWriteOff" /\ job'[w].on = x
        /\ \A u \in Workers : u # w => job'[u] = job[u]
    BY <1>1, <1>2, Going DEF Steps, AdjustSteps, WriteOffSteps
  <1>4. nostro' \in [Accounts -> NostroRow] /\ drawn' \subseteq Accounts
    <2>1. CASE Credits
      <3>1. PICK c \in Accounts : c = WriteOffAccount[x]
        BY <2>1, AdjustmentParameters
      <3>2. PICK n \in Int : n = job[w].seen
        BY SeenTyped
      <3>3. nostro \in [Accounts -> NostroRow] /\ nostro[c] \in NostroRow
        BY Typed
      <3>4. [nostro[c] EXCEPT !.balance = @ + n] \in NostroRow
        BY <3>2, <3>3 DEF NostroRow
      <3>5. nostro' = [nostro EXCEPT ![c] = [nostro[c] EXCEPT !.balance = @ + n]]
        BY <2>1, <3>1, <3>2, <3>3
      <3>6. drawn' \subseteq Accounts
        BY <2>1, <3>1, Typed
      <3>. QED
        BY <3>3, <3>4, <3>5, <3>6
    <2>2. CASE Finds
      BY <2>2, Typed
    <2>. QED
      BY <1>2, <2>1, <2>2
  <1>5. /\ credited' \in [WriteOffs -> Nat] /\ written' \in [WriteOffs -> Int]
        /\ credited[x] \in Nat
        /\ credited'[x] = IF WriteOffAccount[x] = "none" THEN credited[x] ELSE credited[x] + 1
        /\ \A y \in WriteOffs : y # x => credited'[y] = credited[y]
    <2>1. credited \in [WriteOffs -> Nat] /\ written \in [WriteOffs -> Int]
          /\ job[w].seen \in Int
      BY Typed, SeenTyped
    <2>2. CASE Credits
      <3>1. credited' \in [WriteOffs -> Nat] /\ credited'[x] = credited[x] + 1
            /\ \A y \in WriteOffs : y # x => credited'[y] = credited[y]
        BY <2>1, <2>2
      <3>2. written' \in [WriteOffs -> Int]
        BY <2>1, <2>2
      <3>. QED
        BY <2>1, <2>2, <3>1, <3>2
    <2>3. CASE Finds
      BY <2>1, <2>3
    <2>. QED
      BY <1>2, <2>2, <2>3
  <1>6. WriteOffStep(x)
    BY <1>2, <1>4, <1>5, Typed DEF WriteOffStep
  <1>7. OneWriteOff(x)'
    <2>. SUFFICES ASSUME x \notin contested
                  PROVE  /\ Alone(x, WriteOffSteps)'
                         /\ Credited(x)'
                         /\ \A u \in Workers :
                               job'[u].at \in WriteOffSteps /\ job'[u].on = x
                                   => WriteOffSound(job[u], x)'
      BY <1>2 DEF OneWriteOff
    <2>1. job[w].at \in WriteOffSteps
      BY <1>2 DEF WriteOffSteps
    <2>2. Alone(x, WriteOffSteps) /\ WriteOffSound(job[w], x)
      BY <1>1, <2>1 DEF WriteOffInv, OneWriteOff
    <2>3. \A u \in Workers : job'[u].at \in WriteOffSteps /\ job'[u].on = x => u = w
      BY <1>1, <1>3, <2>1, <2>2 DEF Alone
    <2>4. credited[x] = 0 /\ writeOff'[x] = writeOff[x] /\ writeOff[x].status = "APPROVED"
      BY <1>2, <2>2 DEF WriteOffSound
    <2>5. credited'[x] <= 1 /\ (WriteOffAccount[x] # "none" => credited'[x] = 1)
      BY <1>5, <2>4
    <2>6. WriteOffSound(job[w], x)'
      BY <1>3, <2>4, <2>5 DEF WriteOffSound
    <2>7. Credited(x)'
      BY <1>3, <2>4, <2>5 DEF Credited, Locked
    <2>. QED
      BY <2>3, <2>6, <2>7 DEF Alone
  <1>8. job[w].at \in WriteOffSteps /\ job'[w].at \in WriteOffSteps
    BY <1>2, <1>3 DEF WriteOffSteps
  <1>. QED
    BY <1>1, <1>3, <1>6, <1>7, <1>8, WriteOffHandler

LEMMA SaveWriteOffKeeps ==
    ASSUME TypeInv, WriteOffInv, NEW w \in Workers, SaveWriteOff(w),
           UNCHANGED <<taskVars, diffVars>>
    PROVE  WriteOffKept
  <1>1. PICK x \in WriteOffs : x = job[w].on
    BY OnRows DEF SaveWriteOff, WriteOffSteps
  <1>2. /\ job[w].at = "saveWriteOff" /\ Return(w)
        /\ writeOff' = [writeOff EXCEPT ![x].status = "WRITTEN_OFF"]
        /\ UNCHANGED <<nostro, va, recharged, overlapped, admin, app, granted, posted,
                       credited, written, drawn, contested>>
    BY <1>1 DEF SaveWriteOff
  <1>3. /\ writeOff' \in [WriteOffs -> WriteOffRow] /\ writeOff'[x].status = "WRITTEN_OFF"
        /\ \A y \in WriteOffs : y # x => writeOff'[y] = writeOff[y]
    BY <1>2, StatusWritten DEF WriteOffForms
  <1>4. WriteOffStep(x)
    BY <1>2, <1>3, Typed DEF WriteOffStep
  <1>5. WriteOffSound(job[w], x) /\ WriteOffAccount[x] # "none" => credited[x] = 1
    BY <1>2 DEF WriteOffSound
  <1>6. job[w].at \in WriteOffSteps
    BY <1>2 DEF WriteOffSteps
  <1>. QED
    BY <1>1, <1>2, <1>3, <1>4, <1>5, <1>6, WriteOffReturns

LEMMA WriteOffAbandoned ==
    ASSUME TypeInv, WriteOffInv, NEW w \in Workers, job[w].at \in WriteOffSteps,
           AbandonAdjustment(w), UNCHANGED <<taskVars, diffVars>>
    PROVE  WriteOffKept
  <1>1. PICK x \in WriteOffs : x = job[w].on
    BY OnRows
  <1>2. /\ contested' = contested \cup {x} /\ Return(w)
        /\ UNCHANGED <<nostro, va, recharged, overlapped, admin, app, granted, posted,
                       writeOff, credited, written, drawn>>
    BY <1>1 DEF AbandonAdjustment, writeOffVars
  <1>3. WriteOffStep(x)
    BY <1>2, Typed DEF WriteOffStep
  <1>. QED
    BY <1>1, <1>2, <1>3, WriteOffReturns

-----------------------------------------------------------------------------
\* What precedes the resolution of a difference; and what each step of a
\* handler finds, if nobody contests the difference.
Done(d) ==
    /\ Locked(d, {"saveBank"}) => asked[d] > 0
    /\ Locked(d, {"savePlatform"}) => filed[d] > 0

Founded(k) ==
    /\ diff[k].resolution = "ADJUST_BANK" => asked[Differences[k]] > 0
    /\ diff[k].resolution = "ADJUST_PLATFORM" => filed[Differences[k]] > 0

DiffSound(j, d) ==
    j.at \in {"askBank", "adjustPlatform", "saveOther"} =>
        Unresolved(d) /\ asked[d] + filed[d] = 0

OneDiff(d) ==
    d \notin contested =>
        /\ Alone(d, DiffSteps)
        /\ asked[d] + filed[d] <= 1
        /\ Unresolved(d) /\ asked[d] + filed[d] = 1 => Locked(d, {"saveBank", "savePlatform"})
        /\ \A w \in Workers :
              job[w].at \in DiffSteps /\ job[w].on = d => DiffSound(job[w], d)

DiffInv ==
    /\ diff = << >> => \A d \in Range(Differences) : asked[d] = 0 /\ filed[d] = 0
    /\ \A k \in DOMAIN diff : Founded(k)
    /\ \A d \in Listed : Done(d) /\ OneDiff(d)

LEMMA SameRows ==
    ASSUME DOMAIN diff' = DOMAIN diff
    PROVE  Listed' = Listed /\ \A d : Place(d)' = Place(d)
  BY DEF Listed, Place

LEMMA DiffStays ==
    ASSUME NEW d \in Listed, Done(d), OneDiff(d), Contests,
           DOMAIN diff' = DOMAIN diff, diff'[Place(d)] = diff[Place(d)],
           asked'[d] = asked[d], filed'[d] = filed[d],
           \A w \in Workers :
               \/ job[w].at \in DiffSteps /\ job[w].on = d
               \/ job'[w].at \in DiffSteps /\ job'[w].on = d
               => job'[w] = job[w]
    PROVE  Done(d)' /\ OneDiff(d)'
  <1>1. /\ Locked(d, {"saveBank"})' <=> Locked(d, {"saveBank"})
        /\ Locked(d, {"savePlatform"})' <=> Locked(d, {"savePlatform"})
        /\ Locked(d, {"saveBank", "savePlatform"})' <=> Locked(d, {"saveBank", "savePlatform"})
    BY DEF Locked, DiffSteps
  <1>2. Done(d)'
    BY <1>1 DEF Done
  <1>3. Unresolved(d)' <=> Unresolved(d)
    BY SameRows DEF Unresolved
  <1>4. ASSUME d \notin contested
        PROVE  \A w \in Workers :
                  job'[w].at \in DiffSteps /\ job'[w].on = d => DiffSound(job[w], d)'
    BY <1>3, <1>4 DEF OneDiff, DiffSound
  <1>5. ASSUME d \notin contested
        PROVE  Alone(d, DiffSteps)'
    BY <1>5 DEF OneDiff, Alone
  <1>6. OneDiff(d)'
    BY <1>1, <1>3, <1>4, <1>5 DEF OneDiff, Contests
  <1>. QED
    BY <1>2, <1>6

LEMMA DiffFrame ==
    ASSUME DiffInv, Contests, UNCHANGED diffVars, Quiet(DiffSteps)
    PROVE  DiffInv'
  <1>1. UNCHANGED <<diff, asked, filed>>
    BY DEF diffVars
  <1>2. Listed' = Listed
    BY <1>1, SameRows
  <1>3. \A d \in Listed : Done(d)' /\ OneDiff(d)'
    BY <1>1, DiffStays DEF DiffInv, Quiet
  <1>. QED
    BY <1>1, <1>2, <1>3 DEF DiffInv, Founded

-----------------------------------------------------------------------------
\* The batch is closed with its last difference.
NonePending == \A d \in Listed : ~ Unresolved(d)

Finders == {w \in Workers : job[w].at \in {"countPending", "closeBatch"}}
Closers == {w \in Workers : job[w].at = "closeBatch"}

BatchInv ==
    /\ Closers # {} => NonePending
    /\ batch = "RESOLVED" => diff # << >> /\ NonePending
    /\ NonePending /\ Finders = {} /\ diff # << >> /\ Listed \cap contested = {}
          => batch = "RESOLVED"

LEMMA BatchFrame ==
    ASSUME BatchInv, Contests, UNCHANGED <<diff, batch>>,
           Finders' = Finders, Closers' = Closers
    PROVE  BatchInv'
  <1>1. Listed' = Listed /\ \A d : Unresolved(d)' <=> Unresolved(d)
    BY SameRows DEF Unresolved
  <1>2. NonePending' <=> NonePending
    BY <1>1 DEF NonePending
  <1>. QED
    BY <1>1, <1>2 DEF BatchInv, Contests

LEMMA BatchQuiet ==
    ASSUME BatchInv, Contests, UNCHANGED taskVars, UNCHANGED diffVars, Quiet(DiffSteps)
    PROVE  BatchInv'
  <1>1. UNCHANGED <<diff, batch>>
    BY DEF taskVars, diffVars
  <1>2. Finders' = Finders /\ Closers' = Closers
    BY DEF Finders, Closers, Quiet, DiffSteps
  <1>. QED
    BY <1>1, <1>2, BatchFrame

-----------------------------------------------------------------------------
DiffKept == TypeInv' /\ DiffInv' /\ Quiet(AppSteps) /\ Quiet(WriteOffSteps) /\ Contests

LEMMA DiffHandler ==
    ASSUME TypeInv, DiffInv, NEW w \in Workers, NEW d \in Listed,
           UNCHANGED <<nostro, va, recharged, overlapped, admin, granted, posted, writeOff,
                       credited, written, drawn, statement, collected, run, listed>>,
           app' \in [Applications -> AppRow], batch' = batch \/ batch' = "RESOLVED",
           Contests, contested' \subseteq contested \cup {d},
           diff' \in Seq(DiffRow), Len(diff') = Len(diff),
           asked' \in [Range(Differences) -> Nat], filed' \in [Range(Differences) -> Nat],
           \A e \in Listed : e # d => /\ asked'[e] = asked[e] /\ filed'[e] = filed[e]
                                      /\ diff'[Place(e)] = diff[Place(e)],
           job' \in [Workers -> JobType],
           \A u \in Workers : u # w => job'[u] = job[u],
           job[w].at \in {"idle"} \cup DiffSteps, job'[w].at \in {"idle"} \cup DiffSteps,
           job[w].at \in DiffSteps => job[w].on = d,
           job'[w].at \in DiffSteps => job'[w].on = d,
           \A k \in DOMAIN diff : Founded(k)', Done(d)', OneDiff(d)'
    PROVE  DiffKept
  <1>1. /\ Len(diff) \in Nat /\ Len(diff) # 0
        /\ DOMAIN diff = 1 .. Len(diff) /\ DOMAIN diff' = 1 .. Len(diff)
    <2>1. diff \in Seq(DiffRow) /\ DOMAIN diff # {}
      BY Typed, Placed
    <2>. QED
      BY <2>1
  <1>2. Listed' = Listed
    BY <1>1, SameRows
  <1>3. JobsInv'
    BY <1>2, RowsKept
  <1>4. Quiet(AppSteps) /\ Quiet(WriteOffSteps)
    BY StepNames DEF Quiet
  <1>5. AdjustTypeOK'
    BY Typed, RowKinds DEF AdjustTypeOK
  <1>6. diff # << >> /\ diff' # << >>
    BY <1>1
  <1>7. TypeInv'
    BY <1>3, <1>5, <1>6, Typed, TypeKept
  <1>8. ASSUME NEW e \in Listed, e # d
        PROVE  Done(e)' /\ OneDiff(e)'
    <2>1. Done(e) /\ OneDiff(e) /\ DOMAIN diff' = DOMAIN diff
      BY <1>1 DEF DiffInv
    <2>. QED
      BY <1>8, <2>1, DiffStays
  <1>9. DiffInv'
    BY <1>1, <1>2, <1>6, <1>8 DEF DiffInv
  <1>. QED
    BY <1>4, <1>7, <1>9 DEF DiffKept

LEMMA ReadDiffKeeps ==
    ASSUME TypeInv, DiffInv, BatchInv, NEW w \in Workers, NEW d \in Listed, ReadDiff(w, d)
    PROVE  DiffKept /\ BatchInv'
  <1>1. PICK s \in {"askBank", "adjustPlatform", "saveOther"} : Begin(w, s, d)
    BY DEF ReadDiff
  <1>2. /\ Unresolved(d)
        /\ contested' = IF Locked(d, DiffSteps) THEN contested \cup {d} ELSE contested
        /\ UNCHANGED <<nostro, va, recharged, overlapped, admin, app, granted, posted,
                       writeOff, credited, written, drawn, taskVars, diffVars>>
    BY DEF ReadDiff, writeOffVars
  <1>3. s \in Steps /\ s \in DiffSteps /\ d \in Accounts \cup Vas \cup Subjects
    BY RowKinds DEF Steps, DiffSteps
  <1>4. /\ job' \in [Workers -> JobType] /\ job[w].at = "idle"
        /\ job'[w].at = s /\ job'[w].on = d
        /\ \A u \in Workers : u # w => job'[u] = job[u]
    BY <1>1, <1>3, Beginning
  <1>5. Contests /\ contested' \subseteq contested \cup {d}
    BY <1>2 DEF Contests
  <1>6. UNCHANGED <<statement, collected, run, batch, listed, diff, asked, filed>>
    BY <1>2 DEF taskVars, diffVars
  <1>7. Done(d) /\ OneDiff(d) /\ \A k \in DOMAIN diff : Founded(k)
    BY DEF DiffInv
  <1>8. Unresolved(d)'
    BY <1>2, <1>6, SameRows DEF Unresolved
  <1>9. Done(d)'
    <2>1. /\ Locked(d, {"saveBank"})' => Locked(d, {"saveBank"})
          /\ Locked(d, {"savePlatform"})' => Locked(d, {"savePlatform"})
      BY <1>4 DEF Locked
    <2>. QED
      BY <1>6, <1>7, <2>1 DEF Done
  <1>10. OneDiff(d)'
    <2>. SUFFICES ASSUME d \notin contested'
                  PROVE  /\ Alone(d, DiffSteps)'
                         /\ asked'[d] + filed'[d] = 0
                         /\ \A u \in Workers :
                               job'[u].at \in DiffSteps /\ job'[u].on = d => DiffSound(job[u], d)'
      BY DEF OneDiff
    <2>1. ~ Locked(d, DiffSteps) /\ d \notin contested
      BY <1>2
    <2>2. \A u \in Workers : ~ (job[u].at \in DiffSteps /\ job[u].on = d)
      BY <2>1 DEF Locked
    <2>3. \A u \in Workers : job'[u].at \in DiffSteps /\ job'[u].on = d => u = w
      BY <1>4, <2>2
    <2>4. ~ Locked(d, {"saveBank", "savePlatform"})
      BY <2>2 DEF Locked, DiffSteps
    <2>5. asked[d] \in Nat /\ filed[d] \in Nat
      BY Typed, RowKinds
    <2>6. asked[d] + filed[d] = 0
      BY <1>2, <1>7, <2>1, <2>4, <2>5 DEF OneDiff
    <2>7. DiffSound(job[w], d)'
      BY <1>6, <1>8, <2>6 DEF DiffSound
    <2>. QED
      BY <1>6, <2>3, <2>6, <2>7 DEF Alone
  <1>11. /\ app' \in [Applications -> AppRow] /\ diff' \in Seq(DiffRow)
         /\ asked' \in [Range(Differences) -> Nat] /\ filed' \in [Range(Differences) -> Nat]
    BY <1>2, <1>6, Typed
  <1>12. \A k \in DOMAIN diff : Founded(k)'
    BY <1>6, <1>7 DEF Founded
  <1>13. DiffKept
    <2>1. /\ UNCHANGED <<nostro, va, recharged, overlapped, admin, granted, posted, writeOff,
                         credited, written, drawn, statement, collected, run, listed, batch,
                         diff, asked, filed>>
          /\ job[w].at \in {"idle"} \cup DiffSteps /\ job'[w].at \in {"idle"} \cup DiffSteps
      BY <1>2, <1>3, <1>4, <1>6
    <2>2. /\ job[w].at \in DiffSteps => job[w].on = d
          /\ job'[w].at \in DiffSteps => job'[w].on = d
      BY <1>4, StepNames
    <2>. QED
      BY <1>4, <1>5, <1>9, <1>10, <1>11, <1>12, <2>1, <2>2, DiffHandler
  <1>14. Finders' = Finders /\ Closers' = Closers
    BY <1>4 DEF Finders, Closers
  <1>. QED
    BY <1>5, <1>6, <1>13, <1>14, BatchFrame

\* A handler that goes on, and is the only one of an uncontested difference.
LEMMA OnlyHandler ==
    ASSUME TypeInv, DiffInv, NEW w \in Workers, NEW d \in Listed,
           job[w].at \in DiffSteps, job[w].on = d,
           \A u \in Workers : u # w => job'[u] = job[u],
           job'[w].at \in {"idle"} \cup DiffSteps, job'[w].at \in DiffSteps => job'[w].on = d,
           d \notin contested
    PROVE  /\ asked[d] + filed[d] <= 1 /\ DiffSound(job[w], d)
           /\ \A u \in Workers : job'[u].at \in DiffSteps /\ job'[u].on = d => u = w
           /\ Alone(d, DiffSteps)'
  <1>1. /\ Alone(d, DiffSteps) /\ asked[d] + filed[d] <= 1 /\ DiffSound(job[w], d)
    BY DEF DiffInv, OneDiff
  <1>2. \A u \in Workers : job'[u].at \in DiffSteps /\ job'[u].on = d => u = w
    BY <1>1 DEF Alone
  <1>. QED
    BY <1>1, <1>2 DEF Alone

LEMMA AskBankKeeps ==
    ASSUME TypeInv, DiffInv, BatchInv, NEW w \in Workers, AskBank(w)
    PROVE  DiffKept /\ BatchInv'
  <1>1. job[w].at = "askBank"
    BY DEF AskBank
  <1>2. PICK d \in Listed : d = job[w].on
    BY <1>1, OnRows DEF DiffSteps
  <1>. DEFINE Accepts == asked' = [asked EXCEPT ![d] = @ + 1] /\ Go(w, "saveBank")
              Refuses == Return(w) /\ UNCHANGED asked
  <1>3. /\ Accepts \/ Refuses
        /\ UNCHANGED <<nostro, va, recharged, overlapped, admin, adjustVars, taskVars, diff,
                       filed>>
    BY <1>2 DEF AskBank
  <1>4. /\ UNCHANGED <<app, granted, posted, writeOff, credited, written, drawn, contested>>
        /\ UNCHANGED <<statement, collected, run, batch, listed>>
    BY <1>3 DEF adjustVars, writeOffVars, taskVars
  <1>5. d \in Range(Differences) /\ asked \in [Range(Differences) -> Nat]
        /\ filed \in [Range(Differences) -> Nat]
    BY Typed, RowKinds
  <1>6. /\ asked' \in [Range(Differences) -> Nat]
        /\ \A e \in Listed : e # d => asked'[e] = asked[e]
        /\ \A e \in Range(Differences) : asked'[e] >= asked[e]
    BY <1>3, <1>5, RowKinds
  <1>7. /\ job' \in [Workers -> JobType]
        /\ \A u \in Workers : u # w => job'[u] = job[u]
        /\ \/ job'[w].at = "saveBank" /\ job'[w].on = d /\ asked'[d] = asked[d] + 1
           \/ job'[w].at = "idle" /\ asked' = asked
    <2>1. "saveBank" \in Steps
      BY DEF Steps, DiffSteps
    <2>2. CASE Accepts
      BY <1>2, <1>5, <2>1, <2>2, Going
    <2>3. CASE Refuses
      BY <2>3, Returning
    <2>. QED
      BY <1>3, <2>2, <2>3
  <1>8. Contests /\ contested' \subseteq contested \cup {d}
    BY <1>4 DEF Contests
  <1>9. /\ job[w].at \in DiffSteps /\ job'[w].at \in {"idle"} \cup DiffSteps
        /\ job'[w].at \in DiffSteps => job'[w].on = d
    BY <1>1, <1>7, StepNames DEF DiffSteps
  <1>10. Done(d)'
    <2>1. /\ Locked(d, {"saveBank"})' => Locked(d, {"saveBank"}) \/ asked'[d] = asked[d] + 1
          /\ Locked(d, {"savePlatform"})' => Locked(d, {"savePlatform"})
      BY <1>7 DEF Locked
    <2>2. asked'[d] \in Nat /\ asked[d] \in Nat /\ asked'[d] >= asked[d]
      BY <1>5, <1>6
    <2>. QED
      BY <1>3, <2>1, <2>2 DEF Done, DiffInv
  <1>11. OneDiff(d)'
    <2>. SUFFICES ASSUME d \notin contested PROVE OneDiff(d)'
      BY <1>4 DEF OneDiff
    <2>1. /\ DiffSound(job[w], d) /\ Alone(d, DiffSteps)'
          /\ \A u \in Workers : job'[u].at \in DiffSteps /\ job'[u].on = d => u = w
      BY <1>2, <1>7, <1>9, OnlyHandler
    <2>2. asked[d] = 0 /\ filed[d] = 0 /\ filed' = filed
      <3>1. asked[d] + filed[d] = 0
        BY <1>1, <2>1 DEF DiffSound
      <3>. QED
        BY <1>3, <1>5, <3>1
    <2>3. DiffSound(job[w], d)'
      BY <1>7 DEF DiffSound
    <2>4. /\ asked'[d] + filed'[d] <= 1
          /\ asked'[d] + filed'[d] = 1 => Locked(d, {"saveBank", "savePlatform"})'
      BY <1>7, <2>2 DEF Locked
    <2>. QED
      BY <2>1, <2>3, <2>4 DEF OneDiff
  <1>12. \A k \in DOMAIN diff : Founded(k)'
    <2>. SUFFICES ASSUME NEW k \in DOMAIN diff PROVE Founded(k)'
      OBVIOUS
    <2>1. Founded(k) /\ Differences[k] \in Listed
      BY DEF DiffInv, Listed
    <2>2. /\ asked[Differences[k]] \in Nat /\ asked'[Differences[k]] \in Nat
          /\ asked'[Differences[k]] >= asked[Differences[k]]
      BY <1>5, <1>6, <2>1, RowKinds
    <2>. QED
      BY <1>3, <2>1, <2>2 DEF Founded
  <1>13. app' \in [Applications -> AppRow] /\ diff' \in Seq(DiffRow) /\ Len(diff') = Len(diff)
         /\ filed' \in [Range(Differences) -> Nat]
    BY <1>3, <1>4, Typed
  <1>14. DiffKept
    BY <1>2, <1>3, <1>4, <1>6, <1>7, <1>8, <1>9, <1>10, <1>11, <1>12, <1>13, DiffHandler
  <1>15. Finders' = Finders /\ Closers' = Closers
    BY <1>1, <1>7 DEF Finders, Closers
  <1>. QED
    BY <1>3, <1>4, <1>8, <1>14, <1>15, BatchFrame

LEMMA AdjustPlatformKeeps ==
    ASSUME TypeInv, DiffInv, BatchInv, NEW w \in Workers, AdjustPlatform(w)
    PROVE  /\ DiffKept /\ BatchInv'
           /\ \A a \in Applications :
                 \/ app'[a] = app[a]
                 \/ app[a].status = "none" /\ app'[a].status = "pending"
  <1>1. job[w].at = "adjustPlatform"
    BY DEF AdjustPlatform
  <1>2. PICK d \in Listed : d = job[w].on
    BY <1>1, OnRows DEF DiffSteps
  <1>3. /\ filed' = [filed EXCEPT ![d] = @ + 1] /\ Go(w, "savePlatform")
        /\ UNCHANGED <<nostro, va, recharged, overlapped, admin, granted, posted, writeOff,
                       credited, written, drawn, contested, taskVars, diff, asked>>
    BY <1>2 DEF AdjustPlatform, writeOffVars
  <1>4. UNCHANGED <<statement, collected, run, batch, listed>>
    BY <1>3 DEF taskVars
  <1>5. PICK b \in Applications, account \in Accounts \cup {"none"} :
           Create(b, "pending", SumToAdjust(diff[Place(d)]), account)
    BY <1>2 DEF AdjustPlatform
  <1>6. SumToAdjust(diff[Place(d)]) \in Int
    <2>1. PICK row \in DiffRow : row = diff[Place(d)]
      BY Placed
    <2>2. row.bank \in Nat /\ row.platform \in Nat
      BY DEF DiffRow
    <2>. QED
      BY <2>1, <2>2 DEF SumToAdjust
  <1>7. /\ app' \in [Applications -> AppRow]
        /\ \A a \in Applications :
              \/ app'[a] = app[a]
              \/ app[a].status = "none" /\ app'[a].status = "pending"
    <2>1. PICK row : row = [status |-> "pending", sum |-> SumToAdjust(diff[Place(d)]),
                            account |-> account]
      OBVIOUS
    <2>2. row \in AppRow /\ row.status = "pending"
      BY <1>6, <2>1 DEF AppRow, AppStatuses
    <2>3. app \in [Applications -> AppRow]
      BY Typed
    <2>4. app[b].status = "none" /\ app' = [app EXCEPT ![b] = row]
      BY <1>5, <2>1 DEF Create
    <2>. QED
      BY <2>2, <2>3, <2>4
  <1>8. d \in Range(Differences) /\ filed \in [Range(Differences) -> Nat]
        /\ asked \in [Range(Differences) -> Nat]
    BY Typed, RowKinds
  <1>9. /\ filed' \in [Range(Differences) -> Nat] /\ filed'[d] = filed[d] + 1
        /\ \A e \in Listed : e # d => filed'[e] = filed[e]
        /\ \A e \in Range(Differences) : filed'[e] >= filed[e]
    BY <1>3, <1>8, RowKinds
  <1>10. /\ job' \in [Workers -> JobType] /\ job'[w].at = "savePlatform" /\ job'[w].on = d
         /\ \A u \in Workers : u # w => job'[u] = job[u]
    BY <1>2, <1>3, Going DEF Steps, DiffSteps
  <1>11. Contests /\ contested' \subseteq contested \cup {d}
    BY <1>3 DEF Contests
  <1>12. job[w].at \in DiffSteps /\ job'[w].at \in DiffSteps
    BY <1>1, <1>10 DEF DiffSteps
  <1>13. Done(d)'
    <2>1. Locked(d, {"saveBank"})' => Locked(d, {"saveBank"})
      BY <1>10 DEF Locked
    <2>2. filed'[d] > 0
      BY <1>8, <1>9
    <2>. QED
      BY <1>3, <2>1, <2>2 DEF Done, DiffInv
  <1>14. OneDiff(d)'
    <2>. SUFFICES ASSUME d \notin contested PROVE OneDiff(d)'
      BY <1>3 DEF OneDiff
    <2>1. /\ DiffSound(job[w], d) /\ Alone(d, DiffSteps)'
          /\ \A u \in Workers : job'[u].at \in DiffSteps /\ job'[u].on = d => u = w
      BY <1>2, <1>10, <1>12, OnlyHandler
    <2>2. asked[d] = 0 /\ filed[d] = 0
      <3>1. asked[d] + filed[d] = 0
        BY <1>1, <2>1 DEF DiffSound
      <3>. QED
        BY <1>8, <3>1
    <2>3. DiffSound(job[w], d)'
      BY <1>10 DEF DiffSound
    <2>4. asked'[d] + filed'[d] <= 1 /\ Locked(d, {"saveBank", "savePlatform"})'
      BY <1>3, <1>9, <1>10, <2>2 DEF Locked
    <2>. QED
      BY <2>1, <2>3, <2>4 DEF OneDiff
  <1>15. \A k \in DOMAIN diff : Founded(k)'
    <2>. SUFFICES ASSUME NEW k \in DOMAIN diff PROVE Founded(k)'
      OBVIOUS
    <2>1. Founded(k) /\ Differences[k] \in Listed
      BY DEF DiffInv, Listed
    <2>2. /\ filed[Differences[k]] \in Nat /\ filed'[Differences[k]] \in Nat
          /\ filed'[Differences[k]] >= filed[Differences[k]]
      BY <1>8, <1>9, <2>1, RowKinds
    <2>. QED
      BY <1>3, <2>1, <2>2 DEF Founded
  <1>16. diff' \in Seq(DiffRow) /\ Len(diff') = Len(diff)
         /\ asked' \in [Range(Differences) -> Nat]
    BY <1>3, Typed
  <1>17. DiffKept
    BY <1>2, <1>3, <1>4, <1>7, <1>9, <1>10, <1>11, <1>12, <1>13, <1>14, <1>15, <1>16,
       DiffHandler
  <1>18. Finders' = Finders /\ Closers' = Closers
    BY <1>1, <1>10 DEF Finders, Closers
  <1>19. BatchInv'
    BY <1>3, <1>4, <1>11, <1>18, BatchFrame
  <1>. QED
    BY <1>7, <1>17, <1>19

\* Saving a resolution changes that of one row.
LEMMA Resolving ==
    ASSUME TypeInv, NEW d \in Listed, NEW r \in Resolutions, Resolve(d, r)
    PROVE  /\ diff' \in Seq(DiffRow) /\ Len(diff') = Len(diff) /\ DOMAIN diff' = DOMAIN diff
           /\ diff'[Place(d)].resolution = r
           /\ \A k \in DOMAIN diff : k # Place(d) => diff'[k] = diff[k]
  <1>1. PICK p \in DOMAIN diff : p = Place(d) /\ diff[p] \in DiffRow
    BY Placed
  <1>2. PICK n \in Nat : n = Len(diff) /\ DOMAIN diff = 1 .. n /\ diff \in [1 .. n -> DiffRow]
    BY Typed
  <1>3. PICK row : row = [diff[p] EXCEPT !.resolution = r]
    OBVIOUS
  <1>4. row \in DiffRow /\ row.resolution = r
    BY <1>1, <1>3 DEF DiffRow
  <1>5. diff' = [diff EXCEPT ![p] = row]
    BY <1>1, <1>2, <1>3 DEF Resolve
  <1>6. diff' \in [1 .. n -> DiffRow] /\ diff'[p] = row
        /\ \A k \in DOMAIN diff : k # p => diff'[k] = diff[k]
    BY <1>1, <1>2, <1>4, <1>5
  <1>7. diff' \in Seq(DiffRow) /\ Len(diff') = n /\ DOMAIN diff' = 1 .. n
    BY <1>2, <1>6
  <1>. QED
    BY <1>1, <1>2, <1>4, <1>6, <1>7

LEMMA SaveDiffKeeps ==
    ASSUME TypeInv, DiffInv, BatchInv, NEW w \in Workers, SaveDiff(w)
    PROVE  DiffKept /\ BatchInv'
  <1>1. job[w].at \in {"saveBank", "savePlatform", "saveOther"}
    BY DEF SaveDiff
  <1>2. PICK d \in Listed : d = job[w].on
    BY <1>1, OnRows DEF DiffSteps
  <1>3. PICK r : r = [saveBank |-> "ADJUST_BANK", savePlatform |-> "ADJUST_PLATFORM",
                      saveOther |-> "OTHER"][job[w].at]
    OBVIOUS
  <1>4. /\ r \in Resolutions /\ r # "PENDING"
        /\ r = "ADJUST_BANK" => job[w].at = "saveBank"
        /\ r = "ADJUST_PLATFORM" => job[w].at = "savePlatform"
    BY <1>1, <1>3 DEF Resolutions
  <1>5. /\ Resolve(d, r) /\ Go(w, "countPending")
        /\ UNCHANGED <<nostro, va, recharged, overlapped, admin, adjustVars, taskVars, asked,
                       filed>>
    BY <1>2, <1>3 DEF SaveDiff
  <1>6. /\ UNCHANGED <<app, granted, posted, writeOff, credited, written, drawn, contested>>
        /\ UNCHANGED <<statement, collected, run, batch, listed>>
    BY <1>5 DEF adjustVars, writeOffVars, taskVars
  <1>7. /\ diff' \in Seq(DiffRow) /\ Len(diff') = Len(diff) /\ DOMAIN diff' = DOMAIN diff
        /\ diff'[Place(d)].resolution = r
        /\ \A k \in DOMAIN diff : k # Place(d) => diff'[k] = diff[k]
    BY <1>4, <1>5, Resolving
  <1>8. Listed' = Listed /\ \A e : Place(e)' = Place(e)
    BY <1>7, SameRows
  <1>9. \A e \in Listed : e # d => diff'[Place(e)] = diff[Place(e)]
    <2>1. \A e \in Listed : Place(e) \in DOMAIN diff /\ Differences[Place(e)] = e
      BY Placed
    <2>. QED
      BY <1>7, <2>1
  <1>10. ~ Unresolved(d)'
    BY <1>4, <1>7, <1>8 DEF Unresolved
  <1>11. /\ job' \in [Workers -> JobType] /\ job'[w].at = "countPending" /\ job'[w].on = d
         /\ \A u \in Workers : u # w => job'[u] = job[u]
    BY <1>2, <1>5, Going DEF Steps, DiffSteps
  <1>12. job[w].at \in DiffSteps /\ job'[w].at \in DiffSteps
    BY <1>1, <1>11 DEF DiffSteps
  <1>13. Done(d) /\ asked' = asked /\ filed' = filed
    BY <1>5 DEF DiffInv
  <1>14. Done(d)'
    <2>1. /\ Locked(d, {"saveBank"})' => Locked(d, {"saveBank"})
          /\ Locked(d, {"savePlatform"})' => Locked(d, {"savePlatform"})
      BY <1>11 DEF Locked
    <2>. QED
      BY <1>13, <2>1 DEF Done
  <1>15. OneDiff(d)'
    <2>. SUFFICES ASSUME d \notin contested PROVE OneDiff(d)'
      BY <1>6 DEF OneDiff
    <2>1. /\ asked[d] + filed[d] <= 1 /\ Alone(d, DiffSteps)'
          /\ \A u \in Workers : job'[u].at \in DiffSteps /\ job'[u].on = d => u = w
      BY <1>2, <1>11, <1>12, OnlyHandler
    <2>2. DiffSound(job[w], d)'
      BY <1>11 DEF DiffSound
    <2>. QED
      BY <1>10, <1>13, <2>1, <2>2 DEF OneDiff
  <1>16. \A k \in DOMAIN diff : Founded(k)'
    <2>. SUFFICES ASSUME NEW k \in DOMAIN diff PROVE Founded(k)'
      OBVIOUS
    <2>1. CASE k = Place(d)
      <3>1. Differences[k] = d
        BY <2>1, Placed
      <3>2. /\ r = "ADJUST_BANK" => asked[d] > 0
            /\ r = "ADJUST_PLATFORM" => filed[d] > 0
        BY <1>2, <1>4, <1>13 DEF Done, Locked
      <3>. QED
        BY <1>7, <1>13, <2>1, <3>1, <3>2 DEF Founded
    <2>2. CASE k # Place(d)
      BY <1>7, <1>13, <2>2 DEF Founded, DiffInv
    <2>. QED
      BY <2>1, <2>2
  <1>17. /\ app' \in [Applications -> AppRow] /\ Contests /\ contested' \subseteq contested \cup {d}
         /\ asked' \in [Range(Differences) -> Nat] /\ filed' \in [Range(Differences) -> Nat]
    BY <1>6, <1>13, Typed DEF Contests
  <1>18. UNCHANGED <<nostro, va, recharged, overlapped, admin>>
    BY <1>5
  <1>19. DiffKept
    BY <1>2, <1>6, <1>7, <1>9, <1>11, <1>12, <1>13, <1>14, <1>15, <1>16, <1>17, <1>18,
       DiffHandler
  <1>20. BatchInv'
    <2>1. NonePending => NonePending'
      BY <1>8, <1>9, <1>10 DEF NonePending, Unresolved
    <2>2. Closers' = Closers /\ w \in Finders'
      BY <1>1, <1>11 DEF Closers, Finders
    <2>3. diff # << >> => diff' # << >>
      <3>1. DOMAIN diff' # {}
        BY <1>7, Placed
      <3>. QED
        BY <3>1
    <2>. QED
      BY <1>6, <2>1, <2>2, <2>3 DEF BatchInv
  <1>. QED
    BY <1>19, <1>20

\* The steps after the resolution is saved, and giving a handler up.
LEMMA DiffEnds ==
    ASSUME TypeInv, DiffInv, NEW w \in Workers, NEW d \in Listed,
           job[w].at \in DiffSteps, job[w].on = d,
           UNCHANGED <<nostro, va, recharged, overlapped, admin, app, granted, posted,
                       writeOff, credited, written, drawn, statement, collected, run, listed,
                       diff, asked, filed>>,
           batch' = batch \/ batch' = "RESOLVED",
           Contests, contested' \subseteq contested \cup {d},
           \/ Return(w) /\ (job[w].at \in {"countPending", "closeBatch"} \/ d \in contested')
           \/ job[w].at = "countPending" /\ Go(w, "closeBatch")
    PROVE  /\ DiffKept
           /\ \A u \in Workers : u # w => job'[u] = job[u]
           /\ job'[w].at = IF Return(w) THEN "idle" ELSE "closeBatch"
  <1>1. /\ job' \in [Workers -> JobType]
        /\ \A u \in Workers : u # w => job'[u] = job[u]
        /\ Return(w) => job'[w].at = "idle"
        /\ ~ Return(w) => job'[w].at = "closeBatch" /\ job'[w].on = d
    <2>1. "closeBatch" \in Steps
      BY DEF Steps, DiffSteps
    <2>2. CASE Return(w)
      BY <2>2, Returning
    <2>3. CASE ~ Return(w)
      BY <2>1, <2>3, Going
    <2>. QED
      BY <2>2, <2>3
  <1>2. /\ job'[w].at \in {"idle", "closeBatch"}
        /\ job'[w].at \in {"idle"} \cup DiffSteps
        /\ job'[w].at \in DiffSteps => job'[w].on = d
    BY <1>1, StepNames DEF DiffSteps
  <1>3. Done(d)'
    <2>1. /\ Locked(d, {"saveBank"})' => Locked(d, {"saveBank"})
          /\ Locked(d, {"savePlatform"})' => Locked(d, {"savePlatform"})
      BY <1>1, <1>2 DEF Locked
    <2>. QED
      BY <2>1 DEF Done, DiffInv
  <1>4. OneDiff(d)'
    <2>. SUFFICES ASSUME d \notin contested' PROVE OneDiff(d)'
      BY DEF OneDiff
    <2>1. d \notin contested /\ job[w].at \in {"countPending", "closeBatch"}
      BY DEF Contests
    <2>2. /\ asked[d] + filed[d] <= 1 /\ Alone(d, DiffSteps)'
          /\ \A u \in Workers : job'[u].at \in DiffSteps /\ job'[u].on = d => u = w
      BY <1>1, <1>2, <2>1, OnlyHandler
    <2>3. DiffSound(job[w], d)'
      BY <1>2 DEF DiffSound
    <2>4. Unresolved(d)' <=> Unresolved(d)
      BY SameRows DEF Unresolved
    <2>5. Locked(d, {"saveBank", "savePlatform"}) => Locked(d, {"saveBank", "savePlatform"})'
      BY <1>1, <2>1 DEF Locked
    <2>. QED
      BY <2>1, <2>2, <2>3, <2>4, <2>5 DEF OneDiff, DiffInv
  <1>5. \A k \in DOMAIN diff : Founded(k)'
    BY DEF DiffInv, Founded
  <1>6. /\ app' \in [Applications -> AppRow] /\ diff' \in Seq(DiffRow)
        /\ asked' \in [Range(Differences) -> Nat] /\ filed' \in [Range(Differences) -> Nat]
    BY Typed
  <1>7. DiffKept
    BY <1>1, <1>2, <1>3, <1>4, <1>5, <1>6, DiffHandler
  <1>. QED
    BY <1>1, <1>7

LEMMA CountPendingKeeps ==
    ASSUME TypeInv, DiffInv, BatchInv, NEW w \in Workers, CountPending(w)
    PROVE  DiffKept /\ BatchInv'
  <1>1. job[w].at = "countPending"
    BY DEF CountPending
  <1>2. PICK d \in Listed : d = job[w].on
    BY <1>1, OnRows DEF DiffSteps
  <1>3. /\ IF NonePending THEN Go(w, "closeBatch") ELSE Return(w)
        /\ UNCHANGED <<nostro, va, recharged, overlapped, admin, adjustVars, taskVars,
                       diffVars>>
    BY DEF CountPending, NonePending
  <1>4. UNCHANGED <<nostro, va, recharged, overlapped, admin, app, granted, posted, writeOff,
                    credited, written, drawn, contested, statement, collected, run, batch,
                    listed, diff, asked, filed>>
    BY <1>3 DEF adjustVars, writeOffVars, taskVars, diffVars
  <1>5. job[w].at \in DiffSteps /\ Contests /\ contested' \subseteq contested \cup {d}
    BY <1>1, <1>4 DEF DiffSteps, Contests
  <1>6. /\ DiffKept
        /\ \A u \in Workers : u # w => job'[u] = job[u]
        /\ job'[w].at = IF Return(w) THEN "idle" ELSE "closeBatch"
    BY <1>1, <1>2, <1>3, <1>4, <1>5, DiffEnds
  <1>7. Listed' = Listed /\ \A e : Unresolved(e)' <=> Unresolved(e)
    BY <1>4, SameRows DEF Unresolved
  <1>8. NonePending' <=> NonePending
    BY <1>7 DEF NonePending
  <1>9. BatchInv'
    <2>1. CASE NonePending
      <3>1. job'[w].at = "closeBatch"
        <4>1. Return(w) => job'[w].at = "idle"
          BY Returning
        <4>2. job'[w].at = "closeBatch"
          <5>1. "closeBatch" \in Steps /\ Go(w, "closeBatch")
            BY <1>3, <2>1 DEF Steps, DiffSteps
          <5>. QED
            BY <5>1, Going
        <4>. QED
          BY <4>2
      <3>2. w \in Finders'
        BY <3>1 DEF Finders
      <3>. QED
        BY <1>4, <1>8, <2>1, <3>2 DEF BatchInv
    <2>2. CASE ~ NonePending
      <3>1. Closers' \subseteq Closers
        BY <1>3, <1>6, <2>2 DEF Closers
      <3>. QED
        BY <1>4, <1>8, <2>2, <3>1 DEF BatchInv
    <2>. QED
      BY <2>1, <2>2
  <1>. QED
    BY <1>6, <1>9

LEMMA CloseBatchKeeps ==
    ASSUME TypeInv, DiffInv, BatchInv, NEW w \in Workers, CloseBatch(w)
    PROVE  DiffKept /\ BatchInv'
  <1>1. job[w].at = "closeBatch"
    BY DEF CloseBatch
  <1>2. PICK d \in Listed : d = job[w].on
    BY <1>1, OnRows DEF DiffSteps
  <1>3. /\ batch' = "RESOLVED" /\ Return(w)
        /\ UNCHANGED <<nostro, va, recharged, overlapped, admin, app, granted, posted,
                       writeOff, credited, written, drawn, contested, statement, collected,
                       run, listed, diff, asked, filed>>
    BY DEF CloseBatch, adjustVars, writeOffVars, diffVars
  <1>4. job[w].at \in DiffSteps /\ Contests /\ contested' \subseteq contested \cup {d}
    BY <1>1, <1>3 DEF DiffSteps, Contests
  <1>5. /\ DiffKept
        /\ \A u \in Workers : u # w => job'[u] = job[u]
    BY <1>1, <1>2, <1>3, <1>4, DiffEnds
  <1>6. Listed' = Listed /\ \A e : Unresolved(e)' <=> Unresolved(e)
    BY <1>3, SameRows DEF Unresolved
  <1>7. NonePending /\ NonePending'
    <2>1. w \in Closers
      BY <1>1 DEF Closers
    <2>. QED
      BY <1>6, <2>1 DEF BatchInv, NonePending
  <1>8. diff' # << >>
    <2>1. DOMAIN diff # {}
      BY Placed
    <2>. QED
      BY <1>3, <2>1
  <1>. QED
    BY <1>3, <1>5, <1>7, <1>8 DEF BatchInv

LEMMA AbandonDiffKeeps ==
    ASSUME TypeInv, DiffInv, BatchInv, NEW w \in Workers, AbandonDiff(w)
    PROVE  DiffKept /\ BatchInv'
  <1>1. job[w].at \in DiffSteps
    BY DEF AbandonDiff
  <1>2. PICK d \in Listed : d = job[w].on
    BY <1>1, OnRows
  <1>3. /\ contested' = contested \cup {d} /\ Return(w)
        /\ UNCHANGED <<nostro, va, recharged, overlapped, admin, app, granted, posted,
                       writeOff, credited, written, drawn, statement, collected, run, batch,
                       listed, diff, asked, filed>>
    BY <1>2 DEF AbandonDiff, taskVars, diffVars, writeOffVars
  <1>4. Contests /\ contested' \subseteq contested \cup {d}
    BY <1>3 DEF Contests
  <1>5. /\ DiffKept
        /\ \A u \in Workers : u # w => job'[u] = job[u]
        /\ job'[w].at = "idle"
    BY <1>1, <1>2, <1>3, <1>4, DiffEnds
  <1>6. Listed' = Listed /\ \A e : Unresolved(e)' <=> Unresolved(e)
    BY <1>3, SameRows DEF Unresolved
  <1>7. Closers' \subseteq Closers
    BY <1>5 DEF Closers
  <1>8. d \in Listed' \cap contested'
    BY <1>3, <1>6
  <1>9. NonePending' <=> NonePending
    BY <1>6 DEF NonePending
  <1>. QED
    BY <1>3, <1>5, <1>7, <1>8, <1>9 DEF BatchInv

-----------------------------------------------------------------------------
IInv == TypeInv /\ AppInv /\ WriteOffInv /\ DiffInv /\ BatchInv

\* Before the differences exist, nobody resolves any.
LEMMA NothingListed ==
    ASSUME TypeInv, diff = << >>
    PROVE  /\ Listed = {}
           /\ \A w \in Workers : job[w].at \notin DiffSteps
  <1>1. DOMAIN diff = {}
    OBVIOUS
  <1>2. Listed = {}
    BY <1>1 DEF Listed
  <1>. QED
    BY <1>2, OnRows

LEMMA Still ==
    ASSUME IInv, UNCHANGED bookVars, UNCHANGED adjustVars
    PROVE  /\ BooksTypeOK(Steps)' /\ AdjustTypeOK' /\ AppInv' /\ WriteOffInv'
           /\ Contests /\ Quiet(DiffSteps) /\ job' = job
  <1>1. UNCHANGED <<nostro, va, job, recharged, overlapped, admin>>
    BY DEF bookVars
  <1>2. UNCHANGED <<app, granted, posted, writeOff, credited, written, drawn, contested>>
    BY DEF adjustVars, writeOffVars
  <1>3. BooksTypeOK(Steps)' /\ AdjustTypeOK'
    BY <1>1, <1>2 DEF IInv, TypeInv, RowsTyped, BooksTypeOK, AdjustTypeOK
  <1>4. Contests /\ Quiet(DiffSteps) /\ Quiet(AppSteps) /\ Quiet(WriteOffSteps)
    BY <1>1, <1>2 DEF Contests, Quiet
  <1>5. AppInv'
    BY <1>2, <1>4, AppFrame DEF IInv
  <1>6. WriteOffInv'
    BY <1>2, <1>4, WriteOffFrame DEF IInv
  <1>. QED
    BY <1>1, <1>3, <1>4, <1>5, <1>6

Unfinished == {"fetch", "match", "create"}
Unresolving == {"FETCHING", "MATCHING", "MATCHED", "DIFF"}

\* A step of the task that creates no differences yet.
LEMMA TaskKeeps ==
    ASSUME IInv, UNCHANGED bookVars, UNCHANGED adjustVars, UNCHANGED diffVars,
           run \in Unfinished, run' \in Unfinished \cup {"done", "dead"},
           batch' = batch \/ batch' \in Unresolving,
           statement' \in Seq(Item), Len(statement') <= MaxItems,
           collected' \in Seq(Item), Len(collected') <= MaxItems,
           Creatable(listed')
    PROVE  IInv'
  <1>1. /\ BooksTypeOK(Steps)' /\ AdjustTypeOK' /\ AppInv' /\ WriteOffInv'
        /\ Contests /\ Quiet(DiffSteps) /\ job' = job
    BY Still
  <1>2. UNCHANGED <<diff, asked, filed>>
    BY DEF diffVars
  <1>3. diff = << >> /\ diff' = << >>
    BY <1>2 DEF IInv, TypeInv, SizesInv, Unfinished
  <1>4. batch' \in Unresolving
    <2>1. batch # "RESOLVED"
      BY <1>3 DEF IInv, BatchInv
    <2>. QED
      BY <2>1 DEF IInv, TypeInv, RowsTyped, Unresolving
  <1>5. RowsTyped'
    BY <1>1, <1>2, <1>4 DEF IInv, TypeInv, RowsTyped, Unresolving, Unfinished
  <1>6. SizesInv'
    BY <1>2, <1>3 DEF IInv, TypeInv, SizesInv, Creatable
  <1>7. Listed = {} /\ Listed' = {} /\ \A w \in Workers : job[w].at \notin DiffSteps
    BY <1>2, <1>3, NothingListed, SameRows DEF IInv
  <1>8. JobsInv'
    BY <1>1, <1>7 DEF IInv, TypeInv, JobsInv
  <1>9. DiffInv'
    BY <1>1, DiffFrame DEF IInv
  <1>10. BatchInv'
    BY <1>3, <1>4, <1>7 DEF BatchInv, NonePending, Unresolving
  <1>. QED
    BY <1>1, <1>5, <1>6, <1>8, <1>9, <1>10 DEF IInv, TypeInv

LEMMA FetchKeeps ==
    ASSUME IInv, Fetch PROVE IInv'
  <1>1. /\ run \in Unfinished /\ run' \in Unfinished \cup {"done", "dead"}
        /\ batch' \in Unresolving
        /\ UNCHANGED bookVars /\ UNCHANGED adjustVars /\ UNCHANGED diffVars
        /\ UNCHANGED listed
        /\ UNCHANGED <<statement, collected>> \/ Forget
    BY DEF Fetch, Unfinished, Unresolving
  <1>2. /\ statement \in Seq(Item) /\ Len(statement) <= MaxItems
        /\ collected \in Seq(Item) /\ Len(collected) <= MaxItems
        /\ Creatable(listed')
    BY <1>1 DEF IInv, TypeInv, RowsTyped, SizesInv, Creatable
  <1>3. << >> \in Seq(Item) /\ Len(<< >>) = 0 /\ 0 <= MaxItems
    BY Lengths
  <1>4. /\ statement' \in Seq(Item) /\ Len(statement') <= MaxItems
        /\ collected' \in Seq(Item) /\ Len(collected') <= MaxItems
    BY <1>1, <1>2, <1>3 DEF Forget
  <1>. QED
    BY <1>1, <1>2, <1>4, TaskKeeps

LEMMA ConcludeKeeps ==
    ASSUME IInv, run \in Unfinished, NEW S, Creatable(S), Conclude(S),
           UNCHANGED bookVars, UNCHANGED adjustVars, UNCHANGED diffVars
    PROVE  IInv'
  <1>1. << >> \in Seq(Item) /\ Len(<< >>) = 0 /\ 0 <= MaxItems
    BY Lengths
  <1>2. /\ statement' \in Seq(Item) /\ Len(statement') <= MaxItems
        /\ collected' \in Seq(Item) /\ Len(collected') <= MaxItems
        /\ run' \in Unfinished \cup {"done", "dead"} /\ batch' \in Unresolving
        /\ Creatable(listed')
    BY <1>1 DEF Conclude, Forget, Unfinished, Unresolving
  <1>. QED
    BY <1>2, TaskKeeps

LEMMA MatchKeeps ==
    ASSUME IInv, Match PROVE IInv'
  <1>1. /\ run \in Unfinished /\ Conclude(Differing(Report(statement, collected)))
        /\ UNCHANGED bookVars /\ UNCHANGED adjustVars /\ UNCHANGED diffVars
    BY DEF Match, Unfinished
  <1>2. Creatable(Differing(Report(statement, collected)))
    BY DifferingCreatable DEF IInv, TypeInv, RowsTyped, SizesInv
  <1>. QED
    BY <1>1, <1>2, ConcludeKeeps

LEMMA CheckSettlementsKeeps ==
    ASSUME IInv, CheckSettlements PROVE IInv'
  <1>1. PICK unsettled \in SUBSET DOMAIN collected :
           Conclude({Difference(0, j, collected[j].amount, collected[j].amount) :
                        j \in unsettled})
    BY DEF CheckSettlements
  <1>2. /\ run \in Unfinished
        /\ UNCHANGED bookVars /\ UNCHANGED adjustVars /\ UNCHANGED diffVars
    BY DEF CheckSettlements, Unfinished
  <1>3. Creatable({Difference(0, j, collected[j].amount, collected[j].amount) : j \in unsettled})
    BY UnsettledCreatable DEF IInv, TypeInv, RowsTyped, SizesInv
  <1>. QED
    BY <1>1, <1>2, <1>3, ConcludeKeeps

LEMMA KillTaskKeeps ==
    ASSUME IInv, KillTask PROVE IInv'
  <1>1. /\ run \in Unfinished /\ run' \in Unfinished \cup {"done", "dead"} /\ batch' = batch
        /\ UNCHANGED bookVars /\ UNCHANGED adjustVars /\ UNCHANGED diffVars
        /\ listed' = {} /\ Forget
    BY DEF KillTask, Unfinished
  <1>2. << >> \in Seq(Item) /\ Len(<< >>) = 0 /\ 0 <= MaxItems
    BY Lengths
  <1>3. /\ statement' \in Seq(Item) /\ Len(statement') <= MaxItems
        /\ collected' \in Seq(Item) /\ Len(collected') <= MaxItems
    BY <1>1, <1>2 DEF Forget
  <1>4. Creatable(listed')
    BY <1>1, FS_EmptySet, Lengths DEF Creatable
  <1>. QED
    BY <1>1, <1>3, <1>4, TaskKeeps

\* A finite set can be listed.
LEMMA SetListed ==
    ASSUME NEW S, IsFiniteSet(S)
    PROVE  Cardinality(S) \in Nat /\ SetToSeq(S) \in [1 .. Cardinality(S) -> S]
  <1>1. Cardinality(S) \in Nat /\ ExistsBijection(1 .. Cardinality(S), S)
    BY FS_CardinalityType
  <1>2. \E f \in [1 .. Cardinality(S) -> S] : IsInjective(f)
    BY <1>1 DEF ExistsBijection, Bijection, Injection
  <1>. QED
    BY <1>1, <1>2 DEF SetToSeq

LEMMA CreateDiffsKeeps ==
    ASSUME IInv, CreateDiffs PROVE IInv'
  <1>1. /\ run = "create" /\ run' = "done" /\ listed' = {}
        /\ UNCHANGED bookVars /\ UNCHANGED adjustVars
        /\ UNCHANGED <<statement, collected, batch, asked, filed>>
    BY DEF CreateDiffs
  <1>2. /\ BooksTypeOK(Steps)' /\ AdjustTypeOK' /\ AppInv' /\ WriteOffInv'
        /\ Contests /\ job' = job
    BY <1>1, Still
  <1>3. PICK n \in Nat : /\ n = Cardinality(listed) /\ n <= Len(Differences)
                         /\ SetToSeq(listed) \in [1 .. n -> listed]
    BY SetListed DEF IInv, TypeInv, SizesInv
  <1>4. /\ diff' \in [1 .. n -> DiffRow]
        /\ \A k \in 1 .. n : diff'[k].resolution = "PENDING"
    <2>1. PICK rows : rows = SetToSeq(listed) /\ rows \in [1 .. n -> listed]
      BY <1>3
    <2>2. \A d \in listed : d.bank \in Nat /\ d.platform \in Nat
      BY DEF IInv, TypeInv, SizesInv
    <2>3. DOMAIN rows = 1 .. n
      BY <2>1
    <2>4. diff' = [k \in 1 .. n |-> [bank |-> rows[k].bank, platform |-> rows[k].platform,
                                     resolution |-> "PENDING"]]
      BY <2>1, <2>3 DEF CreateDiffs
    <2>5. \A k \in 1 .. n : [bank |-> rows[k].bank, platform |-> rows[k].platform,
                             resolution |-> "PENDING"] \in DiffRow
      BY <2>1, <2>2 DEF DiffRow, Resolutions
    <2>. QED
      BY <2>4, <2>5
  <1>5. diff' \in Seq(DiffRow) /\ Len(diff') = n /\ DOMAIN diff' = 1 .. n
    BY <1>4
  <1>6. diff = << >>
    BY <1>1 DEF IInv, TypeInv, SizesInv
  <1>7. \A w \in Workers : job'[w].at \notin DiffSteps
    BY <1>2, <1>6, NothingListed DEF IInv
  <1>8. Listed' \subseteq Range(Differences)
    <2>1. DOMAIN Differences = 1 .. Len(Differences) /\ Len(Differences) \in Nat
      BY Lengths
    <2>2. DOMAIN diff' \subseteq DOMAIN Differences
      BY <1>3, <1>5, <2>1
    <2>. QED
      BY <2>2 DEF Listed, Range
  <1>9. TypeInv'
    <2>1. RowsTyped'
      BY <1>1, <1>2, <1>5 DEF IInv, TypeInv, RowsTyped
    <2>2. SizesInv'
      BY <1>1, <1>3, <1>5, FS_EmptySet, Lengths DEF IInv, TypeInv, SizesInv
    <2>3. JobsInv'
      BY <1>2, <1>7 DEF IInv, TypeInv, JobsInv
    <2>. QED
      BY <2>1, <2>2, <2>3 DEF TypeInv
  <1>10. \A d \in Range(Differences) : asked'[d] = 0 /\ filed'[d] = 0
    BY <1>1, <1>6 DEF IInv, DiffInv
  <1>11. DiffInv'
    <2>1. \A k \in DOMAIN diff' : Founded(k)'
      BY <1>4, <1>5 DEF Founded
    <2>2. \A d \in Listed' : Done(d)' /\ OneDiff(d)'
      BY <1>7, <1>8, <1>10 DEF Done, OneDiff, Alone, Locked, DiffSteps
    <2>. QED
      BY <1>10, <2>1, <2>2 DEF DiffInv
  <1>12. BatchInv'
    <2>1. batch' # "RESOLVED"
      BY <1>1, <1>6 DEF IInv, BatchInv
    <2>2. Closers' = {}
      BY <1>7 DEF Closers, DiffSteps
    <2>3. NonePending' => diff' = << >>
      <3>. SUFFICES ASSUME diff' # << >> PROVE \E d \in Listed' : Unresolved(d)'
        BY DEF NonePending
      <3>1. PICK k : k \in DOMAIN diff'
        <4>1. \A q \in Seq(DiffRow) : Len(q) = 0 => q = << >>
          OBVIOUS
        <4>2. n # 0
          BY <1>5, <4>1
        <4>3. 1 \in 1 .. n
          BY <4>2
        <4>. QED
          BY <1>5, <4>3
      <3>2. PICK d : d = Differences[k]
        OBVIOUS
      <3>3. d \in Listed' /\ \E i \in DOMAIN diff' : Differences[i] = d
        BY <3>1, <3>2 DEF Listed
      <3>4. Place(d)' \in DOMAIN diff'
        BY <3>3 DEF Place
      <3>. QED
        BY <1>4, <1>5, <3>3, <3>4 DEF Unresolved
    <2>. QED
      BY <2>1, <2>2, <2>3 DEF BatchInv
  <1>. QED
    BY <1>2, <1>9, <1>11, <1>12 DEF IInv

-----------------------------------------------------------------------------
LEMMA FileByHandKeeps ==
    ASSUME IInv, FileByHand PROVE IInv'
  <1>1. /\ UNCHANGED <<nostro, va, job, recharged, overlapped, admin>>
        /\ UNCHANGED <<granted, posted, writeOff, credited, written, drawn>>
        /\ UNCHANGED taskVars /\ UNCHANGED diffVars
    BY DEF FileByHand, bookVars, writeOffVars
  <1>2. PICK b \in Applications, status \in FormStatuses,
             sum \in {0} \cup Amounts \cup {- x : x \in Amounts},
             account \in Accounts \cup {"none"} :
                 /\ Create(b, status, sum, account)
                 /\ contested' = IF status = "pending" THEN contested ELSE contested \cup {b}
    BY DEF FileByHand
  <1>3. sum \in Int
    BY MatchingParameters
  <1>4. /\ app' \in [Applications -> AppRow]
        /\ \A a \in Applications :
              \/ app'[a] = app[a]
              \/ app[a].status = "none" /\ (app'[a].status = "pending" \/ a \in contested')
    <2>1. PICK row : row = [status |-> status, sum |-> sum, account |-> account]
      OBVIOUS
    <2>2. row \in AppRow /\ row.status = status
      BY <1>3, <2>1 DEF AppRow, FormStatuses
    <2>3. app \in [Applications -> AppRow]
      BY Typed DEF IInv
    <2>4. app[b].status = "none" /\ app' = [app EXCEPT ![b] = row]
      BY <1>2, <2>1 DEF Create
    <2>. QED
      BY <1>2, <2>2, <2>3, <2>4
  <1>5. Contests /\ Quiet(AppSteps) /\ Quiet(WriteOffSteps) /\ Quiet(DiffSteps)
    BY <1>1, <1>2 DEF Contests, Quiet
  <1>6. AdjustTypeOK' /\ JobsInv'
    <2>1. Listed' = Listed
      BY <1>1 DEF Listed, diffVars
    <2>2. contested' \subseteq Subjects
      BY <1>2, RowKinds DEF IInv, TypeInv, RowsTyped, AdjustTypeOK
    <2>. QED
      BY <1>1, <1>4, <2>1, <2>2 DEF IInv, TypeInv, RowsTyped, AdjustTypeOK, JobsInv
  <1>7. TypeInv'
    BY <1>1, <1>6, Typed, AppsKept DEF IInv
  <1>8. AppInv'
    BY <1>1, <1>4, <1>5, AppFrame DEF IInv
  <1>9. WriteOffInv' /\ DiffInv' /\ BatchInv'
    BY <1>1, <1>5, WriteOffFrame, DiffFrame, BatchQuiet DEF IInv
  <1>. QED
    BY <1>7, <1>8, <1>9 DEF IInv

LEMMA AppHandlersKeep ==
    ASSUME IInv, AppKept, UNCHANGED <<writeOff, credited, written, drawn, taskVars, diffVars>>
    PROVE  IInv'
  <1>1. TypeInv' /\ AppInv' /\ Quiet(WriteOffSteps) /\ Quiet(DiffSteps) /\ Contests
    BY DEF AppKept
  <1>. QED
    BY <1>1, WriteOffFrame, DiffFrame, BatchQuiet DEF IInv

LEMMA WriteOffHandlersKeep ==
    ASSUME IInv, WriteOffKept, UNCHANGED <<app, granted, posted, taskVars, diffVars>>
    PROVE  IInv'
  <1>1. TypeInv' /\ WriteOffInv' /\ Quiet(AppSteps) /\ Quiet(DiffSteps) /\ Contests
    BY DEF WriteOffKept
  <1>2. AppInv'
    BY <1>1, AppFrame DEF IInv
  <1>. QED
    BY <1>1, <1>2, DiffFrame, BatchQuiet DEF IInv

LEMMA DiffHandlersKeep ==
    ASSUME IInv, DiffKept, BatchInv', UNCHANGED <<granted, posted, writeOff, credited, written,
                                                  drawn>>,
           \A a \in Applications :
              \/ app'[a] = app[a]
              \/ app[a].status = "none" /\ app'[a].status = "pending"
    PROVE  IInv'
  <1>1. TypeInv' /\ DiffInv' /\ Quiet(AppSteps) /\ Quiet(WriteOffSteps) /\ Contests
    BY DEF DiffKept
  <1>2. AppInv'
    BY <1>1, AppFrame DEF IInv
  <1>. QED
    BY <1>1, <1>2, WriteOffFrame DEF IInv

LEMMA Initially ==
    ASSUME Init PROVE IInv
  <1>1. /\ BooksInit /\ AdjustInit
        /\ run = "fetch" /\ batch = "FETCHING" /\ listed = {} /\ diff = << >>
        /\ asked = [d \in Range(Differences) |-> 0] /\ filed = [d \in Range(Differences) |-> 0]
    BY DEF Init
  <1>2. PICK n \in 0 .. MaxItems, m \in 0 .. MaxItems :
           statement \in [1 .. n -> Item] /\ collected \in [1 .. m -> Item]
    BY DEF Init
  <1>3. /\ statement \in Seq(Item) /\ Len(statement) <= MaxItems
        /\ collected \in Seq(Item) /\ Len(collected) <= MaxItems
    <2>1. \A i \in Nat : \A q \in [1 .. i -> Item] : q \in Seq(Item) /\ Len(q) = i
      OBVIOUS
    <2>2. n \in Nat /\ m \in Nat /\ n <= MaxItems /\ m <= MaxItems
      BY Lengths
    <2>. QED
      BY <1>2, <2>1, <2>2
  <1>4. \A w \in Workers : job[w] = Idle
    BY <1>1 DEF BooksInit
  <1>5. \A w \in Workers : job[w].at = "idle"
    BY <1>4 DEF Idle
  <1>6. BooksTypeOK(Steps)
    <2>1. Idle \in JobType
      BY StepNames DEF Idle, JobType, Job
    <2>2. job \in [Workers -> JobType]
      BY <1>1, <2>1 DEF BooksInit
    <2>3. nostro \in [Accounts -> NostroRow]
      <3>1. \A a \in Accounts : [balance |-> Opening[a], active |-> TRUE] \in NostroRow
        BY BooksParameters DEF NostroRow
      <3>. QED
        BY <1>1, <3>1 DEF BooksInit
    <2>. QED
      BY <1>1, <2>2, <2>3, BooksParameters
         DEF BooksInit, BooksTypeOK, JobType, VaRow, VaStatuses
  <1>7. AdjustTypeOK
    <2>1. [status |-> "none", sum |-> 0, account |-> "none"] \in AppRow
      BY DEF AppRow, AppStatuses
    <2>. QED
      BY <1>1, <2>1 DEF AdjustInit, AdjustTypeOK, WriteOffRow
  <1>8. RowsTyped
    BY <1>1, <1>3, <1>6, <1>7 DEF RowsTyped
  <1>9. SizesInv
    BY <1>1, <1>3, FS_EmptySet, Lengths DEF SizesInv
  <1>10. JobsInv
    BY <1>5, StepNames DEF JobsInv
  <1>11. /\ \A a \in Applications : /\ app[a].status = "none"
                                    /\ granted[a] = 0 /\ posted[a] = 0
         /\ \A x \in WriteOffs : writeOff[x].status = "none" /\ credited[x] = 0
         /\ \A d \in Range(Differences) : asked[d] = 0 /\ filed[d] = 0
    BY <1>1 DEF AdjustInit
  <1>12. AppInv
    <2>. SUFFICES ASSUME NEW a \in Applications PROVE Covered(a) /\ OneApp(a)
      BY DEF AppInv
    <2>1. Posting(a) = {}
      BY <1>5 DEF Posting
    <2>2. Covered(a)
      BY <1>11, <2>1, FS_EmptySet DEF Covered
    <2>3. OneApp(a)
      BY <1>5, <1>11, StepNames DEF OneApp, Alone, Settled
    <2>. QED
      BY <2>2, <2>3
  <1>13. WriteOffInv
    BY <1>5, <1>11, StepNames DEF WriteOffInv, OneWriteOff, Credited, Alone
  <1>14. DOMAIN diff = {} /\ Listed = {}
    BY <1>1 DEF Listed
  <1>15. DiffInv
    BY <1>11, <1>14 DEF DiffInv
  <1>16. BatchInv
    BY <1>1, <1>14 DEF BatchInv, NonePending
  <1>. QED
    BY <1>8, <1>9, <1>10, <1>12, <1>13, <1>15, <1>16 DEF IInv, TypeInv

LEMMA TaskStep ==
    ASSUME IInv, Task PROVE IInv'
  BY FetchKeeps, MatchKeeps, CheckSettlementsKeeps, CreateDiffsKeeps, KillTaskKeeps DEF Task

LEMMA DiffStep ==
    ASSUME IInv, DiffHandlers PROVE IInv'
  <1>0. TypeInv /\ DiffInv /\ BatchInv
    BY DEF IInv
  <1>1. ASSUME NEW w \in Workers, NEW d \in Listed, ReadDiff(w, d)
        PROVE  IInv'
    <2>1. UNCHANGED <<app, granted, posted, writeOff, credited, written, drawn>>
      BY <1>1 DEF ReadDiff, writeOffVars
    <2>. QED
      BY <1>0, <1>1, <2>1, ReadDiffKeeps, DiffHandlersKeep
  <1>2. ASSUME NEW w \in Workers, AskBank(w)
        PROVE  IInv'
    <2>1. UNCHANGED <<app, granted, posted, writeOff, credited, written, drawn>>
      BY <1>2 DEF AskBank, adjustVars, writeOffVars
    <2>. QED
      BY <1>0, <1>2, <2>1, AskBankKeeps, DiffHandlersKeep
  <1>3. ASSUME NEW w \in Workers, AdjustPlatform(w)
        PROVE  IInv'
    <2>1. UNCHANGED <<granted, posted, writeOff, credited, written, drawn>>
      BY <1>3 DEF AdjustPlatform, writeOffVars
    <2>. QED
      BY <1>0, <1>3, <2>1, AdjustPlatformKeeps, DiffHandlersKeep
  <1>4. ASSUME NEW w \in Workers, SaveDiff(w)
        PROVE  IInv'
    <2>1. UNCHANGED <<app, granted, posted, writeOff, credited, written, drawn>>
      BY <1>4 DEF SaveDiff, adjustVars, writeOffVars
    <2>. QED
      BY <1>0, <1>4, <2>1, SaveDiffKeeps, DiffHandlersKeep
  <1>5. ASSUME NEW w \in Workers, CountPending(w)
        PROVE  IInv'
    <2>1. UNCHANGED <<app, granted, posted, writeOff, credited, written, drawn>>
      BY <1>5 DEF CountPending, adjustVars, writeOffVars
    <2>. QED
      BY <1>0, <1>5, <2>1, CountPendingKeeps, DiffHandlersKeep
  <1>6. ASSUME NEW w \in Workers, CloseBatch(w)
        PROVE  IInv'
    <2>1. UNCHANGED <<app, granted, posted, writeOff, credited, written, drawn>>
      BY <1>6 DEF CloseBatch, adjustVars, writeOffVars
    <2>. QED
      BY <1>0, <1>6, <2>1, CloseBatchKeeps, DiffHandlersKeep
  <1>7. ASSUME NEW w \in Workers, AbandonDiff(w)
        PROVE  IInv'
    <2>1. UNCHANGED <<app, granted, posted, writeOff, credited, written, drawn>>
      BY <1>7 DEF AbandonDiff, writeOffVars
    <2>. QED
      BY <1>0, <1>7, <2>1, AbandonDiffKeeps, DiffHandlersKeep
  <1>. QED
    BY <1>1, <1>2, <1>3, <1>4, <1>5, <1>6, <1>7 DEF DiffHandlers

LEMMA AdjustStep ==
    ASSUME IInv, AdjustHandlers, UNCHANGED <<taskVars, diffVars>> PROVE IInv'
  <1>0. TypeInv /\ AppInv /\ WriteOffInv
    BY DEF IInv
  <1>1. ASSUME NEW w \in Workers, NEW a \in Applications, ReadApp(w, a)
        PROVE  IInv'
    <2>1. UNCHANGED <<writeOff, credited, written, drawn>>
      BY <1>1 DEF ReadApp, writeOffVars
    <2>. QED
      BY <1>0, <1>1, <2>1, ReadAppKeeps, AppHandlersKeep
  <1>2. ASSUME NEW w \in Workers, ApproveApp(w)
        PROVE  IInv'
    <2>1. UNCHANGED <<writeOff, credited, written, drawn>>
      BY <1>2 DEF ApproveApp, writeOffVars
    <2>. QED
      BY <1>0, <1>2, <2>1, ApproveAppKeeps, AppHandlersKeep
  <1>3. ASSUME NEW w \in Workers, PostApp(w)
        PROVE  IInv'
    <2>1. UNCHANGED <<writeOff, credited, written, drawn>>
      BY <1>3 DEF PostApp, writeOffVars
    <2>. QED
      BY <1>0, <1>3, <2>1, PostAppKeeps, AppHandlersKeep
  <1>4. ASSUME NEW w \in Workers, FinishApp(w)
        PROVE  IInv'
    <2>1. UNCHANGED <<writeOff, credited, written, drawn>>
      BY <1>4 DEF FinishApp, writeOffVars
    <2>. QED
      BY <1>0, <1>4, <2>1, FinishAppKeeps, AppHandlersKeep
  <1>5. ASSUME NEW w \in Workers, NEW status \in FormStatuses, UpdateApp(w, status)
        PROVE  IInv'
    <2>1. UNCHANGED <<writeOff, credited, written, drawn>>
      BY <1>5 DEF UpdateApp, writeOffVars
    <2>. QED
      BY <1>0, <1>5, <2>1, UpdateAppKeeps, AppHandlersKeep
  <1>6. ASSUME NEW w \in Workers, NEW x \in WriteOffs, ReadWriteOff(w, x)
        PROVE  IInv'
    <2>1. UNCHANGED <<app, granted, posted>>
      BY <1>6 DEF ReadWriteOff
    <2>. QED
      BY <1>0, <1>6, <2>1, ReadWriteOffKeeps, WriteOffHandlersKeep
  <1>7. ASSUME NEW w \in Workers, ApproveWriteOff(w)
        PROVE  IInv'
    <2>1. UNCHANGED <<app, granted, posted>>
      BY <1>7 DEF ApproveWriteOff
    <2>. QED
      BY <1>0, <1>7, <2>1, ApproveWriteOffKeeps, WriteOffHandlersKeep
  <1>8. ASSUME NEW w \in Workers, CreditWriteOff(w)
        PROVE  IInv'
    <2>1. UNCHANGED <<app, granted, posted>>
      BY <1>8 DEF CreditWriteOff
    <2>. QED
      BY <1>0, <1>8, <2>1, CreditWriteOffKeeps, WriteOffHandlersKeep
  <1>9. ASSUME NEW w \in Workers, SaveWriteOff(w)
        PROVE  IInv'
    <2>1. UNCHANGED <<app, granted, posted>>
      BY <1>9 DEF SaveWriteOff
    <2>. QED
      BY <1>0, <1>9, <2>1, SaveWriteOffKeeps, WriteOffHandlersKeep
  <1>13. ASSUME NEW x \in WriteOffs, NEW status \in WriteOffForms, NEW sum \in WriteOffSums,
                CreateWriteOff(x, status, sum)
         PROVE  IInv'
    <2>1. UNCHANGED <<app, granted, posted>>
      BY <1>13 DEF CreateWriteOff
    <2>. QED
      BY <1>0, <1>13, <2>1, CreateWriteOffKeeps, WriteOffHandlersKeep
  <1>14. ASSUME NEW w \in Workers, NEW status \in WriteOffForms, NEW sum,
                EditWriteOff(w, status, sum)
         PROVE  IInv'
    <2>1. UNCHANGED <<app, granted, posted>>
      BY <1>14 DEF EditWriteOff
    <2>. QED
      BY <1>0, <1>14, <2>1, EditWriteOffKeeps, WriteOffHandlersKeep
  <1>15. ASSUME NEW x \in WriteOffs, DeleteWriteOff(x)
         PROVE  IInv'
    <2>1. UNCHANGED <<app, granted, posted>>
      BY <1>15 DEF DeleteWriteOff
    <2>. QED
      BY <1>0, <1>15, <2>1, DeleteWriteOffKeeps, WriteOffHandlersKeep
  <1>10. ASSUME NEW w \in Workers, AbandonAdjustment(w)
         PROVE  IInv'
    <2>1. UNCHANGED <<app, granted, posted, writeOff, credited, written, drawn>>
          /\ job[w].at \in AppSteps \cup WriteOffSteps
      BY <1>10 DEF AbandonAdjustment, AdjustSteps, writeOffVars
    <2>2. CASE job[w].at \in AppSteps
      BY <1>0, <1>10, <2>1, <2>2, AppAbandoned, AppHandlersKeep
    <2>3. CASE job[w].at \in WriteOffSteps
      BY <1>0, <1>10, <2>1, <2>3, WriteOffAbandoned, WriteOffHandlersKeep
    <2>. QED
      BY <2>1, <2>2, <2>3
  <1>11. ASSUME AppHandlers PROVE IInv'
    BY <1>1, <1>2, <1>3, <1>4, <1>5, <1>11 DEF AppHandlers
  <1>12. ASSUME WriteOffHandlers PROVE IInv'
    BY <1>6, <1>7, <1>8, <1>9, <1>12, <1>13, <1>14, <1>15 DEF WriteOffHandlers
  <1>. QED
    BY <1>10, <1>11, <1>12 DEF AdjustHandlers

LEMMA Stutter ==
    ASSUME IInv, UNCHANGED vars PROVE IInv'
  <1>1. /\ UNCHANGED bookVars /\ UNCHANGED adjustVars /\ UNCHANGED taskVars
        /\ UNCHANGED diffVars
    BY DEF vars
  <1>2. /\ BooksTypeOK(Steps)' /\ AdjustTypeOK' /\ AppInv' /\ WriteOffInv'
        /\ Contests /\ Quiet(DiffSteps) /\ job' = job
    BY <1>1, Still
  <1>3. Listed' = Listed
    BY <1>1 DEF Listed, diffVars
  <1>4. TypeInv'
    BY <1>1, <1>2, <1>3 DEF IInv, TypeInv, RowsTyped, SizesInv, JobsInv, taskVars, diffVars
  <1>5. DiffInv' /\ BatchInv'
    BY <1>1, <1>2, DiffFrame, BatchQuiet DEF IInv
  <1>. QED
    BY <1>2, <1>4, <1>5 DEF IInv

LEMMA Inductive == IInv /\ [Next]_vars => IInv'
  BY TaskStep, DiffStep, FileByHandKeeps, AdjustStep, Stutter DEF Next

LEMMA Invariant == Spec => []IInv
  BY Initially, Inductive, PTL DEF Spec

-----------------------------------------------------------------------------
\* _post_ledger posts an application once for every approval at most, whatever
\* status it was created with or given by a form; and an application that was
\* filed as pending and whose status no form set is COMPLETED exactly when it was
\* posted, once, if one request at a time handled it.
THEOREM ApplicationsPosted == Spec => []PostedAsApproved
  <1>1. ASSUME IInv, NEW a \in Applications
        PROVE  /\ posted[a] <= granted[a]
               /\ a \notin contested => Settled(a)
    <2>1. Covered(a) /\ OneApp(a)
      BY <1>1 DEF IInv, AppInv
    <2>2. posted[a] \in Nat /\ granted[a] \in Nat /\ Cardinality(Posting(a)) \in Nat
      BY <1>1, <2>1, Typed, FS_CardinalityType DEF IInv, Covered
    <2>3. posted[a] + Cardinality(Posting(a)) <= granted[a]
      BY <2>1 DEF Covered
    <2>. QED
      BY <2>1, <2>2, <2>3 DEF OneApp
  <1>2. IInv => PostedAsApproved
    BY <1>1 DEF PostedAsApproved, Settled
  <1>. QED
    BY <1>2, Invariant, PTL

\* write_off credits a write-off once, and saves it as WRITTEN_OFF afterwards,
\* if one request at a time handles it and no form sets its status: editing the
\* amount of a write-off, or deleting it, does not make it credited twice.
THEOREM WriteOffsCredited == Spec => []WrittenOffOnce
  <1>1. IInv => WrittenOffOnce
    BY DEF IInv, WriteOffInv, OneWriteOff, Credited, WrittenOffOnce
  <1>. QED
    BY <1>1, Invariant, PTL

\* resolve_diff saves a resolution after its side effect, and an uncontested
\* difference has one side effect at most.
THEOREM ResolutionsFounded == Spec => []SideEffectFirst
  <1>1. ASSUME IInv, NEW k \in DOMAIN diff
        PROVE  /\ Founded(k)
               /\ Differences[k] \notin contested
                     => asked[Differences[k]] + filed[Differences[k]] <= 1
    <2>1. Differences[k] \in Listed
      BY DEF Listed
    <2>. QED
      BY <1>1, <2>1 DEF IInv, DiffInv, OneDiff
  <1>2. IInv => SideEffectFirst
    BY <1>1 DEF SideEffectFirst, Founded
  <1>. QED
    BY <1>2, Invariant, PTL

\* _check_batch_complete closes the batch with its last difference: not before,
\* and whoever resolves the last one sees that it is the last.
THEOREM BatchClosed == Spec => []ResolvedTogether
  <1>1. ASSUME BatchInv PROVE ResolvedTogether
    <2>1. {d \in Listed : Unresolved(d)} = {} <=> NonePending
      BY DEF NonePending
    <2>2. {w \in Workers : job[w].at \in {"countPending", "closeBatch"}} = Finders
      BY DEF Finders
    <2>. QED
      BY <1>1, <2>1, <2>2 DEF BatchInv, ResolvedTogether
  <1>2. IInv => ResolvedTogether
    BY <1>1 DEF IInv
  <1>. QED
    BY <1>2, Invariant, PTL

\* The lists a matching works on, for the theorems on match.
LEMMA ListsTyped == IInv => statement \in Seq(Item) /\ collected \in Seq(Item)
  BY DEF IInv, TypeInv, RowsTyped

\* match reports every order of the day, and every line with a transaction
\* number of its own, in one place exactly, whatever lists it is given.
THEOREM ReportComplete == Spec => []EverythingReported
  <1>1. IInv => EverythingReported
    BY ListsTyped, ReportExhaustive DEF EverythingReported
  <1>. QED
    BY <1>1, Invariant, PTL

\* match pairs no line and no order twice, and calls matched only what agrees.
THEOREM ReportAgrees == Spec => []MatchedOneToOne
  <1>1. IInv => MatchedOneToOne
    BY ListsTyped, ReportOneToOne DEF MatchedOneToOne
  <1>. QED
    BY <1>1, Invariant, PTL

\* match reports nothing as missing on both sides that it could have matched.
THEOREM ReportFinal == Spec => []NothingLeftOver
  <1>1. IInv => NothingLeftOver
    BY ListsTyped, ReportLeavesNothing DEF NothingLeftOver
  <1>. QED
    BY <1>1, Invariant, PTL

-----------------------------------------------------------------------------
(***************************************************************************)
(* AdjustmentsExplain, and the balances that stay above zero.  An          *)
(* application that is not created yet has no approval, so nothing was     *)
(* posted for it when its sum and its account are set; afterwards neither  *)
(* changes.                                                                *)
(***************************************************************************)
NeverGranted == \A a \in Applications : app[a].status = "none" => granted[a] = 0

\* What the postings of each application, and each write-off, did to account c.
Adjusted(c) ==
    [a \in Applications |-> IF app[a].account = c THEN posted[a] * app[a].sum ELSE 0]
WrittenOff(c) ==
    [x \in WriteOffs |-> IF WriteOffAccount[x] = c THEN written[x] ELSE 0]

BalanceOf(c) ==
    nostro[c].balance = Opening[c] + SumFunctionOnSet(Adjusted(c), Applications)
                                   + SumFunctionOnSet(WrittenOff(c), WriteOffs)

\* No account was taken below zero but by a write-off of a negative sum.
Solvent == \A c \in Accounts \ drawn : nostro[c].balance >= 0

ExplainInv == NeverGranted /\ \A c \in Accounts : BalanceOf(c)

\* The steps that move money, or change what it is compared with.
SameApp(a) ==
    app'[a].sum = app[a].sum /\ app'[a].account = app[a].account /\ posted'[a] = posted[a]

NoMoney ==
    /\ UNCHANGED <<nostro, posted, written, drawn>>
    /\ \A a \in Applications : app[a].status = "none" \/ SameApp(a)

Adjusts(a) ==
    /\ UNCHANGED <<app, written, drawn>>
    /\ app[a].account \in Accounts
    /\ Suffices(a)
    /\ nostro' = [nostro EXCEPT ![app[a].account].balance = @ + app[a].sum]
    /\ posted' = [posted EXCEPT ![a] = @ + 1]

WritesOff(x, n) ==
    /\ UNCHANGED <<app, posted>>
    /\ WriteOffAccount[x] \in Accounts
    /\ nostro' = [nostro EXCEPT ![WriteOffAccount[x]].balance = @ + n]
    /\ written' = [written EXCEPT ![x] = @ + n]
    /\ drawn' = IF n < 0 THEN drawn \cup {WriteOffAccount[x]} ELSE drawn

LEMMA NothingPosted ==
    ASSUME IInv, NeverGranted, NEW a \in Applications, app[a].status = "none"
    PROVE  posted[a] = 0 /\ Posting(a) = {}
  <1>1. Covered(a) /\ granted[a] = 0
    BY DEF IInv, AppInv, NeverGranted
  <1>2. Cardinality(Posting(a)) \in Nat /\ posted[a] \in Nat
    BY <1>1, Typed, FS_CardinalityType DEF IInv, Covered
  <1>3. posted[a] = 0 /\ Cardinality(Posting(a)) = 0
    BY <1>1, <1>2 DEF Covered
  <1>. QED
    BY <1>1, <1>3, FS_EmptySet DEF Covered

\* How the handlers write an application.
LEMMA AppWrites ==
    ASSUME IInv, NeverGranted, NEW a \in Applications
    PROVE  /\ \A status \in AppStatuses \ {"none"} :
                 SetApp(a, status) /\ posted' = posted
                 => /\ \A x \in Applications : SameApp(x)
                    /\ \A x \in Applications \ {a} : app'[x] = app[x]
                    /\ app'[a].status # "none"
           /\ \A status, sum, account :
                 Create(a, status, sum, account) /\ UNCHANGED <<posted, granted>>
                 => /\ \A x \in Applications : app[x].status = "none" \/ SameApp(x)
                    /\ NeverGranted'
  <1>1. app \in [Applications -> AppRow]
    BY Typed DEF IInv
  <1>2. ASSUME NEW status \in AppStatuses \ {"none"}, SetApp(a, status), posted' = posted
        PROVE  /\ \A x \in Applications : SameApp(x)
               /\ \A x \in Applications \ {a} : app'[x] = app[x]
               /\ app'[a].status # "none"
    BY <1>1, <1>2 DEF SetApp, SameApp, AppRow
  <1>3. ASSUME NEW status, NEW sum, NEW account, Create(a, status, sum, account),
               UNCHANGED <<posted, granted>>
        PROVE  /\ \A x \in Applications : app[x].status = "none" \/ SameApp(x)
               /\ NeverGranted'
    BY <1>1, <1>3 DEF Create, SameApp, NeverGranted
  <1>. QED
    BY <1>2, <1>3

LEMMA AppMoney ==
    ASSUME IInv, NeverGranted, AppHandlers
    PROVE  /\ NeverGranted'
           /\ NoMoney \/ \E a \in Applications : Adjusts(a)
  <1>0. /\ app \in [Applications -> AppRow] /\ granted \in [Applications -> Nat]
        /\ posted \in [Applications -> Nat]
    BY Typed DEF IInv
  <1>1. ASSUME NEW w \in Workers, NEW a \in Applications, ReadApp(w, a)
        PROVE  NeverGranted' /\ NoMoney
    BY <1>1 DEF ReadApp, NeverGranted, NoMoney, SameApp, writeOffVars
  <1>2. ASSUME NEW w \in Workers, ApproveApp(w)
        PROVE  NeverGranted' /\ NoMoney
    <2>. PICK a \in Applications : a = job[w].on
      BY <1>2, OnRows DEF ApproveApp, AppSteps, IInv
    <2>1. "approved" \in AppStatuses \ {"none"} /\ SetApp(a, "approved") /\ posted' = posted
      BY <1>2 DEF ApproveApp, AppStatuses
    <2>2. /\ \A x \in Applications : SameApp(x)
          /\ \A x \in Applications \ {a} : app'[x] = app[x]
          /\ app'[a].status # "none"
      BY <2>1, AppWrites
    <2>3. \A x \in Applications \ {a} : granted'[x] = granted[x]
      BY <1>0, <1>2 DEF ApproveApp
    <2>. QED
      BY <1>2, <2>2, <2>3 DEF ApproveApp, NeverGranted, NoMoney, writeOffVars
  <1>3. ASSUME NEW w \in Workers, PostApp(w)
        PROVE  NeverGranted' /\ (NoMoney \/ \E a \in Applications : Adjusts(a))
    <2>. PICK a \in Applications : a = job[w].on
      BY <1>3, OnRows DEF PostApp, AppSteps, IInv
    <2>1. UNCHANGED <<app, granted, written, drawn>>
      BY <1>3 DEF PostApp, writeOffVars
    <2>2. (UNCHANGED <<nostro, posted>>) \/ Adjusts(a)
      <3>1. ASSUME ~ PostsNothing(a)
            PROVE  app[a].account \in Accounts
        BY <1>0, <3>1 DEF PostsNothing, AppRow
      <3>. QED
        BY <1>3, <2>1, <3>1 DEF PostApp, Adjusts, Delta
    <2>. QED
      BY <2>1, <2>2 DEF NeverGranted, NoMoney, SameApp
  <1>4. ASSUME NEW w \in Workers, FinishApp(w)
        PROVE  NeverGranted' /\ NoMoney
    <2>. PICK a \in Applications : a = job[w].on
      BY <1>4, OnRows DEF FinishApp, AppSteps, IInv
    <2>1. PICK status \in AppStatuses \ {"none"} : SetApp(a, status)
      BY <1>4 DEF FinishApp, AppStatuses
    <2>2. UNCHANGED <<nostro, granted, posted, written, drawn>>
      BY <1>4 DEF FinishApp, writeOffVars
    <2>3. /\ \A x \in Applications : SameApp(x)
          /\ \A x \in Applications \ {a} : app'[x] = app[x]
          /\ app'[a].status # "none"
      BY <2>1, <2>2, AppWrites
    <2>. QED
      BY <2>2, <2>3 DEF NeverGranted, NoMoney
  <1>5. ASSUME NEW w \in Workers, NEW status \in FormStatuses, UpdateApp(w, status)
        PROVE  NeverGranted' /\ NoMoney
    <2>. PICK a \in Applications : a = job[w].on
      BY <1>5, OnRows DEF UpdateApp, AppSteps, IInv
    <2>1. status \in AppStatuses \ {"none"} /\ SetApp(a, status)
      BY <1>5 DEF UpdateApp, FormStatuses
    <2>2. UNCHANGED <<nostro, granted, posted, written, drawn>>
      BY <1>5 DEF UpdateApp, writeOffVars
    <2>3. /\ \A x \in Applications : SameApp(x)
          /\ \A x \in Applications \ {a} : app'[x] = app[x]
          /\ app'[a].status # "none"
      BY <2>1, <2>2, AppWrites
    <2>. QED
      BY <2>2, <2>3 DEF NeverGranted, NoMoney
  <1>. QED
    BY <1>1, <1>2, <1>3, <1>4, <1>5 DEF AppHandlers

LEMMA MoneyStep ==
    ASSUME IInv, NeverGranted, [Next]_vars
    PROVE  /\ NeverGranted'
           /\ \/ NoMoney
              \/ \E a \in Applications : Adjusts(a)
              \/ \E x \in WriteOffs, n \in Int : WritesOff(x, n)
  <1>1. ASSUME UNCHANGED <<nostro, app, granted, posted, written, drawn>>
        PROVE  NeverGranted' /\ NoMoney
    BY <1>1 DEF NeverGranted, NoMoney, SameApp
  <1>2. ASSUME Task
        PROVE  NeverGranted' /\ NoMoney
    BY <1>1, <1>2 DEF Task, Fetch, Match, CheckSettlements, CreateDiffs, KillTask, bookVars,
                      adjustVars, writeOffVars
  <1>3. ASSUME FileByHand
        PROVE  NeverGranted' /\ NoMoney
    <2>1. PICK a \in Applications, status \in FormStatuses,
               sum \in {0} \cup Amounts \cup {- x : x \in Amounts},
               account \in Accounts \cup {"none"} : Create(a, status, sum, account)
      BY <1>3 DEF FileByHand
    <2>2. UNCHANGED <<nostro, granted, posted, written, drawn>>
      BY <1>3 DEF FileByHand, bookVars, writeOffVars
    <2>. QED
      BY <2>1, <2>2, AppWrites DEF NoMoney
  <1>4. ASSUME NEW w \in Workers, AdjustPlatform(w)
        PROVE  NeverGranted' /\ NoMoney
    <2>1. PICK a \in Applications, account \in Accounts \cup {"none"} :
             Create(a, "pending", SumToAdjust(diff[Place(job[w].on)]), account)
      BY <1>4 DEF AdjustPlatform
    <2>2. UNCHANGED <<nostro, granted, posted, written, drawn>>
      BY <1>4 DEF AdjustPlatform, writeOffVars
    <2>. QED
      BY <2>1, <2>2, AppWrites DEF NoMoney
  <1>5. ASSUME NEW w \in Workers,
               \/ \E d \in Listed : ReadDiff(w, d)
               \/ AskBank(w) \/ SaveDiff(w) \/ CountPending(w) \/ CloseBatch(w)
               \/ AbandonDiff(w)
        PROVE  NeverGranted' /\ NoMoney
    BY <1>1, <1>5 DEF ReadDiff, AskBank, SaveDiff, CountPending, CloseBatch, AbandonDiff,
                      adjustVars, writeOffVars
  <1>6. ASSUME AppHandlers
        PROVE  NeverGranted' /\ (NoMoney \/ \E a \in Applications : Adjusts(a))
    BY <1>6, AppMoney
  <1>7. ASSUME NEW w \in Workers,
               \/ \E x \in WriteOffs : ReadWriteOff(w, x)
               \/ \E status, sum : EditWriteOff(w, status, sum)
               \/ ApproveWriteOff(w) \/ SaveWriteOff(w) \/ AbandonAdjustment(w)
        PROVE  NeverGranted' /\ NoMoney
    BY <1>1, <1>7 DEF ReadWriteOff, EditWriteOff, ApproveWriteOff, SaveWriteOff,
                      AbandonAdjustment, writeOffVars
  <1>8. ASSUME NEW x \in WriteOffs,
               DeleteWriteOff(x) \/ \E status, sum : CreateWriteOff(x, status, sum)
        PROVE  NeverGranted' /\ NoMoney
    BY <1>1, <1>8 DEF DeleteWriteOff, CreateWriteOff, bookVars
  <1>9. ASSUME NEW w \in Workers, CreditWriteOff(w)
        PROVE  NeverGranted' /\ (NoMoney \/ \E x \in WriteOffs, n \in Int : WritesOff(x, n))
    <2>. PICK x \in WriteOffs : x = job[w].on
      BY <1>9, OnRows DEF CreditWriteOff, WriteOffSteps, IInv
    <2>. PICK n \in Int : n = job[w].seen
      BY SeenTyped DEF IInv
    <2>1. UNCHANGED <<app, granted, posted>>
      BY <1>9 DEF CreditWriteOff
    <2>2. WriteOffAccount[x] \in Accounts \cup {"none"}
      BY AdjustmentParameters
    <2>3. (UNCHANGED <<nostro, written, drawn>>) \/ WritesOff(x, n)
      BY <1>9, <2>1, <2>2 DEF CreditWriteOff, WritesOff
    <2>. QED
      BY <2>1, <2>3 DEF NeverGranted, NoMoney, SameApp
  <1>10. ASSUME UNCHANGED vars
         PROVE  NeverGranted' /\ NoMoney
    BY <1>1, <1>10 DEF vars, bookVars, adjustVars, writeOffVars
  <1>11. ASSUME WriteOffHandlers
         PROVE  NeverGranted' /\ (NoMoney \/ \E x \in WriteOffs, n \in Int : WritesOff(x, n))
    BY <1>7, <1>8, <1>9, <1>11 DEF WriteOffHandlers
  <1>12. ASSUME DiffHandlers
         PROVE  NeverGranted' /\ NoMoney
    BY <1>4, <1>5, <1>12 DEF DiffHandlers
  <1>. QED
    BY <1>2, <1>3, <1>6, <1>7, <1>10, <1>11, <1>12 DEF Next, AdjustHandlers

LEMMA EffectsTyped ==
    ASSUME IInv, NEW c \in Accounts
    PROVE  /\ IsFiniteSet(Applications) /\ IsFiniteSet(WriteOffs)
           /\ \A a \in Applications :
                 /\ posted[a] \in Nat /\ app[a].sum \in Int
                 /\ Adjusted(c)[a] = (IF app[a].account = c THEN posted[a] * app[a].sum ELSE 0)
                 /\ Adjusted(c)[a] \in Int
           /\ \A x \in WriteOffs :
                 /\ written[x] \in Int
                 /\ WrittenOff(c)[x] = (IF WriteOffAccount[x] = c THEN written[x] ELSE 0)
                 /\ WrittenOff(c)[x] \in Int
           /\ SumFunctionOnSet(Adjusted(c), Applications) \in Int
           /\ SumFunctionOnSet(WrittenOff(c), WriteOffs) \in Int
           /\ nostro[c].balance \in Int /\ Opening[c] \in Nat
  <1>1. IsFiniteSet(Applications) /\ IsFiniteSet(WriteOffs)
    BY AdjustmentParameters
  <1>2. \A a \in Applications : posted[a] \in Nat /\ app[a].sum \in Int
    BY Typed DEF IInv, AppRow
  <1>3. \A x \in WriteOffs : written[x] \in Int
    BY Typed DEF IInv
  <1>. PICK g : g = Adjusted(c)
    OBVIOUS
  <1>. PICK h : h = WrittenOff(c)
    OBVIOUS
  <1>4. \A a \in Applications :
           /\ g[a] = IF app[a].account = c THEN posted[a] * app[a].sum ELSE 0
           /\ g[a] \in Int
    BY <1>2, Counted DEF Adjusted
  <1>5. \A x \in WriteOffs :
           /\ h[x] = IF WriteOffAccount[x] = c THEN written[x] ELSE 0
           /\ h[x] \in Int
    BY <1>3 DEF WrittenOff
  <1>6. SumFunctionOnSet(g, Applications) \in Int
    BY <1>1, <1>4, SumInt
  <1>7. SumFunctionOnSet(h, WriteOffs) \in Int
    BY <1>1, <1>5, SumInt
  <1>8. nostro[c].balance \in Int /\ Opening[c] \in Nat
    BY Typed, BooksParameters DEF IInv, NostroRow
  <1>. QED
    BY <1>1, <1>2, <1>3, <1>4, <1>5, <1>6, <1>7, <1>8

\* A posting is added to the sum of its account.
LEMMA AdjustedMoves ==
    ASSUME IInv, NeverGranted, [Next]_vars, NEW c \in Accounts
    PROVE  /\ NoMoney => SumFunctionOnSet(Adjusted(c), Applications)'
                         = SumFunctionOnSet(Adjusted(c), Applications)
           /\ \A a \in Applications :
                 Adjusts(a) => SumFunctionOnSet(Adjusted(c), Applications)'
                               = SumFunctionOnSet(Adjusted(c), Applications)
                                 + (IF app[a].account = c THEN app[a].sum ELSE 0)
  <1>. PICK g : g = Adjusted(c)
    OBVIOUS
  <1>. PICK h : h = Adjusted(c)'
    OBVIOUS
  <1>. PICK S : S = Applications
    OBVIOUS
  <1>1. /\ IsFiniteSet(S)
        /\ \A a \in S : /\ posted[a] \in Nat /\ app[a].sum \in Int /\ g[a] \in Int
                        /\ g[a] = IF app[a].account = c THEN posted[a] * app[a].sum ELSE 0
    BY EffectsTyped
  <1>2. \A a \in S : h[a] = IF app'[a].account = c THEN posted'[a] * app'[a].sum ELSE 0
    BY DEF Adjusted
  <1>3. ASSUME NoMoney
        PROVE  SumFunctionOnSet(g, S) = SumFunctionOnSet(h, S)
    <2>1. ASSUME NEW a \in S
          PROVE  g[a] = h[a]
      <3>1. CASE SameApp(a)
        BY <1>1, <1>2, <3>1 DEF SameApp
      <3>2. CASE app[a].status = "none"
        <4>1. posted[a] = 0 /\ posted'[a] = 0
          BY <1>3, <3>2, NothingPosted DEF NoMoney
        <4>2. app'[a].sum \in Int
          <5>1. IInv'
            BY Inductive
          <5>. QED
            BY <5>1 DEF IInv, TypeInv, RowsTyped, AdjustTypeOK, AppRow
        <4>3. \A n \in Int : 0 * n = 0
          OBVIOUS
        <4>. QED
          BY <1>1, <1>2, <4>1, <4>2, <4>3
      <3>. QED
        BY <1>3, <3>1, <3>2 DEF NoMoney
    <2>2. IsFiniteSet(S)
      BY <1>1
    <2>. QED
      BY ONLY <2>1, <2>2, SumSame, Zenon
  <1>4. ASSUME NEW a \in S, Adjusts(a)
        PROVE  SumFunctionOnSet(h, S)
               = SumFunctionOnSet(g, S) + (IF app[a].account = c THEN app[a].sum ELSE 0)
    <2>. PICK n : n = IF app[a].account = c THEN app[a].sum ELSE 0
      BY <1>1
    <2>1. posted \in [Applications -> Nat] /\ app' = app
      BY <1>4, Typed DEF IInv, Adjusts
    <2>2. \A y \in S : posted'[y] = IF y = a THEN posted[y] + 1 ELSE posted[y]
      BY <1>4, <2>1 DEF Adjusts
    <2>3. /\ \A y \in S : g[y] \in Int /\ h[y] \in Int /\ (y # a => g[y] = h[y])
          /\ h[a] = g[a] + n
      <3>1. ASSUME NEW y \in S, y # a
            PROVE  h[y] = g[y] /\ g[y] \in Int
        BY <1>1, <1>2, <2>1, <2>2, <3>1
      <3>2. h[a] = g[a] + n
        <4>1. posted'[a] = posted[a] + 1
          BY <2>2
        <4>2. CASE app[a].account = c
          <5>1. h[a] = posted'[a] * app[a].sum
            BY <1>2, <2>1, <4>2
          <5>2. /\ g[a] = posted[a] * app[a].sum
                /\ posted[a] \in Nat
                /\ app[a].sum \in Int
            BY <1>1, <4>2
          <5>3. n = app[a].sum
            BY <4>2
          <5>. QED
            BY ONLY <4>1, <5>1, <5>2, <5>3, Counted
        <4>3. CASE app[a].account # c
          BY <1>1, <1>2, <2>1, <4>3
        <4>. QED
          BY <4>2, <4>3
      <3>3. n \in Int /\ g[a] \in Int
        BY <1>1
      <3>4. h[a] \in Int
        BY <3>2, <3>3
      <3>. QED
        BY ONLY <3>1, <3>2, <3>3, <3>4
    <2>4. SumFunctionOnSet(h, S) = SumFunctionOnSet(g, S) - g[a] + h[a]
      <3>1. IsFiniteSet(S)
        BY <1>1
      <3>2. \A y \in S : g[y] \in Int /\ h[y] \in Int /\ (y # a => g[y] = h[y])
        BY <2>3
      <3>. QED
        BY ONLY <3>1, <3>2, a \in S, SumChange
    <2>5. SumFunctionOnSet(g, S) \in Int
      <3>1. IsFiniteSet(S)
        BY <1>1
      <3>2. \A y \in S : g[y] \in Int
        BY <1>1
      <3>. QED
        BY ONLY <3>1, <3>2, SumInt
    <2>. QED
      BY <1>1, <2>3, <2>4, <2>5
  <1>. QED
    BY <1>3, <1>4

LEMMA WrittenOffMoves ==
    ASSUME IInv, NEW c \in Accounts
    PROVE  /\ written' = written => WrittenOff(c)' = WrittenOff(c)
           /\ \A x \in WriteOffs, n \in Int :
                 WritesOff(x, n) => SumFunctionOnSet(WrittenOff(c), WriteOffs)'
                                    = SumFunctionOnSet(WrittenOff(c), WriteOffs)
                                      + (IF WriteOffAccount[x] = c THEN n ELSE 0)
  <1>. PICK g : g = WrittenOff(c)
    OBVIOUS
  <1>. PICK h : h = WrittenOff(c)'
    OBVIOUS
  <1>. PICK S : S = WriteOffs
    OBVIOUS
  <1>1. /\ IsFiniteSet(S)
        /\ \A x \in S : /\ written[x] \in Int /\ g[x] \in Int
                        /\ g[x] = IF WriteOffAccount[x] = c THEN written[x] ELSE 0
    BY EffectsTyped
  <1>2. \A x \in S : h[x] = IF WriteOffAccount[x] = c THEN written'[x] ELSE 0
    BY DEF WrittenOff
  <1>3. written' = written => h = g
    BY DEF WrittenOff
  <1>4. ASSUME NEW x \in S, NEW m \in Int, WritesOff(x, m)
        PROVE  SumFunctionOnSet(h, S)
               = SumFunctionOnSet(g, S) + (IF WriteOffAccount[x] = c THEN m ELSE 0)
    <2>. PICK n \in Int : n = IF WriteOffAccount[x] = c THEN m ELSE 0
      OBVIOUS
    <2>1. written \in [WriteOffs -> Int]
      BY Typed DEF IInv
    <2>2. \A y \in S : written'[y] = IF y = x THEN written[y] + m ELSE written[y]
      BY <1>4, <2>1 DEF WritesOff
    <2>3. /\ \A y \in S : g[y] \in Int /\ h[y] \in Int /\ (y # x => g[y] = h[y])
          /\ h[x] = g[x] + n
      <3>1. ASSUME NEW y \in S, y # x
            PROVE  h[y] = g[y] /\ g[y] \in Int
        BY <1>1, <1>2, <2>2, <3>1
      <3>2. h[x] = g[x] + n
        BY <1>1, <1>2, <2>2
      <3>3. n \in Int /\ g[x] \in Int
        BY <1>1
      <3>4. h[x] \in Int
        BY <3>2, <3>3
      <3>. QED
        BY ONLY <3>1, <3>2, <3>3, <3>4
    <2>4. SumFunctionOnSet(h, S) = SumFunctionOnSet(g, S) - g[x] + h[x]
      <3>1. IsFiniteSet(S)
        BY <1>1
      <3>2. \A y \in S : g[y] \in Int /\ h[y] \in Int /\ (y # x => g[y] = h[y])
        BY <2>3
      <3>. QED
        BY ONLY <3>1, <3>2, x \in S, SumChange
    <2>5. SumFunctionOnSet(g, S) \in Int
      <3>1. IsFiniteSet(S)
        BY <1>1
      <3>2. \A y \in S : g[y] \in Int
        BY <1>1
      <3>. QED
        BY ONLY <3>1, <3>2, SumInt
    <2>. QED
      BY <1>1, <2>3, <2>4, <2>5
  <1>. QED
    BY <1>3, <1>4

LEMMA BalanceStep ==
    ASSUME IInv, ExplainInv, [Next]_vars
    PROVE  ExplainInv'
  <1>1. NeverGranted /\ NeverGranted'
    BY MoneyStep DEF ExplainInv
  <1>2. SUFFICES ASSUME NEW c \in Accounts
                 PROVE  BalanceOf(c)'
    BY <1>1 DEF ExplainInv
  <1>. USE <1>2
  <1>3. /\ nostro[c].balance = Opening[c] + SumFunctionOnSet(Adjusted(c), Applications)
                                          + SumFunctionOnSet(WrittenOff(c), WriteOffs)
        /\ SumFunctionOnSet(Adjusted(c), Applications) \in Int
        /\ SumFunctionOnSet(WrittenOff(c), WriteOffs) \in Int
        /\ nostro[c].balance \in Int /\ Opening[c] \in Nat
    BY EffectsTyped DEF ExplainInv, BalanceOf
  <1>4. nostro \in [Accounts -> NostroRow]
    BY Typed DEF IInv
  <1>5. CASE NoMoney
    <2>1. /\ SumFunctionOnSet(Adjusted(c), Applications)'
             = SumFunctionOnSet(Adjusted(c), Applications)
          /\ WrittenOff(c)' = WrittenOff(c) /\ nostro' = nostro
      BY <1>1, <1>5, AdjustedMoves, WrittenOffMoves DEF NoMoney
    <2>. QED
      BY <1>3, <2>1 DEF BalanceOf
  <1>6. ASSUME NEW a \in Applications, Adjusts(a)
        PROVE  BalanceOf(c)'
    <2>1. /\ SumFunctionOnSet(Adjusted(c), Applications)'
             = SumFunctionOnSet(Adjusted(c), Applications)
               + (IF app[a].account = c THEN app[a].sum ELSE 0)
          /\ WrittenOff(c)' = WrittenOff(c)
      BY <1>1, <1>6, AdjustedMoves, WrittenOffMoves DEF Adjusts
    <2>2. nostro'[c].balance = nostro[c].balance
                               + (IF app[a].account = c THEN app[a].sum ELSE 0)
      BY <1>3, <1>4, <1>6 DEF Adjusts, NostroRow
    <2>3. app[a].sum \in Int
      BY EffectsTyped
    <2>. QED
      BY <1>3, <2>1, <2>2, <2>3 DEF BalanceOf
  <1>7. ASSUME NEW x \in WriteOffs, NEW n \in Int, WritesOff(x, n)
        PROVE  BalanceOf(c)'
    <2>1. /\ SumFunctionOnSet(WrittenOff(c), WriteOffs)'
             = SumFunctionOnSet(WrittenOff(c), WriteOffs)
               + (IF WriteOffAccount[x] = c THEN n ELSE 0)
          /\ Adjusted(c)' = Adjusted(c)
      BY <1>7, WrittenOffMoves DEF WritesOff, Adjusted
    <2>2. nostro'[c].balance = nostro[c].balance
                               + (IF WriteOffAccount[x] = c THEN n ELSE 0)
      BY <1>3, <1>4, <1>7 DEF WritesOff, NostroRow
    <2>. QED
      BY <1>3, <2>1, <2>2 DEF BalanceOf
  <1>. QED
    BY <1>1, <1>5, <1>6, <1>7, MoneyStep

LEMMA InitExplain == Init => ExplainInv
  <1>1. SUFFICES ASSUME Init
                 PROVE  ExplainInv
    OBVIOUS
  <1>2. /\ app = [a \in Applications |-> [status |-> "none", sum |-> 0, account |-> "none"]]
        /\ granted = [a \in Applications |-> 0] /\ posted = [a \in Applications |-> 0]
        /\ written = [x \in WriteOffs |-> 0]
        /\ nostro = [a \in Accounts |-> [balance |-> Opening[a], active |-> TRUE]]
    BY <1>1 DEF Init, AdjustInit, BooksInit
  <1>3. ASSUME NEW c \in Accounts
        PROVE  BalanceOf(c)
    <2>. PICK g : g = Adjusted(c)
      OBVIOUS
    <2>. PICK h : h = WrittenOff(c)
      OBVIOUS
    <2>1. \A a \in Applications : g[a] = 0
      BY <1>2 DEF Adjusted
    <2>2. \A x \in WriteOffs : h[x] = 0
      BY <1>2 DEF WrittenOff
    <2>3. SumFunctionOnSet(g, Applications) = 0 /\ SumFunctionOnSet(h, WriteOffs) = 0
      BY <2>1, <2>2, AdjustmentParameters, SumZero
    <2>4. nostro[c].balance = Opening[c] /\ Opening[c] \in Nat
      BY <1>2, BooksParameters
    <2>. QED
      BY <2>3, <2>4 DEF BalanceOf
  <1>. QED
    BY <1>2, <1>3 DEF ExplainInv, NeverGranted

\* Summing over all the rows, or over those of the account, is the same.
LEMMA SumsOfAccount ==
    ASSUME IInv, NEW c \in Accounts
    PROVE  /\ SumFunctionOnSet(Adjusted(c), Applications)
              = SumFunctionOnSet([a \in Applications |-> posted[a] * app[a].sum],
                                 {a \in Applications : app[a].account = c})
           /\ SumFunctionOnSet(WrittenOff(c), WriteOffs)
              = SumFunctionOnSet(written, {x \in WriteOffs : WriteOffAccount[x] = c})
  <1>. PICK g : g = Adjusted(c)
    OBVIOUS
  <1>. PICK h : h = WrittenOff(c)
    OBVIOUS
  <1>. PICK f : f = [a \in Applications |-> posted[a] * app[a].sum]
    OBVIOUS
  <1>. PICK k : k = written
    OBVIOUS
  <1>. PICK S : S = {a \in Applications : app[a].account = c}
    OBVIOUS
  <1>. PICK T : T = {x \in WriteOffs : WriteOffAccount[x] = c}
    OBVIOUS
  <1>1. /\ IsFiniteSet(Applications) /\ IsFiniteSet(WriteOffs)
        /\ \A a \in Applications :
              /\ g[a] \in Int
              /\ g[a] = IF app[a].account = c THEN posted[a] * app[a].sum ELSE 0
        /\ \A x \in WriteOffs :
              /\ h[x] \in Int
              /\ h[x] = IF WriteOffAccount[x] = c THEN written[x] ELSE 0
    BY EffectsTyped
  <1>2. S \subseteq Applications /\ T \subseteq WriteOffs
    OBVIOUS
  <1>3. IsFiniteSet(S) /\ IsFiniteSet(T)
    BY <1>1, <1>2, FS_Subset
  <1>4. /\ \A a \in Applications : a \notin S => g[a] = 0
        /\ \A x \in WriteOffs : x \notin T => h[x] = 0
    BY <1>1
  <1>5. /\ SumFunctionOnSet(g, Applications) = SumFunctionOnSet(g, S)
        /\ SumFunctionOnSet(h, WriteOffs) = SumFunctionOnSet(h, T)
    BY <1>1, <1>2, <1>4, SumRestricted
  <1>6. /\ \A a \in S : g[a] = f[a]
        /\ \A x \in T : h[x] = k[x]
    BY <1>1
  <1>7. SumFunctionOnSet(g, S) = SumFunctionOnSet(f, S)
    BY ONLY <1>3, <1>6, SumSame, Zenon
  <1>8. SumFunctionOnSet(h, T) = SumFunctionOnSet(k, T)
    BY ONLY <1>3, <1>6, SumSame, Zenon
  <1>. QED
    BY <1>5, <1>7, <1>8

\* A debit is posted only if the account covers it, and a credit does no harm.
LEMMA SolventStep ==
    ASSUME IInv, NeverGranted, Solvent, [Next]_vars
    PROVE  Solvent'
  <1>1. nostro \in [Accounts -> NostroRow]
    BY Typed DEF IInv
  <1>2. CASE NoMoney
    BY <1>2 DEF NoMoney, Solvent
  <1>3. ASSUME NEW a \in Applications, Adjusts(a)
        PROVE  Solvent'
    <2>1. /\ app[a].sum \in Int
          /\ app[a].sum >= 0 \/ nostro[app[a].account].balance + app[a].sum >= 0
      BY <1>3, Typed DEF IInv, AppRow, Adjusts, Suffices, Delta
    <2>2. \A c \in Accounts :
             nostro'[c].balance = IF c = app[a].account THEN nostro[c].balance + app[a].sum
                                                        ELSE nostro[c].balance
      BY <1>1, <1>3 DEF Adjusts, NostroRow
    <2>3. ASSUME NEW c \in Accounts \ drawn'
          PROVE  nostro'[c].balance >= 0
      <3>1. nostro[c].balance \in Int /\ nostro[c].balance >= 0
        BY <1>1, <1>3, <2>3 DEF Adjusts, Solvent, NostroRow
      <3>. QED
        BY <2>1, <2>2, <3>1
    <2>. QED
      BY <2>3 DEF Solvent
  <1>4. ASSUME NEW x \in WriteOffs, NEW n \in Int, WritesOff(x, n)
        PROVE  Solvent'
    <2>1. \A c \in Accounts :
             /\ nostro[c].balance \in Int
             /\ nostro'[c].balance = IF c = WriteOffAccount[x] THEN nostro[c].balance + n
                                                               ELSE nostro[c].balance
      BY <1>1, <1>4 DEF WritesOff, NostroRow
    <2>2. ASSUME NEW c \in Accounts \ drawn'
          PROVE  nostro'[c].balance >= 0
      <3>1. c \notin drawn /\ (c = WriteOffAccount[x] => n >= 0)
        BY <1>4, <2>2 DEF WritesOff
      <3>2. nostro[c].balance >= 0
        BY <3>1 DEF Solvent
      <3>. QED
        BY <2>1, <3>1, <3>2
    <2>. QED
      BY <2>2 DEF Solvent
  <1>. QED
    BY <1>2, <1>3, <1>4, MoneyStep

\* Every variable keeps its type, and no adjustment takes an account below zero:
\* _post_ledger asks the locked row of every debit.  The accounts a write-off of
\* a negative sum was credited to are the exception.
THEOREM ReconciliationTyped == Spec => []TypeOK
  <1>. DEFINE Inv == IInv /\ NeverGranted /\ Solvent
  <1>1. Init => Inv
    <2>1. SUFFICES ASSUME Init PROVE Inv
      OBVIOUS
    <2>2. nostro = [a \in Accounts |-> [balance |-> Opening[a], active |-> TRUE]]
      BY <2>1 DEF Init, BooksInit
    <2>3. Solvent
      BY <2>2, BooksParameters DEF Solvent
    <2>. QED
      BY <2>1, <2>3, Initially, InitExplain DEF ExplainInv
  <1>2. Inv /\ [Next]_vars => Inv'
    BY Inductive, MoneyStep, SolventStep
  <1>3. Inv => TypeOK
    BY DEF IInv, TypeInv, RowsTyped, Solvent, TypeOK
  <1>. QED
    BY <1>1, <1>2, <1>3, PTL DEF Spec

\* The balance of an account is its opening balance with the adjustments and
\* write-offs posted to it, however their handlers overlap or die half way:
\* _post_ledger and write_off change the locked row by the sum they count.
THEOREM BalancesExplained == Spec => []AdjustmentsExplain
  <1>. DEFINE Inv == IInv /\ ExplainInv
  <1>1. Init => Inv
    BY Initially, InitExplain
  <1>2. Inv /\ [Next]_vars => Inv'
    BY Inductive, BalanceStep
  <1>3. Inv => AdjustmentsExplain
    BY SumsOfAccount DEF ExplainInv, BalanceOf, AdjustmentsExplain
  <1>. QED
    BY <1>1, <1>2, <1>3, PTL DEF Spec
=============================================================================
