------------------------- MODULE StatementMatching -------------------------
(***************************************************************************)
(* ReconciliationMatcher.match: what becomes of the lines of a bank        *)
(* statement and the platform's orders of the day.  Both are sequences in  *)
(* the order the code runs through them; a line or an order is known by    *)
(* its index.  The dictionaries of the code keep the last order, or line,  *)
(* of a key.                                                               *)
(***************************************************************************)
EXTENDS Integers, Sequences, FiniteSets, FiniteSetsExt

CONSTANTS Txns,      \* bank transaction numbers
          Prns,      \* payment reference numbers
          Amounts,   \* amounts of lines and orders
          Times      \* times of booking, in units of the time window

ASSUME MatchingParameters ==
    /\ "none" \notin Txns \cup Prns
    /\ Amounts \subseteq Nat \ {0}
    /\ Times \subseteq Nat

\* A line, or an order, as far as the matching looks at it.  A blank
\* transaction number, and the lack of a reference, is "none".
Item == [txn : Txns \cup {"none"}, prn : Prns \cup {"none"}, amount : Amounts, time : Times]

SameAmount(l, o) == l.amount = o.amount

\* Variants with a bug: amounts in the fuzzy round are not compared; lines
\* without a transaction number take no part in it.
NearInTime(l, o) == l.time = o.time
NearAndNamed(l, o) == SameAmount(l, o) /\ l.time = o.time /\ l.txn # "none"

Near(l, o) == SameAmount(l, o) /\ l.time = o.time

Lines(pairs) == {p[1] : p \in pairs}
Orders(pairs) == {p[2] : p \in pairs}

\* Round 1: the first line that carries a reference with the last order that
\* has it, whatever the amounts.
PrnPairs(lines, orders) ==
    {p \in (DOMAIN lines) \X (DOMAIN orders) :
        LET prn == lines[p[1]].prn
        IN  /\ prn # "none"
            /\ orders[p[2]].prn = prn
            /\ \A i \in 1 .. p[1] - 1 : lines[i].prn # prn
            /\ \A j \in p[2] + 1 .. Len(orders) : orders[j].prn # prn}

\* A variant with a bug: the lines a round has used up are forgotten.
AllLines(lines, pairs) == DOMAIN lines

\* The lines no pair has used up: a pair uses up every line with the
\* transaction number of its own.
Unused(lines, pairs) ==
    {i \in DOMAIN lines : \A k \in Lines(pairs) : lines[k].txn # lines[i].txn}

\* Round 2: lines left over with the last order of their transaction number,
\* if that order is left over and the amounts agree.
ExactPairs(lines, orders, before) ==
    {p \in Unused(lines, before) \X ((DOMAIN orders) \ Orders(before)) :
        LET txn == lines[p[1]].txn
        IN  /\ txn # "none"
            /\ orders[p[2]].txn = txn
            /\ \A j \in p[2] + 1 .. Len(orders) : orders[j].txn # txn
            /\ SameAmount(lines[p[1]], orders[p[2]])
            /\ \A i \in Unused(lines, before) :
                   i < p[1] /\ lines[i].txn = txn => ~ SameAmount(lines[i], orders[p[2]])}

\* A variant with a bug: a line may take an order that another has taken.
FuzzyPairsAny(lines, orders, before) ==
    {p \in Unused(lines, before) \X ((DOMAIN orders) \ Orders(before)) :
        /\ Near(lines[p[1]], orders[p[2]])
        /\ \A j \in 1 .. p[2] - 1 :
               Near(lines[p[1]], orders[j]) => j \in Orders(before)}

\* Round 3: every line left over takes the first order left over with its
\* amount and near its time.
FuzzyPairs(lines, orders, before) ==
    LET left == Unused(lines, before)
        taken[k \in 0 .. Len(lines)] ==
            IF k = 0 THEN {}
            ELSE LET pairs == taken[k - 1]
                     fit == {j \in (DOMAIN orders) \ (Orders(before) \cup Orders(pairs)) :
                                 Near(lines[k], orders[j])}
                 IN  IF k \in left /\ fit # {} THEN pairs \cup {<<k, Min(fit)>>} ELSE pairs
    IN  taken[Len(lines)]

\* An order left over is compared with the last line of its transaction number.
AmountDiffs(lines, orders, pairs) ==
    {p \in (DOMAIN lines) \X ((DOMAIN orders) \ Orders(pairs)) :
        LET txn == orders[p[2]].txn
        IN  /\ txn # "none"
            /\ lines[p[1]].txn = txn
            /\ \A i \in p[1] + 1 .. Len(lines) : lines[i].txn # txn
            /\ ~ SameAmount(lines[p[1]], orders[p[2]])}

\* The result of match: the pairs, those with a reference whose amounts differ
\* apart, the differences by transaction number, and what one side alone has.
Report(lines, orders) ==
    LET prn == PrnPairs(lines, orders)
        exact == prn \cup ExactPairs(lines, orders, prn)
        fuzzy == FuzzyPairs(lines, orders, exact)
        prnDiff == {p \in prn : ~ SameAmount(lines[p[1]], orders[p[2]])}
        diffs == AmountDiffs(lines, orders, exact \cup fuzzy)
    IN  [matched |-> (exact \cup fuzzy) \ prnDiff,
         prnDiff |-> prnDiff,
         amountDiff |-> diffs,
         bankOnly |-> Unused(lines, exact) \ Lines(fuzzy),
         platformOnly |-> (DOMAIN orders) \ Orders(exact \cup fuzzy \cup diffs)]

-----------------------------------------------------------------------------
\* Every order is reported in one part exactly; so is every line, unless
\* another has the same, or no, transaction number.  (An amount difference by
\* transaction number comes on top of the line's own place.)
Exhaustive(lines, orders) ==
    LET r == Report(lines, orders)
        Once(x, parts) == Cardinality({k \in DOMAIN parts : x \in parts[k]}) = 1
        alone == {i \in DOMAIN lines :
                     /\ lines[i].txn # "none"
                     /\ \A k \in (DOMAIN lines) \ {i} : lines[k].txn # lines[i].txn}
    IN  /\ \A j \in DOMAIN orders :
               Once(j, <<Orders(r.matched), Orders(r.prnDiff), Orders(r.amountDiff),
                         r.platformOnly>>)
        /\ \A i \in alone : Once(i, <<Lines(r.matched), Lines(r.prnDiff), r.bankOnly>>)

\* No line is matched with two orders and no order with two lines, and what is
\* matched agrees in the amount and in the reference, the transaction number or
\* the time.
OneToOne(lines, orders) ==
    LET r == Report(lines, orders)
        pairs == r.matched \cup r.prnDiff
    IN  /\ \A p \in pairs, q \in pairs : (p[1] = q[1]) = (p[2] = q[2])
        /\ \A p \in r.matched :
              LET l == lines[p[1]]
                  o == orders[p[2]]
              IN  /\ l.amount = o.amount
                  /\ \/ l.prn = o.prn /\ l.prn # "none"
                     \/ l.txn = o.txn /\ l.txn # "none"
                     \/ l.time = o.time

\* What is left on both sides could not have been matched: no such line and
\* order share amount and time, or amount and a transaction number that no
\* other order has.
NothingLeftToPair(lines, orders) ==
    LET r == Report(lines, orders)
        alone(j) == /\ orders[j].txn # "none"
                    /\ \A k \in (DOMAIN orders) \ {j} : orders[k].txn # orders[j].txn
    IN  \A i \in r.bankOnly, j \in r.platformOnly \cup Orders(r.amountDiff) :
            lines[i].amount = orders[j].amount
                => /\ lines[i].time # orders[j].time
                   /\ alone(j) => lines[i].txn # orders[j].txn
=============================================================================
