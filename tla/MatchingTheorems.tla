-------------------------- MODULE MatchingTheorems --------------------------
(***************************************************************************)
(* What the matching of a statement with the day's orders computes, for    *)
(* lists of any length: the three rounds pair one to one, the third runs   *)
(* through the lines in their order and ends, and the report that is made  *)
(* of the pairs has a place for everything.                                *)
(***************************************************************************)
EXTENDS StatementMatching, SumTheorems

\* One turn of round 3: the orders line k may take after the pairs made so far,
\* and the pairs made after it.
Fit(lines, orders, before, k, pairs) ==
    {j \in (DOMAIN orders) \ (Orders(before) \cup Orders(pairs)) : Near(lines[k], orders[j])}

Turn(lines, orders, before, k, pairs) ==
    LET fit == Fit(lines, orders, before, k, pairs)
    IN  IF k \in Unused(lines, before) /\ fit # {} THEN pairs \cup {<<k, Min(fit)>>} ELSE pairs

\* t[k] holds the pairs made by the first k lines.
Turns(t, lines, orders, before, n) ==
    t = [k \in 0 .. n |-> IF k = 0 THEN {} ELSE Turn(lines, orders, before, k, t[k - 1])]

LEMMA FuzzyIsLastTurn ==
    ASSUME NEW lines, NEW orders, NEW before
    PROVE  FuzzyPairs(lines, orders, before)
           = (CHOOSE t : Turns(t, lines, orders, before, Len(lines)))[Len(lines)]
  BY DEF FuzzyPairs, Turns, Turn, Fit

\* The equation at one turn.
LEMMA TurnAt ==
    ASSUME NEW lines, NEW orders, NEW before, NEW n \in Nat, NEW t,
           Turns(t, lines, orders, before, n), NEW k \in 0 .. n
    PROVE  t[k] = IF k = 0 THEN {} ELSE Turn(lines, orders, before, k, t[k - 1])
  <1>. DEFINE body == [i \in 0 .. n |-> IF i = 0 THEN {}
                                        ELSE Turn(lines, orders, before, i, t[i - 1])]
  <1>1. t = body
    BY DEF Turns
  <1>2. body[k] = IF k = 0 THEN {} ELSE Turn(lines, orders, before, k, t[k - 1])
    OBVIOUS
  <1>. HIDE DEF body
  <1>. QED
    BY <1>1, <1>2, Zenon

\* The recursion has a solution, whatever the number of turns.
LEMMA TurnsExist ==
    ASSUME NEW lines, NEW orders, NEW before, NEW n \in Nat
    PROVE  \E t : Turns(t, lines, orders, before, n)
  <1>. DEFINE B == {m \in Nat : ~ \E t : Turns(t, lines, orders, before, m)}
              next(k, v) == Turn(lines, orders, before, k, v)
  <1>1. SUFFICES ASSUME B # {}
                 PROVE  FALSE
    OBVIOUS
  <1>2. PICK m \in B : \A i \in B : m <= i
    <2>. B \subseteq Nat
      OBVIOUS
    <2>. HIDE DEF B
    <2>. QED
      BY <1>1, LeastNat
  <1>3. m \in Nat /\ ~ \E t : Turns(t, lines, orders, before, m)
    OBVIOUS
  <1>4. CASE m = 0
    <2>. DEFINE t == [k \in 0 .. 0 |-> {}]
    <2>1. t = [k \in 0 .. 0 |-> IF k = 0 THEN {} ELSE next(k, t[k - 1])]
      <3>. HIDE DEF next
      <3>. QED
        OBVIOUS
    <2>2. Turns(t, lines, orders, before, 0)
      BY <2>1 DEF Turns
    <2>. QED
      BY <1>3, <1>4, <2>2
  <1>5. CASE m # 0
    <2>1. m - 1 \in Nat /\ ~ (m <= m - 1)
      BY <1>3, <1>5
    <2>2. m - 1 \notin B
      <3>. HIDE DEF B
      <3>. QED
        BY <1>2, <2>1
    <2>3. PICK s : Turns(s, lines, orders, before, m - 1)
      BY <2>1, <2>2
    <2>. DEFINE t == [k \in 0 .. m |-> IF k = m THEN next(m, s[m - 1]) ELSE s[k]]
    <2>4. \A k \in 0 .. m - 1 : t[k] = s[k]
      BY <1>3
    <2>5. \A k \in 0 .. m - 1 : s[k] = IF k = 0 THEN {} ELSE next(k, s[k - 1])
      <3>1. PICK i \in Nat : i = m - 1 /\ Turns(s, lines, orders, before, i)
        BY <2>1, <2>3
      <3>2. \A k \in 0 .. i : s[k] = IF k = 0 THEN {} ELSE next(k, s[k - 1])
        BY ONLY <3>1, TurnAt
      <3>. QED
        BY <3>1, <3>2
    <2>6. ASSUME NEW k \in 0 .. m
          PROVE  t[k] = IF k = 0 THEN {} ELSE next(k, t[k - 1])
      <3>. HIDE DEF next
      <3>1. CASE k = m
        <4>1. t[k - 1] = s[k - 1]
          BY <1>3, <1>5, <2>4, <3>1
        <4>. QED
          BY <1>5, <3>1, <4>1
      <3>2. CASE k # m
        <4>1. k \in 0 .. m - 1 /\ (k # 0 => k - 1 \in 0 .. m - 1)
          BY <1>3, <3>2
        <4>. HIDE DEF t
        <4>. QED
          BY <2>4, <2>5, <4>1
      <3>. QED
        BY <3>1, <3>2
    <2>7. t = [k \in 0 .. m |-> IF k = 0 THEN {} ELSE next(k, t[k - 1])]
      <3>. DEFINE w(k) == IF k = 0 THEN {} ELSE next(k, t[k - 1])
                  u(k) == IF k = m THEN next(m, s[m - 1]) ELSE s[k]
      <3>1. \A k \in 0 .. m : u(k) = w(k)
        <4>1. \A k \in 0 .. m : t[k] = u(k)
          OBVIOUS
        <4>. HIDE DEF t, u
        <4>. QED
          BY <2>6, <4>1
      <3>. HIDE DEF u, w
      <3>2. [k \in 0 .. m |-> u(k)] = [k \in 0 .. m |-> w(k)]
        BY <3>1
      <3>. QED
        BY <3>2 DEF u, w
    <2>8. Turns(t, lines, orders, before, m)
      <3>. HIDE DEF t
      <3>. QED
        BY <2>7 DEF Turns
    <2>. QED
      BY <1>3, <2>8
  <1>. QED
    BY <1>4, <1>5

\* Round 3 is what the last turn leaves.
LEMMA FuzzyTurns ==
    ASSUME NEW lines, NEW orders, NEW before, NEW n \in Nat, n = Len(lines)
    PROVE  \E t : /\ FuzzyPairs(lines, orders, before) = t[n]
                  /\ \A k \in 0 .. n : t[k] = IF k = 0 THEN {}
                                              ELSE Turn(lines, orders, before, k, t[k - 1])
  <1>1. PICK t : t = CHOOSE s : Turns(s, lines, orders, before, n)
    OBVIOUS
  <1>2. FuzzyPairs(lines, orders, before) = t[n]
    BY <1>1, FuzzyIsLastTurn
  <1>3. Turns(t, lines, orders, before, n)
    BY <1>1, TurnsExist
  <1>4. \A k \in 0 .. n : t[k] = IF k = 0 THEN {} ELSE Turn(lines, orders, before, k, t[k - 1])
    BY ONLY <1>3, TurnAt
  <1>. QED
    BY <1>2, <1>4
-----------------------------------------------------------------------------
\* Pairs without a line, or an order, in common.
Separate(pairs) == \A p, q \in pairs : (p[1] = q[1]) <=> (p[2] = q[2])

\* What the pairs v made by the first k lines are: near, one to one, of lines
\* and orders left over, and none of these lines found no order though one near
\* it has been left.
Paired(v, k, lines, orders, before) ==
    /\ v \subseteq Unused(lines, before) \X ((DOMAIN orders) \ Orders(before))
    /\ \A p \in v : p[1] <= k /\ Near(lines[p[1]], orders[p[2]])
    /\ Separate(v)
    /\ \A i \in Unused(lines, before), j \in (DOMAIN orders) \ Orders(before) :
          i <= k /\ Near(lines[i], orders[j]) => i \in Lines(v) \/ j \in Orders(v)

LEMMA MinIn ==
    ASSUME NEW S, S \subseteq Nat, S # {}
    PROVE  Min(S) \in S
  <1>1. \E x \in S : \A y \in S : x <= y
    BY LeastNat
  <1>. QED
    BY <1>1 DEF Min

LEMMA TurnKeeps ==
    ASSUME NEW lines \in Seq(Item), NEW orders \in Seq(Item), NEW before,
           NEW k \in Nat, k # 0, NEW v, Paired(v, k - 1, lines, orders, before)
    PROVE  Paired(Turn(lines, orders, before, k, v), k, lines, orders, before)
  <1>. DEFINE left == Unused(lines, before)
              free == (DOMAIN orders) \ Orders(before)
              fit == Fit(lines, orders, before, k, v)
              w == Turn(lines, orders, before, k, v)
  <1>1. left \subseteq Nat /\ free \subseteq Nat /\ free = (DOMAIN orders) \ Orders(before)
    BY DEF Unused
  <1>2. fit = {j \in free : j \notin Orders(v) /\ Near(lines[k], orders[j])}
    BY DEF Fit
  <1>3. w = IF k \in left /\ fit # {} THEN v \cup {<<k, Min(fit)>>} ELSE v
    BY DEF Turn
  <1>4. /\ v \subseteq left \X free
        /\ \A p \in v : p[1] <= k - 1 /\ Near(lines[p[1]], orders[p[2]])
        /\ \A p, q \in v : (p[1] = q[1]) <=> (p[2] = q[2])
        /\ \A i \in left, j \in free :
              i <= k - 1 /\ Near(lines[i], orders[j]) => i \in Lines(v) \/ j \in Orders(v)
    BY DEF Paired, Separate
  <1>. SUFFICES /\ w \subseteq left \X free
                /\ \A p \in w : p[1] <= k /\ Near(lines[p[1]], orders[p[2]])
                /\ \A p, q \in w : (p[1] = q[1]) <=> (p[2] = q[2])
                /\ \A i \in left, j \in free :
                      i <= k /\ Near(lines[i], orders[j]) => i \in Lines(w) \/ j \in Orders(w)
    BY DEF Paired, Separate
  <1>. HIDE DEF left, free, fit, w
  <1>5. \A i \in left : (i <= k <=> i <= k - 1 \/ i = k) /\ (i <= k - 1 => i <= k /\ i # k)
    BY <1>1
  <1>6. \A p \in v : p[1] \in left /\ p[2] \in free /\ p[1] # k /\ p[1] <= k
    BY <1>4, <1>5
  <1>7. CASE k \in left /\ fit # {}
    <2>. DEFINE m == Min(fit)
    <2>1. m \in fit
      BY <1>1, <1>2, <1>7, MinIn
    <2>. HIDE DEF m
    <2>2. m \in free /\ m \notin Orders(v) /\ Near(lines[k], orders[m])
      BY <1>2, <2>1
    <2>3. w = v \cup {<<k, m>>}
      BY <1>3, <1>7 DEF m
    <2>4. \A p \in v : p[2] # m
      BY <2>2 DEF Orders
    <2>5. w \subseteq left \X free
      BY <1>4, <1>7, <2>2, <2>3
    <2>6. \A p \in w : p[1] <= k /\ Near(lines[p[1]], orders[p[2]])
      BY <1>4, <1>6, <2>2, <2>3
    <2>7. \A p, q \in w : (p[1] = q[1]) <=> (p[2] = q[2])
      BY <1>4, <1>6, <2>3, <2>4
    <2>8. k \in Lines(w) /\ Lines(v) \subseteq Lines(w) /\ Orders(v) \subseteq Orders(w)
      <3>1. \A p \in v : p \in w
        BY <2>3
      <3>2. <<k, m>> \in w /\ <<k, m>>[1] = k
        BY <2>3
      <3>. QED
        BY ONLY <3>1, <3>2 DEF Lines, Orders
    <2>. QED
      BY <1>4, <1>5, <2>5, <2>6, <2>7, <2>8
  <1>8. CASE ~ (k \in left /\ fit # {})
    <2>1. w = v
      BY <1>3, <1>8
    <2>2. ASSUME NEW i \in left, NEW j \in free, i <= k, Near(lines[i], orders[j])
          PROVE  i \in Lines(v) \/ j \in Orders(v)
      <3>1. CASE i = k
        BY <1>2, <1>8, <2>2, <3>1
      <3>2. CASE i <= k - 1
        BY <1>4, <2>2, <3>2
      <3>. QED
        BY <1>5, <2>2, <3>1, <3>2
    <2>. QED
      BY <1>4, <1>6, <2>1, <2>2
  <1>. QED
    BY <1>7, <1>8

\* Round 3, for lists of any length.
LEMMA FuzzyPaired ==
    ASSUME NEW lines \in Seq(Item), NEW orders \in Seq(Item), NEW before
    PROVE  Paired(FuzzyPairs(lines, orders, before), Len(lines), lines, orders, before)
  <1>1. PICK n \in Nat : n = Len(lines)
    OBVIOUS
  <1>2. PICK t : /\ FuzzyPairs(lines, orders, before) = t[n]
                 /\ \A k \in 0 .. n : t[k] = IF k = 0 THEN {}
                                             ELSE Turn(lines, orders, before, k, t[k - 1])
    BY <1>1, FuzzyTurns, SMTT(30)
  <1>. DEFINE B == {k \in 0 .. n : ~ Paired(t[k], k, lines, orders, before)}
  <1>5. ASSUME B # {}
        PROVE  FALSE
    <2>1. PICK k \in B : \A i \in B : k <= i
      <3>. B \subseteq Nat
        OBVIOUS
      <3>. HIDE DEF B
      <3>. QED
        BY <1>5, LeastNat
    <2>2. k \in 0 .. n /\ ~ Paired(t[k], k, lines, orders, before)
      OBVIOUS
    <2>3. CASE k = 0
      <3>1. t[k] = {}
        BY <1>2, <2>2, <2>3
      <3>2. \A i \in Unused(lines, before) : ~ (i <= 0)
        BY DEF Unused
      <3>. QED
        BY <2>2, <2>3, <3>1, <3>2 DEF Paired, Separate
    <2>4. CASE k # 0
      <3>1. k - 1 \in 0 .. n /\ ~ (k <= k - 1) /\ k \in Nat
        BY <2>2, <2>4
      <3>2. k - 1 \notin B
        <4>. HIDE DEF B
        <4>. QED
          BY <2>1, <3>1
      <3>3. Paired(t[k - 1], k - 1, lines, orders, before)
        BY <3>1, <3>2
      <3>4. Paired(Turn(lines, orders, before, k, t[k - 1]), k, lines, orders, before)
        BY <2>4, <3>1, <3>3, TurnKeeps
      <3>. QED
        BY <1>2, <2>2, <2>4, <3>4
    <2>. QED
      BY <2>3, <2>4
  <1>6. n \notin B
    BY <1>5
  <1>7. Paired(t[n], n, lines, orders, before)
    BY <1>6
  <1>. QED
    BY <1>1, <1>2, <1>7

-----------------------------------------------------------------------------
\* Rounds 1 and 2, and what the rounds have in common.
LEMMA Indices ==
    ASSUME NEW items \in Seq(Item)
    PROVE  /\ DOMAIN items = 1 .. Len(items) /\ Len(items) \in Nat /\ DOMAIN items \subseteq Nat
           /\ \A i, j \in DOMAIN items : i = j \/ i \in 1 .. j - 1 \/ j \in 1 .. i - 1
           /\ \A i, j \in DOMAIN items :
                 i = j \/ i \in j + 1 .. Len(items) \/ j \in i + 1 .. Len(items)
  <1>. PICK n \in Nat : n = Len(items)
    OBVIOUS
  <1>1. DOMAIN items = 1 .. n
    OBVIOUS
  <1>. QED
    BY <1>1

LEMMA Joined ==
    ASSUME NEW A, NEW B, Separate(A), Separate(B),
           \A p \in A, q \in B : p[1] # q[1] /\ p[2] # q[2]
    PROVE  Separate(A \cup B)
  BY DEF Separate

\* The lines left over are in no pair made so far.
LEMMA UnusedApart ==
    ASSUME NEW lines, NEW pairs
    PROVE  /\ Unused(lines, pairs) \subseteq DOMAIN lines
           /\ \A p \in pairs : p[1] \notin Unused(lines, pairs)
           /\ \A p \in pairs : p[1] \in Lines(pairs) /\ p[2] \in Orders(pairs)
           /\ \A more : pairs \subseteq more => Unused(lines, more) \subseteq Unused(lines, pairs)
  BY DEF Unused, Lines, Orders

LEMMA PrnShape ==
    ASSUME NEW lines \in Seq(Item), NEW orders \in Seq(Item)
    PROVE  /\ PrnPairs(lines, orders) \subseteq (DOMAIN lines) \X (DOMAIN orders)
           /\ \A p \in PrnPairs(lines, orders) :
                 lines[p[1]].prn = orders[p[2]].prn /\ lines[p[1]].prn # "none"
           /\ Separate(PrnPairs(lines, orders))
  <1>. DEFINE prn == PrnPairs(lines, orders)
  <1>1. prn \subseteq (DOMAIN lines) \X (DOMAIN orders)
    BY DEF PrnPairs
  <1>2. \A p \in prn : /\ lines[p[1]].prn = orders[p[2]].prn /\ lines[p[1]].prn # "none"
                       /\ \A i \in 1 .. p[1] - 1 : lines[i].prn # lines[p[1]].prn
                       /\ \A j \in p[2] + 1 .. Len(orders) : orders[j].prn # lines[p[1]].prn
    BY DEF PrnPairs
  <1>. HIDE DEF prn
  <1>3. ASSUME NEW p \in prn, NEW q \in prn
        PROVE  (p[1] = q[1]) <=> (p[2] = q[2])
    <2>1. p[1] \in DOMAIN lines /\ q[1] \in DOMAIN lines
          /\ p[2] \in DOMAIN orders /\ q[2] \in DOMAIN orders
      BY <1>1
    <2>2. CASE p[1] = q[1]
      BY <1>2, <2>1, <2>2, Indices
    <2>3. CASE p[2] = q[2]
      BY <1>2, <2>1, <2>3, Indices, ZenonT(60)
    <2>. QED
      BY <2>2, <2>3
  <1>4. Separate(prn)
    BY <1>3 DEF Separate
  <1>. QED
    BY <1>1, <1>2, <1>4 DEF prn

LEMMA ExactShape ==
    ASSUME NEW lines \in Seq(Item), NEW orders \in Seq(Item), NEW before
    PROVE  /\ ExactPairs(lines, orders, before)
              \subseteq Unused(lines, before) \X ((DOMAIN orders) \ Orders(before))
           /\ \A p \in ExactPairs(lines, orders, before) :
                 /\ SameAmount(lines[p[1]], orders[p[2]])
                 /\ lines[p[1]].txn = orders[p[2]].txn /\ lines[p[1]].txn # "none"
           /\ Separate(ExactPairs(lines, orders, before))
  <1>. DEFINE exact == ExactPairs(lines, orders, before)
              left == Unused(lines, before)
  <1>1. exact \subseteq left \X ((DOMAIN orders) \ Orders(before))
    BY DEF ExactPairs
  <1>2. \A p \in exact :
           /\ SameAmount(lines[p[1]], orders[p[2]])
           /\ lines[p[1]].txn = orders[p[2]].txn /\ lines[p[1]].txn # "none"
           /\ \A j \in p[2] + 1 .. Len(orders) : orders[j].txn # lines[p[1]].txn
           /\ \A i \in left : i < p[1] /\ lines[i].txn = lines[p[1]].txn
                              => ~ SameAmount(lines[i], orders[p[2]])
    BY DEF ExactPairs
  <1>3. left \subseteq DOMAIN lines
    BY UnusedApart
  <1>. HIDE DEF exact, left
  <1>4. ASSUME NEW p \in exact, NEW q \in exact
        PROVE  (p[1] = q[1]) <=> (p[2] = q[2])
    <2>1. p[1] \in left /\ q[1] \in left /\ p[2] \in DOMAIN orders /\ q[2] \in DOMAIN orders
      BY <1>1
    <2>2. CASE p[1] = q[1]
      BY <1>2, <2>1, <2>2, Indices
    <2>3. CASE p[2] = q[2]
      <3>1. p[1] \in Nat /\ q[1] \in Nat
        BY <1>3, <2>1, Indices
      <3>2. ~ (p[1] < q[1]) /\ ~ (q[1] < p[1])
        BY <1>2, <2>1, <2>3
      <3>. QED
        BY <2>3, <3>1, <3>2
    <2>. QED
      BY <2>2, <2>3
  <1>5. Separate(exact)
    BY <1>4 DEF Separate
  <1>. QED
    BY <1>1, <1>2, <1>5 DEF exact, left

-----------------------------------------------------------------------------
\* The pairs of the first two rounds, of the third, and of all.
Early(lines, orders) ==
    PrnPairs(lines, orders) \cup ExactPairs(lines, orders, PrnPairs(lines, orders))

Late(lines, orders) == FuzzyPairs(lines, orders, Early(lines, orders))

All(lines, orders) == Early(lines, orders) \cup Late(lines, orders)

\* The pairs of the first round whose amounts differ.
Unequal(lines, orders) ==
    {p \in PrnPairs(lines, orders) : ~ SameAmount(lines[p[1]], orders[p[2]])}

\* The report in terms of the rounds.
LEMMA ReportParts ==
    ASSUME NEW lines, NEW orders
    PROVE  LET diff == Unequal(lines, orders)
               amounts == AmountDiffs(lines, orders, All(lines, orders))
           IN  /\ Report(lines, orders).prnDiff = diff
               /\ Report(lines, orders).matched = All(lines, orders) \ diff
               /\ Report(lines, orders).amountDiff = amounts
               /\ Report(lines, orders).bankOnly
                  = Unused(lines, Early(lines, orders)) \ Lines(Late(lines, orders))
               /\ Report(lines, orders).platformOnly
                  = (DOMAIN orders) \ Orders(All(lines, orders) \cup amounts)
  BY DEF Report, Unequal, Early, Late, All

\* A pair of round 3 has neither a line nor an order of an earlier one.
LEMMA LateApart ==
    ASSUME NEW lines \in Seq(Item), NEW orders \in Seq(Item),
           NEW p \in Early(lines, orders), NEW q \in Late(lines, orders)
    PROVE  p[1] # q[1] /\ p[2] # q[2]
  <1>. PICK early : early = Early(lines, orders)
    OBVIOUS
  <1>1. Late(lines, orders) \subseteq Unused(lines, early) \X ((DOMAIN orders) \ Orders(early))
    BY FuzzyPaired DEF Late, Paired
  <1>2. q[1] \in Unused(lines, early) /\ q[2] \notin Orders(early)
    BY <1>1
  <1>. QED
    BY <1>2, UnusedApart

LEMMA PairsSeparate ==
    ASSUME NEW lines \in Seq(Item), NEW orders \in Seq(Item)
    PROVE  /\ All(lines, orders) \subseteq (DOMAIN lines) \X (DOMAIN orders)
           /\ Separate(All(lines, orders))
  <1>. PICK prn : prn = PrnPairs(lines, orders)
    OBVIOUS
  <1>. PICK exact : exact = ExactPairs(lines, orders, prn)
    OBVIOUS
  <1>. PICK late : late = Late(lines, orders)
    OBVIOUS
  <1>1. Early(lines, orders) = prn \cup exact /\ All(lines, orders) = (prn \cup exact) \cup late
    BY DEF Early, All
  <1>2. prn \subseteq (DOMAIN lines) \X (DOMAIN orders) /\ Separate(prn)
    BY PrnShape
  <1>3. /\ exact \subseteq Unused(lines, prn) \X ((DOMAIN orders) \ Orders(prn))
        /\ Separate(exact)
    BY ExactShape
  <1>4. /\ late \subseteq Unused(lines, prn \cup exact) \X ((DOMAIN orders) \ Orders(prn \cup exact))
        /\ Separate(late)
    BY <1>1, FuzzyPaired DEF Late, Paired
  <1>5. \A p \in prn, q \in exact : p[1] # q[1] /\ p[2] # q[2]
    BY <1>3, UnusedApart
  <1>6. Separate(prn \cup exact)
    BY <1>2, <1>3, <1>5, Joined
  <1>7. \A p \in prn \cup exact, q \in late : p[1] # q[1] /\ p[2] # q[2]
    BY <1>1, LateApart
  <1>8. Separate((prn \cup exact) \cup late)
    BY <1>4, <1>6, <1>7, Joined
  <1>9. /\ Unused(lines, prn) \subseteq DOMAIN lines
        /\ Unused(lines, prn \cup exact) \subseteq DOMAIN lines
    BY UnusedApart
  <1>10. (prn \cup exact) \cup late \subseteq (DOMAIN lines) \X (DOMAIN orders)
    BY <1>2, <1>3, <1>4, <1>9
  <1>. QED
    BY <1>1, <1>8, <1>10

-----------------------------------------------------------------------------
\* The report of the matching pairs lines and orders one to one, and what it
\* gives as matched agrees (OneToOne), whatever the two lists are.
THEOREM ReportOneToOne ==
    \A lines, orders \in Seq(Item) : OneToOne(lines, orders)
  <1>. SUFFICES ASSUME NEW lines \in Seq(Item), NEW orders \in Seq(Item)
                PROVE  OneToOne(lines, orders)
    OBVIOUS
  <1>. DEFINE r == Report(lines, orders)
              prn == PrnPairs(lines, orders)
              all == All(lines, orders)
  <1>1. /\ r.prnDiff = Unequal(lines, orders)
        /\ r.matched = all \ r.prnDiff
        /\ \A p \in prn : p \notin Unequal(lines, orders)
                         => SameAmount(lines[p[1]], orders[p[2]])
        /\ Unequal(lines, orders) \subseteq prn
    <2>1. /\ Report(lines, orders).prnDiff = Unequal(lines, orders)
          /\ Report(lines, orders).matched = All(lines, orders) \ Unequal(lines, orders)
      BY ReportParts, Zenon
    <2>. QED
      BY <2>1 DEF Unequal
  <1>2. /\ all = prn \cup ExactPairs(lines, orders, prn) \cup Late(lines, orders)
        /\ \A p, q \in all : (p[1] = q[1]) <=> (p[2] = q[2])
    BY PairsSeparate DEF Separate, All, Early
  <1>. HIDE DEF r, prn, all
  <1>3. r.matched \cup r.prnDiff \subseteq all
    BY <1>1, <1>2
  <1>4. ASSUME NEW p \in r.matched
        PROVE  LET l == lines[p[1]]
                   o == orders[p[2]]
               IN  /\ l.amount = o.amount
                   /\ \/ l.prn = o.prn /\ l.prn # "none"
                      \/ l.txn = o.txn /\ l.txn # "none"
                      \/ l.time = o.time
    <2>1. p \in all /\ p \notin r.prnDiff
      BY <1>1
    <2>2. CASE p \in prn
      BY <1>1, <2>1, <2>2, PrnShape DEF SameAmount, prn
    <2>3. CASE p \in ExactPairs(lines, orders, prn)
      BY <2>3, ExactShape DEF SameAmount
    <2>4. CASE p \in Late(lines, orders)
      BY <2>4, FuzzyPaired DEF Late, Paired, Near, SameAmount
    <2>. QED
      BY <1>2, <2>1, <2>2, <2>3, <2>4
  <1>. QED
    BY <1>2, <1>3, <1>4 DEF OneToOne, r

-----------------------------------------------------------------------------
\* One place of a list of four, and of three, holds x.
LEMMA OnceOfFour ==
    ASSUME NEW x, NEW A, NEW B, NEW C, NEW D, x \in A \cup B \cup C \cup D,
           x \in A => x \notin B \cup C \cup D, x \in B => x \notin C \cup D, x \in C => x \notin D
    PROVE  Cardinality({k \in DOMAIN <<A, B, C, D>> : x \in <<A, B, C, D>>[k]}) = 1
  <1>. DEFINE K == {k \in DOMAIN <<A, B, C, D>> : x \in <<A, B, C, D>>[k]}
  <1>1. \A k : k \in K <=> \/ (k = 1 /\ x \in A)
                           \/ (k = 2 /\ x \in B)
                           \/ (k = 3 /\ x \in C)
                           \/ (k = 4 /\ x \in D)
    OBVIOUS
  <1>. HIDE DEF K
  <1>2. \E k : K = {k}
    <2>1. CASE x \in A
      <3>. K = {1}
        BY <1>1, <2>1
      <3>. QED
        OBVIOUS
    <2>2. CASE x \in B
      <3>. K = {2}
        BY <1>1, <2>2
      <3>. QED
        OBVIOUS
    <2>3. CASE x \in C
      <3>. K = {3}
        BY <1>1, <2>3
      <3>. QED
        OBVIOUS
    <2>4. CASE x \in D
      <3>. K = {4}
        BY <1>1, <2>4
      <3>. QED
        OBVIOUS
    <2>. QED
      BY <2>1, <2>2, <2>3, <2>4
  <1>. QED
    BY <1>2, FS_Singleton DEF K

LEMMA OnceOfThree ==
    ASSUME NEW x, NEW A, NEW B, NEW C, x \in A \cup B \cup C,
           x \in A => x \notin B \cup C, x \in B => x \notin C
    PROVE  Cardinality({k \in DOMAIN <<A, B, C>> : x \in <<A, B, C>>[k]}) = 1
  <1>. DEFINE K == {k \in DOMAIN <<A, B, C>> : x \in <<A, B, C>>[k]}
  <1>1. \A k : k \in K <=> (k = 1 /\ x \in A) \/ (k = 2 /\ x \in B) \/ (k = 3 /\ x \in C)
    OBVIOUS
  <1>. HIDE DEF K
  <1>2. \E k : K = {k}
    <2>1. CASE x \in A
      <3>. K = {1}
        BY <1>1, <2>1
      <3>. QED
        OBVIOUS
    <2>2. CASE x \in B
      <3>. K = {2}
        BY <1>1, <2>2
      <3>. QED
        OBVIOUS
    <2>3. CASE x \in C
      <3>. K = {3}
        BY <1>1, <2>3
      <3>. QED
        OBVIOUS
    <2>. QED
      BY <2>1, <2>2, <2>3
  <1>. QED
    BY <1>2, FS_Singleton DEF K

LEMMA Ends ==
    ASSUME NEW A, NEW B
    PROVE  /\ Orders(A \cup B) = Orders(A) \cup Orders(B)
           /\ Lines(A \cup B) = Lines(A) \cup Lines(B)
           /\ \A x : (x \in Orders(A) <=> \E p \in A : x = p[2])
                     /\ (x \in Lines(A) <=> \E p \in A : x = p[1])
  BY DEF Orders, Lines

\* Separate pairs that are split have neither line nor order in common.
LEMMA SplitApart ==
    ASSUME NEW all, \A p \in all : p = <<p[1], p[2]>>, Separate(all),
           NEW A, A \subseteq all
    PROVE  /\ Orders(all \ A) \cap Orders(A) = {} /\ Orders(all \ A) \cup Orders(A) = Orders(all)
           /\ Lines(all \ A) \cap Lines(A) = {} /\ Lines(all \ A) \cup Lines(A) = Lines(all)
  <1>1. (all \ A) \cup A = all
    OBVIOUS
  <1>2. ASSUME NEW p \in all \ A, NEW q \in A, p[1] = q[1] \/ p[2] = q[2]
        PROVE  FALSE
    <2>1. p[1] = q[1] /\ p[2] = q[2]
      BY <1>2 DEF Separate
    <2>2. p = q
      BY <2>1
    <2>. QED
      BY <2>2
  <1>3. Orders(all \ A) \cap Orders(A) = {}
    BY <1>2, Zenon DEF Orders
  <1>4. Lines(all \ A) \cap Lines(A) = {}
    BY <1>2, Zenon DEF Lines
  <1>5. /\ Orders(all \ A) \cup Orders(A) = Orders(all)
        /\ Lines(all \ A) \cup Lines(A) = Lines(all)
    <2>. PICK B : B = all \ A
      OBVIOUS
    <2>1. B \cup A = all
      BY <1>1
    <2>2. Orders(B \cup A) = Orders(B) \cup Orders(A) /\ Lines(B \cup A) = Lines(B) \cup Lines(A)
      BY Ends
    <2>. QED
      BY <2>1, <2>2
  <1>. QED
    BY <1>3, <1>4, <1>5

LEMMA AmountsApart ==
    ASSUME NEW lines \in Seq(Item), NEW orders \in Seq(Item), NEW pairs
    PROVE  Orders(AmountDiffs(lines, orders, pairs)) \subseteq (DOMAIN orders) \ Orders(pairs)
  <1>1. \A p \in AmountDiffs(lines, orders, pairs) : p[2] \in (DOMAIN orders) \ Orders(pairs)
    BY DEF AmountDiffs
  <1>. QED
    BY ONLY <1>1 DEF Orders

\* The report has a place, and only one, for every order of the day and for
\* every line with a transaction number of its own (Exhaustive), whatever the
\* two lists are.
THEOREM ReportExhaustive ==
    \A lines, orders \in Seq(Item) : Exhaustive(lines, orders)
  <1>. SUFFICES ASSUME NEW lines \in Seq(Item), NEW orders \in Seq(Item)
                PROVE  Exhaustive(lines, orders)
    OBVIOUS
  <1>. DEFINE r == Report(lines, orders)
              early == Early(lines, orders)
              late == Late(lines, orders)
              all == All(lines, orders)
              diff == Unequal(lines, orders)
              amounts == AmountDiffs(lines, orders, all)
              alone == {i \in DOMAIN lines :
                           /\ lines[i].txn # "none"
                           /\ \A k \in (DOMAIN lines) \ {i} : lines[k].txn # lines[i].txn}
  <1>1. /\ r.prnDiff = diff /\ r.matched = all \ diff /\ r.amountDiff = amounts
        /\ r.bankOnly = Unused(lines, early) \ Lines(late)
        /\ r.platformOnly = (DOMAIN orders) \ Orders(all \cup amounts)
    BY ReportParts, Zenon
  <1>2. /\ all \subseteq (DOMAIN lines) \X (DOMAIN orders) /\ Separate(all)
        /\ all = early \cup late /\ diff \subseteq all
    BY PairsSeparate DEF All, Early, Unequal
  <1>3. /\ Orders(r.matched) \cap Orders(r.prnDiff) = {}
        /\ Orders(r.matched) \cup Orders(r.prnDiff) = Orders(all)
        /\ Lines(r.matched) \cap Lines(r.prnDiff) = {}
        /\ Lines(r.matched) \cup Lines(r.prnDiff) = Lines(all)
    <2>. HIDE DEF r, diff, all
    <2>1. /\ Orders(all \ diff) \cap Orders(diff) = {}
          /\ Orders(all \ diff) \cup Orders(diff) = Orders(all)
          /\ Lines(all \ diff) \cap Lines(diff) = {}
          /\ Lines(all \ diff) \cup Lines(diff) = Lines(all)
      <3>1. \A p \in all : p = <<p[1], p[2]>>
        BY <1>2
      <3>2. Separate(all)
        BY <1>2
      <3>3. diff \subseteq all
        BY <1>2
      <3>. QED
        BY ONLY <3>1, <3>2, <3>3, SplitApart, Zenon
    <2>. QED
      BY <1>1, <2>1
  <1>4. Orders(r.amountDiff) \cap Orders(all) = {}
    BY <1>1, AmountsApart
  <1>5. r.platformOnly = (DOMAIN orders) \ (Orders(all) \cup Orders(r.amountDiff))
    <2>. HIDE DEF r, all, amounts
    <2>1. Orders(all \cup amounts) = Orders(all) \cup Orders(amounts)
      BY Ends
    <2>. QED
      BY <1>1, <2>1
  <1>6. ASSUME NEW i \in alone
        PROVE  i \in r.bankOnly <=> i \notin Lines(all)
    <2>1. Lines(all) = Lines(early) \cup Lines(late)
      <3>. HIDE DEF all, early, late
      <3>. QED
        BY <1>2, Ends, ZenonT(60)
    <2>2. Lines(early) \subseteq DOMAIN lines
      <3>1. \A p \in early : p[1] \in DOMAIN lines
        BY <1>2
      <3>. QED
        BY ONLY <3>1 DEF Lines
    <2>3. i \in Unused(lines, early) <=> i \notin Lines(early)
      BY <2>2 DEF Unused
    <2>. QED
      BY <1>1, <2>1, <2>3
  <1>. HIDE DEF r, early, late, all, diff, amounts
  <1>7. ASSUME NEW j \in DOMAIN orders
        PROVE  LET parts == <<Orders(r.matched), Orders(r.prnDiff), Orders(r.amountDiff),
                              r.platformOnly>>
               IN  Cardinality({k \in DOMAIN parts : j \in parts[k]}) = 1
    BY <1>3, <1>4, <1>5, OnceOfFour
  <1>8. ASSUME NEW i \in alone
        PROVE  LET parts == <<Lines(r.matched), Lines(r.prnDiff), r.bankOnly>>
               IN  Cardinality({k \in DOMAIN parts : i \in parts[k]}) = 1
    BY <1>3, <1>6, OnceOfThree
  <1>. QED
    BY <1>7, <1>8, Zenon DEF Exhaustive, r

\* What the report leaves on both sides could not have been matched
\* (NothingLeftToPair), whatever the two lists are.
THEOREM ReportLeavesNothing ==
    \A lines, orders \in Seq(Item) : NothingLeftToPair(lines, orders)
  <1>. SUFFICES ASSUME NEW lines \in Seq(Item), NEW orders \in Seq(Item)
                PROVE  NothingLeftToPair(lines, orders)
    OBVIOUS
  <1>. DEFINE r == Report(lines, orders)
              prn == PrnPairs(lines, orders)
              early == Early(lines, orders)
              late == Late(lines, orders)
              all == All(lines, orders)
              amounts == AmountDiffs(lines, orders, all)
              alone(j) == /\ orders[j].txn # "none"
                          /\ \A k \in (DOMAIN orders) \ {j} : orders[k].txn # orders[j].txn
  <1>1. /\ r.amountDiff = amounts
        /\ r.bankOnly = Unused(lines, early) \ Lines(late)
        /\ r.platformOnly = (DOMAIN orders) \ Orders(all \cup amounts)
    BY ReportParts, Zenon
  <1>2. Orders(amounts) \subseteq (DOMAIN orders) \ Orders(all)
    BY AmountsApart
  <1>3. /\ Orders(all \cup amounts) = Orders(all) \cup Orders(amounts)
        /\ Orders(all) = Orders(early) \cup Orders(late)
    BY Ends DEF All
  <1>4. /\ early = prn \cup ExactPairs(lines, orders, prn)
        /\ Orders(early) = Orders(prn) \cup Orders(ExactPairs(lines, orders, prn))
    BY Ends DEF Early
  <1>. SUFFICES ASSUME NEW i \in r.bankOnly, NEW j \in r.platformOnly \cup Orders(r.amountDiff),
                       lines[i].amount = orders[j].amount
                PROVE  /\ lines[i].time # orders[j].time
                       /\ alone(j) => lines[i].txn # orders[j].txn
    BY DEF NothingLeftToPair
  <1>. HIDE DEF r
  <1>5. /\ i \in Unused(lines, early) /\ i \notin Lines(late)
        /\ j \in DOMAIN orders /\ j \notin Orders(early) /\ j \notin Orders(late)
    BY <1>1, <1>2, <1>3
  <1>. HIDE DEF prn, early, late, all, amounts
  <1>6. lines[i].time # orders[j].time
    <2>1. i \in DOMAIN lines
      BY <1>5, UnusedApart
    <2>2. i \in Nat /\ i <= Len(lines)
      BY <2>1
    <2>3. Paired(late, Len(lines), lines, orders, early)
      BY FuzzyPaired DEF late, early, Late
    <2>4. ~ Near(lines[i], orders[j])
      BY <1>5, <2>2, <2>3 DEF Paired
    <2>. QED
      BY <2>4 DEF Near, SameAmount
  <1>7. ASSUME alone(j), lines[i].txn = orders[j].txn
        PROVE  FALSE
    <2>. DEFINE left == Unused(lines, prn)
                T == {k \in left : /\ lines[k].txn = lines[i].txn
                                   /\ SameAmount(lines[k], orders[j])}
    <2>1. i \in left
      BY <1>4, <1>5, UnusedApart
    <2>2. i \in T /\ T \subseteq left /\ left \subseteq Nat
      BY <2>1, UnusedApart, Indices DEF SameAmount
    <2>3. PICK k \in T : \A m \in T : k <= m
      <3>. HIDE DEF T, left
      <3>. QED
        BY <2>2, LeastNat
    <2>4. \A m \in left : m < k /\ lines[m].txn = lines[i].txn => ~ SameAmount(lines[m], orders[j])
      <3>1. \A m \in left : m \in Nat /\ k \in Nat
        BY <2>2
      <3>2. \A m \in T : ~ (m < k)
        BY <2>2, <2>3
      <3>. QED
        BY <3>2
    <2>5. \A n \in j + 1 .. Len(orders) : orders[n].txn # lines[i].txn
      <3>1. \A n \in j + 1 .. Len(orders) : n \in (DOMAIN orders) \ {j}
        BY <1>5
      <3>. QED
        BY <1>7, <3>1
    <2>6. <<k, j>> \in left \X ((DOMAIN orders) \ Orders(prn))
      BY <1>4, <1>5
    <2>7. lines[k].txn = lines[i].txn /\ SameAmount(lines[k], orders[j])
          /\ lines[k].txn # "none" /\ orders[j].txn = lines[k].txn
      BY <1>7
    <2>. HIDE DEF T
    <2>8. <<k, j>> \in ExactPairs(lines, orders, prn)
      <3>. DEFINE p == <<k, j>>
      <3>1. p[1] = k /\ p[2] = j
        OBVIOUS
      <3>. HIDE DEF p
      <3>2. p \in left \X ((DOMAIN orders) \ Orders(prn))
        BY <2>6 DEF p
      <3>3. p \in ExactPairs(lines, orders, prn)
        BY <2>4, <2>5, <2>7, <3>1, <3>2 DEF ExactPairs
      <3>. QED
        BY <3>3 DEF p
    <2>9. j \in Orders(ExactPairs(lines, orders, prn))
      <3>1. <<k, j>>[2] = j
        OBVIOUS
      <3>. QED
        BY <2>8, <3>1, Ends
    <2>. QED
      BY <1>4, <1>5, <2>9
  <1>. QED
    BY <1>6, <1>7
=============================================================================
