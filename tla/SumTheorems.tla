---------------------------- MODULE SumTheorems ----------------------------
\* What SumFunctionOnSet computes.  The balances of the models are compared
\* with the sum of their entries, which the community module defines by
\* recursion on the set summed over, always taking out the element CHOOSE
\* gives.  The theorems below say that any other element may be taken out, that
\* a change of one summand changes the sum by as much, and what follows.
\*
\* Induction is by the smallest counterexample: the set of the finite sets a
\* statement fails for has a minimal element (LeastSet), from the well-founded
\* order on the naturals of the library.
EXTENDS Integers, FiniteSets, Functions, FiniteSetTheorems,
        WellFoundedInduction, TLAPS

\* The smallest element of a set of naturals.
LEMMA LeastNat ==
  ASSUME NEW T, T \subseteq Nat, T # {}
  PROVE  \E n \in T : \A m \in T : n <= m
<1> DEFINE R == {ss \in Nat \X Nat : ss[1] < ss[2]}
<1>1. R = OpToRel(<, Nat)
  BY Zenon DEF OpToRel
<1>2. IsWellFoundedOn(R, Nat)
  BY <1>1, NatLessThanWellFounded, Zenon
<1>3. \A m, n \in Nat : m < n => <<m, n>> \in R
  OBVIOUS
<1> HIDE DEF R
<1>4. PICK n \in T : \A m \in T : ~ (<<m, n>> \in R)
  BY <1>2, WFMin
<1>5. \A m \in T : ~ (m < n)
  BY <1>3, <1>4
<1>6. \A m \in T : n <= m
  BY <1>5
<1> QED BY <1>6

\* A family of finite sets has a member that contains no other one.
LEMMA LeastSet ==
  ASSUME NEW F, F # {}, \A S \in F : IsFiniteSet(S)
  PROVE  \E S \in F : \A T \in F : ~ (T \subseteq S /\ T # S)
<1> DEFINE C == {Cardinality(S) : S \in F}
<1>1. C \subseteq Nat /\ C # {}
  BY FS_CardinalityType
<1> HIDE DEF C
<1>2. PICK n \in C : \A m \in C : n <= m
  BY <1>1, LeastNat
<1>3. PICK S \in F : n = Cardinality(S)
  BY <1>2 DEF C
<1>4. ASSUME NEW T \in F, T \subseteq S, T # S
      PROVE  FALSE
  <2>1. Cardinality(T) <= Cardinality(S) /\ Cardinality(T) # Cardinality(S)
    BY <1>4, FS_Subset
  <2>2. Cardinality(T) \in C
    BY DEF C
  <2>3. /\ Cardinality(T) \in Nat
        /\ Cardinality(S) \in Nat
        /\ Cardinality(S) <= Cardinality(T)
    BY <2>2, <1>1, <1>2, <1>3
  <2> QED BY <2>1, <2>3
<1> QED BY <1>3, <1>4
-----------------------------------------------------------------------------
\* The recursion: the element taken out of a set, and what it means that h
\* holds the sums of g over the subsets of X.
Chosen(s) == CHOOSE x \in s : TRUE

SumsOver(h, g, X) ==
    h = [s \in SUBSET X |->
            IF s = {} THEN 0 ELSE g[Chosen(s)] + h[s \ {Chosen(s)}]]

LEMMA ChosenIn == \A s : s # {} => Chosen(s) \in s
BY DEF Chosen

\* The equation at one subset.
LEMMA SumsAt ==
  ASSUME NEW g, NEW X, NEW h, SumsOver(h, g, X), NEW s \in SUBSET X
  PROVE  h[s] = IF s = {} THEN 0 ELSE g[Chosen(s)] + h[s \ {Chosen(s)}]
<1> DEFINE body == [u \in SUBSET X |->
                       IF u = {} THEN 0 ELSE g[Chosen(u)] + h[u \ {Chosen(u)}]]
<1>1. h = body
  BY DEF SumsOver
<1>2. body[s] = IF s = {} THEN 0 ELSE g[Chosen(s)] + h[s \ {Chosen(s)}]
  OBVIOUS
<1> HIDE DEF body
<1> QED BY <1>1, <1>2, Zenon

\* Solutions of the equation agree where they are both defined, whatever
\* larger set each was built for.
LEMMA SumsUnique ==
  ASSUME NEW g, NEW X, NEW Y, NEW h, NEW k,
         SumsOver(h, g, X), SumsOver(k, g, Y),
         NEW s \in SUBSET X, s \in SUBSET Y, IsFiniteSet(s)
  PROVE  h[s] = k[s]
<1> DEFINE F == {u \in SUBSET s : h[u] # k[u]}
<1>1. SUFFICES ASSUME h[s] # k[s]
               PROVE  FALSE
  OBVIOUS
<1>2. F # {} /\ \A u \in F : IsFiniteSet(u)
  BY <1>1, FS_Subset
<1> HIDE DEF F
<1>3. PICK u \in F : \A t \in F : ~ (t \subseteq u /\ t # u)
  BY <1>2, LeastSet
<1>4. u \in SUBSET X /\ u \in SUBSET Y /\ u \subseteq s /\ h[u] # k[u]
  BY DEF F
<1>5. /\ h[u] = IF u = {} THEN 0 ELSE g[Chosen(u)] + h[u \ {Chosen(u)}]
      /\ k[u] = IF u = {} THEN 0 ELSE g[Chosen(u)] + k[u \ {Chosen(u)}]
  BY <1>4, SumsAt
<1>6. CASE u = {}
  BY <1>4, <1>5, <1>6
<1>7. CASE u # {}
  <2>1. Chosen(u) \in u
    BY <1>7, ChosenIn
  <2>2. h[u \ {Chosen(u)}] # k[u \ {Chosen(u)}]
    BY <1>4, <1>5, <1>7
  <2>3. u \ {Chosen(u)} \in F
    BY <1>4, <2>2 DEF F
  <2> QED BY <2>1, <2>3, <1>3
<1> QED BY <1>6, <1>7

\* The equation has a solution on the subsets of a finite set.
LEMMA SumsExist ==
  ASSUME NEW g, NEW D, IsFiniteSet(D)
  PROVE  \E h : SumsOver(h, g, D)
<1> DEFINE F == {X \in SUBSET D : ~ \E h : SumsOver(h, g, X)}
<1>1. SUFFICES ASSUME ~ \E h : SumsOver(h, g, D)
               PROVE  FALSE
  OBVIOUS
<1>2. F # {} /\ \A X \in F : IsFiniteSet(X)
  BY <1>1, FS_Subset
<1>3. PICK X \in F : \A Y \in F : ~ (Y \subseteq X /\ Y # X)
  <2> HIDE DEF F
  <2> QED BY <1>2, LeastSet
<1>4. IsFiniteSet(X) /\ X \subseteq D
  BY <1>2
\* H(Y) solves it on a smaller set; f puts the solutions together.
<1> DEFINE H(Y) == CHOOSE h : SumsOver(h, g, Y)
           val(s) == IF s = {} THEN 0 ELSE g[Chosen(s)] + H(s \ {Chosen(s)})[s \ {Chosen(s)}]
           f == [s \in SUBSET X |-> val(s)]
<1>5. \A Y : Y \subseteq X /\ Y # X => SumsOver(H(Y), g, Y)
  <2>1. \A Y : Y \subseteq X /\ Y # X => \E h : SumsOver(h, g, Y)
    BY <1>3, <1>4
  <2> HIDE DEF F
  <2> QED BY <2>1
<1> HIDE DEF H, F
<1>6. ASSUME NEW t \in SUBSET X, t # X
      PROVE  H(t)[t] = val(t)
  <2>1. SumsOver(H(t), g, t)
    BY <1>5, <1>6
  <2>2. H(t)[t] = IF t = {} THEN 0 ELSE g[Chosen(t)] + H(t)[t \ {Chosen(t)}]
    BY <2>1, SumsAt
  <2>3. CASE t = {}
    BY <2>2, <2>3
  <2>4. CASE t # {}
    <3> DEFINE u == t \ {Chosen(t)}
    <3>1. u \subseteq X /\ u # X /\ u \subseteq t
      BY <2>4, ChosenIn, <1>6
    <3>2. SumsOver(H(u), g, u)
      BY <1>5, <3>1
    <3>3. IsFiniteSet(u)
      BY <3>1, <1>4, FS_Subset
    <3>4. H(t)[u] = H(u)[u]
      <4> HIDE DEF u
      <4> QED BY <3>1, <3>2, <3>3, <2>1, SumsUnique
    <3> QED BY <2>2, <2>4, <3>4
  <2> QED BY <2>3, <2>4
<1>7. ASSUME NEW s \in SUBSET X
      PROVE  val(s) = IF s = {} THEN 0 ELSE g[Chosen(s)] + f[s \ {Chosen(s)}]
  <2>1. CASE s = {}
    BY <2>1
  <2>2. CASE s # {}
    <3> DEFINE t == s \ {Chosen(s)}
    <3>1. t \in SUBSET X /\ t # X
      BY <2>2, ChosenIn
    <3>2. f[t] = val(t)
      BY <3>1
    <3>3. H(t)[t] = val(t)
      BY <3>1, <1>6
    <3>4. val(s) = g[Chosen(s)] + H(t)[t]
      BY <2>2
    <3> QED BY <3>2, <3>3, <3>4, <2>2
  <2> QED BY <2>1, <2>2
<1>8. f = [s \in SUBSET X |->
              IF s = {} THEN 0 ELSE g[Chosen(s)] + f[s \ {Chosen(s)}]]
  <2> DEFINE w(s) == IF s = {} THEN 0 ELSE g[Chosen(s)] + f[s \ {Chosen(s)}]
  <2>1. \A s \in SUBSET X : val(s) = w(s)
    BY <1>7
  <2> HIDE DEF val, w
  <2>2. [s \in SUBSET X |-> val(s)] = [s \in SUBSET X |-> w(s)]
    BY <2>1
  <2> QED BY <2>2 DEF w
<1>9. SumsOver(f, g, X)
  <2> HIDE DEF f
  <2> QED BY <1>8 DEF SumsOver
<1> QED BY <1>9 DEF F
-----------------------------------------------------------------------------
\* The sum is such a solution's value at the whole set.
LEMMA SumIs ==
  ASSUME NEW g, NEW S
  PROVE  SumFunctionOnSet(g, S) = (CHOOSE h : SumsOver(h, g, S))[S]
BY DEF SumFunctionOnSet, FoldFunctionOnSet, MapThenFoldSet, SumsOver, Chosen

LEMMA SumEquation ==
  ASSUME NEW g, NEW S, IsFiniteSet(S)
  PROVE  SumFunctionOnSet(g, S) =
            IF S = {} THEN 0
            ELSE g[Chosen(S)] + SumFunctionOnSet(g, S \ {Chosen(S)})
<1> DEFINE h == CHOOSE i : SumsOver(i, g, S)
           T == S \ {Chosen(S)}
           k == CHOOSE i : SumsOver(i, g, T)
<1>1. SumsOver(h, g, S)
  BY SumsExist
<1>2. IsFiniteSet(T) /\ T \subseteq S
  BY FS_Subset
<1>3. SumsOver(k, g, T)
  <2> HIDE DEF T
  <2> QED BY <1>2, SumsExist
<1>4. SumFunctionOnSet(g, S) = h[S] /\ SumFunctionOnSet(g, T) = k[T]
  BY SumIs
<1> HIDE DEF h, k
<1>5. h[S] = IF S = {} THEN 0 ELSE g[Chosen(S)] + h[T]
  BY <1>1, SumsAt
<1> HIDE DEF T
<1>6. h[T] = k[T]
  BY <1>1, <1>2, <1>3, SumsUnique
<1> QED BY <1>4, <1>5, <1>6 DEF T

\* The sum over no element.
THEOREM SumEmpty ==
  ASSUME NEW g
  PROVE  SumFunctionOnSet(g, {}) = 0
BY SumEquation, FS_EmptySet

\* A sum of integers is an integer.
THEOREM SumInt ==
  ASSUME NEW S, IsFiniteSet(S), NEW g, \A x \in S : g[x] \in Int
  PROVE  SumFunctionOnSet(g, S) \in Int
<1> DEFINE F == {T \in SUBSET S : SumFunctionOnSet(g, T) \notin Int}
<1>1. SUFFICES ASSUME SumFunctionOnSet(g, S) \notin Int
               PROVE  FALSE
  OBVIOUS
<1>2. F # {} /\ \A T \in F : IsFiniteSet(T)
  BY <1>1, FS_Subset
<1> HIDE DEF F
<1>3. PICK T \in F : \A U \in F : ~ (U \subseteq T /\ U # T)
  BY <1>2, LeastSet
<1>4. T \subseteq S /\ SumFunctionOnSet(g, T) \notin Int /\ IsFiniteSet(T)
  BY <1>2 DEF F
<1>5. T # {}
  BY <1>4, SumEmpty
<1>6. Chosen(T) \in T
  BY <1>5, ChosenIn
<1> DEFINE U == T \ {Chosen(T)}
<1>7. SumFunctionOnSet(g, T) = g[Chosen(T)] + SumFunctionOnSet(g, U)
  BY <1>4, <1>5, SumEquation
<1>8. SumFunctionOnSet(g, U) \in Int
  BY <1>3, <1>4, <1>6 DEF F
<1> HIDE DEF U
<1>9. g[Chosen(T)] \in Int
  BY <1>4, <1>6
<1> QED BY <1>4, <1>7, <1>8, <1>9

\* Whichever element is taken out first, the sum is the same: the choice the
\* definition makes does not show.
THEOREM SumRemove ==
  ASSUME NEW S, IsFiniteSet(S), NEW g, \A x \in S : g[x] \in Int, NEW x \in S
  PROVE  SumFunctionOnSet(g, S) = g[x] + SumFunctionOnSet(g, S \ {x})
<1> DEFINE Sum(T) == SumFunctionOnSet(g, T)
           F == {T \in SUBSET S :
                   ~ \A y \in T : Sum(T) = g[y] + Sum(T \ {y})}
<1>1. SUFFICES ASSUME S \in F
               PROVE  FALSE
  OBVIOUS
<1>2. F # {} /\ \A T \in F : IsFiniteSet(T)
  BY <1>1, FS_Subset
<1>3. PICK T \in F : \A U \in F : ~ (U \subseteq T /\ U # T)
  <2> HIDE DEF F
  <2> QED BY <1>2, LeastSet
<1>4. PICK y \in T : Sum(T) # g[y] + Sum(T \ {y})
  OBVIOUS
<1>5. T \subseteq S /\ IsFiniteSet(T)
  BY <1>2
<1> DEFINE c == Chosen(T)
<1>6. c \in T /\ Sum(T) = g[c] + Sum(T \ {c})
  BY <1>4, <1>5, ChosenIn, SumEquation
<1> HIDE DEF c
<1>7. c # y
  BY <1>4, <1>6
\* Both elements can be taken out, in either order.
<1> DEFINE V == (T \ {c}) \ {y}
<1>8. Sum(T \ {c}) = g[y] + Sum(V)
  <2>1. T \ {c} \notin F
    BY <1>3, <1>6
  <2>2. y \in T \ {c} /\ T \ {c} \in SUBSET S
    BY <1>4, <1>5, <1>7
  <2> HIDE DEF Sum
  <2> QED BY <2>1, <2>2
<1>9. Sum(T \ {y}) = g[c] + Sum(V)
  <2>1. T \ {y} \notin F
    BY <1>3
  <2>2. c \in T \ {y} /\ T \ {y} \in SUBSET S /\ (T \ {y}) \ {c} = V
    BY <1>6, <1>5, <1>7
  <2> HIDE DEF Sum, V
  <2> QED BY <2>1, <2>2
<1>10. Sum(V) \in Int
  <2>1. IsFiniteSet(V) /\ \A z \in V : g[z] \in Int
    BY <1>5, FS_Subset
  <2> HIDE DEF V
  <2> QED BY <2>1, SumInt
<1>11. g[y] \in Int /\ g[c] \in Int
  BY <1>5, <1>6
<1> HIDE DEF Sum, V, F
<1> QED BY <1>4, <1>6, <1>8, <1>9, <1>10, <1>11

\* Putting an element in.
THEOREM SumAdd ==
  ASSUME NEW S, IsFiniteSet(S), NEW g, NEW x, x \notin S,
         \A y \in S \cup {x} : g[y] \in Int
  PROVE  SumFunctionOnSet(g, S \cup {x}) = g[x] + SumFunctionOnSet(g, S)
<1> DEFINE T == S \cup {x}
<1>1. IsFiniteSet(T) /\ x \in T /\ T \ {x} = S
  BY FS_AddElement
<1> HIDE DEF T
<1>2. \A y \in T : g[y] \in Int
  BY DEF T
<1>3. SumFunctionOnSet(g, T) = g[x] + SumFunctionOnSet(g, T \ {x})
  BY <1>1, <1>2, SumRemove
<1> QED BY <1>1, <1>3 DEF T

\* Equal summands, equal sums.
THEOREM SumSame ==
  ASSUME NEW S, IsFiniteSet(S), NEW g, NEW h, \A x \in S : g[x] = h[x]
  PROVE  SumFunctionOnSet(g, S) = SumFunctionOnSet(h, S)
<1> DEFINE F == {T \in SUBSET S : SumFunctionOnSet(g, T) # SumFunctionOnSet(h, T)}
<1>1. SUFFICES ASSUME S \in F
               PROVE  FALSE
  OBVIOUS
<1>2. F # {} /\ \A T \in F : IsFiniteSet(T)
  BY <1>1, FS_Subset
<1> HIDE DEF F
<1>3. PICK T \in F : \A U \in F : ~ (U \subseteq T /\ U # T)
  BY <1>2, LeastSet
<1>4. /\ T \subseteq S /\ IsFiniteSet(T)
      /\ SumFunctionOnSet(g, T) # SumFunctionOnSet(h, T)
  BY <1>2 DEF F
<1>5. T # {}
  BY <1>4, SumEmpty
<1>6. Chosen(T) \in T
  BY <1>5, ChosenIn
<1> DEFINE U == T \ {Chosen(T)}
<1>7. /\ SumFunctionOnSet(g, T) = g[Chosen(T)] + SumFunctionOnSet(g, U)
      /\ SumFunctionOnSet(h, T) = h[Chosen(T)] + SumFunctionOnSet(h, U)
  BY <1>4, <1>5, SumEquation
<1>8. SumFunctionOnSet(g, U) = SumFunctionOnSet(h, U)
  BY <1>3, <1>4, <1>6 DEF F
<1> HIDE DEF U
<1> QED BY <1>4, <1>6, <1>7, <1>8

\* When one summand changes, the sum changes by the difference.
THEOREM SumChange ==
  ASSUME NEW S, IsFiniteSet(S), NEW g, NEW h,
         \A y \in S : g[y] \in Int /\ h[y] \in Int,
         NEW x \in S, \A y \in S : y # x => g[y] = h[y]
  PROVE  SumFunctionOnSet(h, S) = SumFunctionOnSet(g, S) - g[x] + h[x]
<1> DEFINE T == S \ {x}
<1>1. IsFiniteSet(T) /\ T \subseteq S
  BY FS_Subset
<1>2. /\ SumFunctionOnSet(g, S) = g[x] + SumFunctionOnSet(g, T)
      /\ SumFunctionOnSet(h, S) = h[x] + SumFunctionOnSet(h, T)
  BY SumRemove
<1>3. \A y \in T : g[y] \in Int /\ g[y] = h[y]
  OBVIOUS
<1> HIDE DEF T
<1>4. SumFunctionOnSet(g, T) = SumFunctionOnSet(h, T)
  BY <1>1, <1>3, SumSame
<1>5. SumFunctionOnSet(g, T) \in Int
  BY <1>1, <1>3, SumInt
<1> QED BY <1>2, <1>4, <1>5

\* A sum of naturals is a natural.
THEOREM SumNat ==
  ASSUME NEW S, IsFiniteSet(S), NEW g, \A x \in S : g[x] \in Nat
  PROVE  SumFunctionOnSet(g, S) \in Nat
<1> DEFINE F == {T \in SUBSET S : SumFunctionOnSet(g, T) \notin Nat}
<1>1. SUFFICES ASSUME S \in F
               PROVE  FALSE
  OBVIOUS
<1>2. F # {} /\ \A T \in F : IsFiniteSet(T)
  BY <1>1, FS_Subset
<1> HIDE DEF F
<1>3. PICK T \in F : \A U \in F : ~ (U \subseteq T /\ U # T)
  BY <1>2, LeastSet
<1>4. T \subseteq S /\ SumFunctionOnSet(g, T) \notin Nat /\ IsFiniteSet(T)
  BY <1>2 DEF F
<1>5. T # {}
  BY <1>4, SumEmpty
<1>6. Chosen(T) \in T
  BY <1>5, ChosenIn
<1> DEFINE U == T \ {Chosen(T)}
<1>7. SumFunctionOnSet(g, T) = g[Chosen(T)] + SumFunctionOnSet(g, U)
  BY <1>4, <1>5, SumEquation
<1>8. SumFunctionOnSet(g, U) \in Nat
  BY <1>3, <1>4, <1>6 DEF F
<1> HIDE DEF U
<1>9. g[Chosen(T)] \in Nat
  BY <1>4, <1>6
<1> QED BY <1>4, <1>7, <1>8, <1>9

\* Summands that are all zero.
THEOREM SumZero ==
  ASSUME NEW S, IsFiniteSet(S), NEW g, \A x \in S : g[x] = 0
  PROVE  SumFunctionOnSet(g, S) = 0
<1> DEFINE F == {T \in SUBSET S : SumFunctionOnSet(g, T) # 0}
<1>1. SUFFICES ASSUME S \in F
               PROVE  FALSE
  OBVIOUS
<1>2. F # {} /\ \A T \in F : IsFiniteSet(T)
  BY <1>1, FS_Subset
<1> HIDE DEF F
<1>3. PICK T \in F : \A U \in F : ~ (U \subseteq T /\ U # T)
  BY <1>2, LeastSet
<1>4. T \subseteq S /\ SumFunctionOnSet(g, T) # 0 /\ IsFiniteSet(T)
  BY <1>2 DEF F
<1>5. T # {}
  BY <1>4, SumEmpty
<1>6. Chosen(T) \in T
  BY <1>5, ChosenIn
<1> DEFINE U == T \ {Chosen(T)}
<1>7. SumFunctionOnSet(g, T) = g[Chosen(T)] + SumFunctionOnSet(g, U)
  BY <1>4, <1>5, SumEquation
<1>8. SumFunctionOnSet(g, U) = 0
  BY <1>3, <1>4, <1>6 DEF F
<1> HIDE DEF U
<1> QED BY <1>4, <1>6, <1>7, <1>8

\* Over fewer naturals the sum is no larger.
THEOREM SumSubset ==
  ASSUME NEW S, IsFiniteSet(S), NEW g, \A x \in S : g[x] \in Nat,
         NEW R, R \subseteq S
  PROVE  SumFunctionOnSet(g, R) <= SumFunctionOnSet(g, S)
<1> DEFINE F == {T \in SUBSET S :
                   R \subseteq T /\ ~ (SumFunctionOnSet(g, R) <= SumFunctionOnSet(g, T))}
<1>1. SUFFICES ASSUME S \in F
               PROVE  FALSE
  OBVIOUS
<1>2. F # {} /\ \A T \in F : IsFiniteSet(T)
  BY <1>1, FS_Subset
<1> HIDE DEF F
<1>3. PICK T \in F : \A U \in F : ~ (U \subseteq T /\ U # T)
  BY <1>2, LeastSet
<1>4. /\ T \subseteq S /\ IsFiniteSet(T) /\ R \subseteq T
      /\ ~ (SumFunctionOnSet(g, R) <= SumFunctionOnSet(g, T))
  BY <1>2 DEF F
<1>5. SumFunctionOnSet(g, R) \in Nat
  <2>1. IsFiniteSet(R)
    BY FS_Subset
  <2> QED BY <2>1, SumNat
<1>6. PICK x \in T : x \notin R
  BY <1>4, <1>5
<1> DEFINE U == T \ {x}
<1>7. SumFunctionOnSet(g, T) = g[x] + SumFunctionOnSet(g, U)
  BY <1>4, SumRemove
<1>8. IsFiniteSet(U) /\ U \subseteq S /\ U \subseteq T /\ U # T /\ R \subseteq U
  BY <1>4, <1>6, FS_Subset
<1> HIDE DEF U
<1>9. SumFunctionOnSet(g, R) <= SumFunctionOnSet(g, U)
  BY <1>3, <1>8 DEF F
<1>10. SumFunctionOnSet(g, U) \in Nat /\ g[x] \in Nat
  BY <1>4, <1>8, SumNat
<1> QED BY <1>4, <1>5, <1>7, <1>9, <1>10

\* When the summand of x grows by n, so does the sum if x is summed over.
THEOREM SumMoved ==
  ASSUME NEW S, IsFiniteSet(S), NEW g, NEW h, NEW x, NEW n \in Int,
         \A y \in S : g[y] \in Int,
         \A y \in S : h[y] = g[y] + (IF y = x THEN n ELSE 0)
  PROVE  SumFunctionOnSet(h, S) = SumFunctionOnSet(g, S) + (IF x \in S THEN n ELSE 0)
<1>1. \A y \in S : h[y] \in Int /\ (y # x => g[y] = h[y])
  OBVIOUS
<1>2. SumFunctionOnSet(g, S) \in Int
  BY SumInt
<1>3. CASE x \in S
  <2>1. SumFunctionOnSet(h, S) = SumFunctionOnSet(g, S) - g[x] + h[x]
    BY <1>1, <1>3, SumChange
  <2>2. h[x] = g[x] + n /\ g[x] \in Int
    BY <1>3
  <2>. QED BY <1>2, <1>3, <2>1, <2>2
<1>4. CASE x \notin S
  <2>1. \A y \in S : g[y] = h[y]
    BY <1>1, <1>4
  <2>2. SumFunctionOnSet(g, S) = SumFunctionOnSet(h, S)
    BY <2>1, SumSame
  <2>. QED BY <1>2, <1>4, <2>2
<1> QED BY <1>3, <1>4

\* Elements whose summand is zero may be left out.
THEOREM SumRestricted ==
  ASSUME NEW D, IsFiniteSet(D), NEW g, \A x \in D : g[x] \in Int,
         NEW S, S \subseteq D, \A x \in D : x \notin S => g[x] = 0
  PROVE  SumFunctionOnSet(g, D) = SumFunctionOnSet(g, S)
<1> DEFINE F == {T \in SUBSET D :
                   S \subseteq T /\ SumFunctionOnSet(g, T) # SumFunctionOnSet(g, S)}
<1>1. SUFFICES ASSUME D \in F
               PROVE  FALSE
  OBVIOUS
<1>2. F # {} /\ \A T \in F : IsFiniteSet(T)
  BY <1>1, FS_Subset
<1> HIDE DEF F
<1>3. PICK T \in F : \A U \in F : ~ (U \subseteq T /\ U # T)
  BY <1>2, LeastSet
<1>4. /\ T \subseteq D /\ IsFiniteSet(T) /\ S \subseteq T
      /\ SumFunctionOnSet(g, T) # SumFunctionOnSet(g, S)
  BY <1>2 DEF F
<1>5. PICK x \in T : x \notin S
  BY <1>4
<1> DEFINE U == T \ {x}
<1>6. SumFunctionOnSet(g, T) = g[x] + SumFunctionOnSet(g, U)
  BY <1>4, SumRemove
<1>7. IsFiniteSet(U) /\ U \subseteq D /\ U \subseteq T /\ U # T /\ S \subseteq U
  BY <1>4, <1>5, FS_Subset
<1> HIDE DEF U
<1>8. SumFunctionOnSet(g, U) = SumFunctionOnSet(g, S)
  BY <1>3, <1>7 DEF F
<1>9. SumFunctionOnSet(g, U) \in Int /\ g[x] = 0
  BY <1>4, <1>5, <1>7, SumInt
<1> QED BY <1>4, <1>6, <1>8, <1>9

\* Counted amounts: the products, and the product after one more is counted.
LEMMA Counted ==
  /\ \A m, n \in Nat : m * n \in Nat
  /\ \A m \in Nat, n \in Int : /\ m * n \in Int
                               /\ (m + 1) * n = m * n + n
                               /\ 0 * n = 0
OBVIOUS
=============================================================================
