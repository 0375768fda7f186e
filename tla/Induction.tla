------------------------------ MODULE Induction ------------------------------
(***************************************************************************)
(* Induction over the natural numbers for sets instead of predicates, from *)
(* the theorems of the library that the order of the naturals is well      *)
(* founded: a set can be instantiated by every prover.                     *)
(***************************************************************************)
EXTENDS Integers, Totals, WellFoundedInduction, TLAPS

\* A nonempty set of natural numbers has a least element.
LEMMA SmallestElement ==
  ASSUME NEW T \in SUBSET Nat, T # {}
  PROVE  \E n \in T : \A m \in T : n <= m
<1> DEFINE R == OpToRel(<, Nat)
<1>1. \A x, y \in Nat : <<x, y>> \in R <=> x < y
  BY DEF OpToRel
<1>2. IsWellFoundedOn(R, Nat)
  BY NatLessThanWellFounded
<1> HIDE DEF R
<1>3. PICK n \in T : \A m \in T : <<m, n>> \notin R
  BY <1>2, WFMin
<1>4. \A m \in T : n <= m
  <2> TAKE m \in T
  <2>1. m \in Nat /\ n \in Nat
    OBVIOUS
  <2>2. ~(m < n)
    BY <1>1, <1>3, <2>1
  <2> QED BY <2>1, <2>2
<1> QED BY <1>4

\* A nonempty set of natural numbers up to a bound has a greatest element.
LEMMA GreatestElement ==
  ASSUME NEW n \in Nat, NEW S \in SUBSET (0..n), S # {}
  PROVE  \E g \in S : \A k \in S : k <= g
<1> DEFINE T == {n - k : k \in S}
<1>1. T \in SUBSET Nat /\ T # {}
  <2>1. \A k \in S : n - k \in Nat
    OBVIOUS
  <2>2. PICK k \in S : TRUE
    OBVIOUS
  <2>3. n - k \in T
    OBVIOUS
  <2> QED BY <2>1, <2>3
<1>2. PICK t \in T : \A u \in T : t <= u
  <2> HIDE DEF T
  <2> QED BY <1>1, SmallestElement
<1>3. PICK g \in S : t = n - g
  OBVIOUS
<1>4. \A k \in S : n - g <= n - k
  BY <1>2, <1>3
<1> QED BY <1>4

\* A set that holds 0 and with every number its successor holds them all.
LEMMA SetInduction ==
  ASSUME NEW S \in SUBSET Nat, 0 \in S, \A n \in S : n + 1 \in S
  PROVE  S = Nat
<1>1. SUFFICES ASSUME Nat \ S # {} PROVE FALSE
  OBVIOUS
<1>2. PICK n \in Nat \ S : \A m \in Nat \ S : n <= m
  BY <1>1, SmallestElement
<1>3. n # 0 /\ n - 1 \in Nat /\ n - 1 \in S
  BY <1>2
<1>4. (n - 1) + 1 \in S
  BY <1>3
<1> QED BY <1>2, <1>4

\* A function of partial sums: from 0, each adds the next entry.
Adds(f, s) == \A i \in DOMAIN f : f[i] = IF i = 0 THEN 0 ELSE f[i - 1] + s[i]

\* Every sequence of integers has its function of partial sums.
LEMMA PartialSums ==
  ASSUME NEW s \in Seq(Int)
  PROVE  \E f \in [0..Len(s) -> Int] : Adds(f, s)
<1> DEFINE S == {n \in Nat : n <= Len(s) => \E f \in [0..n -> Int] : Adds(f, s)}
<1>1. 0 \in S
  <2>1. [i \in 0..0 |-> 0] \in [0..0 -> Int] /\ Adds([i \in 0..0 |-> 0], s)
    BY DEF Adds
  <2> QED BY <2>1
<1>2. ASSUME NEW n \in S PROVE n + 1 \in S
  <2> SUFFICES ASSUME n + 1 <= Len(s)
               PROVE  \E f \in [0..(n + 1) -> Int] : Adds(f, s)
    OBVIOUS
  <2>1. PICK f \in [0..n -> Int] : Adds(f, s)
    OBVIOUS
  <2> DEFINE g == [i \in 0..(n + 1) |-> IF i <= n THEN f[i] ELSE f[n] + s[n + 1]]
  <2>2. g \in [0..(n + 1) -> Int]
    OBVIOUS
  <2>3. ASSUME NEW i \in 0..(n + 1)
        PROVE  g[i] = IF i = 0 THEN 0 ELSE g[i - 1] + s[i]
    <3>1. CASE i <= n
      BY <2>1, <3>1 DEF Adds
    <3>2. CASE i = n + 1
      BY <2>1, <3>2
    <3> QED BY <3>1, <3>2
  <2>4. Adds(g, s)
    BY <2>2, <2>3 DEF Adds
  <2> QED BY <2>2, <2>4
<1>3. S = Nat
  <2> HIDE DEF S
  <2>1. S \in SUBSET Nat BY DEF S
  <2> QED BY <1>1, <1>2, <2>1, SetInduction
<1>4. Len(s) \in Nat /\ Len(s) \in S
  BY <1>3
<1> QED BY <1>4

\* Two functions of partial sums agree as far as the entries do.
LEMMA SumsAgree ==
  ASSUME NEW s \in Seq(Int), NEW t \in Seq(Int), NEW m \in Nat, NEW n \in Nat, m <= n,
         NEW f \in [0..m -> Int], Adds(f, s), NEW g \in [0..n -> Int], Adds(g, t),
         \A i \in 1..m : s[i] = t[i]
  PROVE  f[m] = g[m]
<1> DEFINE S == {k \in Nat : k <= m => f[k] = g[k]}
<1>1. 0 \in S
  BY DEF Adds
<1>2. ASSUME NEW k \in S PROVE k + 1 \in S
  BY DEF Adds
<1>3. S = Nat
  <2> HIDE DEF S
  <2>1. S \in SUBSET Nat BY DEF S
  <2> QED BY <1>1, <1>2, <2>1, SetInduction
<1>4. m \in S
  BY <1>3
<1> QED BY <1>4

\* The total is the last of the partial sums.
LEMMA TotalIsSum ==
  ASSUME NEW s \in Seq(Int)
  PROVE  \E f \in [0..Len(s) -> Int] : Adds(f, s) /\ Total(s) = f[Len(s)]
<1> DEFINE h == CHOOSE f : f = [i \in 0..Len(s) |-> IF i = 0 THEN 0 ELSE f[i - 1] + s[i]]
<1>1. PICK f \in [0..Len(s) -> Int] : Adds(f, s)
  BY PartialSums
<1>2. f = [i \in 0..Len(s) |-> IF i = 0 THEN 0 ELSE f[i - 1] + s[i]]
  BY <1>1 DEF Adds
<1>3. h = [i \in 0..Len(s) |-> IF i = 0 THEN 0 ELSE h[i - 1] + s[i]]
  BY <1>2
<1>4. Total(s) = h[Len(s)]
  BY DEF Total
<1> HIDE DEF h
<1> DEFINE S == {k \in Nat : k <= Len(s) => h[k] \in Int}
<1>5. Len(s) \in Nat
  OBVIOUS
<1>6. S = Nat
  <2>1. 0 \in S
    BY <1>3, <1>5
  <2>2. ASSUME NEW k \in S PROVE k + 1 \in S
    BY <1>3, <1>5
  <2>3. S \in SUBSET Nat
    OBVIOUS
  <2> HIDE DEF S
  <2> QED BY <2>1, <2>2, <2>3, SetInduction
<1>7. h \in [0..Len(s) -> Int]
  <2> DEFINE g == [i \in 0..Len(s) |-> IF i = 0 THEN 0 ELSE h[i - 1] + s[i]]
  <2>1. \A i \in 0..Len(s) : h[i] \in Int
    BY <1>6
  <2>2. h = g
    BY <1>3
  <2>3. \A i \in 0..Len(s) : g[i] \in Int
    <3> HIDE DEF g
    <3> QED BY <2>1, <2>2
  <2>4. g \in [0..Len(s) -> Int]
    BY <2>3
  <2> HIDE DEF g
  <2> QED BY <2>2, <2>4
<1>8. Adds(h, s)
  BY <1>3 DEF Adds
<1> QED BY <1>4, <1>7, <1>8

\* The total of no entries is 0.
LEMMA TotalOfNone == Total(<<>>) = 0
<1>1. <<>> \in Seq(Int) /\ Len(<<>>) = 0
  OBVIOUS
<1>2. PICK f \in [0..0 -> Int] : Adds(f, <<>>) /\ Total(<<>>) = f[0]
  BY <1>1, TotalIsSum
<1> QED BY <1>2 DEF Adds

\* An entry at the end is added to the total.
LEMMA TotalOfMore ==
  ASSUME NEW s \in Seq(Int), NEW x \in Int
  PROVE  Total(s) \in Int /\ Total(Append(s, x)) = Total(s) + x
<1>1. PICK f \in [0..Len(s) -> Int] : Adds(f, s) /\ Total(s) = f[Len(s)]
  BY TotalIsSum
<1> DEFINE t == Append(s, x)
<1>2. t \in Seq(Int) /\ Len(t) = Len(s) + 1 /\ t[Len(t)] = x /\ \A i \in 1..Len(s) : t[i] = s[i]
  OBVIOUS
<1> HIDE DEF t
<1>3. PICK g \in [0..Len(t) -> Int] : Adds(g, t) /\ Total(t) = g[Len(t)]
  BY <1>2, TotalIsSum
<1>9. Len(s) \in Nat /\ Len(t) \in Nat /\ Len(s) <= Len(t)
  BY <1>2
<1>4. f[Len(s)] = g[Len(s)]
  <2> DEFINE m == Len(s)
             n == Len(t)
  <2>1. /\ s \in Seq(Int) /\ t \in Seq(Int) /\ m \in Nat /\ n \in Nat /\ m <= n
        /\ f \in [0..m -> Int] /\ Adds(f, s)
        /\ g \in [0..n -> Int] /\ Adds(g, t)
        /\ \A i \in 1..m : s[i] = t[i]
    BY <1>9, <1>1, <1>2, <1>3
  <2> HIDE DEF m, n
  <2>2. f[m] = g[m] BY <2>1, SumsAgree, ZenonT(30)
  <2> QED BY <2>2 DEF m
<1>5. g[Len(t)] = g[Len(s)] + x
  <2> DEFINE n == Len(t)
  <2>1. n \in Nat /\ n # 0 /\ n \in DOMAIN g /\ n - 1 = Len(s) /\ t[n] = x
    BY <1>9, <1>2
  <2> HIDE DEF n
  <2>2. g[n] = g[n - 1] + t[n]
    BY <2>1, <1>3 DEF Adds
  <2> QED BY <2>1, <2>2 DEF n
<1> QED BY <1>1, <1>2, <1>3, <1>4, <1>5 DEF t

\* A total of integers is an integer.
LEMMA TotalType ==
  ASSUME NEW s \in Seq(Int)
  PROVE  Total(s) \in Int
<1>1. 0 \in Int
  OBVIOUS
<1> QED BY <1>1, TotalOfMore

\* The total of zeros is 0.
LEMMA TotalOfZeros ==
  ASSUME NEW s \in Seq(Int), \A i \in DOMAIN s : s[i] = 0
  PROVE  Total(s) = 0
<1>1. PICK f \in [0..Len(s) -> Int] : Adds(f, s) /\ Total(s) = f[Len(s)]
  BY TotalIsSum
<1> DEFINE S == {k \in Nat : k <= Len(s) => f[k] = 0}
<1>2. Len(s) \in Nat
  OBVIOUS
<1>3. S = Nat
  <2>1. 0 \in S
    BY <1>1, <1>2 DEF Adds
  <2>2. ASSUME NEW k \in S PROVE k + 1 \in S
    BY <1>1, <1>2 DEF Adds
  <2>3. S \in SUBSET Nat
    OBVIOUS
  <2> HIDE DEF S
  <2> QED BY <2>1, <2>2, <2>3, SetInduction
<1> QED BY <1>1, <1>2, <1>3

\* A function on 1..n is a sequence.
LEMMA IsSequence ==
  ASSUME NEW S, NEW n \in Nat, NEW f \in [1..n -> S]
  PROVE  f \in Seq(S) /\ Len(f) = n
  OBVIOUS

\* The total of what a function makes of each entry of a log.
Tally(log, value) == Total([i \in DOMAIN log |-> value[log[i]]])

\* An entry at the end of the log adds its value.
LEMMA TallyOfMore ==
  ASSUME NEW S, NEW log \in Seq(S), NEW e \in S, NEW value \in [S -> Int]
  PROVE  /\ Tally(log, value) \in Int
         /\ Tally(Append(log, e), value) = Tally(log, value) + value[e]
<1> DEFINE more == Append(log, e)
           amounts == [i \in DOMAIN log |-> value[log[i]]]
           longer == [i \in DOMAIN more |-> value[more[i]]]
<1>1. /\ more \in Seq(S) /\ Len(more) = Len(log) + 1 /\ Len(log) \in Nat
      /\ more[Len(log) + 1] = e /\ DOMAIN more = 1..(Len(log) + 1) /\ DOMAIN log = 1..Len(log)
      /\ \A i \in 1..Len(log) : more[i] = log[i] /\ log[i] \in S
  OBVIOUS
<1> HIDE DEF more
<1>2. amounts \in Seq(Int) /\ Len(amounts) = Len(log)
  <2>1. amounts \in [1..Len(log) -> Int]
    BY <1>1
  <2> HIDE DEF amounts
  <2> QED BY <1>1, <2>1, IsSequence
<1>3. longer = Append(amounts, value[e])
  BY <1>1, <1>2
<1> HIDE DEF amounts
<1>4. value[e] \in Int
  OBVIOUS
<1>5. Total(amounts) \in Int /\ Total(longer) = Total(amounts) + value[e]
  BY <1>2, <1>3, <1>4, TotalOfMore
<1> QED BY <1>5 DEF Tally, amounts, more

\* Entries without a value add nothing.
LEMMA TallyOfZeros ==
  ASSUME NEW S, NEW log \in Seq(S), NEW value \in [S -> Int],
         \A i \in DOMAIN log : value[log[i]] = 0
  PROVE  Tally(log, value) = 0
<1> DEFINE amounts == [i \in DOMAIN log |-> value[log[i]]]
<1>1. amounts \in [1..Len(log) -> Int] /\ DOMAIN log = 1..Len(log) /\ Len(log) \in Nat
  OBVIOUS
<1>2. \A i \in DOMAIN log : amounts[i] = 0
  OBVIOUS
<1> HIDE DEF amounts
<1>3. amounts \in Seq(Int) /\ \A i \in DOMAIN amounts : amounts[i] = 0
  BY <1>1, <1>2, IsSequence
<1>4. Total(amounts) = 0
  BY <1>3, TotalOfZeros
<1> QED BY <1>4 DEF Tally, amounts

\* What never decreases from one place to the next never decreases.
LEMMA NeverDecreases ==
  ASSUME NEW n \in Nat, NEW f \in [1..n -> Int], \A i \in 1..n - 1 : f[i] <= f[i + 1],
         NEW i \in 1..n, NEW j \in 1..n, i <= j
  PROVE  f[i] <= f[j]
<1> DEFINE S == {d \in Nat : i + d <= n => f[i] <= f[i + d]}
<1>1. 0 \in S
  OBVIOUS
<1>2. ASSUME NEW d \in S PROVE d + 1 \in S
  <2>1. SUFFICES ASSUME i + d + 1 <= n PROVE f[i] <= f[i + d + 1]
    OBVIOUS
  <2>2. i + d \in 1..n - 1 /\ i + d + 1 \in 1..n
    BY <2>1
  <2>3. PICK a \in Int : a = f[i]
    OBVIOUS
  <2>4. PICK b \in Int : b = f[i + d]
    BY <2>2
  <2>5. PICK c \in Int : c = f[i + d + 1]
    BY <2>2
  <2>6. a <= b /\ b <= c
    BY <2>2, <2>3, <2>4, <2>5
  <2> QED BY <2>3, <2>5, <2>6
<1>3. S = Nat
  <2> HIDE DEF S
  <2>1. S \in SUBSET Nat BY DEF S
  <2> QED BY <1>1, <1>2, <2>1, SetInduction
<1>4. PICK d \in Nat : i + d = j
  <2>1. j - i \in Nat /\ i + (j - i) = j
    OBVIOUS
  <2> QED BY <2>1
<1>5. d \in S
  <2> HIDE DEF S
  <2> QED BY <1>3
<1>6. i + d <= n
  BY <1>4
<1>7. f[i] <= f[i + d]
  BY <1>5, <1>6
<1> QED BY <1>4, <1>7, Zenon
=============================================================================
