-------------------------- MODULE FeedClockProofs --------------------------
(***************************************************************************)
(* The guards against acting twice on a bar, for every pair of feeds:      *)
(* OncePerPrimaryBar, WindowIsClosed, and OrdersFillLater of the realistic *)
(* broker, from the inductive invariant Clock.                             *)
(***************************************************************************)
EXTENDS FeedClock, Induction, SequenceTheorems, FiniteSetTheorems

(* ---- Rising feeds ----------------------------------------------------- *)

\* In a rising feed any later bar has a later time, not only the next one.
LEMMA RisingThroughout ==
  ASSUME NEW feed \in Seq(Nat), Rising(feed),
         NEW i \in 1..Len(feed), NEW j \in 1..Len(feed), i < j
  PROVE  feed[i] < feed[j]
<1> DEFINE S == {d \in Nat : i + d + 1 <= Len(feed) => feed[i] < feed[i + d + 1]}
<1>1. 0 \in S
  BY DEF Rising
<1>2. ASSUME NEW d \in S PROVE d + 1 \in S
  <2>1. SUFFICES ASSUME i + d + 2 <= Len(feed) PROVE feed[i] < feed[i + d + 2]
    OBVIOUS
  <2>2. feed[i] < feed[i + d + 1]
    BY <2>1
  <2>3. i + d + 1 \in 1..Len(feed) - 1 /\ (i + d + 1) + 1 = i + d + 2
    BY <2>1
  <2>4. feed[i + d + 1] < feed[i + d + 2]
    BY <2>3 DEF Rising
  <2>5. /\ i \in 1..Len(feed) /\ i + d + 1 \in 1..Len(feed)
        /\ i + d + 2 \in 1..Len(feed)
    BY <2>1
  <2>6. PICK a \in Nat : a = feed[i]
    BY <2>5
  <2>7. PICK b \in Nat : b = feed[i + d + 1]
    BY <2>5
  <2>8. PICK c \in Nat : c = feed[i + d + 2]
    BY <2>5
  <2>9. a < b /\ b < c
    BY <2>2, <2>4, <2>6, <2>7, <2>8
  <2>10. a < c
    BY <2>9
  <2> QED BY <2>6, <2>8, <2>10
<1>3. S = Nat
  <2> HIDE DEF S
  <2>1. S \in SUBSET Nat
    BY DEF S
  <2> QED BY <1>1, <1>2, <2>1, SetInduction
<1>4. PICK d \in Nat : i + d + 1 = j
  <2>1. j - i - 1 \in Nat /\ i + (j - i - 1) + 1 = j
    OBVIOUS
  <2> QED BY <2>1
<1>5. d \in S
  BY <1>3
<1> QED BY <1>4, <1>5

\* What is left of a feed (Before) is a feed, and rises if the feed does.
LEMMA BeforeRises ==
  ASSUME NEW feed \in Seq(Nat), NEW end
  PROVE  /\ Before(feed, end) \in Seq(Nat)
         /\ Rising(feed) => Rising(Before(feed, end))
<1> DEFINE inside == {i \in DOMAIN feed : feed[i] < end}
           n == Cardinality(inside)
<1>1. n \in Nat /\ n <= Len(feed)
  <2>1. IsFiniteSet(1..Len(feed)) /\ Cardinality(1..Len(feed)) = Len(feed)
    <3>1. Len(feed) \in Nat
      OBVIOUS
    <3>2. /\ IsFiniteSet(1..Len(feed))
          /\ Cardinality(1..Len(feed)) = IF 1 > Len(feed) THEN 0 ELSE Len(feed) - 1 + 1
      BY <3>1, FS_Interval
    <3> QED BY <3>1, <3>2
  <2>2. inside \in SUBSET (1..Len(feed))
    OBVIOUS
  <2> HIDE DEF inside
  <2>3. IsFiniteSet(inside) /\ n <= Len(feed)
    BY <2>1, <2>2, FS_Subset
  <2> QED BY <2>3, FS_CardinalityType
<1> HIDE DEF n
<1>2. Before(feed, end) = SubSeq(feed, 1, n)
  BY DEF Before, n
<1>3. /\ SubSeq(feed, 1, n) \in Seq(Nat) /\ Len(SubSeq(feed, 1, n)) = n
      /\ \A i \in 1..n : SubSeq(feed, 1, n)[i] = feed[i]
  BY <1>1
<1>4. ASSUME Rising(feed), NEW i \in 1..n - 1
      PROVE  SubSeq(feed, 1, n)[i] < SubSeq(feed, 1, n)[i + 1]
  BY <1>1, <1>3, <1>4 DEF Rising
<1> QED BY <1>2, <1>3, <1>4 DEF Rising

(* ---- Logs ------------------------------------------------------------- *)

\* A later bar at the end of a log.
LEMMA ListsOneMore ==
  ASSUME NEW log \in Seq(Nat), NEW due \in SUBSET Nat, NEW b \in Nat,
         Lists(log, due), \A c \in due : c < b
  PROVE  Lists(Append(log, b), due \cup {b})
<1> DEFINE more == Append(log, b)
           n == Len(log) + 1
<1>1. /\ Len(log) \in Nat /\ DOMAIN log = 1..Len(log) /\ DOMAIN more = 1..n
      /\ more[n] = b /\ \A i \in 1..Len(log) : more[i] = log[i]
  OBVIOUS
<1> HIDE DEF more
<1>2. \A i \in 1..n : more[i] \in due \cup {b}
  <2> TAKE i \in 1..n
  <2>1. i = n \/ i \in 1..Len(log)
    BY <1>1
  <2>2. \A k \in 1..Len(log) : log[k] \in due
    BY <1>1, Zenon DEF Lists
  <2>3. i \in 1..Len(log) => more[i] \in due
    BY <1>1, <2>2, Zenon
  <2> QED BY <1>1, <2>1, <2>3, Zenon
<1>3. \A c \in due \cup {b} : \E i \in 1..n : more[i] = c
  BY <1>1 DEF Lists
<1>4. ASSUME NEW i \in 1..n, NEW j \in 1..n, i < j
      PROVE  more[i] < more[j]
  <2>1. CASE j = n
    <3>1. i \in 1..Len(log) /\ more[i] = log[i]
      BY <1>1, <1>4, <2>1
    <3> QED BY <1>1, <2>1, <3>1 DEF Lists
  <2>2. CASE j # n
    <3>1. i \in 1..Len(log) /\ j \in 1..Len(log)
      <4>1. Len(log) \in Nat
        BY <1>1
      <4> QED BY <1>4, <2>2, <4>1
    <3>2. more[i] = log[i] /\ more[j] = log[j]
      BY <1>1, <3>1
    <3>3. log[i] < log[j]
      BY <1>1, <1>4, <3>1 DEF Lists
    <3> QED BY <3>2, <3>3, Zenon
  <2> QED BY <2>1, <2>2
<1> QED BY <1>1, <1>2, <1>3, <1>4 DEF Lists, more

\* Decisions and points of the curve, as logs of bars.
LEMMA BarsOfOneMore ==
  ASSUME NEW S, \A e \in S : e.bar \in Nat, NEW log \in Seq(S), NEW e \in S
  PROVE  /\ BarsOf(log) \in Seq(Nat)
         /\ BarsOf(Append(log, e)) = Append(BarsOf(log), e.bar)
<1>1. /\ Len(log) \in Nat /\ DOMAIN log = 1..Len(log)
      /\ \A i \in 1..Len(log) : log[i] \in S
  OBVIOUS
<1>2. BarsOf(log) \in [1..Len(log) -> Nat]
  BY <1>1 DEF BarsOf
<1>3. BarsOf(log) \in Seq(Nat) /\ Len(BarsOf(log)) = Len(log)
  BY <1>1, <1>2, IsSequence
<1>4. PICK bars \in Seq(Nat) : bars = BarsOf(log) /\ Len(bars) = Len(log)
  BY <1>3
<1>5. \A i \in 1..Len(log) : bars[i] = log[i].bar
  BY <1>1, <1>4 DEF BarsOf
<1>6. PICK more \in Seq(S) : /\ more = Append(log, e) /\ Len(more) = Len(log) + 1
                             /\ more[Len(log) + 1] = e
                             /\ \A i \in 1..Len(log) : more[i] = log[i]
  <2>1. /\ Append(log, e) \in Seq(S) /\ Len(Append(log, e)) = Len(log) + 1
        /\ Append(log, e)[Len(log) + 1] = e
        /\ \A i \in 1..Len(log) : Append(log, e)[i] = log[i]
    BY AppendProperties
  <2> QED BY <2>1
<1>7. DOMAIN more = 1..(Len(log) + 1)
  BY <1>6
<1>8. \A i \in 1..(Len(log) + 1) : more[i].bar = Append(bars, e.bar)[i]
  BY <1>1, <1>4, <1>5, <1>6
<1>9. BarsOf(more) = [i \in 1..(Len(log) + 1) |-> more[i].bar]
  BY <1>7 DEF BarsOf
<1>10. Append(bars, e.bar) = [i \in 1..(Len(log) + 1) |-> Append(bars, e.bar)[i]]
  BY <1>4
<1> QED BY <1>3, <1>4, <1>6, <1>8, <1>9, <1>10

(* ---- The inductive invariant ------------------------------------------ *)

\* The feeds rise, and their bars are delivered in the order of time.  A decision
\* still to be made on a bar is made when no later bar has been delivered.
InStep ==
  /\ Rising(primary) /\ Rising(higher)
  /\ phase = "prepare" => p = 0 /\ h = 0
  /\ \A i \in 1..h, j \in (p + 1)..Len(primary) : higher[i] < primary[j]
  /\ \A i \in 1..p, j \in (h + 1)..Len(higher) : primary[i] < higher[j]
  /\ phase \in {"broker", "strategy"} /\ lastDecisionBar # p =>
       \A i \in 1..h : higher[i] <= primary[p]

\* Each of the three who act once on a bar has done so on every bar that is due,
\* but for the current one while its turn on it is still to come: the guard of each
\* tells the one case from the other.  The strategy ...
Decided ==
  /\ phase = "broker" => ~ddLimitHit
  /\ \/ /\ lastDecisionBar = p
        /\ \/ Lists(BarsOf(decisions), Due)
           \/ ddLimitHit /\ Lists(BarsOf(decisions), Due \ {p})
     \/ /\ phase \in {"broker", "strategy"} /\ lastDecisionBar # p
        /\ Lists(BarsOf(decisions), Due \ {p})

\* ... the analyzer ...
Sampled ==
  \/ Lists(BarsOf(equity), Due) /\ (p \in Due => lastPrimaryBar = p)
  \/ /\ phase \in {"broker", "strategy", "analyzers"} /\ lastPrimaryBar # p
     /\ Lists(BarsOf(equity), Due \ {p})

\* ... and the realistic broker, which goes by the time of the bar.
Matched ==
  \/ lane # "realistic"
  \/ Lists(matched, Due) /\ lastPrimaryTimestamp = IF p = 0 THEN -1 ELSE primary[p]
  \/ /\ phase = "broker" /\ p # 0 /\ lastDecisionBar # p
     /\ lastPrimaryTimestamp # primary[p] /\ Lists(matched, Due \ {p})

\* A resting order is at most as old as the last decision.
Resting == order.bar <= lastDecisionBar

RealisticFillsLater == lane = "realistic" => OrdersFillLater

Clock == TypeOK /\ InStep /\ Decided /\ Sampled /\ Matched /\ Resting
         /\ RealisticFillsLater /\ WindowIsClosed

(* ---- Types ------------------------------------------------------------ *)

\* The moment the clock goes to, and which feeds go with it.
LEMMA AdvanceDelivers ==
  ASSUME TypeOK, Advance
  PROVE  \E now \in Nat :
           /\ p + 1 <= Len(primary) => now <= primary[p + 1]
           /\ h + 1 <= Len(higher) => now <= higher[h + 1]
           /\ \/ p' = p + 1 /\ p + 1 <= Len(primary) /\ primary[p + 1] = now
              \/ p' = p /\ (p + 1 <= Len(primary) => now < primary[p + 1])
           /\ \/ h' = h + 1 /\ h + 1 <= Len(higher) /\ higher[h + 1] = now
              \/ h' = h /\ (h + 1 <= Len(higher) => now < higher[h + 1])
<1>1. /\ primary \in Seq(Nat) /\ higher \in Seq(Nat) /\ p \in Nat /\ h \in Nat
      /\ DOMAIN primary = 1..Len(primary) /\ DOMAIN higher = 1..Len(higher)
      /\ Len(primary) \in Nat /\ Len(higher) \in Nat
  BY DEF TypeOK
<1>2. /\ p + 1 <= Len(primary) => p + 1 \in DOMAIN primary /\ primary[p + 1] \in Nat
      /\ h + 1 <= Len(higher) => h + 1 \in DOMAIN higher /\ higher[h + 1] \in Nat
      /\ p + 1 \in DOMAIN primary => p + 1 <= Len(primary)
      /\ h + 1 \in DOMAIN higher => h + 1 <= Len(higher)
  BY <1>1
<1>3. /\ Upcoming # {} /\ p' = Delivered(primary, p, Min(Upcoming))
      /\ h' = Delivered(higher, h, Min(Upcoming))
  BY DEF Advance, Ended
<1>4. Upcoming \in SUBSET Nat
  BY <1>1, <1>2 DEF Upcoming
<1>5. PICK now \in Upcoming : \A t \in Upcoming : now <= t
  BY <1>3, <1>4, SmallestElement
<1>6. Min(Upcoming) \in Upcoming /\ \A t \in Upcoming : Min(Upcoming) <= t
  BY <1>5 DEF Min
<1>7. /\ p + 1 <= Len(primary) => primary[p + 1] \in Upcoming
      /\ h + 1 <= Len(higher) => higher[h + 1] \in Upcoming
  BY <1>2 DEF Upcoming
<1> DEFINE m == Min(Upcoming)
<1>8. m \in Nat /\ p' = Delivered(primary, p, m) /\ h' = Delivered(higher, h, m)
      /\ (p + 1 <= Len(primary) => m <= primary[p + 1])
      /\ (h + 1 <= Len(higher) => m <= higher[h + 1])
  BY <1>3, <1>4, <1>6, <1>7
<1> HIDE DEF m
<1>9. \/ p' = p + 1 /\ p + 1 <= Len(primary) /\ primary[p + 1] = m
      \/ p' = p /\ (p + 1 <= Len(primary) => m < primary[p + 1])
  BY <1>2, <1>8 DEF Delivered
<1>10. \/ h' = h + 1 /\ h + 1 <= Len(higher) /\ higher[h + 1] = m
       \/ h' = h /\ (h + 1 <= Len(higher) => m < higher[h + 1])
  BY <1>2, <1>8 DEF Delivered
<1> QED BY <1>8, <1>9, <1>10

\* The bars skipped are the fewest that leave a closed one at the end, if there is one.
LEMMA SkipIsLeast ==
  ASSUME TypeOK, p # 0
  PROVE  /\ Skip \in 0..h
         /\ Skip = h \/ higher[h - Skip] + HigherStep <= primary[p] + Step
         /\ \A k \in 0..h : k < Skip => ~(higher[h - k] + HigherStep <= primary[p] + Step)
<1> DEFINE K == {k \in 0..h : k = h \/ higher[h - k] + HigherStep <= primary[p] + Step}
<1>1. h \in Nat /\ K \in SUBSET Nat /\ h \in K
  BY DEF TypeOK
<1>2. \E k \in K : \A n \in K : k <= n
  <2> HIDE DEF K
  <2> QED BY <1>1, SmallestElement
<1>3. Min(K) \in K /\ \A n \in K : Min(K) <= n
  BY <1>2 DEF Min
<1>4. PICK skip \in K : skip = Min(K) /\ \A n \in K : skip <= n
  BY <1>3
<1>5. Skip = skip
  BY <1>4 DEF Skip
<1>6. \A k \in 0..h : k < skip => ~(higher[h - k] + HigherStep <= primary[p] + Step)
  <2> TAKE k \in 0..h
  <2>1. k \in K => skip <= k
    BY <1>4
  <2>2. higher[h - k] + HigherStep <= primary[p] + Step => k \in K
    OBVIOUS
  <2>3. skip \in Nat
    BY <1>1
  <2> QED BY <2>1, <2>2, <2>3
<1> QED BY <1>4, <1>5, <1>6

\* The bars left are the most whose first one opens inside the window.
LEMMA TrimmedIsGreatest ==
  ASSUME TypeOK, p # 0, contract # NoContract, NEW shown \in Nat, NEW skip \in Nat
  PROVE  LET start == primary[p - Smaller(HistoryBars, p) + 1]
             m == Trimmed(shown, skip)
         IN /\ m \in 0..shown
            /\ m = 0 \/ higher[h - (skip + m - 1)] >= start
            /\ \A n \in 0..shown : higher[h - (skip + n - 1)] >= start => n <= m
<1> DEFINE start == primary[p - Smaller(HistoryBars, p) + 1]
           M == {m \in 0..shown : m = 0 \/ higher[h - (skip + m - 1)] >= start}
<1>1. M \in SUBSET (0..shown) /\ 0 \in M
  OBVIOUS
<1>2. \E m \in M : \A n \in M : n <= m
  <2> HIDE DEF M
  <2> QED BY <1>1, GreatestElement
<1>3. Max(M) \in M /\ \A n \in M : n <= Max(M)
  BY <1>2 DEF Max
<1>4. PICK m \in M : m = Max(M) /\ \A n \in M : n <= m
  BY <1>3
<1>5. Trimmed(shown, skip) = m
  BY <1>4 DEF Trimmed
<1>6. \A n \in 0..shown : higher[h - (skip + n - 1)] >= start => n <= m
  BY <1>4
<1> QED BY <1>4, <1>5, <1>6

\* What is left is no more than what there was.
LEMMA TrimmedType ==
  ASSUME TypeOK, p # 0, NEW shown \in Nat, NEW skip \in Nat
  PROVE  Trimmed(shown, skip) \in 0..shown
<1>1. CASE contract = NoContract
  BY <1>1 DEF Trimmed
<1>2. CASE contract # NoContract
  BY <1>2, TrimmedIsGreatest
<1> QED BY <1>1, <1>2

\* A window is a pair of positions, or none.
LEMMA WindowType ==
  ASSUME TypeOK, p # 0
  PROVE  Window \in Seq(Int)
<1>1. h \in Nat /\ Skip \in 0..h
  BY SkipIsLeast DEF TypeOK
<1>2. PICK skip \in 0..h : skip = Skip
  BY <1>1
<1>3. Smaller(HistoryBars, h - skip) \in Nat
  BY <1>1, ClockAssumption DEF Smaller
<1>4. PICK m \in Int : m = Trimmed(Smaller(HistoryBars, h - skip), skip)
  BY <1>1, <1>3, TrimmedType
<1>5. Window = NoWindow \/ Window = <<h - skip - m + 1, h - skip>>
  BY <1>2, <1>4 DEF Window
<1>6. h - skip - m + 1 \in Int /\ h - skip \in Int
  BY <1>1
<1>7. <<h - skip - m + 1, h - skip>> \in Seq(Int) /\ NoWindow \in Seq(Int)
  BY <1>6 DEF NoWindow
<1> QED BY <1>5, <1>7, Zenon

\* The end of the data changes the last value of the curve only.
LEMMA StopKeepsBars ==
  ASSUME TypeOK, Stop
  PROVE  equity' \in Seq(Points) /\ BarsOf(equity') = BarsOf(equity)
<1>1. PICK v \in Values : v = value'
  BY DEF Stop, TypeOK
<1>2. PICK curve : curve = equity
  OBVIOUS
<1>3. /\ curve \in Seq(Points) /\ Len(curve) \in Nat /\ DOMAIN curve = 1..Len(curve)
      /\ \A i \in 1..Len(curve) : curve[i] \in Points
  BY <1>2 DEF TypeOK
<1>4. CASE curve = <<>>
  BY <1>2, <1>3, <1>4 DEF Stop
<1>5. CASE curve # <<>>
  <2> DEFINE last == [curve[Len(curve)] EXCEPT !.value = v]
             closed == [curve EXCEPT ![Len(curve)] = last]
  <2>1. Len(curve) \in 1..Len(curve)
    BY <1>3, <1>5
  <2>2. last \in Points /\ last.bar = curve[Len(curve)].bar
    BY <1>3, <2>1 DEF Points
  <2>3. equity' = closed
    BY <1>1, <1>2, <1>5 DEF Stop
  <2> HIDE DEF last
  <2>4. closed \in Seq(Points) /\ DOMAIN closed = DOMAIN curve
    <3>1. closed \in [1..Len(curve) -> Points] /\ DOMAIN closed = 1..Len(curve)
      BY <1>3, <2>2
    <3> HIDE DEF closed
    <3> QED BY <1>3, <3>1, IsSequence
  <2>5. \A i \in DOMAIN curve : closed[i].bar = curve[i].bar
    BY <1>3, <2>2
  <2> HIDE DEF closed
  <2>6. BarsOf(closed) = BarsOf(curve)
    BY <2>4, <2>5 DEF BarsOf
  <2> QED BY <1>2, <2>3, <2>4, <2>6
<1> QED BY <1>4, <1>5

\* Every variable keeps its type.
LEMMA TypesKept == TypeOK /\ InStep /\ [Next]_vars => TypeOK'
<1> SUFFICES ASSUME TypeOK, InStep, [Next]_vars PROVE TypeOK'
  OBVIOUS
<1>1. CASE Prepare
  <2>1. /\ Before(primary, contract.end) \in Seq(Nat) /\ Before(higher, contract.end) \in Seq(Nat)
        /\ Consumed(primary) \in Seq(Nat) /\ Consumed(higher) \in Seq(Nat)
    BY BeforeRises DEF TypeOK, Consumed
  <2>2. Before(Consumed(higher), Last(Consumed(primary)) + 1) \in Seq(Nat)
    BY <2>1, BeforeRises
  <2>3. primary' \in Seq(Nat) /\ higher' \in Seq(Nat) /\ phase' \in {"refused", "clock"}
    BY <1>1, <2>1, <2>2 DEF Prepare, TypeOK
  <2>4. p' \in 0..Len(primary') /\ h' \in 0..Len(higher')
    BY <1>1, <2>3 DEF Prepare, InStep
  <2> QED BY <1>1, <2>3, <2>4 DEF Prepare, TypeOK, books, guards
<1>2. CASE Advance
  <2>1. p' \in 0..Len(primary) /\ h' \in 0..Len(higher) /\ p <= p'
    <3>1. PICK now \in Nat : /\ p' = p \/ (p' = p + 1 /\ p + 1 <= Len(primary))
                             /\ h' = h \/ (h' = h + 1 /\ h + 1 <= Len(higher))
      BY <1>2, AdvanceDelivers
    <3>2. p \in 0..Len(primary) /\ h \in 0..Len(higher)
      BY DEF TypeOK
    <3>3. PICK m \in Nat, n \in Nat : m = Len(primary) /\ n = Len(higher)
      BY DEF TypeOK
    <3> QED BY <3>1, <3>2, <3>3
  <2>2. low' \in Levels
    BY <1>2 DEF Advance, TypeOK
  <2>3. lastDecisionBar \in 0..p' /\ lastPrimaryBar \in 0..p'
    BY <2>1 DEF TypeOK
  <2> QED BY <1>2, <2>1, <2>2, <2>3 DEF Advance, TypeOK, inputs, books, guards
<1>3. CASE BrokerNext
  <2>1. lastPrimaryTimestamp' \in Nat \cup {-1}
    <3>1. p # 0 => primary[p] \in Nat
      BY DEF TypeOK
    <3> QED BY <1>3, <3>1 DEF BrokerNext, FixedNext, RealisticNext, TypeOK
  <2>2. (Match \/ UNCHANGED <<matched, fills, order>>)
    BY <1>3 DEF BrokerNext, FixedNext, RealisticNext
  <2>3. /\ matched' \in Seq(Nat) /\ fills' \in Seq([decided : Nat, bar : Nat])
        /\ order' \in {NoOrder} \cup [bar : Nat \ {0}, type : {"market", "limit"}, level : Levels \cup {0}]
    <3>1. p \in Nat /\ order.bar \in Nat
      BY DEF TypeOK, NoOrder
    <3>2. [decided |-> order.bar, bar |-> p] \in [decided : Nat, bar : Nat]
      BY <3>1
    <3>3. matched \in Seq(Nat) /\ fills \in Seq([decided : Nat, bar : Nat])
      BY DEF TypeOK
    <3>4. matched' = matched \/ matched' = Append(matched, p)
      BY <2>2 DEF Match
    <3>5. fills' = fills \/ fills' = Append(fills, [decided |-> order.bar, bar |-> p])
      BY <2>2 DEF Match
    <3>6. order' = order \/ order' = NoOrder
      BY <2>2 DEF Match
    <3>7. matched' \in Seq(Nat)
      <4>1. Append(matched, p) \in Seq(Nat)
        BY <3>1, <3>3
      <4> QED BY <3>3, <3>4, <4>1, Zenon
    <3>8. fills' \in Seq([decided : Nat, bar : Nat])
      <4> DEFINE Fills == [decided : Nat, bar : Nat]
                 e == [decided |-> order.bar, bar |-> p]
      <4>1. fills \in Seq(Fills) /\ e \in Fills /\ (fills' = fills \/ fills' = Append(fills, e))
        BY <3>2, <3>3, <3>5
      <4> HIDE DEF Fills, e
      <4>2. fills' \in Seq(Fills)
        BY <4>1
      <4> QED BY <4>2 DEF Fills
    <3> QED BY <3>6, <3>7, <3>8 DEF TypeOK
  <2>4. value' \in Values /\ ddLimitHit' \in BOOLEAN
    BY <1>3 DEF BrokerNext, TypeOK
  <2> QED BY <1>3, <2>1, <2>3, <2>4 DEF BrokerNext, TypeOK, inputs
<1>4. CASE Decide
  <2>1. lastDecisionBar' \in 0..p
    BY <1>4 DEF Decide, TypeOK
  <2>2. decisions' \in Seq([bar : Nat, window : Seq(Int)])
    <3>1. p # 0 => [bar |-> p, window |-> Window] \in [bar : Nat, window : Seq(Int)]
      BY WindowType DEF TypeOK
    <3>2. decisions \in Seq([bar : Nat, window : Seq(Int)])
      BY DEF TypeOK
    <3>3. decisions' = decisions \/ (p # 0 /\ decisions' = Append(decisions, [bar |-> p, window |-> Window]))
      BY <1>4 DEF Decide
    <3> DEFINE Made == [bar : Nat, window : Seq(Int)]
               e == [bar |-> p, window |-> Window]
    <3>4. /\ decisions \in Seq(Made)
          /\ p # 0 => e \in Made
          /\ decisions' = decisions \/ (p # 0 /\ decisions' = Append(decisions, e))
      BY <3>1, <3>2, <3>3
    <3> HIDE DEF Made, e
    <3>5. decisions' \in Seq(Made)
      BY <3>4
    <3> QED BY <3>5 DEF Made
  <2>3. order' \in {NoOrder} \cup [bar : Nat \ {0}, type : {"market", "limit"}, level : Levels \cup {0}]
    <3>1. CASE UNCHANGED order
      BY <3>1 DEF TypeOK
    <3>2. CASE p # 0 /\ Place
      <4>1. p \in Nat \ {0}
        BY <3>2 DEF TypeOK
      <4> QED BY <3>2, <4>1 DEF Place, AtMarket, AtPrice, TypeOK
    <3> QED BY <1>4, <3>1, <3>2 DEF Decide
  <2> QED BY <1>4, <2>1, <2>2, <2>3 DEF Decide, TypeOK, inputs
<1>5. CASE Sample
  <2>1. lastPrimaryBar' \in 0..p
    BY <1>5 DEF Sample, TypeOK
  <2>2. equity' \in Seq(Points)
    <3>1. [bar |-> p, value |-> value] \in Points
      BY DEF TypeOK, Points
    <3>2. equity \in Seq(Points)
      BY DEF TypeOK
    <3>3. equity' = equity \/ equity' = Append(equity, [bar |-> p, value |-> value])
      BY <1>5 DEF Sample
    <3> QED BY <3>1, <3>2, <3>3, AppendProperties
  <2> QED BY <1>5, <2>1, <2>2 DEF Sample, TypeOK, inputs, books
<1>6. CASE Stop
  <2>1. value' \in Values
    BY <1>6 DEF Stop, TypeOK
  <2>2. equity' \in Seq(Points)
    BY <1>6, <2>1, StopKeepsBars
  <2>3. order' \in {NoOrder} \cup [bar : Nat \ {0}, type : {"market", "limit"}, level : Levels \cup {0}]
    BY <1>6 DEF Stop, TypeOK
  <2> QED BY <1>6, <2>1, <2>2, <2>3 DEF Stop, TypeOK, inputs, guards
<1>7. CASE Report
  BY <1>7 DEF Report, TypeOK, inputs, books, guards
<1>8. CASE UNCHANGED vars
  BY <1>8 DEF TypeOK, vars, inputs, books, guards
<1> QED BY <1>1, <1>2, <1>3, <1>4, <1>5, <1>6, <1>7, <1>8 DEF Next

(* ---- The feeds -------------------------------------------------------- *)

\* A feed that goes with the clock: what is delivered opens by now, the rest later.
LEMMA OneFeed ==
  ASSUME NEW feed \in Seq(Nat), Rising(feed), NEW n \in 0..Len(feed), NEW now \in Nat, NEW more,
         \/ more = n + 1 /\ n + 1 <= Len(feed) /\ feed[n + 1] = now
         \/ more = n /\ (n + 1 <= Len(feed) => now < feed[n + 1])
  PROVE  /\ more \in 0..Len(feed) /\ n <= more
         /\ \A i \in 1..more : i \in 1..n \/ feed[i] = now
         /\ \A j \in (more + 1)..Len(feed) : j \in (n + 1)..Len(feed) /\ now < feed[j]
<1>1. more \in 0..Len(feed) /\ n <= more
  OBVIOUS
<1>2. \A i \in 1..more : i \in 1..n \/ feed[i] = now
  OBVIOUS
<1>3. ASSUME NEW j \in (more + 1)..Len(feed) PROVE j \in (n + 1)..Len(feed) /\ now < feed[j]
  <2>1. n + 1 \in 1..Len(feed) /\ j \in 1..Len(feed) /\ j \in (n + 1)..Len(feed)
    BY <1>1
  <2>2. PICK next \in Nat : next = feed[n + 1]
    BY <2>1
  <2>3. PICK later \in Nat : later = feed[j]
    BY <2>1
  <2>4. now <= next /\ (more = n => now < next)
    BY <2>1, <2>2
  <2>5. j = n + 1 \/ n + 1 < j
    BY <2>1
  <2>6. CASE j = n + 1
    BY <2>1, <2>2, <2>4, <2>6
  <2>7. CASE n + 1 < j
    <3>1. next < later
      BY <2>1, <2>2, <2>3, <2>7, RisingThroughout
    <3> QED BY <2>1, <2>3, <2>4, <3>1
  <2> QED BY <2>5, <2>6, <2>7
<1> QED BY <1>1, <1>2, <1>3

\* The clock keeps the feeds in step (Advance).
LEMMA AdvanceInStep ==
  ASSUME TypeOK, InStep, lastDecisionBar = p, Advance
  PROVE  InStep'
<1>1. /\ primary \in Seq(Nat) /\ higher \in Seq(Nat) /\ p \in Nat /\ h \in Nat
      /\ Len(primary) \in Nat /\ Len(higher) \in Nat
      /\ p <= Len(primary) /\ h <= Len(higher)
      /\ Rising(primary) /\ Rising(higher)
  BY DEF TypeOK, InStep
<1>2. /\ primary' = primary /\ higher' = higher /\ lastDecisionBar' = lastDecisionBar
      /\ phase' = "broker"
  BY DEF Advance, inputs, guards
<1>3. PICK now \in Nat :
           /\ p + 1 <= Len(primary) => now <= primary[p + 1]
           /\ h + 1 <= Len(higher) => now <= higher[h + 1]
           /\ \/ p' = p + 1 /\ p + 1 <= Len(primary) /\ primary[p + 1] = now
              \/ p' = p /\ (p + 1 <= Len(primary) => now < primary[p + 1])
           /\ \/ h' = h + 1 /\ h + 1 <= Len(higher) /\ higher[h + 1] = now
              \/ h' = h /\ (h + 1 <= Len(higher) => now < higher[h + 1])
  BY AdvanceDelivers
<1>4. /\ p' \in 0..Len(primary) /\ p <= p'
      /\ \A i \in 1..p' : i \in 1..p \/ primary[i] = now
      /\ \A j \in (p' + 1)..Len(primary) : j \in (p + 1)..Len(primary) /\ now < primary[j]
  <2>1. p \in 0..Len(primary)
    BY <1>1
  <2> QED BY <1>1, <1>3, <2>1, OneFeed
<1>5. /\ h' \in 0..Len(higher) /\ h <= h'
      /\ \A i \in 1..h' : i \in 1..h \/ higher[i] = now
      /\ \A j \in (h' + 1)..Len(higher) : j \in (h + 1)..Len(higher) /\ now < higher[j]
  <2>1. h \in 0..Len(higher)
    BY <1>1
  <2> QED BY <1>1, <1>3, <2>1, OneFeed
<1>6. ASSUME NEW i \in 1..h', NEW j \in (p' + 1)..Len(primary)
      PROVE  higher[i] < primary[j]
  BY <1>4, <1>5, Zenon DEF InStep
<1>7. ASSUME NEW i \in 1..p', NEW j \in (h' + 1)..Len(higher)
      PROVE  primary[i] < higher[j]
  BY <1>4, <1>5, Zenon DEF InStep
<1>8. ASSUME p' # p, NEW i \in 1..h'
      PROVE  higher[i] <= primary[p']
  <2>1. p' = p + 1 /\ p + 1 \in (p + 1)..Len(primary) /\ primary[p'] = now
    BY <1>1, <1>3, <1>8
  <2>2. i \in 1..h => higher[i] < primary[p']
    BY <2>1, Zenon DEF InStep
  <2>3. i \in 1..Len(higher)
    BY <1>1, <1>5
  <2>4. PICK t \in Nat : t = higher[i]
    BY <1>1, <2>3
  <2>5. t < now \/ t = now
    BY <1>5, <2>1, <2>2, <2>4
  <2> QED BY <2>1, <2>4, <2>5
<1> QED BY <1>1, <1>2, <1>6, <1>7, <1>8 DEF InStep

\* The feeds are kept in step.
LEMMA InStepKept == TypeOK /\ InStep /\ Decided /\ [Next]_vars => InStep'
<1> SUFFICES ASSUME TypeOK, InStep, Decided, [Next]_vars PROVE InStep'
  OBVIOUS
<1>1. CASE Prepare
  <2>1. Rising(Consumed(primary)) /\ Consumed(primary) \in Seq(Nat)
    BY BeforeRises DEF Consumed, TypeOK, InStep
  <2>2. Rising(Consumed(higher)) /\ Consumed(higher) \in Seq(Nat)
    BY BeforeRises DEF Consumed, TypeOK, InStep
  <2>3. Rising(Before(Consumed(higher), Last(Consumed(primary)) + 1))
    BY <2>2, BeforeRises
  <2>4. Rising(primary') /\ Rising(higher')
    BY <1>1, <2>1, <2>3 DEF Prepare, InStep
  <2>5. p' = 0 /\ h' = 0 /\ phase' \in {"refused", "clock"}
    BY <1>1 DEF Prepare, InStep
  <2> QED BY <2>4, <2>5 DEF InStep
<1>2. CASE Advance
  <2>1. lastDecisionBar = p
    BY <1>2 DEF Advance, Decided
  <2> QED BY <1>2, <2>1, AdvanceInStep
<1>3. CASE BrokerNext
  BY <1>3 DEF BrokerNext, InStep, inputs
<1>4. CASE Decide
  BY <1>4 DEF Decide, InStep, inputs
<1>5. CASE Sample
  BY <1>5 DEF Sample, InStep, inputs
<1>6. CASE Stop
  BY <1>6 DEF Stop, InStep, inputs
<1>7. CASE Report
  BY <1>7 DEF Report, InStep, inputs
<1>8. CASE UNCHANGED vars
  BY <1>8 DEF InStep, vars, inputs, guards
<1> QED BY <1>1, <1>2, <1>3, <1>4, <1>5, <1>6, <1>7, <1>8 DEF Next

(* ---- Once per bar ----------------------------------------------------- *)

\* What is due after the clock went on: the new bar, if there is one and it counts.
LEMMA DueAdvances ==
  ASSUME TypeOK, Advance
  PROVE  /\ p' = p \/ p' = p + 1
         /\ p' = p => Due' = Due
         /\ p' # p => Due' \ {p'} = Due
<1>1. p \in Nat /\ primary' = primary /\ contract' = contract
  BY DEF TypeOK, Advance, inputs
<1>2. p' = p \/ p' = p + 1
  BY AdvanceDelivers
<1>3. Due' = {b \in 1..p' : Evaluates(primary[b])}
  BY <1>1 DEF Due, Evaluates
<1> QED BY <1>1, <1>2, <1>3 DEF Due

\* ... and where the clock stands still.
LEMMA DueStays ==
  ASSUME p' = p, primary' = primary, contract' = contract
  PROVE  Due' = Due
BY DEF Due, Evaluates

\* Every bar due but the current one is before it; acting on it leaves none out.
LEMMA CatchingUp ==
  ASSUME TypeOK, NEW log \in Seq(Nat), Lists(log, Due \ {p}), p \in Due
  PROVE  Lists(Append(log, p), Due)
<1>1. Due \in SUBSET (1..p) /\ p \in Nat
  BY DEF Due, TypeOK
<1>2. Due \ {p} \in SUBSET Nat /\ (Due \ {p}) \cup {p} = Due /\ \A c \in Due \ {p} : c < p
  BY <1>1
<1>3. PICK earlier \in SUBSET Nat : earlier = Due \ {p}
  BY <1>2
<1>4. Lists(Append(log, p), earlier \cup {p})
  BY <1>1, <1>2, <1>3, ListsOneMore
<1> QED BY <1>2, <1>3, <1>4

\* Decisions and points are logs of bars.
LEMMA LogTypes ==
  ASSUME TypeOK
  PROVE  /\ BarsOf(decisions) \in Seq(Nat) /\ BarsOf(equity) \in Seq(Nat)
         /\ p # 0 => BarsOf(Append(decisions, [bar |-> p, window |-> Window]))
                       = Append(BarsOf(decisions), p)
         /\ BarsOf(Append(equity, [bar |-> p, value |-> value])) = Append(BarsOf(equity), p)
<1> DEFINE Made == [bar : Nat, window : Seq(Int)]
<1>1. /\ decisions \in Seq(Made) /\ equity \in Seq(Points) /\ p \in Nat
      /\ \A e \in Made : e.bar \in Nat
      /\ \A e \in Points : e.bar \in Nat
  BY DEF TypeOK, Points
<1>2. [bar |-> 0, window |-> <<>>] \in Made
  OBVIOUS
<1>3. /\ [bar |-> p, value |-> value] \in Points
      /\ [bar |-> p, value |-> value].bar = p
  BY <1>1 DEF TypeOK, Points
<1>4. ASSUME p # 0
      PROVE  BarsOf(Append(decisions, [bar |-> p, window |-> Window])) = Append(BarsOf(decisions), p)
  <2>0. Window \in Seq(Int)
    BY <1>4, WindowType
  <2>1. PICK w \in Seq(Int) : w = Window
    BY <2>0
  <2>2. [bar |-> p, window |-> w] \in Made /\ [bar |-> p, window |-> w].bar = p
    BY <1>1
  <2>3. PICK e \in Made : e = [bar |-> p, window |-> Window] /\ e.bar = p
    BY <2>1, <2>2
  <2> HIDE DEF Made
  <2>4. BarsOf(Append(decisions, e)) = Append(BarsOf(decisions), e.bar)
    BY <1>1, BarsOfOneMore
  <2> QED BY <2>3, <2>4
<1> HIDE DEF Made
<1>5. BarsOf(decisions) \in Seq(Nat)
  BY <1>1, <1>2, BarsOfOneMore
<1>6. PICK e \in Points : e = [bar |-> p, value |-> value] /\ e.bar = p
  BY <1>3
<1>7. BarsOf(equity) \in Seq(Nat) /\ BarsOf(Append(equity, e)) = Append(BarsOf(equity), e.bar)
  BY <1>1, BarsOfOneMore
<1> QED BY <1>4, <1>5, <1>6, <1>7

\* The strategy decides once on every bar.
LEMMA DecidedKept == TypeOK /\ InStep /\ Decided /\ [Next]_vars => Decided'
<1> SUFFICES ASSUME TypeOK, InStep, Decided, [Next]_vars PROVE Decided'
  OBVIOUS
<1>0. p \in Nat /\ lastDecisionBar \in 0..p
  BY DEF TypeOK
<1>1. CASE Prepare
  <2>1. /\ p = 0 /\ p' = 0 /\ lastDecisionBar' = lastDecisionBar /\ decisions' = decisions
        /\ ddLimitHit' = ddLimitHit /\ phase' # "broker" /\ phase = "prepare"
    BY <1>1 DEF Prepare, InStep, guards
  <2>2. Due = {} /\ Due' = {}
    BY <2>1 DEF Due
  <2> QED BY <2>1, <2>2 DEF Decided
<1>2. CASE Advance
  <2>1. /\ lastDecisionBar = p /\ ~ddLimitHit /\ Lists(BarsOf(decisions), Due)
        /\ lastDecisionBar' = lastDecisionBar /\ decisions' = decisions
        /\ ddLimitHit' = ddLimitHit /\ phase' = "broker"
    BY <1>2 DEF Advance, Decided, Ended, guards
  <2>2. CASE p' = p
    BY <1>2, <2>1, <2>2, DueAdvances DEF Decided
  <2>3. CASE p' # p
    BY <1>2, <2>1, <2>3, DueAdvances DEF Decided
  <2> QED BY <2>2, <2>3
<1>3. CASE BrokerNext
  <2>1. /\ Due' = Due /\ p' = p /\ lastDecisionBar' = lastDecisionBar /\ decisions' = decisions
        /\ ~ddLimitHit /\ phase' = "strategy" /\ phase = "broker"
    BY <1>3, DueStays DEF BrokerNext, Decided, inputs
  <2> QED BY <2>1 DEF Decided
<1>4. CASE Decide
  <2>1. /\ Due' = Due /\ p' = p /\ phase' = "analyzers" /\ phase = "strategy"
        /\ ddLimitHit' = ddLimitHit
    BY <1>4, DueStays DEF Decide, inputs
  <2>2. CASE p = 0 \/ lastDecisionBar = p
    <3>1. lastDecisionBar' = lastDecisionBar /\ decisions' = decisions /\ lastDecisionBar = p
      BY <1>0, <1>4, <2>2 DEF Decide
    <3> QED BY <2>1, <3>1 DEF Decided
  <2>3. CASE p # 0 /\ lastDecisionBar # p
    <3>1. lastDecisionBar' = p /\ Lists(BarsOf(decisions), Due \ {p})
      BY <1>4, <2>3 DEF Decide, Decided
    <3>2. CASE InEvaluation /\ ~ddLimitHit
      <4>1. p \in Due
        BY <1>0, <2>3, <3>2 DEF Due, InEvaluation
      <4>2. BarsOf(decisions') = Append(BarsOf(decisions), p)
        BY <1>4, <2>3, <3>2, LogTypes DEF Decide
      <4>3. Lists(BarsOf(decisions'), Due)
        BY <3>1, <4>1, <4>2, CatchingUp, LogTypes
      <4>4. BarsOf(decisions)' = BarsOf(decisions')
        BY DEF BarsOf
      <4> QED BY <2>1, <3>1, <4>3, <4>4 DEF Decided
    <3>3. CASE ~(InEvaluation /\ ~ddLimitHit)
      <4>1. decisions' = decisions
        BY <1>4, <2>3, <3>3 DEF Decide
      <4>2. InEvaluation \/ Due \ {p} = Due
        BY DEF Due, InEvaluation
      <4>3. ddLimitHit \/ Lists(BarsOf(decisions), Due)
        BY <3>1, <3>3, <4>2
      <4> QED BY <2>1, <3>1, <4>1, <4>3 DEF Decided
    <3> QED BY <3>2, <3>3
  <2> QED BY <2>2, <2>3
<1>5. CASE Sample
  <2>1. /\ Due' = Due /\ p' = p /\ lastDecisionBar' = lastDecisionBar /\ decisions' = decisions
        /\ ddLimitHit' = ddLimitHit /\ phase' = "clock" /\ phase = "analyzers"
    BY <1>5, DueStays DEF Sample, inputs
  <2> QED BY <2>1 DEF Decided
<1>6. CASE Stop
  <2>1. /\ Due' = Due /\ p' = p /\ lastDecisionBar' = lastDecisionBar /\ decisions' = decisions
        /\ ddLimitHit' = ddLimitHit /\ phase' = "report" /\ phase = "clock"
    BY <1>6, DueStays DEF Stop, inputs, guards
  <2> QED BY <2>1 DEF Decided
<1>7. CASE Report
  <2>1. /\ Due' = Due /\ p' = p /\ lastDecisionBar' = lastDecisionBar /\ decisions' = decisions
        /\ ddLimitHit' = ddLimitHit /\ phase' = "done" /\ phase = "report"
    BY <1>7, DueStays DEF Report, inputs, guards
  <2> QED BY <2>1 DEF Decided
<1>8. CASE UNCHANGED vars
  <2>1. /\ Due' = Due /\ p' = p /\ lastDecisionBar' = lastDecisionBar /\ decisions' = decisions
        /\ ddLimitHit' = ddLimitHit /\ phase' = phase
    BY <1>8, DueStays DEF vars, inputs, guards
  <2> QED BY <2>1 DEF Decided
<1> QED BY <1>1, <1>2, <1>3, <1>4, <1>5, <1>6, <1>7, <1>8 DEF Next

\* The equity curve has one point for every bar.
LEMMA SampledKept == TypeOK /\ InStep /\ Sampled /\ [Next]_vars => Sampled'
<1> SUFFICES ASSUME TypeOK, InStep, Sampled, [Next]_vars PROVE Sampled'
  OBVIOUS
<1>0. p \in Nat /\ lastPrimaryBar \in 0..p
  BY DEF TypeOK
<1>1. CASE Prepare
  <2>1. /\ p = 0 /\ p' = 0 /\ lastPrimaryBar' = lastPrimaryBar /\ equity' = equity
        /\ phase = "prepare"
    BY <1>1 DEF Prepare, InStep, guards
  <2>2. Due = {} /\ Due' = {}
    BY <2>1 DEF Due
  <2> QED BY <2>1, <2>2 DEF Sampled
<1>2. CASE Advance
  <2>1. /\ Lists(BarsOf(equity), Due) /\ (p \in Due => lastPrimaryBar = p)
        /\ lastPrimaryBar' = lastPrimaryBar /\ equity' = equity /\ phase' = "broker"
    BY <1>2 DEF Advance, Sampled, guards
  <2>2. CASE p' = p
    BY <1>2, <2>1, <2>2, DueAdvances DEF Sampled
  <2>3. CASE p' # p
    <3>1. lastPrimaryBar # p'
      BY <1>0, <1>2, <2>3, DueAdvances
    <3> QED BY <1>2, <2>1, <2>3, <3>1, DueAdvances DEF Sampled
  <2> QED BY <2>2, <2>3
<1>3. CASE BrokerNext
  <2>1. /\ Due' = Due /\ p' = p /\ lastPrimaryBar' = lastPrimaryBar /\ equity' = equity
        /\ phase' = "strategy"
    BY <1>3, DueStays DEF BrokerNext, inputs
  <2> QED BY <2>1 DEF Sampled
<1>4. CASE Decide
  <2>1. /\ Due' = Due /\ p' = p /\ lastPrimaryBar' = lastPrimaryBar /\ equity' = equity
        /\ phase' = "analyzers"
    BY <1>4, DueStays DEF Decide, inputs
  <2> QED BY <2>1 DEF Sampled
<1>5. CASE Sample
  <2>1. Due' = Due /\ p' = p
    BY <1>5, DueStays DEF Sample, inputs
  <2>2. CASE p = 0 \/ ~InEvaluation \/ lastPrimaryBar = p
    <3>1. lastPrimaryBar' = lastPrimaryBar /\ equity' = equity
      BY <1>5, <2>2 DEF Sample
    <3>2. p \in Due => lastPrimaryBar = p
      BY <2>2 DEF Due, InEvaluation
    <3>3. p \notin Due => Due \ {p} = Due
      OBVIOUS
    <3> QED BY <2>1, <3>1, <3>2, <3>3 DEF Sampled
  <2>3. CASE ~(p = 0 \/ ~InEvaluation \/ lastPrimaryBar = p)
    <3>1. lastPrimaryBar' = p /\ equity' = Append(equity, [bar |-> p, value |-> value])
      BY <1>5, <2>3 DEF Sample
    <3>2. p \in Due
      BY <1>0, <2>3 DEF Due, InEvaluation
    <3>3. Lists(BarsOf(equity), Due \ {p})
      BY <2>3, <3>2 DEF Sampled
    <3>4. Lists(BarsOf(equity'), Due)
      BY <3>1, <3>2, <3>3, CatchingUp, LogTypes
    <3>5. BarsOf(equity)' = BarsOf(equity')
      BY DEF BarsOf
    <3> QED BY <2>1, <3>1, <3>4, <3>5 DEF Sampled
  <2> QED BY <2>2, <2>3
<1>6. CASE Stop
  <2>1. /\ Due' = Due /\ p' = p /\ lastPrimaryBar' = lastPrimaryBar /\ phase = "clock"
    BY <1>6, DueStays DEF Stop, inputs, guards
  <2>2. BarsOf(equity)' = BarsOf(equity)
    <3>1. BarsOf(equity)' = BarsOf(equity')
      BY DEF BarsOf
    <3> QED BY <1>6, <3>1, StopKeepsBars
  <2> QED BY <2>1, <2>2 DEF Sampled
<1>7. CASE Report
  <2>1. /\ Due' = Due /\ p' = p /\ lastPrimaryBar' = lastPrimaryBar /\ equity' = equity
        /\ phase = "report"
    BY <1>7, DueStays DEF Report, inputs, guards
  <2> QED BY <2>1 DEF Sampled
<1>8. CASE UNCHANGED vars
  <2>1. /\ Due' = Due /\ p' = p /\ lastPrimaryBar' = lastPrimaryBar /\ equity' = equity
        /\ phase' = phase
    BY <1>8, DueStays DEF vars, inputs, guards
  <2> QED BY <2>1 DEF Sampled
<1> QED BY <1>1, <1>2, <1>3, <1>4, <1>5, <1>6, <1>7, <1>8 DEF Next

\* The realistic broker goes over every bar once.
LEMMA MatchedKept == TypeOK /\ InStep /\ Decided /\ Matched /\ [Next]_vars => Matched'
<1> SUFFICES ASSUME TypeOK, InStep, Decided, Matched, [Next]_vars PROVE Matched'
  OBVIOUS
<1>9. lane' = lane
  <2>1. Prepare => lane' = lane
    BY DEF Prepare
  <2>2. Advance \/ BrokerNext => lane' = lane
    BY DEF Advance, BrokerNext, inputs
  <2>3. Decide \/ Sample => lane' = lane
    BY DEF Decide, Sample, inputs
  <2>4. Stop \/ Report \/ UNCHANGED vars => lane' = lane
    BY DEF Stop, Report, vars, inputs
  <2> QED BY <2>1, <2>2, <2>3, <2>4 DEF Next
<1> SUFFICES ASSUME lane = "realistic" PROVE Matched'
  BY <1>9, Zenon DEF Matched
<1>0. p \in Nat /\ matched \in Seq(Nat)
  BY DEF TypeOK
<1>1. CASE Prepare
  <2>1. /\ p = 0 /\ p' = 0 /\ lastPrimaryTimestamp' = lastPrimaryTimestamp /\ matched' = matched
        /\ phase = "prepare"
    BY <1>1 DEF Prepare, InStep, guards, books
  <2>2. Due = {} /\ Due' = {}
    BY <2>1 DEF Due
  <2> QED BY <2>1, <2>2 DEF Matched
<1>2. CASE Advance
  <2>1. /\ Lists(matched, Due) /\ lastPrimaryTimestamp = (IF p = 0 THEN -1 ELSE primary[p])
        /\ lastPrimaryTimestamp' = lastPrimaryTimestamp /\ matched' = matched /\ phase' = "broker"
        /\ primary' = primary /\ lastDecisionBar' = lastDecisionBar /\ lastDecisionBar = p
    BY <1>2 DEF Advance, Matched, Decided, guards, books, inputs
  <2>2. CASE p' = p
    BY <1>2, <2>1, <2>2, DueAdvances DEF Matched
  <2>3. CASE p' # p
    <3>1. p' = p + 1 /\ p + 1 \in 1..Len(primary) /\ primary \in Seq(Nat)
      BY <1>0, <1>2, <2>3, AdvanceDelivers DEF TypeOK
    <3>2. lastPrimaryTimestamp # primary[p + 1]
      <4>1. CASE p = 0
        <5>1. primary[p + 1] \in Nat
          BY <3>1
        <5> QED BY <2>1, <4>1, <5>1
      <4>2. CASE p # 0
        <5>1. p \in 1..Len(primary) - 1
          BY <1>0, <3>1, <4>2
        <5>2. primary[p] < primary[p + 1] /\ primary[p] \in Nat /\ primary[p + 1] \in Nat
          BY <3>1, <5>1 DEF InStep, Rising
        <5> QED BY <2>1, <4>2, <5>2
      <4> QED BY <4>1, <4>2
    <3>3. p' # 0 /\ lastDecisionBar' # p'
      BY <1>0, <2>1, <3>1
    <3>4. Lists(matched, Due' \ {p'})
      BY <1>2, <2>1, <2>3, DueAdvances
    <3> QED BY <2>1, <3>1, <3>2, <3>3, <3>4 DEF Matched
  <2> QED BY <2>2, <2>3
<1>3. CASE BrokerNext
  <2>1. /\ Due' = Due /\ p' = p /\ primary' = primary /\ phase' = "strategy" /\ RealisticNext
    BY <1>3, DueStays DEF BrokerNext, FixedNext, inputs
  <2>2. CASE p = 0 \/ primary[p] = lastPrimaryTimestamp
    <3>1. lastPrimaryTimestamp' = lastPrimaryTimestamp /\ matched' = matched
      BY <2>1, <2>2 DEF RealisticNext
    <3> QED BY <2>1, <2>2, <3>1 DEF Matched
  <2>3. CASE ~(p = 0 \/ primary[p] = lastPrimaryTimestamp)
    <3>1. lastPrimaryTimestamp' = primary[p] /\ Lists(matched, Due \ {p})
      BY <2>1, <2>3 DEF RealisticNext, Matched
    <3>2. CASE Evaluates(primary[p])
      <4>1. p \in Due
        BY <1>0, <2>3, <3>2 DEF Due
      <4>2. matched' = Append(matched, p)
        BY <2>1, <2>3, <3>2 DEF RealisticNext, Match
      <4>3. Lists(matched', Due)
        BY <1>0, <3>1, <4>1, <4>2, CatchingUp
      <4> QED BY <2>1, <2>3, <3>1, <4>3 DEF Matched
    <3>3. CASE ~Evaluates(primary[p])
      <4>1. matched' = matched
        BY <2>1, <2>3, <3>3 DEF RealisticNext
      <4>2. Due \ {p} = Due
        BY <3>3 DEF Due
      <4> QED BY <2>1, <2>3, <3>1, <4>1, <4>2 DEF Matched
    <3> QED BY <3>2, <3>3
  <2> QED BY <2>2, <2>3
<1>4. CASE Decide
  <2>1. /\ Due' = Due /\ p' = p /\ primary' = primary /\ matched' = matched
        /\ lastPrimaryTimestamp' = lastPrimaryTimestamp /\ phase = "strategy"
    BY <1>4, DueStays DEF Decide, inputs
  <2> QED BY <2>1 DEF Matched
<1>5. CASE Sample
  <2>1. /\ Due' = Due /\ p' = p /\ primary' = primary /\ matched' = matched
        /\ lastPrimaryTimestamp' = lastPrimaryTimestamp /\ phase = "analyzers"
    BY <1>5, DueStays DEF Sample, inputs, books
  <2> QED BY <2>1 DEF Matched
<1>6. CASE Stop
  <2>1. /\ Due' = Due /\ p' = p /\ primary' = primary /\ matched' = matched
        /\ lastPrimaryTimestamp' = lastPrimaryTimestamp /\ phase = "clock"
    BY <1>6, DueStays DEF Stop, inputs, guards
  <2> QED BY <2>1 DEF Matched
<1>7. CASE Report
  <2>1. /\ Due' = Due /\ p' = p /\ primary' = primary /\ matched' = matched
        /\ lastPrimaryTimestamp' = lastPrimaryTimestamp /\ phase = "report"
    BY <1>7, DueStays DEF Report, inputs, guards, books
  <2> QED BY <2>1 DEF Matched
<1>8. CASE UNCHANGED vars
  <2>1. /\ Due' = Due /\ p' = p /\ primary' = primary /\ matched' = matched
        /\ lastPrimaryTimestamp' = lastPrimaryTimestamp /\ phase' = phase
        /\ lastDecisionBar' = lastDecisionBar
    BY <1>8, DueStays DEF vars, inputs, guards, books
  <2> QED BY <2>1 DEF Matched
<1> QED BY <1>1, <1>2, <1>3, <1>4, <1>5, <1>6, <1>7, <1>8 DEF Next

\* The realistic broker fills an order on a bar after its decision only.
LEMMA FillsKept ==
  TypeOK /\ Decided /\ Matched /\ Resting /\ RealisticFillsLater /\ [Next]_vars
    => Resting' /\ RealisticFillsLater'
<1> SUFFICES ASSUME TypeOK, Decided, Matched, Resting, RealisticFillsLater, [Next]_vars
             PROVE  Resting' /\ RealisticFillsLater'
  OBVIOUS
<1>0. /\ p \in Nat /\ lastDecisionBar \in 0..p /\ order.bar \in Nat
      /\ fills \in Seq([decided : Nat, bar : Nat])
  BY DEF TypeOK, NoOrder
<1>1. CASE BrokerNext
  <2>1. lane' = lane /\ lastDecisionBar' = lastDecisionBar /\ phase = "broker"
    BY <1>1 DEF BrokerNext, inputs
  <2>2. CASE UNCHANGED <<fills, order>>
    BY <2>1, <2>2 DEF Resting, RealisticFillsLater, OrdersFillLater
  <2>3. CASE fills' # fills \/ order' # order
    <3>1. order' = NoOrder /\ fills' = Append(fills, [decided |-> order.bar, bar |-> p])
      BY <1>1, <2>3 DEF BrokerNext, FixedNext, RealisticNext, Match
    <3>2. Resting'
      BY <1>0, <2>1, <3>1 DEF Resting, NoOrder
    <3>3. CASE lane # "realistic"
      BY <2>1, <3>2, <3>3 DEF RealisticFillsLater
    <3>4. CASE lane = "realistic"
      <4>1. ~(p = 0 \/ primary[p] = lastPrimaryTimestamp)
        BY <1>1, <2>3, <3>4 DEF BrokerNext, FixedNext, RealisticNext
      <4>2. lastDecisionBar # p
        BY <3>4, <4>1 DEF Matched
      <4>3. order.bar < p
        BY <1>0, <4>2 DEF Resting
      <4>4. \A i \in DOMAIN fills : fills[i].bar > fills[i].decided
        BY <3>4 DEF RealisticFillsLater, OrdersFillLater
      <4> DEFINE Fills == [decided : Nat, bar : Nat]
                 e == [decided |-> order.bar, bar |-> p]
      <4>5. e \in Fills /\ e.bar > e.decided /\ fills \in Seq(Fills)
        BY <1>0, <4>3
      <4>6. fills' = Append(fills, e)
        BY <3>1
      <4> HIDE DEF e, Fills
      <4>7. \A i \in DOMAIN fills' : fills'[i] = e \/ (i \in DOMAIN fills /\ fills'[i] = fills[i])
        BY <4>5, <4>6
      <4>8. OrdersFillLater'
        BY <4>4, <4>5, <4>7, Zenon DEF OrdersFillLater
      <4> QED BY <3>2, <4>8 DEF RealisticFillsLater
    <3> QED BY <3>3, <3>4
  <2> QED BY <2>2, <2>3
<1>2. CASE Decide
  <2>1. lane' = lane /\ fills' = fills
    BY <1>2 DEF Decide, inputs
  <2>2. CASE order' = order
    <3>1. lastDecisionBar' \in {lastDecisionBar, p}
      BY <1>2 DEF Decide
    <3> QED BY <1>0, <2>1, <2>2, <3>1 DEF Resting, RealisticFillsLater, OrdersFillLater
  <2>3. CASE order' # order
    <3>1. lastDecisionBar' = p /\ Place
      BY <1>2, <2>3 DEF Decide
    <3>2. order'.bar \in {0, p}
      BY <2>3, <3>1 DEF Place, AtMarket, AtPrice, NoOrder
    <3> QED BY <1>0, <2>1, <3>1, <3>2 DEF Resting, RealisticFillsLater, OrdersFillLater
  <2> QED BY <2>2, <2>3
<1>3. CASE Stop
  <2>1. /\ lane' = lane /\ fills' = fills /\ lastDecisionBar' = lastDecisionBar
        /\ order' \in {order, NoOrder}
    BY <1>3 DEF Stop, inputs, guards
  <2> QED BY <1>0, <2>1 DEF Resting, RealisticFillsLater, OrdersFillLater, NoOrder
<1>4. CASE Prepare \/ Advance \/ Sample \/ Report \/ UNCHANGED vars
  <2>1. /\ lane' = lane /\ fills' = fills /\ lastDecisionBar' = lastDecisionBar
        /\ order' = order
    BY <1>4 DEF Prepare, Advance, Sample, Report, vars, inputs, guards, books
  <2> QED BY <2>1 DEF Resting, RealisticFillsLater, OrdersFillLater
<1> QED BY <1>1, <1>2, <1>3, <1>4 DEF Next

(* ---- The window of the higher timeframe ------------------------------- *)

\* The bars closed at the decision are those delivered but for the ones skipped.
LEMMA ClosedBars ==
  ASSUME TypeOK, InStep, p # 0, phase = "strategy", lastDecisionBar # p
  PROVE  Closed(p) = 1..(h - Skip)
<1>0. Step \in Nat /\ HigherStep \in Nat /\ Step < HigherStep
  BY ClockAssumption
<1>1. /\ higher \in Seq(Nat) /\ Len(higher) \in Nat /\ DOMAIN higher = 1..Len(higher)
      /\ h \in Nat /\ h <= Len(higher) /\ Rising(higher)
      /\ \A i \in 1..Len(higher) : higher[i] \in Nat
      /\ p \in 1..Len(primary) /\ primary[p] \in Nat
  <2>1. higher \in Seq(Nat) /\ h \in 0..Len(higher) /\ Rising(higher)
    BY DEF TypeOK, InStep
  <2>2. p \in 1..Len(primary) /\ primary[p] \in Nat
    BY DEF TypeOK
  <2> QED BY <2>1, <2>2
<1>2. PICK skip \in 0..h :
        /\ skip = Skip
        /\ skip = h \/ higher[h - skip] + HigherStep <= primary[p] + Step
        /\ \A k \in 0..h : k < skip => ~(higher[h - k] + HigherStep <= primary[p] + Step)
  BY SkipIsLeast
<1>3. ASSUME NEW i \in 1..(h - skip)
      PROVE  i \in DOMAIN higher /\ higher[i] + HigherStep <= primary[p] + Step
  <2>1. /\ h - skip \in 1..Len(higher) /\ i \in 1..Len(higher) /\ skip # h
        /\ i < h - skip \/ i = h - skip
    BY <1>1
  <2>2. i < h - skip => higher[i] < higher[h - skip]
    BY <1>1, <2>1, RisingThroughout
  <2>3. higher[i] \in Nat /\ higher[h - skip] \in Nat
    BY <1>1, <2>1
  <2>4. higher[h - skip] + HigherStep <= primary[p] + Step
    BY <1>2, <2>1
  <2>5. i \in DOMAIN higher
    BY <1>1, <2>1
  <2>6. PICK x \in Nat : x = higher[i]
    BY <2>3
  <2>7. PICK y \in Nat : y = higher[h - skip]
    BY <2>3
  <2>8. x <= y
    BY <2>1, <2>2, <2>6, <2>7
  <2>9. PICK close \in Int : close = primary[p] + Step
    BY <1>0, <1>1
  <2>10. y + HigherStep <= close
    BY <2>4, <2>7, <2>9
  <2>11. x + HigherStep <= close
    BY <1>0, <2>8, <2>10
  <2> QED BY <2>5, <2>6, <2>9, <2>11
<1>4. ASSUME NEW i \in 1..Len(higher), ~(i \in 1..(h - skip))
      PROVE  ~(higher[i] + HigherStep <= primary[p] + Step)
  <2>1. CASE i <= h
    <3>1. h - i \in 0..h /\ h - i < skip /\ h - (h - i) = i
      BY <1>1, <1>4, <2>1
    <3> QED BY <1>2, <3>1
  <2>2. CASE i > h
    <3>1. i \in (h + 1)..Len(higher) /\ p \in 1..p
      BY <1>1, <2>2
    <3>2. primary[p] < higher[i]
      BY <3>1 DEF InStep
    <3> QED BY <1>0, <1>1, <3>2
  <2> QED BY <1>1, <2>1, <2>2
<1>5. 1..(h - skip) \in SUBSET (1..Len(higher))
  BY <1>1
<1> QED BY <1>1, <1>2, <1>3, <1>4, <1>5 DEF Closed

\* So many closed bars come after one of them.
LEMMA ClosedAfter ==
  ASSUME NEW c \in Nat, NEW i \in 1..c
  PROVE  Cardinality({j \in 1..c : j > i}) = c - i
<1>1. {j \in 1..c : j > i} = (i + 1)..c
  OBVIOUS
<1>2. Cardinality((i + 1)..c) = IF i + 1 > c THEN 0 ELSE c - (i + 1) + 1
  <2>1. i + 1 \in Int /\ c \in Int
    OBVIOUS
  <2> QED BY <2>1, FS_Interval
<1>3. (IF i + 1 > c THEN 0 ELSE c - (i + 1) + 1) = c - i
  OBVIOUS
<1> QED BY <1>1, <1>2, <1>3, Zenon

\* The window of primary bars starts here, as the property words it.
LEMMA WindowStart ==
  ASSUME TypeOK, p # 0, NEW time
  PROVE  (\E first \in {1, p - HistoryBars + 1} \cap 1..p :
            /\ first = 1 => p <= HistoryBars
            /\ time >= primary[first])
         <=> time >= primary[p - Smaller(HistoryBars, p) + 1]
<1>1. p \in Nat /\ p >= 1 /\ HistoryBars \in Nat /\ HistoryBars >= 1
  BY ClockAssumption DEF TypeOK
<1>2. CASE HistoryBars < p
  <2>1. /\ p - Smaller(HistoryBars, p) + 1 = p - HistoryBars + 1
        /\ p - HistoryBars + 1 \in 1..p /\ p - HistoryBars + 1 # 1
        /\ ~(p <= HistoryBars)
    BY <1>1, <1>2 DEF Smaller
  <2> QED BY <2>1
<1>3. CASE ~(HistoryBars < p)
  <2>1. /\ p - Smaller(HistoryBars, p) + 1 = 1 /\ 1 \in 1..p /\ p <= HistoryBars
        /\ p - HistoryBars + 1 \in 1..p => p - HistoryBars + 1 = 1
    BY <1>1, <1>3 DEF Smaller
  <2> QED BY <2>1
<1> QED BY <1>2, <1>3

\* A decision is shown the bars it may be shown.
LEMMA WindowIsVisible ==
  ASSUME TypeOK, InStep, p # 0, phase = "strategy", lastDecisionBar # p
  PROVE  Visible(p) = IF Window = NoWindow THEN {} ELSE Window[1]..Window[2]
<1>1. /\ higher \in Seq(Nat) /\ Len(higher) \in Nat /\ h \in Nat /\ h <= Len(higher)
      /\ \A i \in 1..Len(higher) : higher[i] \in Nat
      /\ Rising(higher) /\ HistoryBars \in Nat /\ HistoryBars >= 1
  <2>1. higher \in Seq(Nat) /\ h \in 0..Len(higher) /\ Rising(higher)
    BY DEF TypeOK, InStep
  <2>2. HistoryBars \in Nat /\ HistoryBars >= 1
    BY ClockAssumption
  <2> QED BY <2>1, <2>2
<1>2. PICK skip \in 0..h : skip = Skip
  BY SkipIsLeast
<1>3. PICK c \in Nat : c = h - skip
  BY <1>1
<1>4. PICK shown \in Nat : shown = Smaller(HistoryBars, c)
  BY <1>1 DEF Smaller
<1>5. shown <= c /\ shown <= HistoryBars /\ (shown = c \/ shown = HistoryBars)
  BY <1>1, <1>4 DEF Smaller
<1>6. PICK m \in 0..shown : m = Trimmed(shown, skip)
  <2>1. skip \in Nat
    BY <1>1
  <2>2. Trimmed(shown, skip) \in 0..shown
    BY <2>1, TrimmedType
  <2> QED BY <2>2
<1> DEFINE start == primary[p - Smaller(HistoryBars, p) + 1]
<1>7. ASSUME NEW i \in 1..c, c - i < HistoryBars, contract # NoContract
      PROVE  higher[i] >= start <=> i >= c - m + 1
  <2>0. /\ Trimmed(shown, skip) = 0 \/ higher[h - (skip + Trimmed(shown, skip) - 1)] >= start
        /\ \A n \in 0..shown : higher[h - (skip + n - 1)] >= start => n <= Trimmed(shown, skip)
    <3>1. skip \in Nat
      BY <1>1
    <3> QED BY <1>7, <3>1, TrimmedIsGreatest, ZenonT(30)
  <2>1. p \in 1..Len(primary) /\ start \in Nat
    BY <1>1 DEF TypeOK, Smaller
  <2>2. m = 0 \/ higher[c - m + 1] >= start
    <3>1. m = 0 \/ higher[h - (skip + m - 1)] >= start
      BY <1>6, <2>0
    <3>2. h - (skip + m - 1) = c - m + 1
      BY <1>1, <1>3
    <3> QED BY <3>1, <3>2
  <2>3. ASSUME higher[i] >= start PROVE i >= c - m + 1
    <3>1. c - i + 1 \in 0..shown /\ h - (skip + (c - i + 1) - 1) = i
      BY <1>1, <1>3, <1>5, <1>7
    <3>2. \A n \in 0..shown : higher[h - (skip + n - 1)] >= start => n <= m
      BY <1>6, <2>0
    <3>3. c - i + 1 <= m
      BY <2>3, <3>1, <3>2
    <3> QED BY <3>3
  <2>4. ASSUME i >= c - m + 1 PROVE higher[i] >= start
    <3>1. m # 0 /\ c - m + 1 \in 1..Len(higher) /\ i \in 1..Len(higher)
      BY <1>1, <1>3, <1>5, <2>4
    <3>2. c - m + 1 < i => higher[c - m + 1] < higher[i]
      BY <1>1, <3>1, RisingThroughout
    <3>3. higher[c - m + 1] \in Nat /\ higher[i] \in Nat
      BY <1>1, <3>1
    <3> HIDE DEF start
    <3> QED BY <2>1, <2>2, <2>4, <3>1, <3>2, <3>3
  <2> QED BY <2>3, <2>4
<1>8. Visible(p) = (c - m + 1)..c
  <2>1. Closed(p) = 1..c
    BY <1>2, <1>3, ClosedBars
  <2>2. \A i \in 1..c : Cardinality({j \in 1..c : j > i}) = c - i
    BY ClosedAfter
  <2>3. Visible(p) = {i \in 1..c : /\ c - i < HistoryBars
                                   /\ contract = NoContract \/ higher[i] >= start}
    BY <2>1, <2>2, WindowStart DEF Visible
  <2>4. \A i \in 1..c : (/\ c - i < HistoryBars
                         /\ contract = NoContract \/ higher[i] >= start)
                        <=> i >= c - m + 1
    <3>1. CASE contract = NoContract
      <4>1. m = shown
        BY <1>6, <3>1 DEF Trimmed
      <4> QED BY <1>1, <1>5, <3>1, <4>1
    <3>2. CASE contract # NoContract
      <4>1. \A i \in 1..c : i >= c - m + 1 => c - i < HistoryBars
        BY <1>1, <1>5
      <4> HIDE DEF start
      <4> QED BY <1>7, <3>2, <4>1
    <3> QED BY <3>1, <3>2
  <2>5. m <= c
    BY <1>5
  <2> HIDE DEF start
  <2>6. Visible(p) = {i \in 1..c : i >= c - m + 1}
    BY <2>3, <2>4
  <2> QED BY <2>5, <2>6
<1>9. Window = IF h > 0 /\ m > 0 THEN <<h - skip - m + 1, h - skip>> ELSE NoWindow
  BY <1>2, <1>3, <1>4, <1>6 DEF Window
<1>10. CASE h > 0 /\ m > 0
  <2>1. Window # NoWindow /\ Window[1] = h - skip - m + 1 /\ Window[2] = h - skip
    BY <1>9, <1>10 DEF NoWindow
  <2> QED BY <1>3, <1>8, <2>1
<1>11. CASE ~(h > 0 /\ m > 0)
  <2>1. m = 0
    BY <1>1, <1>3, <1>5, <1>11
  <2> QED BY <1>8, <1>9, <1>11, <2>1
<1> QED BY <1>10, <1>11

\* What may be shown depends on the feeds and the contract only.
LEMMA VisibleStays ==
  ASSUME primary' = primary, higher' = higher, contract' = contract
  PROVE  \A b : Visible(b)' = Visible(b)
BY DEF Visible, Closed

\* Every decision keeps the window it was made with.
LEMMA WindowsKept ==
  TypeOK /\ InStep /\ Decided /\ WindowIsClosed /\ [Next]_vars => WindowIsClosed'
<1> SUFFICES ASSUME TypeOK, InStep, Decided, WindowIsClosed, [Next]_vars
             PROVE  WindowIsClosed'
  OBVIOUS
<1>1. CASE Prepare
  <2>1. p = 0 /\ decisions' = decisions
    BY <1>1 DEF Prepare, InStep
  <2>2. Due = {}
    BY <2>1 DEF Due
  <2>3. DOMAIN BarsOf(decisions) = {}
    BY <2>2 DEF Decided, Lists
  <2>4. DOMAIN decisions' = {}
    BY <2>1, <2>3 DEF BarsOf
  <2> QED BY <2>4 DEF WindowIsClosed
<1>2. CASE Decide /\ decisions' # decisions
  <2>1. /\ p # 0 /\ lastDecisionBar # p /\ phase = "strategy"
        /\ decisions' = Append(decisions, [bar |-> p, window |-> Window])
        /\ primary' = primary /\ higher' = higher /\ contract' = contract
    BY <1>2 DEF Decide, inputs
  <2>2. PICK w \in Seq(Int) : w = Window
    BY <2>1, WindowType
  <2> DEFINE Made == [bar : Nat, window : Seq(Int)]
             e == [bar |-> p, window |-> w]
  <2>3. decisions \in Seq(Made) /\ e \in Made /\ e.bar = p /\ e.window = w
    BY DEF TypeOK
  <2>4. decisions' = Append(decisions, e)
    BY <2>1, <2>2
  <2> HIDE DEF Made, e
  <2>5. PICK made : made = decisions'
    OBVIOUS
  <2>6. \A i \in DOMAIN made : made[i] = e \/ (i \in DOMAIN decisions /\ made[i] = decisions[i])
    BY <2>3, <2>4, <2>5
  <2>7. Visible(e.bar) = IF e.window = NoWindow THEN {} ELSE e.window[1]..e.window[2]
    BY <2>1, <2>2, <2>3, WindowIsVisible
  <2>8. \A i \in DOMAIN made :
          Visible(made[i].bar) = IF made[i].window = NoWindow THEN {}
                                 ELSE made[i].window[1]..made[i].window[2]
    BY <2>6, <2>7, Zenon DEF WindowIsClosed
  <2>9. \A b : Visible(b)' = Visible(b)
    BY <2>1, VisibleStays
  <2> QED BY <2>5, <2>8, <2>9 DEF WindowIsClosed, NoWindow
<1>3. CASE ~Prepare /\ decisions' = decisions
  <2>1. primary' = primary /\ higher' = higher /\ contract' = contract
    <3>1. Advance \/ BrokerNext => primary' = primary /\ higher' = higher /\ contract' = contract
      BY DEF Advance, BrokerNext, inputs
    <3>2. Decide \/ Sample => primary' = primary /\ higher' = higher /\ contract' = contract
      BY DEF Decide, Sample, inputs
    <3>3. Stop \/ Report \/ UNCHANGED vars
            => primary' = primary /\ higher' = higher /\ contract' = contract
      BY DEF Stop, Report, vars, inputs
    <3> QED BY <1>3, <3>1, <3>2, <3>3 DEF Next
  <2>2. \A b : Visible(b)' = Visible(b)
    BY <2>1, VisibleStays
  <2> QED BY <1>3, <2>2 DEF WindowIsClosed, NoWindow
<1>4. CASE ~Prepare /\ ~Decide
  <2>1. decisions' = decisions
    <3>1. Advance \/ BrokerNext \/ Sample => decisions' = decisions
      BY DEF Advance, BrokerNext, Sample
    <3>2. Stop \/ Report \/ UNCHANGED vars => decisions' = decisions
      BY DEF Stop, Report, vars
    <3> QED BY <1>4, <3>1, <3>2 DEF Next
  <2> QED BY <1>3, <1>4, <2>1
<1> QED BY <1>1, <1>2, <1>3, <1>4

(* ---- The theorems ----------------------------------------------------- *)

\* A run starts so ...
LEMMA ClockInit == Init => Clock
<1> SUFFICES ASSUME Init PROVE Clock
  OBVIOUS
<1>1. /\ primary \in Seq(Nat) /\ higher \in Seq(Nat) /\ Rising(primary) /\ Rising(higher)
      /\ p = 0 /\ h = 0 /\ phase = "prepare" /\ lastDecisionBar = 0 /\ lastPrimaryBar = 0
      /\ lastPrimaryTimestamp = -1 /\ order = NoOrder /\ ~ddLimitHit
  BY ClockAssumption DEF Init
<1>2. matched = <<>> /\ decisions = <<>> /\ fills = <<>> /\ equity = <<>>
  BY DEF Init
<1>3. TypeOK
  <2>1. phase \in {"prepare"} /\ lane \in Lanes /\ contract \in Contracts /\ twoFeeds \in BOOLEAN
    BY DEF Init
  <2>2. low \in Levels /\ value \in Values /\ ddLimitHit \in BOOLEAN
    BY DEF Init
  <2>3. p \in 0..Len(primary) /\ h \in 0..Len(higher)
    BY <1>1
  <2>4. /\ matched \in Seq(Nat) /\ fills \in Seq([decided : Nat, bar : Nat])
        /\ decisions \in Seq([bar : Nat, window : Seq(Int)]) /\ equity \in Seq(Points)
    BY <1>2
  <2> QED BY <1>1, <2>1, <2>2, <2>3, <2>4 DEF TypeOK
<1>4. InStep
  <2>1. \A j \in (p + 1)..Len(primary) : \A i \in 1..h : higher[i] < primary[j]
    BY <1>1
  <2>2. \A j \in (h + 1)..Len(higher) : \A i \in 1..p : primary[i] < higher[j]
    BY <1>1
  <2> QED BY <1>1, <2>1, <2>2 DEF InStep
<1>5. Due = {}
  BY <1>1 DEF Due
<1>6. Decided /\ Sampled /\ Matched
  <2>1. Lists(<<>>, {}) /\ BarsOf(<<>>) = <<>>
    BY DEF Lists, BarsOf
  <2> QED BY <1>1, <1>2, <1>5, <2>1 DEF Decided, Sampled, Matched
<1>7. Resting /\ RealisticFillsLater /\ WindowIsClosed
  BY <1>1, <1>2 DEF Resting, RealisticFillsLater, OrdersFillLater, WindowIsClosed, NoOrder
<1> QED BY <1>3, <1>4, <1>6, <1>7 DEF Clock

\* ... and goes on so.
THEOREM Invariant == Spec => []Clock
<1>1. Clock /\ [Next]_vars => Clock'
  BY TypesKept, InStepKept, DecidedKept, SampledKept, MatchedKept, FillsKept, WindowsKept
     DEF Clock
<1> QED BY ClockInit, <1>1, PTL DEF Spec

\* The feeds, the logs and the guards keep their types (bt_adapter.py, bt_analyzers.py).
THEOREM TypeCorrect == Spec => []TypeOK
<1>1. Clock => TypeOK
  BY DEF Clock
<1> QED BY Invariant, <1>1, PTL

\* The curve has a point and the strategy a decision for every primary bar of the
\* evaluation, once and in order, and the realistic broker matches on each once,
\* whatever the two feeds, the contract and the history.
THEOREM OnceEach == Spec => []OncePerPrimaryBar
<1>1. Clock => OncePerPrimaryBar
  BY DEF Clock, Decided, Sampled, Matched, OncePerPrimaryBar
<1> QED BY Invariant, <1>1, PTL

\* Every decision was shown the newest closed bars of the higher timeframe that its
\* history allows, and none that was still forming.
THEOREM WindowsClosed == Spec => []WindowIsClosed
<1>1. Clock => WindowIsClosed
  BY DEF Clock
<1> QED BY Invariant, <1>1, PTL

\* ohlcv_realistic_v2 executes an order on a bar after the one it was decided on.
THEOREM RealisticFillsLate == Spec => []RealisticFillsLater
<1>1. Clock => RealisticFillsLater
  BY DEF Clock
<1> QED BY Invariant, <1>1, PTL
=============================================================================
