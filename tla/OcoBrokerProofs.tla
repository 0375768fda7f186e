--------------------------- MODULE OcoBrokerProofs ---------------------------
(***************************************************************************)
(* What OcoBroker promises, for every feed, plan and policy.  Broker and    *)
(* adapter are, between any two steps, in one of six situations (Situated): *)
(* flat, entering, given up, bought, protected or sold.  Each says which    *)
(* orders wait, what the adapter has still to hear and what it has booked;  *)
(* every step leads from one to another (Inv).                              *)
(***************************************************************************)
EXTENDS OcoBroker, Induction, SequenceTheorems, FiniteSetTheorems

Roles    == Legs \cup {"entry", "signal", "liquidation", "end_of_data"}
Statuses == {"submitted", "accepted", "partial", "completed", "canceled", "rejected", "margin"}

OrderRecords == [role : Roles, sign : {1, -1}, status : Statuses,
                 left : Quantities, filled : Quantities, cost : Int, price : Int \cup {None},
                 lead : Nat, born : Nat, setup : SetupRecords \cup {None}, guarded : BOOLEAN,
                 matched : Nat, trade : Nat]
NewsRecords  == [ref : Nat, status : Statuses, filled : Quantities, qty : Quantities,
                 trades : {<<>>, <<"opened">>, <<"closed">>}]
FillRecords  == [ref : Nat, role : Roles, trade : Nat, qty : Nat, price : Int, reduces : BOOLEAN]

\* Broker and adapter.
Brokers == [orders : Seq(OrderRecords), pending : Seq(Nat), submitted : Seq(Nat),
            groups : SUBSET Nat, done : SUBSET Nat,
            news : Seq(NewsRecords), trades : {<<>>, <<"opened">>, <<"closed">>},
            size : Quantities, dir : {1, -1}, fillTrade : Nat, fills : Seq(FillRecords), exits : Nat,
            left : Nat, exitBar : Nat, exitRole : Roles \cup {None}, active : Nat \cup {None},
            raised : BOOLEAN, entry : Nat, stop : Nat, tp : Nat, signal : {NoOrder}, cancelled : Nat,
            setup : SetupRecords \cup {None}, trade : SetupRecords \cup {None}, tradeId : Nat,
            held : Int, intent : {FALSE}, closedBySignal : Nat, halted : BOOLEAN,
            policy : EndPolicies, remainder : Remainders]

\* The orders a bar may execute, or check the cash of.
InQueue(b) == ToSet(b.pending) \ {Sentinel}
Waiting(b) == InQueue(b) \cup ToSet(b.submitted)

\* The queues hold each live order once, and no other; the cash of one order at most is
\* checked; what is done is no open group.
Queues(b) ==
  /\ Waiting(b) \subseteq DOMAIN b.orders
  /\ {b.entry, b.stop, b.tp, b.cancelled} \subseteq DOMAIN b.orders \cup {NoOrder}
  /\ \A r \in DOMAIN b.orders : Live(b, r) <=> r \in Waiting(b)
  /\ IsInjective(b.pending)
  /\ Len(b.submitted) <= 1 /\ ToSet(b.submitted) \cap ToSet(b.pending) = {}
  /\ \A r \in ToSet(b.submitted) : b.orders[r].role = "entry"
  /\ b.groups \cup b.done \subseteq DOMAIN b.orders /\ b.groups \cap b.done = {}

\* The adapter will place the bracket of an entry on the entry's side.
Fits(b, r) ==
  LET o == b.orders[r]
  IN /\ o.role = "entry" /\ o.setup # None /\ o.setup.dir = o.sign /\ ~o.guarded
     /\ b.setup # None /\ b.setup.dir = o.sign

\* What a waiting order still is: whole, in an open group.
Whole(b, r) == LET o == b.orders[r] IN o.left > 0 /\ o.filled = 0 /\ o.lead \in b.groups

\* What the adapter has booked: no trade, ...
NoTrade(b) == b.held = 0 /\ b.trade = None /\ b.tradeId = b.fillTrade

\* ... or a trade whose end it has not heard of.
Behind(b) == b.tradeId + 1 = b.fillTrade

\* Neither a position nor an order: there was no trade, or it has just been closed.
Flat(b) ==
  /\ b.size = 0 /\ Waiting(b) = {} /\ b.news = <<>> /\ b.entry = NoOrder /\ b.setup = None
  /\ \/ b.trades = <<>> /\ NoTrade(b)
     \/ b.trades = <<"closed">> /\ Behind(b)

\* An entry waits.
Entering(b) ==
  /\ b.size = 0 /\ Waiting(b) = {b.entry} /\ b.news = <<>>
  /\ Fits(b, b.entry) /\ Whole(b, b.entry)
  /\ b.trades = <<>> /\ NoTrade(b)

\* An entry ended without a fill; the adapter has not heard of it.
GivenUp(b) ==
  /\ b.size = 0 /\ Waiting(b) = {} /\ b.setup # None
  /\ Len(b.news) = 1 /\ b.news[1].ref \in {b.entry, b.cancelled} \cap DOMAIN b.orders
  /\ b.news[1].qty = 0 /\ b.news[1].filled = 0 /\ b.news[1].trades = <<>>
  /\ b.trades = <<>> /\ NoTrade(b)

\* The entry filled; the adapter has not heard of it, so there is no bracket.
Bought(b) ==
  /\ b.size > 0 /\ Waiting(b) = {}
  /\ Len(b.news) = 1 /\ b.news[1].ref \in DOMAIN b.orders
  /\ LET e == b.news[1]
     IN /\ Fits(b, e.ref) /\ b.dir = b.orders[e.ref].sign
        /\ e.status = "completed" /\ e.qty = b.size /\ e.filled = b.size /\ e.trades = <<"opened">>
  /\ b.trades = <<>> /\ NoTrade(b)

\* One leg of the bracket.
IsLeg(b, r) ==
  LET o == b.orders[r]
  IN /\ o.role = (IF r = b.stop THEN "stop_loss" ELSE "take_profit")
     /\ o.left = b.size /\ o.sign = -b.dir /\ o.lead = b.stop /\ o.price \in Int

\* The position has its bracket, with a target if its setup has one.
Protected(b) ==
  /\ b.size > 0 /\ b.news = <<>> /\ b.entry = NoOrder
  /\ b.stop # NoOrder /\ b.tp # b.stop /\ Waiting(b) = {b.stop, b.tp} \ {NoOrder}
  /\ \A r \in Waiting(b) : IsLeg(b, r) /\ Whole(b, r)
  /\ b.held = b.size /\ b.tradeId = b.fillTrade
  /\ \/ b.trades = <<>> /\ b.setup = None /\ b.trade # None
        /\ (b.tp # NoOrder <=> b.trade.target # None)
     \/ b.trades = <<"opened">> /\ b.setup # None /\ b.trade = None
        /\ (b.tp # NoOrder <=> b.setup.target # None)

\* An exit closed the position; the adapter has not heard of it.
Sold(b) ==
  /\ b.size = 0 /\ Waiting(b) = {} /\ b.entry = NoOrder /\ b.setup = None
  /\ Len(b.news) = 1 /\ b.news[1].ref \in DOMAIN b.orders
  /\ LET e == b.news[1]
     IN /\ b.orders[e.ref].role \in Legs \cup {"end_of_data"}
        /\ e.status = "completed" /\ e.qty > 0 /\ e.trades = <<"closed">>
  /\ b.trades = <<>> /\ Behind(b)

\* Exits reduce.
Reducing(b) == \A i \in DOMAIN b.fills : b.fills[i].role # "entry" => b.fills[i].reduces

Situated(b) == Flat(b) \/ Entering(b) \/ GivenUp(b) \/ Bought(b) \/ Protected(b) \/ Sold(b)

Sound(b) == b \in Brokers /\ Queues(b) /\ Reducing(b) /\ Situated(b)

\* A bar's phases: the sentinel is queued during the pass, then the adapter hears of
\* all orders, then of all trades.
Phases ==
  /\ phase = "matching" <=> Sentinel \in ToSet(s.pending)
  /\ phase = "matching" => s.submitted = << >>
  /\ phase \in {"trades", "decision", "final trades", "ended"} => s.news = <<>>
  /\ phase \in {"idle", "submitted"} => s.news = <<>> \/ GivenUp(s)
  /\ phase \in {"idle", "submitted", "matching", "decision", "ended"} => s.trades = <<>>

\* What the end of the data leaves.
AtEnd ==
  phase \in {"final orders", "final trades", "ended"} =>
    IF s.policy = "mark_at_last_close" THEN ~Entering(s) /\ ~Bought(s)
                                       ELSE Flat(s) \/ GivenUp(s) \/ Sold(s)

Inv ==
  /\ Sound(s) /\ Phases /\ AtEnd
  /\ phase \in {"idle", "submitted", "matching", "orders", "trades", "decision",
                "final orders", "final trades", "ended"}
  /\ now \in 0..MaxBars /\ bar \in [o : Int, l : Int, h : Int, c : Int, v : Nat]

(* ---- Queues ------------------------------------------------------------- *)

\* The entries of a sequence.
LEMMA Entries ==
  ASSUME NEW S, NEW q \in Seq(S)
  PROVE  /\ Len(q) \in Nat /\ DOMAIN q = 1..Len(q)
         /\ ToSet(q) = {q[i] : i \in DOMAIN q} /\ ToSet(q) \subseteq S
BY DEF ToSet

\* An entry at the end of a queue.
LEMMA AppendQueue ==
  ASSUME NEW S, NEW q \in Seq(S), NEW e \in S
  PROVE  /\ Append(q, e) \in Seq(S) /\ ToSet(Append(q, e)) = ToSet(q) \cup {e}
         /\ IsInjective(q) /\ e \notin ToSet(q) => IsInjective(Append(q, e))
<1> DEFINE a == Append(q, e)
           n == Len(q)
<1>3. /\ n \in Nat /\ DOMAIN q = 1..n /\ DOMAIN a = 1..(n + 1)
      /\ a[n + 1] = e /\ \A i \in 1..n : a[i] = q[i]
  OBVIOUS
<1> HIDE DEF a, n
<1>1. ToSet(a) = ToSet(q) \cup {e}
  BY <1>3 DEF ToSet
<1>2. IsInjective(q) /\ e \notin ToSet(q) => IsInjective(Append(q, e))
  BY DEF ToSet, IsInjective
<1> QED BY <1>1, <1>2 DEF a

\* The functions that Without computes: what is left of the first entries.
Leaves(f, queue, refs) ==
  \A n \in DOMAIN f :
    f[n] = IF n = 0 THEN << >>
           ELSE IF queue[n] \in refs THEN f[n - 1] ELSE Append(f[n - 1], queue[n])

\* There is such a function for every queue.
LEMMA LeavesExist ==
  ASSUME NEW S, NEW queue \in Seq(S), NEW refs
  PROVE  \E f \in [0..Len(queue) -> Seq(S)] : Leaves(f, queue, refs)
<1> DEFINE T == {n \in Nat : n <= Len(queue) => \E f \in [0..n -> Seq(S)] : Leaves(f, queue, refs)}
<1>1. 0 \in T
  <2>1. [i \in 0..0 |-> << >>] \in [0..0 -> Seq(S)] /\ Leaves([i \in 0..0 |-> << >>], queue, refs)
    BY DEF Leaves
  <2> QED BY <2>1
<1>2. ASSUME NEW n \in T PROVE n + 1 \in T
  <2> SUFFICES ASSUME n + 1 <= Len(queue)
               PROVE  \E f \in [0..(n + 1) -> Seq(S)] : Leaves(f, queue, refs)
    OBVIOUS
  <2>1. PICK f \in [0..n -> Seq(S)] : Leaves(f, queue, refs)
    OBVIOUS
  <2>2. f[n] \in Seq(S) /\ queue[n + 1] \in S
    OBVIOUS
  <2> DEFINE last == IF queue[n + 1] \in refs THEN f[n] ELSE Append(f[n], queue[n + 1])
  <2>3. last \in Seq(S)
    BY <2>2
  <2> DEFINE g == [i \in 0..(n + 1) |-> IF i <= n THEN f[i] ELSE last]
  <2> HIDE DEF last
  <2>4. g \in [0..(n + 1) -> Seq(S)]
    BY <2>3
  <2>5. ASSUME NEW i \in 0..(n + 1)
        PROVE  g[i] = IF i = 0 THEN << >>
                      ELSE IF queue[i] \in refs THEN g[i - 1] ELSE Append(g[i - 1], queue[i])
    <3>1. CASE i <= n
      <4>1. i \in 0..n /\ DOMAIN f = 0..n /\ (i # 0 => i - 1 \in 0..n)
        BY <3>1
      <4>2. g[i] = f[i] /\ (i # 0 => g[i - 1] = f[i - 1])
        BY <4>1
      <4> HIDE DEF g
      <4> QED BY <2>1, <4>1, <4>2 DEF Leaves
    <3>2. CASE i = n + 1
      BY <2>1, <3>2 DEF last
    <3> QED BY <3>1, <3>2
  <2>6. Leaves(g, queue, refs)
    BY <2>4, <2>5 DEF Leaves
  <2> QED BY <2>4, <2>6
<1>3. T = Nat
  <2> HIDE DEF T
  <2>1. T \in SUBSET Nat BY DEF T
  <2> QED BY <1>1, <1>2, <2>1, SetInduction
<1>4. Len(queue) \in Nat /\ Len(queue) \in T
  BY <1>3
<1> QED BY <1>4

\* Without returns the last of them.
LEMMA WithoutLeaves ==
  ASSUME NEW S, NEW queue \in Seq(S), NEW refs
  PROVE  \E f \in [0..Len(queue) -> Seq(S)] : Leaves(f, queue, refs) /\ Without(queue, refs) = f[Len(queue)]
<1> DEFINE h == CHOOSE f : f = [n \in 0..Len(queue) |->
                   IF n = 0 THEN << >>
                   ELSE IF queue[n] \in refs THEN f[n - 1] ELSE Append(f[n - 1], queue[n])]
<1>1. PICK f \in [0..Len(queue) -> Seq(S)] : Leaves(f, queue, refs)
  BY LeavesExist, Zenon
<1>2. f = [n \in 0..Len(queue) |->
                   IF n = 0 THEN << >>
                   ELSE IF queue[n] \in refs THEN f[n - 1] ELSE Append(f[n - 1], queue[n])]
  BY <1>1 DEF Leaves
<1>3. h = [n \in 0..Len(queue) |->
                   IF n = 0 THEN << >>
                   ELSE IF queue[n] \in refs THEN h[n - 1] ELSE Append(h[n - 1], queue[n])]
  BY <1>2, ZenonT(40)
<1>4. Without(queue, refs) = h[Len(queue)]
  BY DEF Without
<1> HIDE DEF h
<1>5. Len(queue) \in Nat
  OBVIOUS
<1>11. \A n \in 0..Len(queue) :
         h[n] = IF n = 0 THEN << >>
                ELSE IF queue[n] \in refs THEN h[n - 1] ELSE Append(h[n - 1], queue[n])
  BY <1>3
<1> DEFINE T == {n \in Nat : n <= Len(queue) => h[n] \in Seq(S)}
<1>6. T = Nat
  <2>1. 0 \in T
    BY <1>3, <1>5
  <2>2. ASSUME NEW n \in T PROVE n + 1 \in T
    <3>1. SUFFICES ASSUME n + 1 <= Len(queue) PROVE h[n + 1] \in Seq(S)
      OBVIOUS
    <3>2. h[n] \in Seq(S) /\ queue[n + 1] \in S
      BY <1>5, <3>1
    <3>4. n + 1 \in 0..Len(queue) /\ n + 1 # 0 /\ (n + 1) - 1 = n
      BY <1>5, <3>1
    <3>3. h[n + 1] = IF queue[n + 1] \in refs THEN h[n] ELSE Append(h[n], queue[n + 1])
      BY <1>11, <3>4
    <3> QED BY <3>2, <3>3
  <2>3. T \in SUBSET Nat
    OBVIOUS
  <2> HIDE DEF T
  <2> QED BY <2>1, <2>2, <2>3, SetInduction
<1>7. \A n \in 0..Len(queue) : h[n] \in Seq(S)
  BY <1>6
<1>8. DOMAIN h = 0..Len(queue) /\ h = [n \in DOMAIN h |-> h[n]]
  BY <1>3, Zenon
<1>9. h \in [0..Len(queue) -> Seq(S)]
  BY <1>7, <1>8
<1>10. Leaves(h, queue, refs)
  BY <1>3, <1>8 DEF Leaves
<1> QED BY <1>4, <1>9, <1>10

\* Without keeps the other entries, and a queue of distinct entries distinct.
LEMMA WithoutKeeps ==
  ASSUME NEW S, NEW queue \in Seq(S), NEW refs
  PROVE  /\ Without(queue, refs) \in Seq(S)
         /\ ToSet(Without(queue, refs)) = ToSet(queue) \ refs
         /\ IsInjective(queue) => IsInjective(Without(queue, refs))
<1>1. PICK f \in [0..Len(queue) -> Seq(S)] : Leaves(f, queue, refs) /\ Without(queue, refs) = f[Len(queue)]
  BY WithoutLeaves
<1> DEFINE First(n) == {queue[i] : i \in 1..n}
           T == {n \in Nat : n <= Len(queue) => /\ ToSet(f[n]) = First(n) \ refs
                                                /\ IsInjective(queue) => IsInjective(f[n])}
<1>2. Len(queue) \in Nat /\ DOMAIN queue = 1..Len(queue)
  OBVIOUS
<1>3. T = Nat
  <2>1. 0 \in T
    BY <1>1, <1>2 DEF Leaves, ToSet, IsInjective
  <2>2. ASSUME NEW n \in T PROVE n + 1 \in T
    <3>1. SUFFICES ASSUME n + 1 <= Len(queue)
                   PROVE  /\ ToSet(f[n + 1]) = First(n + 1) \ refs
                          /\ IsInjective(queue) => IsInjective(f[n + 1])
      OBVIOUS
    <3>2. PICK p : p = f[n]
      OBVIOUS
    <3>3. PICK e : e = queue[n + 1]
      OBVIOUS
    <3>10. /\ n \in 0..Len(queue) /\ n + 1 \in 0..Len(queue) /\ n + 1 \in 1..Len(queue)
           /\ n + 1 # 0 /\ (n + 1) - 1 = n /\ n <= Len(queue)
      BY <1>2, <3>1
    <3>11. p \in Seq(S) /\ e \in S
      BY <1>1, <3>2, <3>3, <3>10
    <3>4. p \in Seq(S) /\ e \in S /\ ToSet(p) = First(n) \ refs /\ (IsInjective(queue) => IsInjective(p))
      BY <3>2, <3>10, <3>11
    <3>12. \A m \in 0..Len(queue) :
             f[m] = IF m = 0 THEN << >>
                    ELSE IF queue[m] \in refs THEN f[m - 1] ELSE Append(f[m - 1], queue[m])
      BY <1>1 DEF Leaves
    <3>5. f[n + 1] = IF e \in refs THEN p ELSE Append(p, e)
      BY <3>2, <3>3, <3>10, <3>12
    <3>6. First(n + 1) = First(n) \cup {e}
      BY <3>1, <3>3
    <3>7. IsInjective(queue) => e \notin First(n)
      BY <1>2, <3>1, <3>3 DEF IsInjective
    <3> HIDE DEF First
    <3>8. ToSet(Append(p, e)) = ToSet(p) \cup {e}
      BY <3>4, AppendQueue, SMTT(30)
    <3>9. e \notin ToSet(p) /\ IsInjective(p) => IsInjective(Append(p, e))
      BY <3>4, AppendQueue, SMTT(30)
    <3> QED BY <3>4, <3>5, <3>6, <3>7, <3>8, <3>9
  <2>3. T \in SUBSET Nat
    OBVIOUS
  <2> HIDE DEF T
  <2> QED BY <2>1, <2>2, <2>3, SetInduction
<1>4. Len(queue) \in T
  <2> HIDE DEF T
  <2> QED BY <1>2, <1>3
<1>5. First(Len(queue)) = ToSet(queue)
  BY <1>2 DEF ToSet
<1>6. f[Len(queue)] \in Seq(S)
  BY <1>1, <1>2
<1> QED BY <1>1, <1>4, <1>5, <1>6

\* The head of a queue that has entries, and what is left.
LEMMA HeadQueue ==
  ASSUME NEW S, NEW q \in Seq(S), ToSet(q) # {}
  PROVE  /\ q # << >> /\ Head(q) \in S /\ Tail(q) \in Seq(S)
         /\ ToSet(q) = ToSet(Tail(q)) \cup {Head(q)} /\ Len(Tail(q)) = Len(q) - 1
         /\ IsInjective(q) => IsInjective(Tail(q)) /\ Head(q) \notin ToSet(Tail(q))
<1>1. q # << >>
  <2>1. DOMAIN << >> = {}
    OBVIOUS
  <2> QED BY <2>1 DEF ToSet
<1>2. /\ Head(q) = q[1] /\ Head(q) \in S /\ Tail(q) \in Seq(S) /\ Len(Tail(q)) = Len(q) - 1
      /\ Len(q) \in Nat \ {0} /\ \A i \in 1..Len(q) - 1 : Tail(q)[i] = q[i + 1]
      /\ DOMAIN q = 1..Len(q) /\ DOMAIN Tail(q) = 1..Len(q) - 1
  BY <1>1, HeadTailProperties
<1>3. PICK t : t = Tail(q)
  OBVIOUS
<1>4. PICK n \in Nat \ {0} : n = Len(q)
  BY <1>2
<1>5. DOMAIN q = 1..n /\ DOMAIN t = 1..n - 1 /\ \A i \in 1..n - 1 : t[i] = q[i + 1]
  BY <1>2, <1>3, <1>4
<1>6. ToSet(q) = ToSet(t) \cup {q[1]}
  <2>1. \A i \in 2..n : i - 1 \in 1..n - 1 /\ t[i - 1] = q[i]
    BY <1>5
  <2>2. \A i \in 1..n : i = 1 \/ i \in 2..n
    OBVIOUS
  <2>3. \A i \in 1..n - 1 : i + 1 \in 1..n /\ t[i] = q[i + 1]
    BY <1>5
  <2>4. 1 \in 1..n /\ DOMAIN q = 1..n /\ DOMAIN t = 1..n - 1
    BY <1>5
  <2>5. ASSUME NEW i \in 1..n PROVE q[i] \in ToSet(t) \cup {q[1]}
    BY <2>1, <2>2, <2>4 DEF ToSet
  <2>6. ASSUME NEW i \in 1..n - 1 PROVE t[i] \in ToSet(q)
    BY <2>3, <2>4 DEF ToSet
  <2>7. q[1] \in ToSet(q)
    BY <2>4 DEF ToSet
  <2>8. ToSet(q) = {q[i] : i \in 1..n} /\ ToSet(t) = {t[i] : i \in 1..n - 1}
    BY <2>4 DEF ToSet
  <2> QED BY <2>5, <2>6, <2>7, <2>8
<1>7. IsInjective(q) => IsInjective(t) /\ q[1] \notin ToSet(t)
  <2>1. ASSUME IsInjective(q) PROVE IsInjective(t) /\ q[1] \notin ToSet(t)
    <3>1. \A i, j \in 1..n : q[i] = q[j] => i = j
      BY <1>5, <2>1 DEF IsInjective
    <3>2. \A i \in 1..n - 1 : i + 1 \in 1..n /\ i + 1 # 1 /\ t[i] = q[i + 1]
      BY <1>5
    <3>3. \A i, j \in 1..n - 1 : t[i] = t[j] => i = j
      BY <3>1, <3>2
    <3>4. \A i \in 1..n - 1 : t[i] # q[1]
      BY <3>1, <3>2
    <3> QED BY <1>5, <3>3, <3>4 DEF IsInjective, ToSet
  <2> QED BY <2>1
<1> QED BY <1>1, <1>2, <1>3, <1>6, <1>7

\* The priority of an order is a number.
LEMMA PriorityType ==
  ASSUME NEW o
  PROVE  OpeningPriority(o) \in {0, 1, 2}
BY DEF OpeningPriority

\* A queue without protection stays as it is.
LEMMA PrioritizedOthers ==
  ASSUME NEW b \in Brokers, \A r \in ToSet(b.pending) : b.orders[r].role \notin Legs
  PROVE  Prioritized(b) = b
<1> DEFINE Order(i) == b.orders[b.pending[i]]
           Slots(i) == {j \in DOMAIN b.pending : Order(j).role \in Legs /\ Order(j).lead = Order(i).lead}
           Before(i, j) == \/ OpeningPriority(Order(i)) < OpeningPriority(Order(j))
                           \/ OpeningPriority(Order(i)) = OpeningPriority(Order(j)) /\ i < j
           Of(i) == CHOOSE j \in Slots(i) : Cardinality({k \in Slots(i) : Before(k, j)})
                                            = Cardinality({k \in Slots(i) : k < i})
<1>1. b.pending \in Seq(Nat)
  BY DEF Brokers
<1>2. \A i \in DOMAIN b.pending : b.pending[i] \in ToSet(b.pending)
  BY <1>1 DEF ToSet
<1>3. \A i \in DOMAIN b.pending : Order(i).role \notin Legs
  BY <1>2
<1> DEFINE q == [i \in DOMAIN b.pending |-> IF Order(i).role \in Legs THEN b.pending[Of(i)] ELSE b.pending[i]]
<1>4. Prioritized(b) = [b EXCEPT !.pending = q]
  BY SMTT(30) DEF Prioritized
<1>5. q = [i \in DOMAIN b.pending |-> b.pending[i]]
  BY <1>3
<1> HIDE DEF q, Of, Before, Slots, Order
<1>6. q = b.pending
  BY <1>1, <1>5
<1> QED BY <1>4, <1>6 DEF Brokers

\* A queue of distinct entries out of two has two entries at most.
LEMMA ShortQueue ==
  ASSUME NEW q \in Seq(Nat), IsInjective(q), NEW x, NEW y, ToSet(q) \subseteq {x, y}
  PROVE  Len(q) \in {0, 1, 2} /\ DOMAIN q = 1..Len(q)
<1>1. Len(q) \in Nat /\ DOMAIN q = 1..Len(q)
  OBVIOUS
<1>2. \A i \in 1..Len(q) : q[i] \in {x, y}
  BY <1>1 DEF ToSet
<1>3. ASSUME Len(q) > 2 PROVE FALSE
  <2>1. 1 \in 1..Len(q) /\ 2 \in 1..Len(q) /\ 3 \in 1..Len(q)
    BY <1>1, <1>3
  <2>2. q[1] # q[2] /\ q[1] # q[3] /\ q[2] # q[3]
    BY <1>1, <2>1 DEF IsInjective
  <2> QED BY <1>2, <2>1, <2>2
<1> QED BY <1>1, <1>3

\* The legs of a bracket are queued in the order of their priorities.
LEMMA PrioritizedBracket ==
  ASSUME NEW b \in Brokers, IsInjective(b.pending), NEW x, NEW y, ToSet(b.pending) \subseteq {x, y},
         NEW g, \A r \in ToSet(b.pending) : b.orders[r].role \in Legs /\ b.orders[r].lead = g
  PROVE  \E q \in Seq(Nat) :
            /\ Prioritized(b) = [b EXCEPT !.pending = q]
            /\ ToSet(q) = ToSet(b.pending) /\ IsInjective(q)
            /\ \A i, j \in DOMAIN q :
                 i < j => OpeningPriority(b.orders[q[i]]) <= OpeningPriority(b.orders[q[j]])
<1> DEFINE p == b.pending
           Order(i) == b.orders[b.pending[i]]
           Slots(i) == {j \in DOMAIN b.pending : Order(j).role \in Legs /\ Order(j).lead = Order(i).lead}
           Before(i, j) == \/ OpeningPriority(Order(i)) < OpeningPriority(Order(j))
                           \/ OpeningPriority(Order(i)) = OpeningPriority(Order(j)) /\ i < j
           Of(i) == CHOOSE j \in Slots(i) : Cardinality({k \in Slots(i) : Before(k, j)})
                                            = Cardinality({k \in Slots(i) : k < i})
           Rank(j) == Cardinality({k \in DOMAIN p : Before(k, j)})
           q == [i \in DOMAIN p |-> IF Order(i).role \in Legs THEN p[Of(i)] ELSE p[i]]
<1>1. p \in Seq(Nat)
  BY DEF Brokers
<1>2. \A i \in DOMAIN p : p[i] \in ToSet(p)
  BY <1>1 DEF ToSet
<1>3. \A i \in DOMAIN p : Order(i).role \in Legs /\ Order(i).lead = g
  BY <1>2
<1>4. Prioritized(b) = [b EXCEPT !.pending = q]
  BY SMTT(30) DEF Prioritized
<1>5. \A i \in DOMAIN p : Slots(i) = DOMAIN p
  BY <1>3
<1>6. \A i, j : Before(i, j) <=> \/ OpeningPriority(Order(i)) < OpeningPriority(Order(j))
                                 \/ OpeningPriority(Order(i)) = OpeningPriority(Order(j)) /\ i < j
  OBVIOUS
<1>7. \A i : OpeningPriority(Order(i)) \in {0, 1, 2}
  BY PriorityType, ZenonT(40)
<1>9. \A i \in DOMAIN p : Of(i) = CHOOSE j \in DOMAIN p : Rank(j) = Cardinality({k \in DOMAIN p : k < i})
  BY <1>5, ZenonT(40)
<1>8. \A i \in DOMAIN p : q[i] = p[Of(i)]
  <2> HIDE DEF Of, Before, Slots, Rank
  <2> QED BY <1>3
<1>10. DOMAIN q = DOMAIN p
  OBVIOUS
<1>11. \A i : Order(i) = b.orders[p[i]]
  OBVIOUS
<1>12. Len(p) \in {0, 1, 2} /\ DOMAIN p = 1..Len(p)
  BY <1>1, ShortQueue
<1>13. Cardinality({}) = 0 /\ Cardinality({1}) = 1 /\ Cardinality({2}) = 1
  BY FS_EmptySet, FS_Singleton
<1>20. \A j : Rank(j) = Cardinality({k \in DOMAIN p : Before(k, j)})
  OBVIOUS
<1> HIDE DEF p, q, Of, Before, Slots, Order, Rank
<1>17. \A i, j \in DOMAIN p : p[i] = p[j] => i = j
  BY DEF p, IsInjective
<1>18. \A i \in DOMAIN p : p[i] \in Nat
  BY <1>1
<1>19. SUFFICES /\ q \in Seq(Nat)
                /\ ToSet(q) = ToSet(p) /\ IsInjective(q)
                /\ \A i, j \in DOMAIN q :
                     i < j => OpeningPriority(b.orders[q[i]]) <= OpeningPriority(b.orders[q[j]])
  BY <1>4 DEF p
<1>14. CASE Len(p) = 0
  <2>1. DOMAIN p = {} /\ p = << >>
    BY <1>1, <1>12, <1>14
  <2>2. q = p
    BY <1>10, <2>1
  <2> QED BY <1>1, <2>1, <2>2 DEF IsInjective
<1>15. CASE Len(p) = 1
  <2>1. DOMAIN p = {1}
    BY <1>12, <1>15
  <2>2. ~Before(1, 1)
    BY <1>6, <1>7
  <2>3. {k \in {1} : Before(k, 1)} = {} /\ {k \in {1} : k < 1} = {}
    BY <2>2
  <2>4. Of(1) \in {1}
    BY <1>9, <1>13, <1>20, <2>1, <2>3
  <2>5. q[1] = p[1]
    BY <1>8, <2>1, <2>4
  <2>7. p = [i \in {1} |-> p[i]] /\ q = [i \in {1} |-> q[i]]
    BY <1>1, <1>10, <2>1 DEF q
  <2>6. q = p
    BY <2>5, <2>7
  <2> QED BY <1>1, <2>1, <2>6 DEF IsInjective
<1>16. CASE Len(p) = 2
  <2>1. DOMAIN p = {1, 2}
    BY <1>12, <1>16
  <2>2. {k \in {1, 2} : k < 1} = {} /\ {k \in {1, 2} : k < 2} = {1}
    OBVIOUS
  <2>3. ~Before(1, 1) /\ ~Before(2, 2)
    BY <1>6, <1>7
  <2>6. /\ Of(1) = CHOOSE j \in {1, 2} : Rank(j) = 0
        /\ Of(2) = CHOOSE j \in {1, 2} : Rank(j) = 1
    <3>1. /\ Of(1) = CHOOSE j \in {1, 2} : Rank(j) = Cardinality({k \in {1, 2} : k < 1})
          /\ Of(2) = CHOOSE j \in {1, 2} : Rank(j) = Cardinality({k \in {1, 2} : k < 2})
      BY <1>9, <2>1
    <3> QED BY <1>13, <2>2, <3>1, ZenonT(40)
  <2>4. CASE OpeningPriority(Order(1)) <= OpeningPriority(Order(2))
    <3>1. Before(1, 2) /\ ~Before(2, 1)
      BY <1>6, <1>7, <2>4
    <3>2. {k \in {1, 2} : Before(k, 1)} = {} /\ {k \in {1, 2} : Before(k, 2)} = {1}
      BY <2>3, <3>1
    <3>6. Rank(1) = 0 /\ Rank(2) = 1
      BY <1>13, <1>20, <2>1, <3>2
    <3>3. Of(1) = 1 /\ Of(2) = 2
      BY <2>6, <3>6
    <3>4. q[1] = p[1] /\ q[2] = p[2]
      BY <1>8, <2>1, <3>3
    <3>7. p = [i \in {1, 2} |-> p[i]] /\ q = [i \in {1, 2} |-> q[i]]
      BY <1>1, <1>10, <2>1 DEF q
    <3>5. q = p
      BY <3>4, <3>7
    <3> QED BY <1>1, <1>7, <1>11, <1>17, <2>1, <2>4, <3>5 DEF IsInjective
  <2>5. CASE OpeningPriority(Order(2)) < OpeningPriority(Order(1))
    <3>1. Before(2, 1) /\ ~Before(1, 2)
      BY <1>6, <1>7, <2>5
    <3>2. {k \in {1, 2} : Before(k, 2)} = {} /\ {k \in {1, 2} : Before(k, 1)} = {2}
      BY <2>3, <3>1
    <3>6. Rank(1) = 1 /\ Rank(2) = 0
      BY <1>13, <1>20, <2>1, <3>2
    <3>3. Of(1) = 2 /\ Of(2) = 1
      BY <2>6, <3>6
    <3>4. q[1] = p[2] /\ q[2] = p[1]
      BY <1>8, <2>1, <3>3
    <3>5. q \in [1..2 -> Nat]
      BY <1>10, <1>12, <1>16, <1>18, <2>1, <3>4 DEF q
    <3>7. q \in Seq(Nat)
      BY <3>5, IsSequence
    <3>8. ToSet(q) = ToSet(p)
      BY <1>10, <2>1, <3>4 DEF ToSet
    <3>9. IsInjective(q)
      BY <1>10, <1>17, <2>1, <3>4 DEF IsInjective
    <3>10. \A i, j \in DOMAIN q : i < j => i = 1 /\ j = 2
      BY <1>10, <2>1
    <3>11. OpeningPriority(b.orders[q[1]]) <= OpeningPriority(b.orders[q[2]])
      BY <1>7, <1>11, <2>5, <3>4
    <3> QED BY <3>7, <3>8, <3>9, <3>10, <3>11
  <2> QED BY <1>7, <2>4, <2>5
<1> QED BY <1>12, <1>14, <1>15, <1>16

(* ---- Broker and adapter ------------------------------------------------- *)

\* Finitely many numbers have a bound.
LEMMA FiniteSetsAreBounded ==
  ASSUME NEW T \in SUBSET Nat, IsFiniteSet(T)
  PROVE  \E n \in Nat : T \subseteq 0..n
<1> DEFINE K == {k \in Nat : \A U \in SUBSET Nat :
                    IsFiniteSet(U) /\ Cardinality(U) = k => \E n \in Nat : U \subseteq 0..n}
<1>1. 0 \in K
  <2> SUFFICES ASSUME NEW U \in SUBSET Nat, IsFiniteSet(U), Cardinality(U) = 0
               PROVE  \E n \in Nat : U \subseteq 0..n
    OBVIOUS
  <2>1. U = {}
    BY FS_EmptySet
  <2> QED BY <2>1
<1>2. ASSUME NEW k \in K PROVE k + 1 \in K
  <2> SUFFICES ASSUME NEW U \in SUBSET Nat, IsFiniteSet(U), Cardinality(U) = k + 1
               PROVE  \E n \in Nat : U \subseteq 0..n
    OBVIOUS
  <2>1. U # {}
    BY FS_EmptySet
  <2>2. PICK x \in U : TRUE
    BY <2>1
  <2>3. IsFiniteSet(U \ {x}) /\ Cardinality(U \ {x}) = k
    <3>1. k \in Nat /\ (k + 1) - 1 = k
      OBVIOUS
    <3> QED BY <3>1, FS_RemoveElement
  <2>4. PICK n \in Nat : U \ {x} \subseteq 0..n
    BY <2>3
  <2>5. PICK m \in Nat : n <= m /\ x <= m
    BY x \in Nat
  <2>6. U \subseteq 0..m
    BY <2>4, <2>5
  <2> QED BY <2>6
<1>3. K = Nat
  <2> HIDE DEF K
  <2>1. K \in SUBSET Nat BY DEF K
  <2> QED BY <1>1, <1>2, <2>1, SetInduction
<1>4. Cardinality(T) \in K
  <2> HIDE DEF K
  <2> QED BY <1>3, FS_CardinalityType
<1> QED BY <1>4

\* There is a largest quantity.
LEMMA LargestQuantity ==
  LET m == Max({setup.qty : setup \in Setups})
  IN m \in Nat /\ \A setup \in Setups : setup.qty \in 0..m
<1> DEFINE T == {setup.qty : setup \in Setups}
<1>1. T \in SUBSET Nat /\ T # {}
  BY AdapterAssumption DEF SetupRecords
<1>2. IsFiniteSet(T)
  <2> DEFINE f == [setup \in Setups |-> setup.qty]
  <2>1. f \in Surjection(Setups, T)
    BY DEF Surjection
  <2> HIDE DEF f, T
  <2> QED BY <2>1, AdapterAssumption, FS_Surjection
<1> HIDE DEF T
<1>3. PICK n \in Nat : T \subseteq 0..n
  BY <1>1, <1>2, FiniteSetsAreBounded
<1>4. \E g \in T : \A k \in T : g >= k
  <2>1. PICK g \in T : \A k \in T : k <= g
    BY <1>1, <1>3, GreatestElement
  <2> QED BY <1>1, <2>1
<1>5. Max(T) \in T /\ \A k \in T : Max(T) >= k
  BY <1>4 DEF Max
<1>6. Max(T) \in Nat /\ \A k \in T : k \in 0..Max(T)
  <2>1. T \subseteq Nat
    BY <1>1
  <2>2. Max(T) \in Nat
    BY <2>1, <1>5
  <2> QED BY <2>1, <2>2, <1>5
<1>7. \A setup \in Setups : setup.qty \in T
  BY DEF T
<1> QED BY <1>6, <1>7 DEF T

\* Every setup's quantity is one of the quantities.
LEMMA QuantitiesType ==
  /\ Quantities \subseteq Nat /\ 0 \in Quantities
  /\ \A setup \in Setups : setup.qty \in Quantities
BY LargestQuantity DEF Quantities

\* What placing and canceling orders leaves alone.
Aside(d, b) ==
  /\ d.size = b.size /\ d.dir = b.dir /\ d.fillTrade = b.fillTrade /\ d.fills = b.fills
  /\ d.trades = b.trades /\ d.setup = b.setup /\ d.trade = b.trade /\ d.tradeId = b.tradeId
  /\ d.held = b.held /\ d.policy = b.policy /\ d.cancelled = b.cancelled /\ d.entry = b.entry

\* What Submit is called with, when no order waits for the check of its cash.
Placeable(b, role, sign, qty, price, lead, setup) ==
  /\ b \in Brokers /\ Queues(b) /\ b.submitted = << >> /\ now \in Nat
  /\ role \in Roles /\ sign \in {1, -1} /\ qty \in Quantities /\ price \in Int \cup {None}
  /\ setup \in SetupRecords \cup {None}
  /\ lead = NoOrder \/ (lead \in DOMAIN b.orders /\ b.orders[lead].lead \in b.groups)

\* The new order waits, in a group of its own or of its lead.
Placed(b, d, role, sign, qty, price, lead, setup) ==
  LET r == Len(b.orders) + 1
      g == IF lead = NoOrder THEN r ELSE b.orders[lead].lead
      o == d.orders[r]
  IN /\ d \in Brokers /\ Queues(d) /\ Aside(d, b)
     /\ d.news = b.news /\ d.stop = b.stop /\ d.tp = b.tp
     /\ d.groups = b.groups \cup {g} /\ d.done = b.done
     /\ r \in Nat \ {0} /\ r \notin DOMAIN b.orders
     /\ Newest(d) = r /\ DOMAIN d.orders = DOMAIN b.orders \cup {r}
     /\ \A q \in DOMAIN b.orders : d.orders[q] = b.orders[q]
     /\ o.role = role /\ o.sign = sign /\ o.left = qty /\ o.filled = 0 /\ o.price = price
     /\ o.lead = g /\ o.setup = setup /\ ~o.guarded
     /\ Waiting(d) = Waiting(b) \cup {r}
     /\ Sentinel \in ToSet(d.pending) <=> Sentinel \in ToSet(b.pending)
     /\ role # "entry" => d.submitted = << >> /\ d.pending = Append(b.pending, r)

\* submit queues one new order, in a group of its own or of its lead.
LEMMA Submits ==
  ASSUME NEW b, NEW role, NEW sign, NEW qty, NEW price, NEW lead, NEW setup,
         Placeable(b, role, sign, qty, price, lead, setup)
  PROVE  Placed(b, Submit(b, role, sign, qty, price, lead, setup), role, sign, qty, price, lead, setup)
<1>20. /\ b \in Brokers /\ Queues(b) /\ b.submitted = << >> /\ now \in Nat
       /\ role \in Roles /\ sign \in {1, -1} /\ qty \in Quantities /\ price \in Int \cup {None}
       /\ setup \in SetupRecords \cup {None}
       /\ lead = NoOrder \/ (lead \in DOMAIN b.orders /\ b.orders[lead].lead \in b.groups)
  BY DEF Placeable
<1>21. PICK r : r = Len(b.orders) + 1
  OBVIOUS
<1>22. PICK g : g = IF lead = NoOrder THEN r ELSE b.orders[lead].lead
  OBVIOUS
<1>23. PICK d : d = Submit(b, role, sign, qty, price, lead, setup)
  OBVIOUS
<1> USE <1>20, <1>21, <1>22, <1>23
<1> DEFINE checked == role = "entry" /\ ChecksCash
           o == [role |-> role, sign |-> sign, status |-> IF checked THEN "submitted" ELSE "accepted",
                 left |-> qty, filled |-> 0, cost |-> 0, price |-> price, lead |-> g, born |-> now,
                 setup |-> setup, guarded |-> FALSE, matched |-> 0, trade |-> b.tradeId]
           P == IF checked THEN b.pending ELSE Append(b.pending, r)
           T == IF checked THEN Append(b.submitted, r) ELSE b.submitted
<1>1. d = [b EXCEPT !.orders = Append(b.orders, o), !.pending = P, !.submitted = T, !.groups = b.groups \cup {g}]
  BY DEF Submit
<1>2. /\ b.orders \in Seq(OrderRecords) /\ b.pending \in Seq(Nat) /\ b.groups \in SUBSET Nat
      /\ b.submitted \in Seq(Nat) /\ b.tradeId \in Nat
  BY DEF Brokers
<1>3. r \in Nat \ {0} /\ DOMAIN b.orders = 1..Len(b.orders) /\ Len(b.orders) \in Nat
      /\ r \notin DOMAIN b.orders
  BY <1>2
<1>4. g \in Nat /\ (g = r \/ g \in b.groups)
  BY <1>2, <1>3 DEF NoOrder
<1>5. o \in OrderRecords
  <2>1. qty \in Quantities /\ 0 \in Quantities
    BY QuantitiesType
  <2>2. o.status \in Statuses
    BY DEF Statuses
  <2> QED BY <1>2, <1>4, <2>1, <2>2 DEF OrderRecords
<1>6. /\ o.role = role /\ o.sign = sign /\ o.left = qty /\ o.filled = 0 /\ o.price = price
      /\ o.lead = g /\ o.setup = setup /\ ~o.guarded /\ o.status \in {"submitted", "accepted"}
  OBVIOUS
<1> HIDE DEF o
<1>7. PICK O : O = Append(b.orders, o)
  OBVIOUS
<1>8. /\ O \in Seq(OrderRecords) /\ DOMAIN O = DOMAIN b.orders \cup {r} /\ O[r] = o /\ Len(O) = r
      /\ \A q \in DOMAIN b.orders : O[q] = b.orders[q]
  BY <1>2, <1>3, <1>5, <1>7
<1>9. /\ P \in Seq(Nat) /\ T \in Seq(Nat)
      /\ ToSet(P) \cup ToSet(T) = ToSet(b.pending) \cup ToSet(b.submitted) \cup {r}
      /\ Sentinel \in ToSet(P) <=> Sentinel \in ToSet(b.pending)
  <2>1. /\ Append(b.pending, r) \in Seq(Nat) /\ ToSet(Append(b.pending, r)) = ToSet(b.pending) \cup {r}
        /\ Append(b.submitted, r) \in Seq(Nat) /\ ToSet(Append(b.submitted, r)) = ToSet(b.submitted) \cup {r}
    <3>1. Append(b.pending, r) \in Seq(Nat) /\ ToSet(Append(b.pending, r)) = ToSet(b.pending) \cup {r}
      <4>1. b.pending \in Seq(Nat) /\ r \in Nat
        BY <1>2, <1>3
      <4> QED BY <4>1, AppendQueue
    <3>2. Append(b.submitted, r) \in Seq(Nat) /\ ToSet(Append(b.submitted, r)) = ToSet(b.submitted) \cup {r}
      <4>1. r \in Nat
        BY <1>3
      <4>2. Append(<< >>, r) = << r >>
        OBVIOUS
      <4>3. << r >> \in Seq(Nat) /\ ToSet(<< r >>) = {r} /\ ToSet(<< >>) = {}
        BY <4>1 DEF ToSet
      <4> QED BY <4>2, <4>3
    <3> QED BY <3>1, <3>2
  <2>2. r # Sentinel
    BY <1>3 DEF Sentinel
  <2> HIDE DEF checked
  <2>3. CASE checked
    BY <1>2, <2>1, <2>2, <2>3
  <2>4. CASE ~checked
    BY <1>2, <2>1, <2>2, <2>4
  <2> QED BY <2>3, <2>4
<1>14. ToSet(<< >>) = {}
  BY DEF ToSet
<1>10. /\ IsInjective(P) /\ Len(T) <= 1 /\ ToSet(T) \cap ToSet(P) = {}
       /\ \A q \in ToSet(T) : q = r /\ role = "entry"
  <2>1. IsInjective(b.pending) /\ InQueue(b) \subseteq DOMAIN b.orders
    BY DEF Queues, Waiting
  <2>2. r \notin ToSet(b.pending)
    BY <1>3, <2>1 DEF InQueue, Sentinel
  <2>3. CASE checked
    <3>1. T = << r >> /\ P = b.pending /\ role = "entry"
      BY <2>3
    <3>2. ToSet(T) = {r} /\ Len(T) = 1
      BY <3>1 DEF ToSet
    <3> QED BY <2>1, <2>2, <3>1, <3>2
  <2>4. CASE ~checked
    <3>1. T = << >> /\ P = Append(b.pending, r)
      BY <2>4
    <3>2. IsInjective(P)
      BY <1>2, <1>3, <2>1, <2>2, <3>1, AppendQueue
    <3> QED BY <1>14, <3>1, <3>2
  <2> QED BY <2>3, <2>4
<1>11. role # "entry" => T = << >> /\ P = Append(b.pending, r)
  OBVIOUS
<1> HIDE DEF P, T, checked
<1>12. /\ d = [b EXCEPT !.orders = O, !.pending = P, !.submitted = T, !.groups = b.groups \cup {g}]
       /\ d.orders = O /\ d.pending = P /\ d.submitted = T /\ d.groups = b.groups \cup {g}
  BY <1>1, <1>7 DEF Brokers
<1>13. d \in Brokers
  <2>1. b.groups \cup {g} \in SUBSET Nat
    BY <1>2, <1>4
  <2>2. O \in Seq(OrderRecords) /\ P \in Seq(Nat) /\ T \in Seq(Nat)
    BY <1>8, <1>9
  <2>3. [b EXCEPT !.orders = O, !.pending = P, !.submitted = T, !.groups = b.groups \cup {g}] \in Brokers
    BY <2>1, <2>2, ZenonT(150) DEF Brokers
  <2> QED BY <1>12, <2>3, Zenon
<1>15. Waiting(d) = Waiting(b) \cup {r}
  <2>1. r # Sentinel
    BY <1>3 DEF Sentinel
  <2>2. Sentinel \notin ToSet(b.submitted) /\ Sentinel \notin ToSet(T)
    <3>1. ToSet(b.submitted) = {}
      BY <1>14
    <3> QED BY <1>10, <2>1, <3>1
  <2> QED BY <1>9, <1>12, <2>1, <2>2 DEF Waiting, InQueue
<1>16. Queues(d)
  <2>1. d.done = b.done /\ d.entry = b.entry /\ d.stop = b.stop /\ d.tp = b.tp /\ d.cancelled = b.cancelled
    BY <1>1 DEF Brokers
  <2>2. Waiting(d) \subseteq DOMAIN d.orders
    BY <1>8, <1>12, <1>15 DEF Queues
  <2>3. {d.entry, d.stop, d.tp, d.cancelled} \subseteq DOMAIN d.orders \cup {NoOrder}
    BY <1>8, <1>12, <2>1 DEF Queues
  <2>4. \A q \in DOMAIN d.orders : Live(d, q) <=> q \in Waiting(d)
    <3> TAKE q \in DOMAIN d.orders
    <3>1. CASE q = r
      BY <1>3, <1>6, <1>8, <1>12, <1>15, <3>1 DEF Live, NoOrder
    <3>2. CASE q # r
      <4>1. q \in DOMAIN b.orders /\ d.orders[q] = b.orders[q]
        BY <1>8, <1>12, <3>2
      <4> QED BY <1>15, <3>2, <4>1 DEF Live, Queues
    <3> QED BY <3>1, <3>2
  <2>5. \A q \in ToSet(d.submitted) : d.orders[q].role = "entry"
    BY <1>6, <1>8, <1>10, <1>12
  <2>6. d.groups \cup d.done \subseteq DOMAIN d.orders
    BY <1>4, <1>8, <1>12, <2>1 DEF Queues
  <2>7. d.groups \cap d.done = {}
    <3>1. g \in b.groups \/ g \notin DOMAIN b.orders
      BY <1>3, <1>4
    <3> QED BY <1>12, <2>1, <3>1 DEF Queues
  <2> QED BY <1>10, <1>12, <2>2, <2>3, <2>4, <2>5, <2>6, <2>7 DEF Queues
<1>17. Newest(d) = r
  BY <1>8, <1>12 DEF Newest
<1>18. /\ Aside(d, b) /\ d.news = b.news /\ d.stop = b.stop /\ d.tp = b.tp /\ d.done = b.done
  <2> QED BY <1>12 DEF Aside, Brokers
<1>19. /\ d \in Brokers /\ Queues(d) /\ Aside(d, b)
       /\ d.news = b.news /\ d.stop = b.stop /\ d.tp = b.tp
       /\ d.groups = b.groups \cup {g} /\ d.done = b.done
       /\ r \in Nat \ {0} /\ r \notin DOMAIN b.orders
       /\ Newest(d) = r /\ DOMAIN d.orders = DOMAIN b.orders \cup {r}
       /\ \A q \in DOMAIN b.orders : d.orders[q] = b.orders[q]
       /\ LET w == d.orders[r]
          IN /\ w.role = role /\ w.sign = sign /\ w.left = qty /\ w.filled = 0 /\ w.price = price
             /\ w.lead = g /\ w.setup = setup /\ ~w.guarded
       /\ Waiting(d) = Waiting(b) \cup {r}
       /\ Sentinel \in ToSet(d.pending) <=> Sentinel \in ToSet(b.pending)
       /\ role # "entry" => d.submitted = << >> /\ d.pending = Append(b.pending, r)
  BY <1>3, <1>6, <1>8, <1>9, <1>11, <1>12, <1>13, <1>15, <1>16, <1>17, <1>18
<1> QED
  <2> HIDE <1>20, <1>23
  <2>1. Placed(b, d, role, sign, qty, price, lead, setup)
    BY <1>19, <1>21, <1>22 DEF Placed
  <2> QED BY <1>23, <2>1, Zenon

\* An empty queue has no entries.
LEMMA NoEntries ==
  /\ ToSet(<< >>) = {} /\ IsInjective(<< >>)
  /\ \A S : \A q \in Seq(S) : ToSet(q) = {} => q = << >>
<1>1. ToSet(<< >>) = {} /\ IsInjective(<< >>)
  BY DEF ToSet, IsInjective
<1>2. ASSUME NEW S, NEW q \in Seq(S), ToSet(q) = {} PROVE q = << >>
  <2>1. DOMAIN q = 1..Len(q) /\ Len(q) \in Nat
    OBVIOUS
  <2>2. \A i \in DOMAIN q : q[i] \in ToSet(q)
    BY DEF ToSet
  <2>3. Len(q) = 0
    <3>1. SUFFICES ASSUME Len(q) # 0 PROVE FALSE
      OBVIOUS
    <3>2. 1 \in DOMAIN q
      BY <2>1, <3>1
    <3> QED BY <1>2, <2>2, <3>2
  <2> QED BY <2>3
<1> QED BY <1>1, <1>2

\* The queued orders are those of the queue; nothing is submitted where nothing waits.
LEMMA NothingWaits ==
  ASSUME NEW b \in Brokers, Waiting(b) = {}
  PROVE  b.submitted = << >> /\ ToSet(b.pending) \subseteq {Sentinel}
<1>1. b.submitted \in Seq(Nat) /\ ToSet(b.submitted) = {}
  BY DEF Brokers, Waiting
<1> QED BY <1>1, NoEntries DEF Waiting, InQueue

\* _place_bracket, of a position without orders: the stop leads the group.
Bare(b, dir, qty, stop, target) ==
  /\ b \in Brokers /\ Queues(b) /\ Waiting(b) = {} /\ dir \in {1, -1}
  /\ qty \in Quantities /\ qty > 0 /\ stop \in Int /\ target \in Int \cup {None} /\ now \in Nat

Bracketed(d, b, dir, qty, target) ==
  /\ d \in Brokers /\ Queues(d) /\ Aside(d, b) /\ d.news = b.news
  /\ d.stop # NoOrder /\ d.tp # d.stop /\ Waiting(d) = {d.stop, d.tp} \ {NoOrder}
  /\ d.tp # NoOrder <=> target # None
  /\ \A r \in Waiting(d) :
       LET o == d.orders[r]
       IN /\ o.role = (IF r = d.stop THEN "stop_loss" ELSE "take_profit")
          /\ o.left = qty /\ o.filled = 0 /\ o.sign = -dir /\ o.price \in Int
          /\ o.lead = d.stop /\ o.lead \in d.groups
  /\ Sentinel \in ToSet(d.pending) <=> Sentinel \in ToSet(b.pending)

\* _place_bracket protects a bare position.
LEMMA Brackets ==
  ASSUME NEW b, NEW dir, NEW qty, NEW stop, NEW target, Bare(b, dir, qty, stop, target)
  PROVE  Bracketed(PlaceBracket(b, dir, qty, stop, target), b, dir, qty, target)
<1>9. /\ b \in Brokers /\ Queues(b) /\ Waiting(b) = {} /\ dir \in {1, -1}
      /\ qty \in Quantities /\ qty > 0 /\ stop \in Int /\ target \in Int \cup {None} /\ now \in Nat
  BY DEF Bare
<1>10. PICK d : d = PlaceBracket(b, dir, qty, stop, target)
  OBVIOUS
<1>11. SUFFICES Bracketed(d, b, dir, qty, target)
  BY <1>10
<1> USE <1>9, <1>10
<1>8. PICK r : r = Len(b.orders) + 1
  OBVIOUS
<1>1. /\ "stop_loss" \in Roles /\ "take_profit" \in Roles /\ -dir \in {1, -1}
      /\ "stop_loss" # "entry" /\ "take_profit" # "entry"
      /\ None \in SetupRecords \cup {None} /\ stop \in Int \cup {None} /\ NoOrder \in {NoOrder} \cup DOMAIN b.orders
  BY DEF Roles, Legs
<1>2. b.submitted = << >>
  BY NothingWaits
<1>3. PICK c : c = Submit(b, "stop_loss", -dir, qty, stop, NoOrder, None)
  OBVIOUS
<1>5. /\ c \in Brokers /\ Queues(c) /\ Aside(c, b) /\ c.news = b.news
      /\ c.groups = b.groups \cup {r} /\ c.done = b.done
      /\ r \in Nat \ {0} /\ r \notin DOMAIN b.orders
      /\ Newest(c) = r /\ DOMAIN c.orders = DOMAIN b.orders \cup {r}
      /\ \A q \in DOMAIN b.orders : c.orders[q] = b.orders[q]
      /\ LET o == c.orders[r]
         IN /\ o.role = "stop_loss" /\ o.sign = -dir /\ o.left = qty /\ o.filled = 0 /\ o.price = stop
            /\ o.lead = r
      /\ Waiting(c) = Waiting(b) \cup {r}
      /\ Sentinel \in ToSet(c.pending) <=> Sentinel \in ToSet(b.pending)
      /\ c.submitted = << >>
  <2>1. Placeable(b, "stop_loss", -dir, qty, stop, NoOrder, None)
    BY <1>1, <1>2 DEF Placeable
  <2>2. Placed(b, c, "stop_loss", -dir, qty, stop, NoOrder, None)
    BY <1>3, <2>1, Submits, Zenon
  <2> QED BY <1>1, <1>8, <2>2 DEF Placed
<1>6. CASE target = None
  <2>1. d = [c EXCEPT !.stop = r, !.tp = NoOrder]
    BY <1>3, <1>5, <1>6 DEF PlaceBracket
  <2>7. d \in Brokers
    <3>1. c \in Brokers /\ r \in Nat /\ NoOrder \in Nat
      BY <1>5 DEF NoOrder
    <3>2. [c EXCEPT !.stop = r, !.tp = NoOrder] \in Brokers
      BY <3>1, ZenonT(60) DEF Brokers
    <3> QED BY <2>1, <3>2, Zenon
  <2>2. /\ d.stop = r /\ d.tp = NoOrder
        /\ d.orders = c.orders /\ d.pending = c.pending /\ d.groups = c.groups
        /\ d.submitted = c.submitted /\ d.done = c.done /\ d.entry = c.entry /\ d.cancelled = c.cancelled
        /\ d.news = c.news
    BY <1>5, <2>1 DEF Brokers, NoOrder
  <2>3. Aside(d, c)
    BY <1>5, <2>1 DEF Brokers, Aside
  <2>4. Waiting(d) = {r}
    BY <1>5, <2>2 DEF Waiting, InQueue
  <2>5. Queues(d)
    BY <1>5, <2>2, <2>4 DEF Queues, Live
  <2>6. Aside(d, b)
    BY <1>5, <2>3 DEF Aside
  <2> QED BY <1>5, <1>6, <2>2, <2>4, <2>5, <2>6, <2>7 DEF NoOrder, Bracketed
<1>7. CASE target # None
  <2>11. PICK t : t = Len(c.orders) + 1
    OBVIOUS
  <2>1. PICK e : e = Submit(c, "take_profit", -dir, qty, target, r, None)
    OBVIOUS
  <2>2. /\ r \in {NoOrder} \cup DOMAIN c.orders /\ c.orders[r].lead = r /\ r \in c.groups /\ r # NoOrder
        /\ target \in Int /\ target \in Int \cup {None}
    BY <1>5, <1>7 DEF NoOrder
  <2>3. /\ e \in Brokers /\ Queues(e) /\ Aside(e, c) /\ e.news = c.news
        /\ e.groups = c.groups \cup {r} /\ e.done = c.done
        /\ t \in Nat \ {0} /\ t \notin DOMAIN c.orders
        /\ Newest(e) = t /\ DOMAIN e.orders = DOMAIN c.orders \cup {t}
        /\ \A q \in DOMAIN c.orders : e.orders[q] = c.orders[q]
        /\ LET o == e.orders[t]
           IN /\ o.role = "take_profit" /\ o.sign = -dir /\ o.left = qty /\ o.filled = 0 /\ o.price = target
              /\ o.lead = r
        /\ Waiting(e) = Waiting(c) \cup {t}
        /\ Sentinel \in ToSet(e.pending) <=> Sentinel \in ToSet(c.pending)
    <3>1. Placeable(c, "take_profit", -dir, qty, target, r, None)
      BY <1>1, <1>5, <2>2 DEF Placeable
    <3>2. Placed(c, e, "take_profit", -dir, qty, target, r, None)
      BY <2>1, <3>1, Submits, Zenon
    <3> QED BY <2>2, <2>11, <3>2 DEF Placed
  <2>4. d = [e EXCEPT !.stop = r, !.tp = t]
    BY <1>3, <1>5, <1>7, <2>1, <2>3 DEF PlaceBracket
  <2>10. d \in Brokers
    <3>1. e \in Brokers /\ r \in Nat /\ t \in Nat
      BY <1>5, <2>3
    <3>2. [e EXCEPT !.stop = r, !.tp = t] \in Brokers
      BY <3>1, ZenonT(60) DEF Brokers
    <3> QED BY <2>4, <3>2, Zenon
  <2>5. /\ d.stop = r /\ d.tp = t
        /\ d.orders = e.orders /\ d.pending = e.pending /\ d.groups = e.groups
        /\ d.submitted = e.submitted /\ d.done = e.done /\ d.entry = e.entry /\ d.cancelled = e.cancelled
        /\ d.news = e.news
    BY <1>5, <2>3, <2>4 DEF Brokers
  <2>6. Aside(d, e)
    BY <2>3, <2>4 DEF Brokers, Aside
  <2>7. Waiting(d) = {r, t}
    BY <1>5, <2>3, <2>5 DEF Waiting, InQueue
  <2>8. Queues(d)
    BY <1>5, <2>3, <2>5, <2>7 DEF Queues, Live
  <2>9. Aside(d, b)
    BY <1>5, <2>3, <2>6 DEF Aside
  <2> QED BY <1>5, <1>7, <2>2, <2>3, <2>5, <2>7, <2>8, <2>9, <2>10 DEF NoOrder, Bracketed
<1> QED BY <1>6, <1>7

\* An order was taken out of the queues, by the loop or to be canceled.
Taken(c, b, r) ==
  /\ c \in Brokers /\ Aside(c, b) /\ c.news = b.news /\ c.stop = b.stop /\ c.tp = b.tp
  /\ c.orders = b.orders /\ c.groups = b.groups /\ c.done = b.done
  /\ c.submitted = << >> /\ IsInjective(c.pending) /\ Waiting(c) = Waiting(b) \ {r}
  /\ Sentinel \in ToSet(c.pending) <=> Sentinel \in ToSet(b.pending)

\* The loop takes the head of the queue.
LEMMA TakesHead ==
  ASSUME NEW b \in Brokers, Queues(b), b.submitted = << >>, ToSet(b.pending) # {},
         Head(b.pending) # Sentinel
  PROVE  /\ Head(b.pending) \in Waiting(b)
         /\ Taken([b EXCEPT !.pending = Tail(@)], b, Head(b.pending))
<1> DEFINE r == Head(b.pending)
<1>1. b.pending \in Seq(Nat)
  BY DEF Brokers
<1>2. /\ r \in Nat /\ Tail(b.pending) \in Seq(Nat) /\ ToSet(b.pending) = ToSet(Tail(b.pending)) \cup {r}
      /\ IsInjective(Tail(b.pending)) /\ r \notin ToSet(Tail(b.pending))
  BY <1>1, HeadQueue DEF Queues
<1> HIDE DEF r
<1>3. PICK c : c = [b EXCEPT !.pending = Tail(@)]
  OBVIOUS
<1>4. c \in Brokers
  <2>1. [b EXCEPT !.pending = Tail(b.pending)] \in Brokers
    BY <1>2, ZenonT(30) DEF Brokers
  <2> QED BY <1>3, <2>1, Zenon
<1>5. /\ c.pending = Tail(b.pending) /\ c.submitted = b.submitted /\ c.orders = b.orders
      /\ c.news = b.news /\ c.stop = b.stop /\ c.tp = b.tp /\ c.groups = b.groups /\ c.done = b.done
      /\ Aside(c, b)
  BY <1>3 DEF Brokers, Aside
<1>6. r # Sentinel
  BY DEF r
<1>7. Waiting(c) = Waiting(b) \ {r} /\ r \in Waiting(b)
  BY <1>2, <1>5, <1>6, NoEntries DEF Waiting, InQueue
<1>8. Sentinel \in ToSet(c.pending) <=> Sentinel \in ToSet(b.pending)
  BY <1>2, <1>5, <1>6
<1>9. Taken(c, b, r)
  BY <1>2, <1>4, <1>5, <1>7, <1>8 DEF Taken
<1> QED BY <1>3, <1>7, <1>9 DEF r

\* check_submitted takes the only order it checks.
LEMMA TakesSubmitted ==
  ASSUME NEW b \in Brokers, Queues(b), b.submitted # << >>
  PROVE  /\ Head(b.submitted) \in Waiting(b) /\ Head(b.submitted) # Sentinel
         /\ Taken([b EXCEPT !.submitted = Tail(@)], b, Head(b.submitted))
<1> DEFINE r == Head(b.submitted)
<1>1. b.submitted \in Seq(Nat) /\ Len(b.submitted) <= 1 /\ b.orders \in Seq(OrderRecords)
  BY DEF Brokers, Queues
<1>2. Len(b.submitted) = 1 /\ Tail(b.submitted) = << >> /\ r = b.submitted[1]
  <2>1. PICK q : q = b.submitted
    OBVIOUS
  <2>2. q \in Seq(Nat) /\ q # << >> /\ Len(q) <= 1
    BY <1>1, <2>1
  <2>3. Len(q) = 1
    <3>1. PICK n \in Nat : n = Len(q)
      BY <2>2
    <3>2. n # 0
      BY <2>2, <3>1, EmptySeq
    <3>3. n <= 1
      BY <2>2, <3>1
    <3>4. n = 1
      BY <3>2, <3>3
    <3> QED BY <3>1, <3>4
  <2>4. PICK p : p = Tail(q)
    OBVIOUS
  <2>5. p \in Seq(Nat) /\ Len(p) = 0
    BY <2>2, <2>3, <2>4, HeadTailProperties
  <2>6. p = << >>
    BY <2>5
  <2>7. Head(q) = q[1]
    BY <2>2
  <2> QED BY <2>1, <2>3, <2>4, <2>6, <2>7
<1>3. ToSet(b.submitted) = {r}
  BY <1>1, <1>2 DEF ToSet
<1>4. r \in DOMAIN b.orders
  BY <1>3 DEF Queues, Waiting
<1>5. r # Sentinel
  BY <1>1, <1>4 DEF Sentinel
<1> HIDE DEF r
<1>6. PICK c : c = [b EXCEPT !.submitted = Tail(@)]
  OBVIOUS
<1>7. c \in Brokers
  <2>1. << >> \in Seq(Nat)
    OBVIOUS
  <2>2. [b EXCEPT !.submitted = << >>] \in Brokers
    BY <2>1, ZenonT(30) DEF Brokers
  <2> QED BY <1>2, <1>6, <2>2, Zenon
<1>8. /\ c.pending = b.pending /\ c.submitted = << >> /\ c.orders = b.orders
      /\ c.news = b.news /\ c.stop = b.stop /\ c.tp = b.tp /\ c.groups = b.groups /\ c.done = b.done
      /\ Aside(c, b)
  BY <1>2, <1>6 DEF Brokers, Aside
<1>9. Waiting(c) = Waiting(b) \ {r} /\ r \in Waiting(b)
  BY <1>3, <1>5, <1>8, NoEntries DEF Waiting, InQueue, Queues
<1>10. Taken(c, b, r)
  BY <1>7, <1>8, <1>9 DEF Taken, Queues
<1> QED BY <1>5, <1>6, <1>9, <1>10 DEF r

\* Cancel takes an order out of either queue.
LEMMA TakesAny ==
  ASSUME NEW b \in Brokers, Queues(b), NEW r, ToSet(b.submitted) \subseteq {r}, r # Sentinel
  PROVE  Taken([Unqueue(b, r) EXCEPT !.submitted = Without(@, {r})], b, r)
<1>1. PICK c : c = [Unqueue(b, r) EXCEPT !.submitted = Without(@, {r})]
  OBVIOUS
<1>2. PICK P : P = Without(b.pending, {r})
  OBVIOUS
<1>3. PICK T : T = Without(b.submitted, {r})
  OBVIOUS
<1>4. b.pending \in Seq(Nat) /\ b.submitted \in Seq(Nat) /\ IsInjective(b.pending)
  BY DEF Brokers, Queues
<1>5. P \in Seq(Nat) /\ ToSet(P) = ToSet(b.pending) \ {r} /\ IsInjective(P)
  BY <1>2, <1>4, WithoutKeeps
<1>6. T \in Seq(Nat) /\ ToSet(T) = ToSet(b.submitted) \ {r}
  BY <1>3, <1>4, WithoutKeeps
<1>7. T = << >>
  BY <1>6, NoEntries
<1>8. c = [[b EXCEPT !.pending = P] EXCEPT !.submitted = T]
  BY <1>1, <1>2, <1>3 DEF Unqueue, Brokers
<1>9. c \in Brokers
  <2>1. [b EXCEPT !.pending = P, !.submitted = T] \in Brokers
    BY <1>5, <1>6, ZenonT(30) DEF Brokers
  <2> QED BY <1>8, <2>1, Zenon
<1>10. /\ c.pending = P /\ c.submitted = T /\ c.orders = b.orders
       /\ c.news = b.news /\ c.stop = b.stop /\ c.tp = b.tp /\ c.groups = b.groups /\ c.done = b.done
       /\ Aside(c, b)
  BY <1>8 DEF Brokers, Aside
<1>11. Waiting(c) = Waiting(b) \ {r}
  BY <1>5, <1>6, <1>10 DEF Waiting, InQueue
<1>12. Taken(c, b, r)
  BY <1>5, <1>7, <1>9, <1>10, <1>11 DEF Taken
<1> QED BY <1>1, <1>12

\* An order ended without a fill.
EndedOf(e, b, r, status) ==
  /\ e \in Brokers /\ Queues(e) /\ Aside(e, b) /\ e.stop = b.stop /\ e.tp = b.tp
  /\ e.groups = b.groups /\ e.done = b.done
  /\ e.submitted = << >> /\ Waiting(e) = Waiting(b) \ {r}
  /\ Sentinel \in ToSet(e.pending) <=> Sentinel \in ToSet(b.pending)
  /\ DOMAIN e.orders = DOMAIN b.orders
  /\ \A q \in DOMAIN b.orders :
       e.orders[q] = IF q = r THEN [b.orders[q] EXCEPT !.status = status] ELSE b.orders[q]
  /\ e.news = IF b.orders[r].role # "entry" THEN b.news
              ELSE Append(b.news, [ref |-> r, status |-> status, filled |-> b.orders[r].filled,
                                   qty |-> 0, trades |-> << >>])

\* An order ends without a fill; the adapter will hear of it if it is an entry.
LEMMA Ends ==
  ASSUME NEW b \in Brokers, Queues(b), NEW r \in DOMAIN b.orders, NEW c, Taken(c, b, r),
         NEW status \in {"canceled", "margin"}
  PROVE  EndedOf(Ended(c, r, status), b, r, status)
<1>1. /\ c \in Brokers /\ Aside(c, b) /\ c.news = b.news /\ c.stop = b.stop /\ c.tp = b.tp
      /\ c.orders = b.orders /\ c.groups = b.groups /\ c.done = b.done
      /\ c.submitted = << >> /\ IsInjective(c.pending) /\ Waiting(c) = Waiting(b) \ {r}
      /\ Sentinel \in ToSet(c.pending) <=> Sentinel \in ToSet(b.pending)
  BY DEF Taken
<1>2. PICK e : e = Ended(c, r, status)
  OBVIOUS
<1>3. PICK w : w = [ref |-> r, status |-> status, filled |-> b.orders[r].filled, qty |-> 0, trades |-> << >>]
  OBVIOUS
<1>4. PICK N : N = IF b.orders[r].role = "entry" THEN Append(b.news, w) ELSE b.news
  OBVIOUS
<1>5. PICK O : O = [b.orders EXCEPT ![r].status = status]
  OBVIOUS
<1>6. /\ b.orders \in Seq(OrderRecords) /\ b.news \in Seq(NewsRecords) /\ r \in Nat \ {0}
      /\ b.orders[r] \in OrderRecords
  BY DEF Brokers
<1>7. status \in Statuses
  BY DEF Statuses
<1>8. O \in Seq(OrderRecords) /\ DOMAIN O = DOMAIN b.orders
      /\ \A q \in DOMAIN b.orders : O[q] = IF q = r THEN [b.orders[q] EXCEPT !.status = status] ELSE b.orders[q]
  <2>1. [b.orders[r] EXCEPT !.status = status] \in OrderRecords
    BY <1>6, <1>7 DEF OrderRecords
  <2>2. O = [b.orders EXCEPT ![r] = [b.orders[r] EXCEPT !.status = status]]
    BY <1>5
  <2> QED BY <1>6, <2>1, <2>2
<1>9. w \in NewsRecords
  BY <1>3, <1>6, <1>7, QuantitiesType DEF NewsRecords, OrderRecords
<1>10. N \in Seq(NewsRecords)
  BY <1>4, <1>6, <1>9
<1>11. e = [c EXCEPT !.orders = O, !.news = N]
  BY <1>1, <1>2, <1>3, <1>4, <1>5 DEF Ended
<1>12. e \in Brokers
  <2>1. [c EXCEPT !.orders = O, !.news = N] \in Brokers
    BY <1>1, <1>8, <1>10, ZenonT(30) DEF Brokers
  <2> QED BY <1>11, <2>1, Zenon
<1>13. /\ e.orders = O /\ e.news = N /\ e.pending = c.pending /\ e.submitted = << >>
       /\ e.groups = c.groups /\ e.done = c.done /\ e.stop = c.stop /\ e.tp = c.tp /\ Aside(e, c)
  BY <1>1, <1>11 DEF Brokers, Aside
<1>14. Aside(e, b)
  BY <1>1, <1>13 DEF Aside
<1>15. Waiting(e) = Waiting(b) \ {r}
  BY <1>1, <1>13 DEF Waiting, InQueue
<1>16. Queues(e)
  <2>1. \A q \in DOMAIN e.orders : Live(e, q) <=> q \in Waiting(e)
    <3> TAKE q \in DOMAIN e.orders
    <3>1. CASE q = r
      <4>1. e.orders[q].status = status
        BY <1>6, <1>8, <1>13, <3>1 DEF OrderRecords
      <4> QED BY <1>15, <3>1, <4>1 DEF Live
    <3>2. CASE q # r
      BY <1>8, <1>13, <1>15, <3>2 DEF Live, Queues
    <3> QED BY <3>1, <3>2
  <2>2. ToSet(e.submitted) = {} /\ Len(e.submitted) <= 1
    BY <1>13, NoEntries
  <2>3. e.entry = b.entry /\ e.cancelled = b.cancelled
    BY <1>14 DEF Aside
  <2> QED BY <1>1, <1>8, <1>13, <1>15, <2>1, <2>2, <2>3 DEF Queues
<1>17. EndedOf(e, b, r, status)
  BY <1>1, <1>3, <1>4, <1>8, <1>12, <1>13, <1>14, <1>15, <1>16 DEF EndedOf
<1> QED BY <1>2, <1>17

\* The group of an order is closed: nothing waits any longer.
ClosedOf(d, e, r) ==
  /\ d \in Brokers /\ Queues(d) /\ Aside(d, e) /\ d.news = e.news /\ d.stop = e.stop /\ d.tp = e.tp
  /\ Waiting(d) = {}
  /\ Sentinel \in ToSet(d.pending) <=> Sentinel \in ToSet(e.pending)
  /\ DOMAIN d.orders = DOMAIN e.orders
  /\ \A q \in DOMAIN e.orders :
       d.orders[q] = IF q \in Waiting(e) THEN [e.orders[q] EXCEPT !.status = "canceled"] ELSE e.orders[q]

\* CloseGroup cancels what else waits in the order's group.
LEMMA Closes ==
  ASSUME NEW e \in Brokers, Queues(e), e.submitted = << >>, NEW r \in DOMAIN e.orders,
         e.orders[r].lead \in e.groups,
         \A q \in Waiting(e) : e.orders[q].lead = e.orders[r].lead
  PROVE  ClosedOf(CloseGroup(e, r), e, r)
<1>1. PICK d : d = CloseGroup(e, r)
  OBVIOUS
<1>2. PICK g : g = e.orders[r].lead
  OBVIOUS
<1>3. /\ e.orders \in Seq(OrderRecords) /\ e.pending \in Seq(Nat) /\ e.groups \in SUBSET Nat
      /\ e.done \in SUBSET Nat /\ g \in Nat
  BY <1>2 DEF Brokers, OrderRecords
<1>4. Waiting(e) = InQueue(e) /\ InQueue(e) \subseteq DOMAIN e.orders
  BY NoEntries DEF Waiting, Queues
<1>5. {q \in ToSet(e.pending) \ {Sentinel} : g \in e.groups /\ e.orders[q].lead = g} = Waiting(e)
  BY <1>2, <1>4 DEF InQueue
<1>6. PICK P : P = Without(e.pending, Waiting(e))
  OBVIOUS
<1>7. PICK O : O = [q \in DOMAIN e.orders |->
                     IF q \in Waiting(e) THEN [e.orders[q] EXCEPT !.status = "canceled"] ELSE e.orders[q]]
  OBVIOUS
<1>8. d = [e EXCEPT !.groups = e.groups \ {g}, !.done = e.done \cup {g}, !.pending = P, !.orders = O]
  BY <1>1, <1>2, <1>5, <1>6, <1>7 DEF CloseGroup
<1>9. P \in Seq(Nat) /\ ToSet(P) = ToSet(e.pending) \ Waiting(e) /\ IsInjective(P)
  BY <1>3, <1>6, WithoutKeeps DEF Queues
<1>10. \A q \in DOMAIN e.orders : O[q] \in OrderRecords
  <2> TAKE q \in DOMAIN e.orders
  <2>1. e.orders[q] \in OrderRecords /\ "canceled" \in Statuses
    BY <1>3 DEF Statuses
  <2>2. [e.orders[q] EXCEPT !.status = "canceled"] \in OrderRecords
    BY <2>1 DEF OrderRecords
  <2> QED BY <1>7, <2>1, <2>2
<1>11. O \in Seq(OrderRecords) /\ DOMAIN O = DOMAIN e.orders
  <2>1. PICK n \in Nat : DOMAIN e.orders = 1..n
    BY <1>3
  <2>2. O \in [1..n -> OrderRecords]
    BY <1>7, <1>10, <2>1
  <2> QED BY <2>1, <2>2, IsSequence
<1>12. d \in Brokers
  <2>1. e.groups \ {g} \in SUBSET Nat /\ e.done \cup {g} \in SUBSET Nat
    BY <1>3
  <2>2. [e EXCEPT !.groups = e.groups \ {g}, !.done = e.done \cup {g}, !.pending = P, !.orders = O] \in Brokers
    BY <1>9, <1>11, <2>1, ZenonT(60) DEF Brokers
  <2> QED BY <1>8, <2>2, Zenon
<1>13. /\ d.orders = O /\ d.pending = P /\ d.submitted = << >> /\ d.news = e.news
       /\ d.groups = e.groups \ {g} /\ d.done = e.done \cup {g} /\ d.stop = e.stop /\ d.tp = e.tp
       /\ Aside(d, e)
  BY <1>8 DEF Brokers, Aside
<1>14. Waiting(d) = {}
  BY <1>4, <1>9, <1>13, NoEntries DEF Waiting, InQueue
<1>15. Sentinel \in ToSet(d.pending) <=> Sentinel \in ToSet(e.pending)
  BY <1>4, <1>9, <1>13 DEF InQueue
<1>16. Queues(d)
  <2>1. \A q \in DOMAIN d.orders : ~Live(d, q)
    <3> TAKE q \in DOMAIN d.orders
    <3>1. q \in DOMAIN e.orders /\ e.orders[q] \in OrderRecords
      BY <1>3, <1>11, <1>13
    <3>2. CASE q \in Waiting(e)
      <4>1. d.orders[q].status = "canceled"
        BY <1>7, <1>13, <3>1, <3>2 DEF OrderRecords
      <4> QED BY <4>1 DEF Live
    <3>3. CASE q \notin Waiting(e)
      BY <1>7, <1>13, <3>1, <3>3 DEF Live, Queues
    <3> QED BY <3>2, <3>3
  <2>2. ToSet(d.submitted) = {} /\ Len(d.submitted) <= 1
    BY <1>13, NoEntries
  <2>3. d.entry = e.entry /\ d.cancelled = e.cancelled
    BY <1>13 DEF Aside
  <2>4. d.groups \cup d.done \subseteq DOMAIN d.orders /\ d.groups \cap d.done = {}
    BY <1>2, <1>11, <1>13 DEF Queues
  <2> QED BY <1>9, <1>11, <1>13, <1>14, <2>1, <2>2, <2>3, <2>4 DEF Queues
<1>17. ClosedOf(d, e, r)
  BY <1>7, <1>11, <1>12, <1>13, <1>14, <1>15, <1>16 DEF ClosedOf
<1> QED BY <1>1, <1>17

\* A whole order filled: it opened a position or closed the one there was.
FilledOf(e, b, r) ==
  LET o == b.orders[r]
  IN /\ e \in Brokers /\ Queues(e) /\ e.stop = b.stop /\ e.tp = b.tp
     /\ e.trades = b.trades /\ e.setup = b.setup /\ e.trade = b.trade /\ e.tradeId = b.tradeId
     /\ e.held = b.held /\ e.policy = b.policy /\ e.cancelled = b.cancelled /\ e.entry = b.entry
     /\ e.groups = b.groups /\ e.done = b.done
     /\ e.submitted = << >> /\ Waiting(e) = Waiting(b) \ {r}
     /\ Sentinel \in ToSet(e.pending) <=> Sentinel \in ToSet(b.pending)
     /\ DOMAIN e.orders = DOMAIN b.orders
     /\ \A q \in DOMAIN b.orders \ {r} : e.orders[q] = b.orders[q]
     /\ e.orders[r].role = o.role /\ e.orders[r].sign = o.sign /\ e.orders[r].lead = o.lead
     /\ e.orders[r].setup = o.setup /\ e.orders[r].guarded = o.guarded /\ e.orders[r].price = o.price
     /\ e.size = IF b.size = 0 THEN o.left ELSE 0
     /\ b.size = 0 => e.dir = o.sign
     /\ e.fillTrade = IF b.size = 0 THEN b.fillTrade ELSE b.fillTrade + 1
     /\ \E w \in FillRecords :
          /\ e.fills = Append(b.fills, w)
          /\ w.ref = r /\ w.role = o.role /\ w.reduces = (b.size > 0)
     /\ e.news = Append(b.news, [ref |-> r, status |-> "completed", filled |-> o.left, qty |-> o.left,
                                 trades |-> IF b.size = 0 THEN <<"opened">> ELSE <<"closed">>])

\* The side of a position changes.
LEMMA Turns ==
  ASSUME NEW b \in Brokers, NEW dir \in {1, -1}
  PROVE  [b EXCEPT !.dir = dir] \in Brokers
BY ZenonT(60) DEF Brokers

\* A whole order fills: it opens a position, or closes the one there is.
LEMMA Fills ==
  ASSUME NEW b \in Brokers, Queues(b), NEW r \in DOMAIN b.orders, NEW c, Taken(c, b, r),
         b.orders[r].left > 0, b.orders[r].filled = 0,
         b.size # 0 => b.orders[r].left = b.size /\ b.orders[r].sign = -b.dir,
         NEW price \in Int
  PROVE  FilledOf(Filled(c, r, b.orders[r].left, price), b, r)
<1>1. /\ c \in Brokers /\ Aside(c, b) /\ c.news = b.news /\ c.stop = b.stop /\ c.tp = b.tp
      /\ c.orders = b.orders /\ c.groups = b.groups /\ c.done = b.done
      /\ c.submitted = << >> /\ IsInjective(c.pending) /\ Waiting(c) = Waiting(b) \ {r}
      /\ Sentinel \in ToSet(c.pending) <=> Sentinel \in ToSet(b.pending)
  BY DEF Taken
<1>2. PICK o : o = b.orders[r]
  OBVIOUS
<1>3. /\ b.orders \in Seq(OrderRecords) /\ o \in OrderRecords /\ r \in Nat \ {0}
      /\ b.news \in Seq(NewsRecords) /\ b.fills \in Seq(FillRecords) /\ b.fillTrade \in Nat
      /\ c.exits \in Nat
  <2>1. /\ b.orders \in Seq(OrderRecords) /\ b.news \in Seq(NewsRecords) /\ b.fills \in Seq(FillRecords)
        /\ b.fillTrade \in Nat
    BY DEF Brokers
  <2>2. c.exits \in Nat
    BY <1>1 DEF Brokers
  <2>3. o \in OrderRecords /\ r \in Nat \ {0}
    BY <1>2, <2>1
  <2> QED BY <2>1, <2>2, <2>3
<1>4. /\ o.left \in Nat \ {0} /\ o.left \in Quantities /\ o.filled = 0 /\ o.sign \in {1, -1}
      /\ o.cost \in Int /\ o.role \in Roles
  <2>1. /\ o.left \in Quantities /\ o.sign \in {1, -1} /\ o.cost \in Int /\ o.role \in Roles
    BY <1>3 DEF OrderRecords
  <2>2. o.left \in Nat
    BY <2>1, QuantitiesType
  <2> QED BY <1>2, <2>1, <2>2
<1>5. b.size \in Nat /\ b.dir \in {1, -1} /\ c.size = b.size /\ c.dir = b.dir
  BY <1>1, QuantitiesType DEF Brokers, Aside
<1> DEFINE position == c.dir * c.size + o.sign * o.left
           closes == c.size > 0 /\ (position = 0 \/ (position > 0) # (c.dir = 1))
           opens == position # 0 /\ (c.size = 0 \/ closes)
<1>6. position = IF b.size = 0 THEN o.sign * o.left ELSE 0
  <2>1. CASE b.size = 0
    BY <1>4, <1>5, <2>1
  <2>2. CASE b.size # 0
    <3>1. o.left = b.size /\ o.sign = -b.dir
      BY <1>2, <2>2
    <3>2. b.dir = 1 \/ b.dir = -1
      BY <1>5
    <3> QED BY <1>5, <2>2, <3>1, <3>2
  <2> QED BY <2>1, <2>2
<1> HIDE DEF position
<1>7. closes <=> b.size # 0
  <2>1. b.size = 0 => ~(c.size > 0)
    BY <1>5
  <2>2. b.size # 0 => c.size > 0 /\ position = 0
    BY <1>5, <1>6
  <2> QED BY <2>1, <2>2
<1> HIDE DEF closes
<1>8. opens <=> b.size = 0
  BY <1>4, <1>5, <1>6, <1>7
<1> HIDE DEF opens
<1>9. PICK O : O = [o EXCEPT !.filled = @ + o.left, !.left = @ - o.left, !.status = "completed",
                             !.cost = @ + o.left * price]
  OBVIOUS
<1>10. /\ O \in OrderRecords /\ O.status = "completed" /\ O.role = o.role /\ O.sign = o.sign
       /\ O.lead = o.lead /\ O.setup = o.setup /\ O.guarded = o.guarded /\ O.price = o.price
  <2>1. o.filled + o.left \in Quantities /\ o.left - o.left \in Quantities
    BY <1>4, QuantitiesType
  <2>2. o.left * price \in Int
    BY <1>4
  <2>3. o.cost + o.left * price \in Int
    BY <1>4, <2>2
  <2>4. "completed" \in Statuses
    BY DEF Statuses
  <2> QED BY <1>3, <1>9, <2>1, <2>3, <2>4 DEF OrderRecords
<1>11. PICK w : w = [ref |-> r, role |-> o.role, trade |-> c.fillTrade, qty |-> o.left, price |-> price,
                     reduces |-> c.size > 0 /\ o.sign = -c.dir]
  OBVIOUS
<1>12. w \in FillRecords /\ w.ref = r /\ w.role = o.role /\ w.reduces = (b.size > 0)
  <2>1. c.fillTrade = b.fillTrade
    BY <1>1 DEF Aside
  <2>2. w \in FillRecords
    BY <1>3, <1>4, <1>11, <2>1 DEF FillRecords
  <2>3. (c.size > 0 /\ o.sign = -c.dir) <=> b.size > 0
    BY <1>2, <1>5
  <2>4. (c.size > 0 /\ o.sign = -c.dir) = (b.size > 0)
    BY <2>3
  <2> QED BY <1>11, <2>2, <2>4
<1>13. PICK n : n = [ref |-> r, status |-> "completed", filled |-> o.left, qty |-> o.left,
                     trades |-> IF b.size = 0 THEN <<"opened">> ELSE <<"closed">>]
  OBVIOUS
<1>14. n \in NewsRecords
  BY <1>3, <1>4, <1>13 DEF NewsRecords, Statuses
<1>15. (IF closes THEN <<"closed">> ELSE << >>) \o (IF opens THEN <<"opened">> ELSE << >>)
       = IF b.size = 0 THEN <<"opened">> ELSE <<"closed">>
  <2>1. <<"closed">> \in Seq({"closed", "opened"}) /\ <<"opened">> \in Seq({"closed", "opened"})
    OBVIOUS
  <2>2. << >> \o <<"opened">> = <<"opened">> /\ <<"closed">> \o << >> = <<"closed">>
    BY <2>1, ConcatEmptySeq
  <2> QED BY <1>7, <1>8, <2>2
<1>16. PICK e : e = Filled(c, r, o.left, price)
  OBVIOUS
<1>17. PICK size : size = IF position < 0 THEN -position ELSE position
  OBVIOUS
<1>18. size = (IF b.size = 0 THEN o.left ELSE 0) /\ size \in Quantities
  BY <1>4, <1>6, <1>17, QuantitiesType
<1>19. PICK dir : dir = IF position < 0 THEN -1 ELSE 1
  OBVIOUS
<1>20. dir \in {1, -1} /\ (b.size = 0 => dir = o.sign)
  BY <1>4, <1>6, <1>19
<1>21. PICK ft : ft = IF position = 0 THEN c.fillTrade + 1 ELSE c.fillTrade
  OBVIOUS
<1>22. ft = (IF b.size = 0 THEN b.fillTrade ELSE b.fillTrade + 1) /\ ft \in Nat
  <2>1. c.fillTrade = b.fillTrade
    BY <1>1 DEF Aside
  <2>2. position = 0 <=> b.size # 0
    BY <1>4, <1>6
  <2> QED BY <1>3, <1>21, <2>1, <2>2
<1>23. PICK ex : ex = IF position = 0 THEN 0 ELSE IF o.role = "entry" THEN c.exits ELSE c.exits + 1
  OBVIOUS
<1>24. ex \in Nat
  BY <1>3, <1>23
<1>25. e = [c EXCEPT !.orders[r] = O, !.size = size, !.dir = dir, !.fillTrade = ft, !.exits = ex,
                     !.fills = Append(c.fills, w), !.news = Append(c.news, n)]
  <2>1. n = [ref |-> r, status |-> "completed", filled |-> o.filled + o.left, qty |-> o.left,
             trades |-> (IF closes THEN <<"closed">> ELSE << >>) \o (IF opens THEN <<"opened">> ELSE << >>)]
    <3>1. o.filled + o.left = o.left
      BY <1>4
    <3> QED BY <1>13, <1>15, <3>1
  <2>2. c.orders[r] = o
    BY <1>1, <1>2
  <2> QED BY <1>9, <1>11, <1>16, <1>17, <1>19, <1>21, <1>23, <2>1, <2>2
      DEF Filled, position, closes, opens
<1>26. PICK OO : OO = [b.orders EXCEPT ![r] = O]
  OBVIOUS
<1>27. /\ OO \in Seq(OrderRecords) /\ DOMAIN OO = DOMAIN b.orders /\ OO[r] = O
       /\ \A q \in DOMAIN b.orders \ {r} : OO[q] = b.orders[q]
  BY <1>3, <1>10, <1>26
<1>28. PICK F : F = Append(b.fills, w)
  OBVIOUS
<1>29. PICK N : N = Append(b.news, n)
  OBVIOUS
<1>30. F \in Seq(FillRecords) /\ N \in Seq(NewsRecords)
  BY <1>3, <1>12, <1>14, <1>28, <1>29
<1>31. e = [c EXCEPT !.orders = OO, !.size = size, !.dir = dir, !.fillTrade = ft, !.exits = ex,
                     !.fills = F, !.news = N]
  <2>1. c.orders = b.orders /\ c.news = b.news /\ c.fills = b.fills
    BY <1>1 DEF Aside
  <2> QED BY <1>1, <1>25, <1>26, <1>28, <1>29, <2>1 DEF Brokers
<1>32. e \in Brokers
  <2>1. PICK x : x = [c EXCEPT !.orders = OO, !.size = size]
    OBVIOUS
  <2>2. [c EXCEPT !.orders = OO, !.size = size] \in Brokers
    <3>1. c \in Brokers /\ OO \in Seq(OrderRecords) /\ size \in Quantities
      BY <1>1, <1>18, <1>27
    <3> QED BY <3>1, ZenonT(150) DEF Brokers
  <2>3. PICK y : y = [x EXCEPT !.dir = dir]
    OBVIOUS
  <2>4. x \in Brokers
    BY <2>1, <2>2, Zenon
  <2>5. [x EXCEPT !.dir = dir] \in Brokers
    BY <1>20, <2>4, Turns, Zenon
  <2>6. y \in Brokers
    BY <2>3, <2>5, Zenon
  <2>9. PICK z : z = [y EXCEPT !.fillTrade = ft, !.exits = ex]
    OBVIOUS
  <2>10. ft \in Nat /\ ex \in Nat
    BY <1>22, <1>24
  <2>11. [y EXCEPT !.fillTrade = ft, !.exits = ex] \in Brokers
    BY <2>6, <2>10, ZenonT(150) DEF Brokers
  <2>12. z \in Brokers
    BY <2>9, <2>11, Zenon
  <2>7. [z EXCEPT !.fills = F, !.news = N] \in Brokers
    BY <1>30, <2>12, ZenonT(150) DEF Brokers
  <2>8. e = [z EXCEPT !.fills = F, !.news = N]
    BY <1>31, <2>1, <2>3, <2>9, Zenon
  <2> QED BY <2>7, <2>8, Zenon
<1>33. /\ e.orders = OO /\ e.size = size /\ e.dir = dir /\ e.fillTrade = ft /\ e.fills = F /\ e.news = N
       /\ e.pending = c.pending /\ e.submitted = << >> /\ e.groups = c.groups /\ e.done = c.done
       /\ e.stop = c.stop /\ e.tp = c.tp /\ e.trades = c.trades /\ e.setup = c.setup /\ e.trade = c.trade
       /\ e.tradeId = c.tradeId /\ e.held = c.held /\ e.policy = c.policy /\ e.cancelled = c.cancelled
       /\ e.entry = c.entry
  BY <1>1, <1>31 DEF Brokers
<1>34. Waiting(e) = Waiting(b) \ {r}
  BY <1>1, <1>33 DEF Waiting, InQueue
<1>35. Queues(e)
  <2>1. \A q \in DOMAIN e.orders : Live(e, q) <=> q \in Waiting(e)
    <3> TAKE q \in DOMAIN e.orders
    <3>1. CASE q = r
      BY <1>10, <1>27, <1>33, <1>34, <3>1 DEF Live
    <3>2. CASE q # r
      BY <1>27, <1>33, <1>34, <3>2 DEF Live, Queues
    <3> QED BY <3>1, <3>2
  <2>2. ToSet(e.submitted) = {} /\ Len(e.submitted) <= 1
    BY <1>33, NoEntries
  <2>3. e.entry = b.entry /\ e.cancelled = b.cancelled
    BY <1>1, <1>33 DEF Aside
  <2> QED BY <1>1, <1>27, <1>33, <1>34, <2>1, <2>2, <2>3 DEF Queues
<1>36. FilledOf(e, b, r)
  <2>1. \E x \in FillRecords : /\ e.fills = Append(b.fills, x)
                               /\ x.ref = r /\ x.role = o.role /\ x.reduces = (b.size > 0)
    BY <1>12, <1>28, <1>33
  <2>2. /\ e.trades = b.trades /\ e.setup = b.setup /\ e.trade = b.trade /\ e.tradeId = b.tradeId
        /\ e.held = b.held /\ e.policy = b.policy /\ e.cancelled = b.cancelled /\ e.entry = b.entry
    BY <1>1, <1>33 DEF Aside
  <2>3. /\ e.size = IF b.size = 0 THEN o.left ELSE 0
        /\ b.size = 0 => e.dir = o.sign
        /\ e.fillTrade = IF b.size = 0 THEN b.fillTrade ELSE b.fillTrade + 1
        /\ e.news = Append(b.news, n)
    BY <1>18, <1>20, <1>22, <1>29, <1>33
  <2> QED BY <1>1, <1>2, <1>10, <1>13, <1>27, <1>32, <1>33, <1>34, <1>35, <2>1, <2>2, <2>3 DEF FilledOf
<1> QED BY <1>2, <1>16, <1>36

(* ---- Situations --------------------------------------------------------- *)

\* States that differ in nothing a situation is about.
Alike(d, b) ==
  /\ d.size = b.size /\ d.dir = b.dir /\ d.fillTrade = b.fillTrade /\ d.news = b.news
  /\ d.trades = b.trades /\ d.setup = b.setup /\ d.trade = b.trade /\ d.tradeId = b.tradeId
  /\ d.held = b.held /\ d.policy = b.policy /\ d.cancelled = b.cancelled /\ d.entry = b.entry
  /\ d.stop = b.stop /\ d.tp = b.tp /\ d.groups = b.groups /\ Waiting(d) = Waiting(b)
  /\ DOMAIN d.orders = DOMAIN b.orders
  /\ \A r \in DOMAIN b.orders :
       LET o == d.orders[r]
           w == b.orders[r]
       IN /\ o.role = w.role /\ o.sign = w.sign /\ o.left = w.left /\ o.filled = w.filled
          /\ o.price = w.price /\ o.lead = w.lead /\ o.setup = w.setup /\ o.guarded = w.guarded

\* Brokers that differ only in their queues' order are in the same situation.
LEMMA AlikeStays ==
  ASSUME NEW d, NEW b, Alike(d, b), Queues(b)
  PROVE  /\ Flat(d) <=> Flat(b)
         /\ Entering(d) <=> Entering(b)
         /\ GivenUp(d) <=> GivenUp(b)
         /\ Bought(d) <=> Bought(b)
         /\ Protected(d) <=> Protected(b)
         /\ Sold(d) <=> Sold(b)
         /\ Situated(d) <=> Situated(b)
<1>0. Waiting(b) \subseteq DOMAIN b.orders
  BY DEF Queues
<1>1. Flat(d) <=> Flat(b)
  BY DEF Alike, Flat, NoTrade, Behind
<1>2. \A r \in DOMAIN b.orders : (Fits(d, r) <=> Fits(b, r)) /\ (Whole(d, r) <=> Whole(b, r))
                                 /\ (IsLeg(d, r) <=> IsLeg(b, r))
  BY DEF Alike, Fits, Whole, IsLeg
<1>3. Entering(d) <=> Entering(b)
  <2>1. ASSUME Waiting(b) = {b.entry} PROVE b.entry \in DOMAIN b.orders
    BY <1>0, <2>1
  <2> QED BY <1>2, <2>1 DEF Alike, Entering, NoTrade
<1>4. GivenUp(d) <=> GivenUp(b)
  BY DEF Alike, GivenUp, NoTrade
<1>5. Bought(d) <=> Bought(b)
  <2>1. \A r \in DOMAIN b.orders : d.orders[r].sign = b.orders[r].sign
    BY DEF Alike
  <2> QED BY <1>2, <2>1 DEF Alike, Bought, NoTrade
<1>6. Protected(d) <=> Protected(b)
  BY <1>0, <1>2 DEF Alike, Protected
<1>7. Sold(d) <=> Sold(b)
  <2>1. \A r \in DOMAIN b.orders : d.orders[r].role = b.orders[r].role
    BY DEF Alike
  <2> QED BY <2>1 DEF Alike, Sold, Behind
<1> QED BY <1>1, <1>3, <1>4, <1>5, <1>6, <1>7 DEF Situated

\* Every order keeps what it was placed as.
Kept(d, b) ==
  /\ DOMAIN d.orders = DOMAIN b.orders
  /\ \A r \in DOMAIN b.orders :
       LET o == d.orders[r]
           w == b.orders[r]
       IN /\ o.role = w.role /\ o.sign = w.sign
          /\ o.price = w.price /\ o.lead = w.lead /\ o.setup = w.setup /\ o.guarded = w.guarded

\* All that waits is whole and in one group.
Grouped(b, r) == r \in Waiting(b) /\ \A q \in Waiting(b) : Whole(b, q) /\ b.orders[q].lead = b.orders[r].lead

\* An order ended without a fill, and what waited with it.
Gone(d, b, r, status) ==
  /\ d \in Brokers /\ Queues(d) /\ Aside(d, b) /\ Kept(d, b)
  /\ d.stop = b.stop /\ d.tp = b.tp /\ Waiting(d) = {} /\ d.submitted = << >>
  /\ Sentinel \in ToSet(d.pending) <=> Sentinel \in ToSet(b.pending)
  /\ d.news = IF b.orders[r].role # "entry" THEN b.news
              ELSE Append(b.news, [ref |-> r, status |-> status, filled |-> 0, qty |-> 0, trades |-> << >>])

\* An order ends without a fill, with its group.
LEMMA Drops ==
  ASSUME NEW b \in Brokers, Queues(b), NEW r, Grouped(b, r), NEW c, Taken(c, b, r),
         NEW status \in {"canceled", "margin"}
  PROVE  Gone(CloseGroup(Ended(c, r, status), r), b, r, status)
<1>1. r \in DOMAIN b.orders /\ r \in Waiting(b)
  BY DEF Grouped, Queues
<1>2. PICK e : e = Ended(c, r, status)
  OBVIOUS
<1>3. EndedOf(e, b, r, status)
  BY <1>1, <1>2, Ends
<1>4. /\ e \in Brokers /\ Queues(e) /\ Aside(e, b) /\ e.stop = b.stop /\ e.tp = b.tp
      /\ e.groups = b.groups /\ e.submitted = << >> /\ Waiting(e) = Waiting(b) \ {r}
      /\ Sentinel \in ToSet(e.pending) <=> Sentinel \in ToSet(b.pending)
      /\ DOMAIN e.orders = DOMAIN b.orders
      /\ e.news = IF b.orders[r].role # "entry" THEN b.news
                  ELSE Append(b.news, [ref |-> r, status |-> status, filled |-> b.orders[r].filled,
                                       qty |-> 0, trades |-> << >>])
  BY <1>3 DEF EndedOf
<1>5. Kept(e, b)
  <2>1. \A q \in DOMAIN b.orders : b.orders[q] \in OrderRecords
    BY DEF Brokers
  <2>2. \A q \in DOMAIN b.orders :
          e.orders[q] = IF q = r THEN [b.orders[q] EXCEPT !.status = status] ELSE b.orders[q]
    BY <1>3 DEF EndedOf
  <2> QED BY <1>4, <2>1, <2>2 DEF Kept, OrderRecords
<1>6. b.orders[r].filled = 0 /\ b.orders[r].lead \in b.groups
      /\ \A q \in Waiting(b) : q \in DOMAIN b.orders /\ b.orders[q].lead = b.orders[r].lead
  BY DEF Grouped, Whole, Queues
<1>7. /\ r \in DOMAIN e.orders /\ e.orders[r].lead \in e.groups
      /\ \A q \in Waiting(e) : e.orders[q].lead = e.orders[r].lead
  BY <1>1, <1>4, <1>5, <1>6 DEF Kept
<1>8. PICK d : d = CloseGroup(e, r)
  OBVIOUS
<1>9. ClosedOf(d, e, r)
  BY <1>4, <1>7, <1>8, Closes
<1>10. /\ d \in Brokers /\ Queues(d) /\ Aside(d, e) /\ d.news = e.news /\ d.stop = e.stop /\ d.tp = e.tp
       /\ Waiting(d) = {}
       /\ Sentinel \in ToSet(d.pending) <=> Sentinel \in ToSet(e.pending)
       /\ DOMAIN d.orders = DOMAIN e.orders
  BY <1>9 DEF ClosedOf
<1>11. Kept(d, e)
  <2>3. e \in Brokers
    BY <1>4
  <2>4. e.orders \in Seq(OrderRecords)
    BY <2>3 DEF Brokers
  <2>1. \A q \in DOMAIN e.orders : e.orders[q] \in OrderRecords
    BY <2>4
  <2>2. \A q \in DOMAIN e.orders :
          d.orders[q] = IF q \in Waiting(e) THEN [e.orders[q] EXCEPT !.status = "canceled"] ELSE e.orders[q]
    BY <1>9 DEF ClosedOf
  <2> QED BY <1>10, <2>1, <2>2 DEF Kept, OrderRecords
<1>12. Kept(d, b)
  BY <1>5, <1>11 DEF Kept
<1>13. Aside(d, b)
  BY <1>4, <1>10 DEF Aside
<1>14. d.submitted = << >>
  BY <1>10, NothingWaits
<1>15. Gone(d, b, r, status)
  BY <1>4, <1>6, <1>10, <1>12, <1>13, <1>14 DEF Gone
<1> QED BY <1>2, <1>8, <1>15

\* An order filled, and what waited with it was canceled.
Dealt(d, b, r) ==
  LET o == b.orders[r]
  IN /\ d \in Brokers /\ Queues(d) /\ Kept(d, b) /\ d.stop = b.stop /\ d.tp = b.tp
     /\ d.trades = b.trades /\ d.setup = b.setup /\ d.trade = b.trade /\ d.tradeId = b.tradeId
     /\ d.held = b.held /\ d.policy = b.policy /\ d.cancelled = b.cancelled /\ d.entry = b.entry
     /\ Waiting(d) = {} /\ d.submitted = << >>
     /\ Sentinel \in ToSet(d.pending) <=> Sentinel \in ToSet(b.pending)
     /\ d.size = IF b.size = 0 THEN o.left ELSE 0
     /\ b.size = 0 => d.dir = o.sign
     /\ d.fillTrade = IF b.size = 0 THEN b.fillTrade ELSE b.fillTrade + 1
     /\ (o.role # "entry" => b.size > 0) => (Reducing(b) => Reducing(d))
     /\ d.news = Append(b.news, [ref |-> r, status |-> "completed", filled |-> o.left, qty |-> o.left,
                                 trades |-> IF b.size = 0 THEN <<"opened">> ELSE <<"closed">>])

\* An order fills, and its group is closed.
LEMMA Deals ==
  ASSUME NEW b \in Brokers, Queues(b), NEW r, Grouped(b, r), NEW c, Taken(c, b, r),
         b.size # 0 => b.orders[r].left = b.size /\ b.orders[r].sign = -b.dir,
         NEW price \in Int
  PROVE  Dealt(CloseGroup(Filled(c, r, b.orders[r].left, price), r), b, r)
<1>1. r \in DOMAIN b.orders /\ r \in Waiting(b) /\ b.orders[r].left > 0 /\ b.orders[r].filled = 0
  BY DEF Grouped, Queues, Whole
<1>2. PICK e : e = Filled(c, r, b.orders[r].left, price)
  OBVIOUS
<1>3. FilledOf(e, b, r)
  BY <1>1, <1>2, Fills
<1>4. /\ e \in Brokers /\ Queues(e) /\ e.stop = b.stop /\ e.tp = b.tp
      /\ e.trades = b.trades /\ e.setup = b.setup /\ e.trade = b.trade /\ e.tradeId = b.tradeId
      /\ e.held = b.held /\ e.policy = b.policy /\ e.cancelled = b.cancelled /\ e.entry = b.entry
      /\ e.groups = b.groups /\ e.submitted = << >> /\ Waiting(e) = Waiting(b) \ {r}
      /\ Sentinel \in ToSet(e.pending) <=> Sentinel \in ToSet(b.pending)
      /\ DOMAIN e.orders = DOMAIN b.orders
      /\ e.size = IF b.size = 0 THEN b.orders[r].left ELSE 0
      /\ b.size = 0 => e.dir = b.orders[r].sign
      /\ e.fillTrade = IF b.size = 0 THEN b.fillTrade ELSE b.fillTrade + 1
      /\ e.news = Append(b.news, [ref |-> r, status |-> "completed", filled |-> b.orders[r].left,
                                  qty |-> b.orders[r].left,
                                  trades |-> IF b.size = 0 THEN <<"opened">> ELSE <<"closed">>])
  BY <1>3 DEF FilledOf
<1>5. Kept(e, b)
  <2>1. \A q \in DOMAIN b.orders \ {r} : e.orders[q] = b.orders[q]
    BY <1>3 DEF FilledOf
  <2>2. /\ e.orders[r].role = b.orders[r].role /\ e.orders[r].sign = b.orders[r].sign
        /\ e.orders[r].lead = b.orders[r].lead /\ e.orders[r].setup = b.orders[r].setup
        /\ e.orders[r].guarded = b.orders[r].guarded /\ e.orders[r].price = b.orders[r].price
    BY <1>3 DEF FilledOf
  <2> QED BY <1>4, <2>1, <2>2 DEF Kept
<1>6. b.orders[r].lead \in b.groups
      /\ \A q \in Waiting(b) : q \in DOMAIN b.orders /\ b.orders[q].lead = b.orders[r].lead
  BY DEF Grouped, Whole, Queues
<1>7. /\ r \in DOMAIN e.orders /\ e.orders[r].lead \in e.groups
      /\ \A q \in Waiting(e) : e.orders[q].lead = e.orders[r].lead
  BY <1>1, <1>4, <1>5, <1>6 DEF Kept
<1>8. PICK d : d = CloseGroup(e, r)
  OBVIOUS
<1>9. ClosedOf(d, e, r)
  BY <1>4, <1>7, <1>8, Closes
<1>10. /\ d \in Brokers /\ Queues(d) /\ Aside(d, e) /\ d.news = e.news /\ d.stop = e.stop /\ d.tp = e.tp
       /\ Waiting(d) = {}
       /\ Sentinel \in ToSet(d.pending) <=> Sentinel \in ToSet(e.pending)
       /\ DOMAIN d.orders = DOMAIN e.orders
  BY <1>9 DEF ClosedOf
<1>11. Kept(d, e)
  <2>3. e \in Brokers
    BY <1>4
  <2>4. e.orders \in Seq(OrderRecords)
    BY <2>3 DEF Brokers
  <2>1. \A q \in DOMAIN e.orders : e.orders[q] \in OrderRecords
    BY <2>4
  <2>2. \A q \in DOMAIN e.orders :
          d.orders[q] = IF q \in Waiting(e) THEN [e.orders[q] EXCEPT !.status = "canceled"] ELSE e.orders[q]
    BY <1>9 DEF ClosedOf
  <2> QED BY <1>10, <2>1, <2>2 DEF Kept, OrderRecords
<1>12. Kept(d, b)
  BY <1>5, <1>11 DEF Kept
<1>14. d.submitted = << >>
  BY <1>10, NothingWaits
<1>13. ASSUME b.orders[r].role # "entry" => b.size > 0, Reducing(b) PROVE Reducing(d)
  <2>1. PICK w \in FillRecords : /\ e.fills = Append(b.fills, w)
                                 /\ w.role = b.orders[r].role /\ w.reduces = (b.size > 0)
    BY <1>3 DEF FilledOf
  <2>2. d.fills = Append(b.fills, w)
    BY <1>10, <2>1 DEF Aside
  <2>3. b.fills \in Seq(FillRecords)
    BY DEF Brokers
  <2>4. PICK n \in Nat : n = Len(b.fills) /\ DOMAIN b.fills = 1..n
    BY <2>3
  <2>5. DOMAIN d.fills = 1..(n + 1) /\ d.fills[n + 1] = w /\ \A i \in 1..n : d.fills[i] = b.fills[i]
    BY <2>2, <2>3, <2>4
  <2>6. \A i \in 1..(n + 1) : i = n + 1 \/ i \in 1..n
    BY <2>4
  <2>7. w.role # "entry" => w.reduces
    BY <1>13, <2>1
  <2> QED BY <1>13, <2>4, <2>5, <2>6, <2>7 DEF Reducing
<1>16. /\ d.trades = b.trades /\ d.setup = b.setup /\ d.trade = b.trade /\ d.tradeId = b.tradeId
       /\ d.held = b.held /\ d.policy = b.policy /\ d.cancelled = b.cancelled /\ d.entry = b.entry
       /\ d.size = e.size /\ d.dir = e.dir /\ d.fillTrade = e.fillTrade
  BY <1>4, <1>10 DEF Aside
<1>15. Dealt(d, b, r)
  BY <1>4, <1>10, <1>12, <1>13, <1>14, <1>16 DEF Dealt
<1> QED BY <1>2, <1>8, <1>15

\* One notification.
LEMMA OneNews ==
  ASSUME NEW w
  PROVE  Len(Append(<< >>, w)) = 1 /\ Append(<< >>, w)[1] = w
<1>1. Append(<< >>, w) = << w >>
  OBVIOUS
<1> QED BY <1>1

\* The entry that waits is alone.
LEMMA EntryIsGrouped ==
  ASSUME NEW b, Queues(b), Entering(b)
  PROVE  /\ Grouped(b, b.entry) /\ b.entry \in DOMAIN b.orders /\ b.entry # NoOrder
         /\ b.orders[b.entry].role = "entry"
<1>1. Waiting(b) = {b.entry} /\ Fits(b, b.entry) /\ Whole(b, b.entry)
  BY DEF Entering
<1>2. Grouped(b, b.entry) /\ b.entry \in DOMAIN b.orders
  BY <1>1 DEF Grouped, Queues
<1>3. b.entry # NoOrder
  BY <1>1, <1>2 DEF Queues, Live
<1> QED BY <1>1, <1>2, <1>3 DEF Fits

\* An entry that ends without a fill leaves nothing behind.
LEMMA EntryEnds ==
  ASSUME NEW b \in Brokers, Queues(b), Entering(b), NEW c, Taken(c, b, b.entry),
         NEW status \in {"canceled", "margin"}
  PROVE  /\ GivenUp(CloseGroup(Ended(c, b.entry, status), b.entry))
         /\ Gone(CloseGroup(Ended(c, b.entry, status), b.entry), b, b.entry, status)
<1>1. PICK d : d = CloseGroup(Ended(c, b.entry, status), b.entry)
  OBVIOUS
<1>2. Gone(d, b, b.entry, status)
  BY <1>1, EntryIsGrouped, Drops
<1>3. PICK w : w = [ref |-> b.entry, status |-> status, filled |-> 0, qty |-> 0, trades |-> << >>]
  OBVIOUS
<1>4. d.news = Append(<< >>, w)
  <2>1. b.news = << >> /\ b.orders[b.entry].role = "entry"
    BY EntryIsGrouped DEF Entering
  <2> QED BY <1>2, <1>3, <2>1 DEF Gone
<1>5. Len(d.news) = 1 /\ d.news[1] = w
  BY <1>4, OneNews
<1>6. /\ d.size = 0 /\ Waiting(d) = {} /\ d.setup # None /\ d.trades = << >> /\ NoTrade(d)
      /\ d.entry = b.entry /\ DOMAIN d.orders = DOMAIN b.orders
  BY <1>2 DEF Gone, Aside, Entering, Fits, NoTrade, Kept
<1>7. w.ref = b.entry /\ w.qty = 0 /\ w.filled = 0 /\ w.trades = << >>
  BY <1>3
<1>8. GivenUp(d)
  BY <1>5, <1>6, <1>7, EntryIsGrouped DEF GivenUp
<1> QED BY <1>1, <1>2, <1>8

\* An entry that fills opens a position of its size.
LEMMA EntryFills ==
  ASSUME NEW b \in Brokers, Queues(b), Entering(b), NEW c, Taken(c, b, b.entry), NEW price \in Int
  PROVE  /\ Bought(CloseGroup(Filled(c, b.entry, b.orders[b.entry].left, price), b.entry))
         /\ Dealt(CloseGroup(Filled(c, b.entry, b.orders[b.entry].left, price), b.entry), b, b.entry)
<1>1. PICK d : d = CloseGroup(Filled(c, b.entry, b.orders[b.entry].left, price), b.entry)
  OBVIOUS
<1>2. Dealt(d, b, b.entry)
  <2>1. b.size = 0
    BY DEF Entering
  <2> QED BY <1>1, <2>1, EntryIsGrouped, Deals
<1>3. PICK w : w = [ref |-> b.entry, status |-> "completed", filled |-> b.orders[b.entry].left,
                    qty |-> b.orders[b.entry].left, trades |-> <<"opened">>]
  OBVIOUS
<1>4. d.news = Append(<< >>, w)
  <2>1. b.news = << >> /\ b.size = 0
    BY DEF Entering
  <2> QED BY <1>2, <1>3, <2>1 DEF Dealt
<1>5. Len(d.news) = 1 /\ d.news[1] = w
  BY <1>4, OneNews
<1>6. /\ d.size = b.orders[b.entry].left /\ Waiting(d) = {} /\ d.trades = << >> /\ NoTrade(d)
      /\ d.dir = b.orders[b.entry].sign /\ Kept(d, b) /\ d.setup = b.setup
  BY <1>2 DEF Dealt, Entering, NoTrade
<1>7. /\ w.ref = b.entry /\ w.status = "completed" /\ w.qty = b.orders[b.entry].left
      /\ w.filled = b.orders[b.entry].left /\ w.trades = <<"opened">>
  BY <1>3
<1>8. Fits(d, b.entry) /\ d.dir = d.orders[b.entry].sign /\ b.entry \in DOMAIN d.orders
  BY <1>6, EntryIsGrouped DEF Entering, Fits, Kept
<1>9. d.size > 0
  BY <1>6 DEF Entering, Whole
<1>10. Bought(d)
  BY <1>5, <1>6, <1>7, <1>8, <1>9 DEF Bought
<1> QED BY <1>1, <1>2, <1>10

\* The order that closes a booked position.
Selling(b, r) ==
  /\ Grouped(b, r) /\ b.size > 0 /\ b.orders[r].left = b.size /\ b.orders[r].sign = -b.dir
  /\ b.orders[r].role \in Legs \cup {"end_of_data"}
  /\ b.entry = NoOrder /\ b.setup = None /\ b.news = << >> /\ b.trades = << >> /\ b.tradeId = b.fillTrade

\* An exit that fills closes it, and the other leg is gone.
LEMMA ExitFills ==
  ASSUME NEW b \in Brokers, Queues(b), NEW r, Selling(b, r), NEW c, Taken(c, b, r), NEW price \in Int
  PROVE  /\ Sold(CloseGroup(Filled(c, r, b.orders[r].left, price), r))
         /\ Dealt(CloseGroup(Filled(c, r, b.orders[r].left, price), r), b, r)
<1>1. PICK d : d = CloseGroup(Filled(c, r, b.orders[r].left, price), r)
  OBVIOUS
<1>2. Dealt(d, b, r)
  <2>1. Grouped(b, r) /\ b.orders[r].left = b.size /\ b.orders[r].sign = -b.dir
    BY DEF Selling
  <2> QED BY <1>1, <2>1, Deals
<1>3. PICK w : w = [ref |-> r, status |-> "completed", filled |-> b.orders[r].left,
                    qty |-> b.orders[r].left, trades |-> <<"closed">>]
  OBVIOUS
<1>0. b.size \in Nat /\ b.size > 0 /\ b.size # 0
  <2>1. b.size \in Quantities
    BY DEF Brokers
  <2>2. b.size \in Nat /\ b.size > 0
    BY <2>1, QuantitiesType DEF Selling
  <2> QED BY <2>2
<1>4. d.news = Append(<< >>, w)
  <2>1. b.news = << >>
    BY DEF Selling
  <2> QED BY <1>0, <1>2, <1>3, <2>1 DEF Dealt
<1>5. Len(d.news) = 1 /\ d.news[1] = w
  BY <1>4, OneNews
<1>10. b.fillTrade \in Nat
  BY DEF Brokers
<1>6. /\ d.size = 0 /\ Waiting(d) = {} /\ d.trades = << >> /\ Behind(d)
      /\ Kept(d, b) /\ d.setup = None /\ d.entry = NoOrder
  BY <1>0, <1>2, <1>10 DEF Dealt, Selling, Behind
<1>7. /\ w.ref = r /\ w.status = "completed" /\ w.qty > 0 /\ w.trades = <<"closed">>
  BY <1>0, <1>3 DEF Selling
<1>8. r \in DOMAIN d.orders /\ d.orders[r].role \in Legs \cup {"end_of_data"}
  <2>1. r \in DOMAIN b.orders
    BY DEF Selling, Grouped, Queues
  <2> QED BY <1>6, <2>1 DEF Kept, Selling
<1>9. Sold(d)
  BY <1>5, <1>6, <1>7, <1>8 DEF Sold
<1> QED BY <1>1, <1>2, <1>9

\* The legs of a booked position.
LEMMA LegsAreGrouped ==
  ASSUME NEW b \in Brokers, Queues(b), Protected(b), NEW r \in Waiting(b)
  PROVE  /\ Grouped(b, r) /\ r \in DOMAIN b.orders /\ b.orders[r].role \in Legs
         /\ b.orders[r].left = b.size /\ b.orders[r].sign = -b.dir
         /\ b.trades = << >> => Selling(b, r)
<1>1. r \in DOMAIN b.orders
  BY DEF Queues
<1>2. \A q \in Waiting(b) : IsLeg(b, q) /\ Whole(b, q)
  BY DEF Protected
<1>3. Grouped(b, r)
  BY <1>2 DEF Grouped, IsLeg
<1>4. b.orders[r].role \in Legs /\ b.orders[r].left = b.size /\ b.orders[r].sign = -b.dir
  BY <1>2 DEF IsLeg, Legs
<1>5. ASSUME b.trades = << >> PROVE Selling(b, r)
  <2>1. b.setup = None
    BY <1>5 DEF Protected
  <2> QED BY <1>3, <1>4, <1>5, <2>1 DEF Selling, Protected
<1> QED BY <1>1, <1>3, <1>4, <1>5

(* ---- The matching of a bar ---------------------------------------------- *)

\* Nothing waits after Gone and Dealt, so what was in hand is not queued again.
LEMMA NotRequeued ==
  ASSUME NEW b, Queues(b), Waiting(b) = {}, NEW r \in DOMAIN b.orders
  PROVE  Requeue(b, r) = b
BY DEF Queues, Requeue

\* A step of the bar keeps a state sound that it does not change much.
LEMMA AlikeIsSound ==
  ASSUME NEW b, Sound(b), NEW d, d \in Brokers, Queues(d), d.fills = b.fills, Alike(d, b)
  PROVE  Sound(d)
<1>1. Situated(d)
  BY AlikeStays DEF Sound
<1>2. Reducing(d)
  BY DEF Sound, Reducing
<1> QED BY <1>1, <1>2 DEF Sound

\* A new bar changes no order.
LEMMA NewBarStep ==
  ASSUME Inv, NEW c \in Candles, NewBar(c)
  PROVE  Inv'
<1>1. /\ phase = "idle" /\ now < MaxBars /\ now' = now + 1 /\ bar' = c
      /\ s' = [s EXCEPT !.fills = << >>, !.done = {}] /\ phase' = "submitted"
  BY DEF NewBar
<1>2. s \in Brokers /\ Queues(s) /\ Situated(s)
  BY DEF Inv, Sound
<1>3. s' \in Brokers
  <2>1. << >> \in Seq(FillRecords) /\ {} \in SUBSET Nat
    OBVIOUS
  <2>2. [s EXCEPT !.fills = << >>, !.done = {}] \in Brokers
    BY <1>2, <2>1, ZenonT(30) DEF Brokers
  <2> QED BY <1>1, <2>2, Zenon
<1>4. /\ s'.fills = << >> /\ s'.done = {} /\ s'.pending = s.pending /\ s'.submitted = s.submitted
      /\ s'.orders = s.orders
  BY <1>1, <1>2 DEF Brokers
<1>5. Waiting(s') = Waiting(s)
  BY <1>4 DEF Waiting, InQueue
<1>6. Alike(s', s)
  BY <1>1, <1>2, <1>5 DEF Brokers, Alike
<1>7. Queues(s')
  BY <1>2, <1>4, <1>5, <1>6 DEF Queues, Live, Alike
<1>8. Reducing(s')
  BY <1>4 DEF Reducing
<1>9. Sound(s')
  BY <1>2, <1>3, <1>6, <1>7, <1>8, AlikeStays DEF Sound
<1>10. Phases'
  <2>1. GivenUp(s') <=> GivenUp(s)
    BY <1>2, <1>6, AlikeStays
  <2>2. s'.news = s.news /\ s'.trades = s.trades
    BY <1>6 DEF Alike
  <2> QED BY <1>1, <1>4, <2>1, <2>2 DEF Inv, Phases
<1>11. AtEnd'
  BY <1>1 DEF AtEnd
<1>12. now' \in 0..MaxBars /\ bar' \in [o : Int, l : Int, h : Int, c : Int, v : Nat]
  BY <1>1, AdapterAssumption DEF Inv
<1> QED BY <1>1, <1>9, <1>10, <1>11, <1>12 DEF Inv

\* What submit has left to check is the entry.
LEMMA SubmittedIsEntry ==
  ASSUME NEW b, Sound(b), b.submitted # << >>
  PROVE  Entering(b) /\ Head(b.submitted) = b.entry
<1>1. b \in Brokers /\ Queues(b) /\ Situated(b)
  BY DEF Sound
<1>2. Head(b.submitted) \in ToSet(b.submitted)
  <2>1. b.submitted \in Seq(Nat)
    BY <1>1 DEF Brokers
  <2> QED BY <2>1, NoEntries, HeadQueue
<1>3. Head(b.submitted) \in Waiting(b) /\ b.orders[Head(b.submitted)].role = "entry"
  BY <1>1, <1>2 DEF Waiting, Queues
<1>4. ~Protected(b)
  BY <1>1, <1>3, LegsAreGrouped DEF Legs
<1> QED BY <1>1, <1>3, <1>4 DEF Situated, Flat, Entering, GivenUp, Bought, Sold

\* An entry that passed the check of its cash is queued.
LEMMA Accepts ==
  ASSUME NEW b, Sound(b), NEW r \in DOMAIN b.orders, r \in Waiting(b), r # Sentinel, NEW c, Taken(c, b, r),
         c.fills = b.fills
  PROVE  /\ Sound(Accepted(c, r)) /\ Alike(Accepted(c, r), b)
         /\ Sentinel \in ToSet(Accepted(c, r).pending) <=> Sentinel \in ToSet(b.pending)
<1>1. PICK d : d = Accepted(c, r)
  OBVIOUS
<1>2. /\ c \in Brokers /\ Aside(c, b) /\ c.news = b.news /\ c.stop = b.stop /\ c.tp = b.tp
      /\ c.orders = b.orders /\ c.groups = b.groups /\ c.done = b.done
      /\ c.submitted = << >> /\ IsInjective(c.pending) /\ Waiting(c) = Waiting(b) \ {r}
      /\ Sentinel \in ToSet(c.pending) <=> Sentinel \in ToSet(b.pending)
  BY DEF Taken
<1>3. b \in Brokers /\ Queues(b)
  BY DEF Sound
<1>4. b.orders \in Seq(OrderRecords) /\ r \in Nat /\ c.pending \in Seq(Nat)
  <2>1. b.orders \in Seq(OrderRecords)
    BY <1>3 DEF Brokers
  <2>2. c.pending \in Seq(Nat)
    BY <1>2 DEF Brokers
  <2> QED BY <2>1, <2>2
<1>5. PICK O : O = [b.orders EXCEPT ![r].status = "accepted"]
  OBVIOUS
<1>6. PICK P : P = Append(c.pending, r)
  OBVIOUS
<1>7. O \in Seq(OrderRecords) /\ DOMAIN O = DOMAIN b.orders
      /\ \A q \in DOMAIN b.orders : O[q] = IF q = r THEN [b.orders[q] EXCEPT !.status = "accepted"] ELSE b.orders[q]
  <2>1. "accepted" \in Statuses /\ b.orders[r] \in OrderRecords
    BY <1>4 DEF Statuses
  <2>2. [b.orders[r] EXCEPT !.status = "accepted"] \in OrderRecords
    BY <2>1 DEF OrderRecords
  <2>3. PICK w \in OrderRecords : w = [b.orders[r] EXCEPT !.status = "accepted"]
    BY <2>2
  <2>4. O = [b.orders EXCEPT ![r] = w]
    BY <1>5, <2>3
  <2>5. /\ O \in Seq(OrderRecords) /\ DOMAIN O = DOMAIN b.orders
        /\ \A q \in DOMAIN b.orders : O[q] = IF q = r THEN w ELSE b.orders[q]
    BY <1>4, <2>4
  <2> QED BY <2>3, <2>5
<1>8. r \notin ToSet(c.pending)
  BY <1>2 DEF Waiting, InQueue
<1>9. P \in Seq(Nat) /\ ToSet(P) = ToSet(c.pending) \cup {r} /\ IsInjective(P)
  BY <1>2, <1>4, <1>6, <1>8, AppendQueue
<1>10. d = [c EXCEPT !.orders = O, !.pending = P]
  BY <1>1, <1>2, <1>5, <1>6 DEF Accepted
<1>11. d \in Brokers
  <2>1. [c EXCEPT !.orders = O, !.pending = P] \in Brokers
    BY <1>2, <1>7, <1>9, ZenonT(30) DEF Brokers
  <2> QED BY <1>10, <2>1, Zenon
<1>12. /\ d.orders = O /\ d.pending = P /\ d.submitted = << >> /\ d.news = c.news
       /\ d.groups = c.groups /\ d.done = c.done /\ d.stop = c.stop /\ d.tp = c.tp /\ Aside(d, c)
  BY <1>2, <1>10 DEF Brokers, Aside
<1>13. Waiting(d) = Waiting(b)
  BY <1>2, <1>9, <1>12, NoEntries DEF Waiting, InQueue
<1>14. \A q \in DOMAIN b.orders :
         LET o == O[q]
             w == b.orders[q]
         IN /\ o.role = w.role /\ o.sign = w.sign /\ o.left = w.left /\ o.filled = w.filled
            /\ o.price = w.price /\ o.lead = w.lead /\ o.setup = w.setup /\ o.guarded = w.guarded
  <2>1. \A q \in DOMAIN b.orders : b.orders[q] \in OrderRecords
    BY <1>4
  <2> QED BY <1>7, <2>1, ZenonT(40) DEF OrderRecords
<1>15. Alike(d, b)
  BY <1>2, <1>7, <1>12, <1>13, <1>14 DEF Alike, Aside
<1>16. Queues(d)
  <2>1. \A q \in DOMAIN d.orders : Live(d, q) <=> q \in Waiting(d)
    <3> TAKE q \in DOMAIN d.orders
    <3>1. CASE q = r
      <4>1. q # NoOrder /\ b.orders[q] \in OrderRecords
        BY <1>4, <3>1 DEF NoOrder
      <4>2. d.orders[q].status = "accepted"
        BY <1>7, <1>12, <3>1, <4>1 DEF OrderRecords
      <4> QED BY <1>13, <3>1, <4>1, <4>2 DEF Live
    <3>2. CASE q # r
      <4>1. q \in DOMAIN b.orders /\ d.orders[q] = b.orders[q]
        BY <1>7, <1>12, <3>2
      <4> QED BY <1>3, <1>13, <4>1 DEF Live, Queues
    <3> QED BY <3>1, <3>2
  <2>2. ToSet(d.submitted) = {} /\ Len(d.submitted) <= 1
    BY <1>12, NoEntries
  <2>3. d.entry = b.entry /\ d.cancelled = b.cancelled /\ d.stop = b.stop /\ d.tp = b.tp
        /\ d.groups = b.groups /\ d.done = b.done
    BY <1>2, <1>12, <1>15 DEF Alike
  <2>4. DOMAIN d.orders = DOMAIN b.orders
    BY <1>7, <1>12
  <2> QED BY <1>3, <1>9, <1>12, <1>13, <2>1, <2>2, <2>3, <2>4 DEF Queues
<1>17. d.fills = b.fills
  BY <1>2, <1>12 DEF Aside
<1>18. Sentinel \in ToSet(d.pending) <=> Sentinel \in ToSet(b.pending)
  BY <1>2, <1>9, <1>12
<1> QED BY <1>1, <1>11, <1>15, <1>16, <1>17, <1>18, AlikeIsSound

\* The entry is accepted, or canceled for want of cash.
LEMMA CheckSubmittedStep ==
  ASSUME Inv, CheckSubmitted
  PROVE  Inv'
<1>1. PICK r : r = Head(s.submitted)
  OBVIOUS
<1>2. PICK c : c = [s EXCEPT !.submitted = Tail(@)]
  OBVIOUS
<1>3. /\ phase = "submitted" /\ s.submitted # << >> /\ phase' = phase /\ now' = now /\ bar' = bar
      /\ s' = Accepted(c, r) \/ s' = Refused(c, r)
  BY <1>1, <1>2 DEF CheckSubmitted
<1>4. Sound(s) /\ s \in Brokers /\ Queues(s) /\ Reducing(s)
  BY DEF Inv, Sound
<1>5. Entering(s) /\ r = s.entry
  BY <1>1, <1>3, <1>4, SubmittedIsEntry
<1>6. Taken(c, s, r) /\ r \in Waiting(s) /\ r # Sentinel
  BY <1>1, <1>2, <1>3, <1>4, TakesSubmitted
<1>7. r \in DOMAIN s.orders
  BY <1>4, <1>6 DEF Queues
<1>8. CASE s' = Accepted(c, r)
  <2>1. c.fills = s.fills
    BY <1>6 DEF Taken, Aside
  <2>2. Sound(s') /\ Alike(s', s) /\ (Sentinel \in ToSet(s'.pending) <=> Sentinel \in ToSet(s.pending))
    BY <1>4, <1>6, <1>7, <1>8, <2>1, Accepts
  <2>3. s'.news = s.news /\ s'.trades = s.trades
    BY <2>2 DEF Alike
  <2>4. s.news = << >>
    BY <1>5 DEF Entering
  <2>5. Phases'
    BY <1>3, <2>2, <2>3, <2>4 DEF Inv, Phases
  <2>6. AtEnd'
    BY <1>3 DEF AtEnd
  <2> QED BY <1>3, <2>2, <2>5, <2>6 DEF Inv
<1>9. CASE s' = Refused(c, r)
  <2>1. GivenUp(s') /\ Gone(s', s, r, "margin")
    BY <1>4, <1>5, <1>6, <1>9, EntryEnds DEF Refused
  <2>2. s' \in Brokers /\ Queues(s') /\ s'.fills = s.fills /\ s'.trades = s.trades
        /\ (Sentinel \in ToSet(s'.pending) <=> Sentinel \in ToSet(s.pending))
    BY <2>1 DEF Gone, Aside
  <2>3. Reducing(s')
    BY <1>4, <2>2 DEF Reducing
  <2>4. Sound(s')
    BY <2>1, <2>2, <2>3 DEF Sound, Situated
  <2>5. Phases'
    BY <1>3, <2>1, <2>2 DEF Inv, Phases
  <2>6. AtEnd'
    BY <1>3 DEF AtEnd
  <2> QED BY <1>3, <2>4, <2>5, <2>6 DEF Inv
<1> QED BY <1>3, <1>8, <1>9

\* No order of a queue comes before its first.
LeadsByPriority(b, q) ==
  q # << >> => \A r \in ToSet(q) : OpeningPriority(b.orders[Head(q)]) <= OpeningPriority(b.orders[r])

\* Prioritized reorders the queue.
LEMMA PrioritizedQueue ==
  ASSUME NEW b, Sound(b), b.submitted = << >>, Sentinel \notin ToSet(b.pending)
  PROVE  \E q \in Seq(Nat) :
            /\ Prioritized(b) = [b EXCEPT !.pending = q]
            /\ ToSet(q) = ToSet(b.pending) /\ IsInjective(q) /\ LeadsByPriority(b, q)
<1>1. b \in Brokers /\ Queues(b) /\ Situated(b) /\ b.pending \in Seq(Nat) /\ IsInjective(b.pending)
  BY DEF Sound, Queues, Brokers
<1>2. Waiting(b) = ToSet(b.pending)
  BY NoEntries DEF Waiting, InQueue
<1>3. CASE Protected(b)
  <2>1. ToSet(b.pending) \subseteq {b.stop, b.tp}
    BY <1>2, <1>3 DEF Protected
  <2>2. \A r \in ToSet(b.pending) : b.orders[r].role \in Legs /\ b.orders[r].lead = b.stop
    BY <1>2, <1>3 DEF Protected, IsLeg, Legs
  <2>3. PICK q \in Seq(Nat) :
            /\ Prioritized(b) = [b EXCEPT !.pending = q]
            /\ ToSet(q) = ToSet(b.pending) /\ IsInjective(q)
            /\ \A i, j \in DOMAIN q :
                 i < j => OpeningPriority(b.orders[q[i]]) <= OpeningPriority(b.orders[q[j]])
    BY <1>1, <2>1, <2>2, PrioritizedBracket
  <2>4. ASSUME q # << >>, NEW r \in ToSet(q)
        PROVE  OpeningPriority(b.orders[Head(q)]) <= OpeningPriority(b.orders[r])
    <3>1. PICK j \in DOMAIN q : r = q[j]
      BY <2>4 DEF ToSet
    <3>2. Head(q) = q[1] /\ 1 \in DOMAIN q /\ (j = 1 \/ 1 < j)
      BY <2>4, <3>1
    <3>3. OpeningPriority(b.orders[r]) \in {0, 1, 2}
      BY PriorityType
    <3> QED BY <2>3, <3>1, <3>2, <3>3
  <2> QED BY <2>3, <2>4 DEF LeadsByPriority
<1>4. CASE ~Protected(b)
  <2>1. \A r \in ToSet(b.pending) : b.orders[r].role = "entry"
    BY <1>1, <1>2, <1>4 DEF Situated, Flat, Entering, GivenUp, Bought, Sold, Fits
  <2>2. \A r \in ToSet(b.pending) : b.orders[r].role \notin Legs
    BY <2>1 DEF Legs
  <2>3. Prioritized(b) = b
    BY <1>1, <2>2, PrioritizedOthers
  <2>4. b = [b EXCEPT !.pending = b.pending]
    BY <1>1 DEF Brokers
  <2>5. ASSUME b.pending # << >>, NEW r \in ToSet(b.pending)
        PROVE  OpeningPriority(b.orders[Head(b.pending)]) <= OpeningPriority(b.orders[r])
    <3>1. Head(b.pending) \in ToSet(b.pending)
      BY <1>1, <2>5, HeadQueue
    <3>2. OpeningPriority(b.orders[Head(b.pending)]) = 2 /\ OpeningPriority(b.orders[r]) = 2
      BY <2>1, <3>1 DEF OpeningPriority
    <3> QED BY <3>2
  <2> QED BY <1>1, <2>3, <2>4, <2>5 DEF LeadsByPriority
<1> QED BY <1>3, <1>4

\* Another order of the queue, with or without the end of the pass.
LEMMA Reordered ==
  ASSUME NEW b, Sound(b), NEW q \in Seq(Nat), ToSet(q) \ {Sentinel} = InQueue(b), IsInjective(q)
  PROVE  Sound([b EXCEPT !.pending = q]) /\ Alike([b EXCEPT !.pending = q], b)
<1>1. PICK d : d = [b EXCEPT !.pending = q]
  OBVIOUS
<1>2. b \in Brokers /\ Queues(b)
  BY DEF Sound
<1>3. d \in Brokers
  <2>1. [b EXCEPT !.pending = q] \in Brokers
    BY <1>2, ZenonT(30) DEF Brokers
  <2> QED BY <1>1, <2>1, Zenon
<1>4. /\ d.pending = q /\ d.submitted = b.submitted /\ d.orders = b.orders /\ d.done = b.done
      /\ d.fills = b.fills
  BY <1>1, <1>2 DEF Brokers
<1>5. Waiting(d) = Waiting(b)
  BY <1>4 DEF Waiting, InQueue
<1>6. Alike(d, b)
  BY <1>1, <1>2, <1>5 DEF Brokers, Alike
<1>7. ToSet(d.submitted) \cap ToSet(d.pending) = {}
  <2>1. Sentinel \notin ToSet(b.submitted)
    <3>1. b.orders \in Seq(OrderRecords) /\ ToSet(b.submitted) \subseteq DOMAIN b.orders
      BY <1>2 DEF Brokers, Queues, Waiting
    <3>2. 0 \notin DOMAIN b.orders
      BY <3>1
    <3> QED BY <3>1, <3>2 DEF Sentinel
  <2> QED BY <1>2, <1>4, <2>1 DEF InQueue, Queues
<1>8. Queues(d)
  BY <1>2, <1>4, <1>5, <1>6, <1>7 DEF Queues, Live, Alike
<1> QED BY <1>1, <1>3, <1>4, <1>6, <1>8, AlikeIsSound

\* The pass reorders the queue and puts its sentinel behind it.
LEMMA BeginPassStep ==
  ASSUME Inv, BeginPass
  PROVE  Inv'
<1>1. PICK b : b = Prioritized(s)
  OBVIOUS
<1>2. /\ phase = "submitted" /\ s.submitted = << >> /\ phase' = "matching" /\ now' = now /\ bar' = bar
      /\ s' = [b EXCEPT !.pending = Append(@, Sentinel)]
  BY <1>1 DEF BeginPass
<1>3. Sound(s) /\ s \in Brokers /\ Sentinel \notin ToSet(s.pending)
  BY <1>2 DEF Inv, Sound, Phases
<1>4. PICK q \in Seq(Nat) : /\ b = [s EXCEPT !.pending = q]
                            /\ ToSet(q) = ToSet(s.pending) /\ IsInjective(q)
  BY <1>1, <1>2, <1>3, PrioritizedQueue
<1>5. PICK p : p = Append(q, Sentinel)
  OBVIOUS
<1>6. p \in Seq(Nat) /\ ToSet(p) = ToSet(s.pending) \cup {Sentinel} /\ IsInjective(p)
  <2>1. Sentinel \in Nat
    BY DEF Sentinel
  <2> QED BY <1>3, <1>4, <1>5, <2>1, AppendQueue
<1>7. s' = [s EXCEPT !.pending = p]
  BY <1>2, <1>3, <1>4, <1>5 DEF Brokers
<1>8. Sound(s') /\ Alike(s', s)
  <2>1. ToSet(p) \ {Sentinel} = InQueue(s)
    BY <1>3, <1>6 DEF InQueue
  <2> QED BY <1>3, <1>6, <1>7, <2>1, Reordered
<1>9. s'.pending = p /\ s'.submitted = << >> /\ s'.trades = s.trades
  BY <1>2, <1>3, <1>7 DEF Brokers
<1>10. Phases'
  BY <1>2, <1>6, <1>9 DEF Inv, Phases
<1>11. AtEnd'
  BY <1>2 DEF AtEnd
<1> QED BY <1>2, <1>8, <1>10, <1>11 DEF Inv

\* The sentinel comes round, and the pass ends.
LEMMA EndMatchingStep ==
  ASSUME Inv, EndMatching
  PROVE  Inv'
<1>1. /\ phase = "matching" /\ Head(s.pending) = Sentinel /\ phase' = "orders" /\ now' = now /\ bar' = bar
      /\ s' = [s EXCEPT !.pending = Tail(@)]
  BY DEF EndMatching
<1>2. Sound(s) /\ s \in Brokers /\ Sentinel \in ToSet(s.pending) /\ s.pending \in Seq(Nat) /\ IsInjective(s.pending)
  BY <1>1 DEF Inv, Sound, Phases, Queues, Brokers
<1>3. PICK q : q = Tail(s.pending)
  OBVIOUS
<1>4. q \in Seq(Nat) /\ ToSet(s.pending) = ToSet(q) \cup {Sentinel} /\ IsInjective(q) /\ Sentinel \notin ToSet(q)
  BY <1>1, <1>2, <1>3, HeadQueue
<1>5. Sound([s EXCEPT !.pending = q])
  <2>1. ToSet(q) \ {Sentinel} = InQueue(s)
    BY <1>4 DEF InQueue
  <2> QED BY <1>2, <1>4, <2>1, Reordered
<1>6. Sound(s') /\ s'.pending = q
  BY <1>1, <1>2, <1>3, <1>5 DEF Brokers
<1>7. Phases'
  BY <1>1, <1>4, <1>6 DEF Phases
<1>8. AtEnd'
  BY <1>1 DEF AtEnd
<1> QED BY <1>1, <1>6, <1>7, <1>8 DEF Inv

\* A bar executes an order at a price, or not at all.
LEMMA BarPriceType ==
  ASSUME bar \in [o : Int, l : Int, h : Int, c : Int, v : Nat], NEW o \in OrderRecords,
         o.role \in Legs \/ (o.role = "entry" /\ o.setup \in SetupRecords)
  PROVE  BarPrice(o) \in Int \cup {None}
<1>1. bar.o \in Int /\ o.price \in Int \cup {None}
  BY DEF OrderRecords
<1>2. OrderType(o) \in {"market", "limit", "stop"}
  <2>1. o.role \in {"stop_loss", "take_profit", "entry"}
    BY DEF Legs
  <2>2. CASE o.role = "entry"
    BY <2>2 DEF OrderType, SetupRecords, Legs
  <2>3. CASE o.role = "stop_loss"
    BY <2>3 DEF OrderType
  <2>4. CASE o.role = "take_profit"
    BY <2>4 DEF OrderType
  <2> QED BY <2>1, <2>2, <2>3, <2>4
<1>3. CASE OrderType(o) = "market"
  BY <1>1, <1>3 DEF BarPrice
<1>4. CASE OrderType(o) = "limit"
  BY <1>1, <1>4 DEF BarPrice
<1>5. CASE OrderType(o) = "stop"
  BY <1>1, <1>5 DEF BarPrice
<1> QED BY <1>2, <1>3, <1>4, <1>5

\* What waits while a bar is matched is an entry or the legs of a booked position.
LEMMA WaitingSituation ==
  ASSUME NEW b, Sound(b), NEW r \in Waiting(b), b.trades = << >>
  PROVE  \/ Entering(b) /\ r = b.entry
         \/ Protected(b) /\ Selling(b, r)
<1>1. b \in Brokers /\ Queues(b) /\ Situated(b)
  BY DEF Sound
<1>2. CASE Protected(b)
  BY <1>1, <1>2, LegsAreGrouped
<1>3. CASE ~Protected(b)
  BY <1>1, <1>3 DEF Situated, Flat, Entering, GivenUp, Bought, Sold
<1> QED BY <1>2, <1>3

\* What every turn of the queue keeps.
MatchedTo(d, b) ==
  /\ Sound(d) /\ d.trades = b.trades /\ d.submitted = << >>
  /\ Sentinel \in ToSet(d.pending) <=> Sentinel \in ToSet(b.pending)

\* A turn after which nothing waits.
MatchedAway(d, b) == MatchedTo(d, b) /\ Waiting(d) = {} /\ DOMAIN d.orders = DOMAIN b.orders

\* An entry a guard refuses leaves the adapter to hear of its end.
LEMMA RefusedEntry ==
  ASSUME NEW b, Sound(b), Entering(b), NEW c, Taken(c, b, b.entry)
  PROVE  MatchedAway(Refused(c, b.entry), b)
<1>1. b \in Brokers /\ Queues(b) /\ Reducing(b)
  BY DEF Sound
<1>2. PICK d : d = Refused(c, b.entry)
  OBVIOUS
<1>3. GivenUp(d) /\ Gone(d, b, b.entry, "margin")
  BY <1>1, <1>2, EntryEnds DEF Refused
<1>4. /\ d \in Brokers /\ Queues(d) /\ d.fills = b.fills /\ d.trades = b.trades
      /\ d.submitted = << >> /\ Waiting(d) = {} /\ DOMAIN d.orders = DOMAIN b.orders
      /\ (Sentinel \in ToSet(d.pending) <=> Sentinel \in ToSet(b.pending))
  BY <1>3 DEF Gone, Aside, Kept
<1>5. Reducing(d)
  BY <1>1, <1>4 DEF Reducing
<1>6. MatchedTo(d, b)
  BY <1>3, <1>4, <1>5 DEF MatchedTo, Sound, Situated
<1> QED BY <1>2, <1>4, <1>6 DEF MatchedAway

\* An entry that fills leaves a bought position.
LEMMA MatchedEntry ==
  ASSUME NEW b, Sound(b), Entering(b), NEW c, Taken(c, b, b.entry), NEW price \in Int
  PROVE  MatchedAway(CloseGroup(Filled(c, b.entry, b.orders[b.entry].left, price), b.entry), b)
<1>1. b \in Brokers /\ Queues(b) /\ Reducing(b)
  BY DEF Sound
<1>2. PICK d : d = CloseGroup(Filled(c, b.entry, b.orders[b.entry].left, price), b.entry)
  OBVIOUS
<1>3. Bought(d) /\ Dealt(d, b, b.entry)
  BY <1>1, <1>2, EntryFills
<1>4. /\ d \in Brokers /\ Queues(d) /\ d.trades = b.trades /\ Reducing(d)
      /\ d.submitted = << >> /\ Waiting(d) = {} /\ DOMAIN d.orders = DOMAIN b.orders
      /\ (Sentinel \in ToSet(d.pending) <=> Sentinel \in ToSet(b.pending))
  BY <1>1, <1>3, EntryIsGrouped DEF Dealt, Kept
<1>5. MatchedTo(d, b)
  BY <1>3, <1>4 DEF MatchedTo, Sound, Situated
<1> QED BY <1>2, <1>4, <1>5 DEF MatchedAway

\* An exit that fills leaves a sold one.
LEMMA MatchedExit ==
  ASSUME NEW b, Sound(b), NEW r, Selling(b, r), NEW c, Taken(c, b, r), NEW price \in Int
  PROVE  MatchedAway(CloseGroup(Filled(c, r, b.orders[r].left, price), r), b)
<1>1. b \in Brokers /\ Queues(b) /\ Reducing(b)
  BY DEF Sound
<1>2. PICK d : d = CloseGroup(Filled(c, r, b.orders[r].left, price), r)
  OBVIOUS
<1>3. Sold(d) /\ Dealt(d, b, r)
  BY <1>1, <1>2, ExitFills
<1>4. b.size > 0
  BY DEF Selling
<1>5. /\ d \in Brokers /\ Queues(d) /\ d.trades = b.trades /\ Reducing(d)
      /\ d.submitted = << >> /\ Waiting(d) = {} /\ DOMAIN d.orders = DOMAIN b.orders
      /\ (Sentinel \in ToSet(d.pending) <=> Sentinel \in ToSet(b.pending))
  BY <1>1, <1>3, <1>4 DEF Dealt, Kept
<1>6. MatchedTo(d, b)
  BY <1>3, <1>5 DEF MatchedTo, Sound, Situated
<1> QED BY <1>2, <1>5, <1>6 DEF MatchedAway

\* An order that finds no price goes to the end of the queue.
LEMMA GoesRound ==
  ASSUME NEW b, Sound(b), b.submitted = << >>, NEW r \in Waiting(b), NEW c, Taken(c, b, r), c.fills = b.fills,
         c = [b EXCEPT !.pending = c.pending]
  PROVE  MatchedTo(Requeue(c, r), b)
<1>1. b \in Brokers /\ Queues(b)
  BY DEF Sound
<1>2. /\ c \in Brokers /\ c.orders = b.orders /\ IsInjective(c.pending) /\ Waiting(c) = Waiting(b) \ {r}
      /\ c.submitted = << >> /\ (Sentinel \in ToSet(c.pending) <=> Sentinel \in ToSet(b.pending))
  BY DEF Taken
<1>3. r \in DOMAIN b.orders /\ Live(b, r) /\ r # Sentinel
  BY <1>1 DEF Queues, Live, Sentinel, NoOrder
<1>4. PICK q : q = Append(c.pending, r)
  OBVIOUS
<1>5. c.pending \in Seq(Nat) /\ r \in Nat /\ r \notin ToSet(c.pending)
  <2>1. c.pending \in Seq(Nat) /\ b.orders \in Seq(OrderRecords)
    BY <1>1, <1>2 DEF Brokers
  <2> QED BY <1>2, <1>3, <2>1 DEF Waiting, InQueue
<1>6. q \in Seq(Nat) /\ ToSet(q) = ToSet(c.pending) \cup {r} /\ IsInjective(q)
  BY <1>2, <1>4, <1>5, AppendQueue
<1>7. PICK d : d = Requeue(c, r)
  OBVIOUS
<1>8. d = [b EXCEPT !.pending = q]
  <2>1. Live(c, r)
    BY <1>2, <1>3 DEF Live
  <2>2. d = [c EXCEPT !.pending = q]
    BY <1>4, <1>7, <2>1 DEF Requeue
  <2>3. PICK p : p = c.pending
    OBVIOUS
  <2>4. c = [b EXCEPT !.pending = p]
    BY <2>3
  <2> QED BY <1>1, <2>2, <2>4 DEF Brokers
<1>9. Sound(d) /\ Alike(d, b)
  <2>1. InQueue(b) = Waiting(b) /\ InQueue(c) = Waiting(c)
    BY <1>2, NoEntries DEF Waiting
  <2>2. ToSet(q) \ {Sentinel} = InQueue(b)
    BY <1>2, <1>3, <1>6, <2>1 DEF InQueue
  <2> QED BY <1>6, <1>8, <2>2, Reordered
<1>10. d.pending = q /\ d.submitted = << >> /\ d.trades = b.trades
  BY <1>1, <1>8 DEF Brokers
<1>11. Sentinel \in ToSet(d.pending) <=> Sentinel \in ToSet(b.pending)
  BY <1>2, <1>3, <1>6, <1>10
<1> QED BY <1>7, <1>9, <1>10, <1>11 DEF MatchedTo

\* One turn: the order goes round again, is refused, or is filled at its price.
Turned(c, r, d) ==
  \/ BarPrice(s.orders[r]) = None /\ d = Requeue(c, r) /\ MatchedTo(d, s)
  \/ /\ Entering(s) /\ r = s.entry
     /\ d = Refused(c, r) /\ MatchedAway(d, s)
  \/ \E price \in Int :
        /\ (Entering(s) /\ r = s.entry) \/ (Protected(s) /\ Selling(s, r))
        /\ price = BarPrice(s.orders[r])
        /\ d = CloseGroup(Filled(c, r, s.orders[r].left, price), r) /\ MatchedAway(d, s)

\* An order whose group is done never has a turn, so the turn is one of the three.
LEMMA TurnCases ==
  ASSUME Inv, Turn, NEW r, r = Head(s.pending), NEW c, c = [s EXCEPT !.pending = Tail(@)]
  PROVE  /\ phase = "matching" /\ phase' = phase /\ now' = now /\ bar' = bar
         /\ Sentinel \in ToSet(s.pending) /\ r # Sentinel
         /\ r \in Waiting(s) /\ r \in DOMAIN s.orders /\ Taken(c, s, r)
         /\ Turned(c, r, s')
<1>3. PICK funded \in BOOLEAN :
         s' = IF s.orders[r].lead \in s.done
              THEN CloseGroup(Ended(c, r, "canceled"), r)
              ELSE Requeue(TryExec(c, r, funded), r)
  BY DEF Turn
<1>4. phase = "matching" /\ r # Sentinel /\ phase' = phase /\ now' = now /\ bar' = bar
  BY DEF Turn
<1>5. /\ Sound(s) /\ s \in Brokers /\ Queues(s) /\ s.trades = << >> /\ s.submitted = << >>
      /\ Sentinel \in ToSet(s.pending)
  BY <1>4 DEF Inv, Sound, Phases
<1>6. r \in Waiting(s) /\ Taken(c, s, r)
  <2>1. ToSet(s.pending) # {} /\ Head(s.pending) # Sentinel
    BY <1>4, <1>5
  <2> QED BY <1>5, <2>1, TakesHead
<1>7. r \in DOMAIN s.orders /\ c.orders = s.orders /\ c.fills = s.fills /\ c.size = s.size /\ c.dir = s.dir
  BY <1>5, <1>6 DEF Queues, Taken, Aside
<1>8. (Entering(s) /\ r = s.entry) \/ (Protected(s) /\ Selling(s, r))
  BY <1>5, <1>6, WaitingSituation
<1>9. s.orders[r].lead \notin s.done
  <2>1. Whole(s, r)
    BY <1>6, <1>8 DEF Entering, Protected
  <2> QED BY <1>5, <2>1 DEF Whole, Queues
<1>10. s' = Requeue(TryExec(c, r, funded), r)
  BY <1>3, <1>9
<1>11. PICK price : price = BarPrice(s.orders[r])
  OBVIOUS
<1>12. price \in Int \cup {None}
  <2>1. s.orders \in Seq(OrderRecords)
    BY <1>5 DEF Brokers
  <2>2. s.orders[r] \in OrderRecords
    BY <1>7, <2>1
  <2>3. s.orders[r].role \in Legs \/ (s.orders[r].role = "entry" /\ s.orders[r].setup \in SetupRecords)
    <3>1. CASE Entering(s) /\ r = s.entry
      BY <2>2, <3>1 DEF Entering, Fits, OrderRecords
    <3>2. CASE Protected(s)
      BY <1>5, <1>6, <3>2, LegsAreGrouped
    <3> QED BY <1>8, <3>1, <3>2
  <2>4. bar \in [o : Int, l : Int, h : Int, c : Int, v : Nat]
    BY DEF Inv
  <2> QED BY <1>11, <2>2, <2>3, <2>4, BarPriceType
<1>13. Turned(c, r, s')
  <2>1. CASE price = None
    <3>1. TryExec(c, r, funded) = c
      BY <1>7, <1>11, <2>1 DEF TryExec
    <3>2. c = [s EXCEPT !.pending = c.pending]
      BY <1>5 DEF Brokers
    <3>3. s' = Requeue(c, r) /\ MatchedTo(s', s)
      BY <1>5, <1>6, <1>7, <1>10, <3>1, <3>2, GoesRound
    <3> QED BY <1>11, <2>1, <3>3 DEF Turned
  <2>2. CASE price # None /\ Opens(c, r) /\ ~funded
    <3>1. TryExec(c, r, funded) = Refused(c, r)
      BY <1>7, <1>11, <2>2 DEF TryExec
    <3>2. Entering(s) /\ r = s.entry
      <4>1. ASSUME Selling(s, r) PROVE FALSE
        <5>1. s.size > 0 /\ s.orders[r].sign = -s.dir
          BY <4>1 DEF Selling
        <5>2. s.size \in Quantities /\ s.dir \in {1, -1}
          BY <1>5 DEF Brokers
        <5>3. s.size \in Nat
          BY <5>2, QuantitiesType
        <5>4. s.size # 0 /\ -s.dir # s.dir
          BY <5>1, <5>2, <5>3
        <5> QED BY <1>7, <2>2, <5>1, <5>4 DEF Opens
      <4> QED BY <1>8, <4>1
    <3>3. PICK d : d = Refused(c, r)
      OBVIOUS
    <3>4. MatchedAway(d, s)
      BY <1>5, <1>6, <3>2, <3>3, RefusedEntry, ZenonT(40)
    <3>5. Requeue(d, r) = d
      BY <1>7, <3>4, NotRequeued, SMTT(30) DEF MatchedAway, MatchedTo, Sound
    <3> QED BY <1>10, <3>1, <3>2, <3>3, <3>4, <3>5 DEF Turned
  <2>3. CASE price # None /\ ~(Opens(c, r) /\ ~funded)
    <3>1. PICK d : d = CloseGroup(Filled(c, r, s.orders[r].left, price), r)
      OBVIOUS
    <3>2. TryExec(c, r, funded) = d
      BY <1>7, <1>11, <2>3, <3>1 DEF TryExec
    <3>3. price \in Int
      BY <1>12, <2>3
    <3>4. MatchedAway(d, s)
      <4>1. CASE Entering(s) /\ r = s.entry
        BY <1>5, <1>6, <3>1, <3>3, <4>1, MatchedEntry
      <4>2. CASE Selling(s, r)
        BY <1>5, <1>6, <3>1, <3>3, <4>2, MatchedExit
      <4> QED BY <1>8, <4>1, <4>2
    <3>5. Requeue(d, r) = d
      BY <1>7, <3>4, NotRequeued DEF MatchedAway, MatchedTo, Sound
    <3>6. s' = d
      BY <1>10, <3>2, <3>5
    <3> QED BY <1>8, <1>11, <3>1, <3>3, <3>4, <3>6 DEF Turned
  <2> QED BY <2>1, <2>2, <2>3
<1> QED BY <1>4, <1>5, <1>6, <1>7, <1>13

\* Each turn refuses, fills or keeps the order at the head of the queue.
LEMMA TurnStep ==
  ASSUME Inv, Turn
  PROVE  Inv'
<1>1. PICK r : r = Head(s.pending)
  OBVIOUS
<1>2. PICK c : c = [s EXCEPT !.pending = Tail(@)]
  OBVIOUS
<1>3. /\ phase = "matching" /\ phase' = phase /\ now' = now /\ bar' = bar
      /\ Sentinel \in ToSet(s.pending) /\ s.trades = << >>
      /\ MatchedTo(s', s)
  BY <1>1, <1>2, TurnCases DEF Turned, MatchedAway, Inv, Phases
<1>4. Phases'
  BY <1>3 DEF MatchedTo, Sound, Phases
<1>5. AtEnd'
  BY <1>3 DEF AtEnd
<1> QED BY <1>3, <1>4, <1>5 DEF Inv, MatchedTo

(* ---- The adapter hears -------------------------------------------------- *)

\* The only notification, handed over.
Delivered(b) == [b EXCEPT !.news = Tail(@), !.trades = @ \o Head(b.news).trades]

\* Handing it over leaves none.
LEMMA Delivers ==
  ASSUME NEW b \in Brokers, Queues(b), Len(b.news) = 1, b.trades = << >>
  PROVE  /\ Head(b.news) = b.news[1] /\ b.news[1] \in NewsRecords
         /\ Delivered(b) \in Brokers /\ Queues(Delivered(b)) /\ Delivered(b).news = << >>
         /\ Delivered(b).trades = b.news[1].trades
         /\ Delivered(b).fills = b.fills /\ Delivered(b).pending = b.pending
         /\ Delivered(b).submitted = b.submitted /\ Waiting(Delivered(b)) = Waiting(b)
         /\ Delivered(b).size = b.size /\ Delivered(b).dir = b.dir /\ Delivered(b).fillTrade = b.fillTrade
         /\ Delivered(b).setup = b.setup /\ Delivered(b).trade = b.trade /\ Delivered(b).tradeId = b.tradeId
         /\ Delivered(b).held = b.held /\ Delivered(b).policy = b.policy
         /\ Delivered(b).cancelled = b.cancelled /\ Delivered(b).entry = b.entry
         /\ Delivered(b).stop = b.stop /\ Delivered(b).tp = b.tp
         /\ Delivered(b).orders = b.orders
<1>1. PICK N : N = b.news
  OBVIOUS
<1>2. N \in Seq(NewsRecords) /\ Len(N) = 1
  BY <1>1 DEF Brokers
<1>3. PICK e : e = N[1]
  OBVIOUS
<1>4. Head(N) = e /\ e \in NewsRecords
  BY <1>2, <1>3
<1>5. Tail(N) = << >>
  <2>1. PICK p : p = Tail(N)
    OBVIOUS
  <2>2. N # << >>
    <3>1. Len(N) # 0
      BY <1>2
    <3> QED BY <1>2, <3>1, EmptySeq
  <2>3. p \in Seq(NewsRecords) /\ Len(p) = 0
    BY <1>2, <2>1, <2>2, HeadTailProperties
  <2> QED BY <2>1, <2>3
<1>6. e.trades \in {<< >>, <<"opened">>, <<"closed">>}
  BY <1>4 DEF NewsRecords
<1>7. << >> \o e.trades = e.trades
  <2>1. << >> \in Seq({"closed", "opened"}) /\ <<"closed">> \in Seq({"closed", "opened"})
        /\ <<"opened">> \in Seq({"closed", "opened"})
    OBVIOUS
  <2>2. e.trades \in Seq({"closed", "opened"})
    BY <1>6, <2>1
  <2> QED BY <2>2, ConcatEmptySeq
<1>8. PICK c : c = Delivered(b)
  OBVIOUS
<1>9. PICK T : T = e.trades
  OBVIOUS
<1>10. c = [b EXCEPT !.news = << >>, !.trades = T]
  BY <1>1, <1>4, <1>5, <1>7, <1>8, <1>9 DEF Delivered, Brokers
<1>11. c \in Brokers
  <2>1. << >> \in Seq(NewsRecords) /\ T \in {<< >>, <<"opened">>, <<"closed">>}
    BY <1>6, <1>9
  <2>2. [b EXCEPT !.news = << >>, !.trades = T] \in Brokers
    BY <2>1, ZenonT(60) DEF Brokers
  <2> QED BY <1>10, <2>2, Zenon
<1>12. /\ c.news = << >> /\ c.trades = T /\ c.orders = b.orders /\ c.groups = b.groups /\ c.done = b.done
       /\ c.fills = b.fills /\ c.pending = b.pending /\ c.submitted = b.submitted
       /\ c.size = b.size /\ c.dir = b.dir /\ c.fillTrade = b.fillTrade
       /\ c.setup = b.setup /\ c.trade = b.trade /\ c.tradeId = b.tradeId
       /\ c.held = b.held /\ c.policy = b.policy /\ c.cancelled = b.cancelled /\ c.entry = b.entry
       /\ c.stop = b.stop /\ c.tp = b.tp
  BY <1>10 DEF Brokers
<1>13. Waiting(c) = Waiting(b)
  BY <1>12 DEF Waiting, InQueue
<1>14. Queues(c)
  BY <1>12, <1>13 DEF Queues, Live
<1> QED BY <1>1, <1>3, <1>4, <1>8, <1>9, <1>11, <1>12, <1>13, <1>14

\* What the adapter makes of a notification, in the state it finds.
Heard(d, b) == /\ Sound(d) /\ d.policy = b.policy
               /\ Sentinel \in ToSet(d.pending) <=> Sentinel \in ToSet(b.pending)

\* The end of an entry without a fill clears the books.
LEMMA HearsGivenUp ==
  ASSUME NEW b, Sound(b), GivenUp(b)
  PROVE  Heard(HearOrder(b), b) /\ Flat(HearOrder(b))
<1>1. b \in Brokers /\ Queues(b) /\ Reducing(b)
  BY DEF Sound
<1>2. PICK c : c = Delivered(b)
  OBVIOUS
<1>3. PICK e : e = b.news[1]
  OBVIOUS
<1>4. /\ Len(b.news) = 1 /\ b.trades = << >> /\ Waiting(b) = {} /\ b.size = 0 /\ NoTrade(b)
      /\ e.ref \in {b.entry, b.cancelled} /\ e.qty = 0 /\ e.filled = 0 /\ e.trades = << >>
  BY <1>3 DEF GivenUp
<1>5. /\ Head(b.news) = e /\ c \in Brokers /\ Queues(c) /\ c.news = << >> /\ c.trades = << >>
      /\ c.fills = b.fills /\ c.pending = b.pending /\ c.submitted = b.submitted /\ Waiting(c) = {}
      /\ c.size = 0 /\ c.fillTrade = b.fillTrade /\ c.trade = b.trade /\ c.tradeId = b.tradeId
      /\ c.held = b.held /\ c.policy = b.policy /\ c.cancelled = b.cancelled /\ c.entry = b.entry
  BY <1>1, <1>2, <1>3, <1>4, Delivers
<1>6. PICK d : d = HearOrder(b)
  OBVIOUS
<1>7. d = [c EXCEPT !.entry = NoOrder, !.cancelled = NoOrder, !.setup = None]
  BY <1>2, <1>4, <1>5, <1>6 DEF HearOrder, HearEntryEnd, Delivered
<1>8. d \in Brokers
  <2>1. PICK x : x = [c EXCEPT !.entry = NoOrder, !.cancelled = NoOrder]
    OBVIOUS
  <2>2. NoOrder \in Nat /\ None \in SetupRecords \cup {None} /\ c \in Brokers
    BY <1>5 DEF NoOrder
  <2>3. [c EXCEPT !.entry = NoOrder, !.cancelled = NoOrder] \in Brokers
    BY <2>2, ZenonT(30) DEF Brokers
  <2>4. x \in Brokers
    BY <2>1, <2>3, Zenon
  <2>5. [x EXCEPT !.setup = None] \in Brokers
    BY <2>2, <2>4, ZenonT(30) DEF Brokers
  <2>6. d = [x EXCEPT !.setup = None]
    BY <1>7, <2>1, Zenon
  <2> QED BY <2>5, <2>6, Zenon
<1>9. /\ d.entry = NoOrder /\ d.cancelled = NoOrder /\ d.setup = None /\ d.news = << >> /\ d.trades = << >>
      /\ d.fills = b.fills /\ d.pending = b.pending /\ d.submitted = b.submitted
      /\ d.size = 0 /\ d.fillTrade = b.fillTrade /\ d.trade = b.trade /\ d.tradeId = b.tradeId
      /\ d.held = b.held /\ d.policy = b.policy
      /\ d.orders = c.orders /\ d.groups = c.groups /\ d.done = c.done /\ d.stop = c.stop /\ d.tp = c.tp
      /\ d.pending = c.pending /\ d.submitted = c.submitted
  BY <1>5, <1>7 DEF Brokers
<1>10. Waiting(d) = Waiting(c)
  BY <1>9 DEF Waiting, InQueue
<1>11. Queues(d)
  BY <1>5, <1>9, <1>10 DEF Queues, Live
<1>12. Flat(d)
  BY <1>4, <1>5, <1>9, <1>10 DEF Flat, NoTrade
<1>13. Reducing(d)
  BY <1>1, <1>9 DEF Reducing
<1> QED BY <1>6, <1>8, <1>9, <1>11, <1>12, <1>13 DEF Heard, Sound, Situated

\* The fill of an entry is booked, and gets its bracket.
LEMMA HearsBought ==
  ASSUME NEW b, Sound(b), Bought(b), now \in Nat
  PROVE  Heard(HearOrder(b), b) /\ Protected(HearOrder(b))
<1>1. b \in Brokers /\ Queues(b) /\ Reducing(b)
  BY DEF Sound
<1>2. PICK c : c = Delivered(b)
  OBVIOUS
<1>3. PICK e : e = b.news[1]
  OBVIOUS
<1>4. /\ Len(b.news) = 1 /\ b.trades = << >> /\ Waiting(b) = {} /\ b.size > 0 /\ NoTrade(b)
      /\ e.ref \in DOMAIN b.orders /\ Fits(b, e.ref) /\ b.dir = b.orders[e.ref].sign
      /\ e.status = "completed" /\ e.qty = b.size /\ e.filled = b.size /\ e.trades = <<"opened">>
  BY <1>3 DEF Bought
<1>5. /\ Head(b.news) = e /\ c \in Brokers /\ Queues(c) /\ c.news = << >> /\ c.trades = <<"opened">>
      /\ c.fills = b.fills /\ c.pending = b.pending /\ Waiting(c) = {} /\ c.orders = b.orders
      /\ c.size = b.size /\ c.dir = b.dir /\ c.setup = b.setup
      /\ c.fillTrade = b.fillTrade /\ c.trade = b.trade /\ c.tradeId = b.tradeId
      /\ c.held = b.held /\ c.policy = b.policy /\ c.cancelled = b.cancelled /\ c.entry = b.entry
  BY <1>1, <1>2, <1>3, <1>4, Delivers
<1>6. PICK setup : setup = b.setup
  OBVIOUS
<1>7. setup \in SetupRecords /\ setup # None /\ setup.dir = b.dir
  <2>1. b.setup \in SetupRecords \cup {None}
    BY <1>1 DEF Brokers
  <2> QED BY <1>4, <1>6, <2>1 DEF Fits
<1>8. b.size \in Quantities /\ b.size # 0
  <2>1. b.size \in Quantities
    BY <1>1 DEF Brokers
  <2>2. b.size \in Nat
    BY <2>1, QuantitiesType
  <2> QED BY <1>4, <2>1, <2>2
<1>9. PICK x : x = PlaceBracket(c, setup.dir, b.size, setup.stop, setup.target)
  OBVIOUS
<1>10. Bracketed(x, c, setup.dir, b.size, setup.target)
  <2>1. setup.dir \in {1, -1} /\ setup.stop \in Int /\ setup.target \in Int \cup {None}
    BY <1>7 DEF SetupRecords
  <2>2. Bare(c, setup.dir, b.size, setup.stop, setup.target)
    BY <1>4, <1>5, <1>8, <2>1 DEF Bare
  <2> QED BY <1>9, <2>2, Brackets
<1>11. PICK d : d = HearOrder(b)
  OBVIOUS
<1>12. d = [x EXCEPT !.entry = NoOrder, !.setup = setup, !.held = b.size]
  <2>1. ~b.orders[e.ref].guarded /\ b.orders[e.ref].role = "entry"
    BY <1>4 DEF Fits
  <2>2. d = HearEntryFill(c, e)
    BY <1>2, <1>4, <1>5, <1>8, <1>11, <2>1 DEF HearOrder, Delivered
  <2> QED BY <1>4, <1>5, <1>6, <1>7, <1>9, <2>1, <2>2, ZenonT(40) DEF HearEntryFill
<1>13. /\ x \in Brokers /\ Queues(x) /\ Aside(x, c) /\ x.news = c.news
       /\ x.stop # NoOrder /\ x.tp # x.stop /\ Waiting(x) = {x.stop, x.tp} \ {NoOrder}
       /\ x.tp # NoOrder <=> setup.target # None
       /\ \A r \in Waiting(x) :
            LET o == x.orders[r]
            IN /\ o.role = (IF r = x.stop THEN "stop_loss" ELSE "take_profit")
               /\ o.left = b.size /\ o.filled = 0 /\ o.sign = -b.dir /\ o.price \in Int
               /\ o.lead = x.stop /\ o.lead \in x.groups
       /\ Sentinel \in ToSet(x.pending) <=> Sentinel \in ToSet(c.pending)
  BY <1>7, <1>10 DEF Bracketed
<1>14. d \in Brokers
  <2>1. PICK y : y = [x EXCEPT !.entry = NoOrder, !.setup = setup]
    OBVIOUS
  <2>2. NoOrder \in Nat /\ setup \in SetupRecords \cup {None} /\ x \in Brokers
    BY <1>7, <1>13 DEF NoOrder
  <2>3. [x EXCEPT !.entry = NoOrder, !.setup = setup] \in Brokers
    BY <2>2, ZenonT(60) DEF Brokers
  <2>4. y \in Brokers
    BY <2>1, <2>3, Zenon
  <2>8. b.size \in Nat
    BY <1>8, QuantitiesType
  <2>5. b.size \in Int
    BY <2>8
  <2>6. [y EXCEPT !.held = b.size] \in Brokers
    BY <2>4, <2>5, ZenonT(60) DEF Brokers
  <2>7. d = [y EXCEPT !.held = b.size]
    BY <1>12, <2>1, Zenon
  <2> QED BY <2>6, <2>7, Zenon
<1>15. /\ d.entry = NoOrder /\ d.setup = setup /\ d.held = b.size /\ d.news = x.news /\ d.trades = x.trades
       /\ d.fills = x.fills /\ d.size = x.size /\ d.dir = x.dir /\ d.fillTrade = x.fillTrade
       /\ d.trade = x.trade /\ d.tradeId = x.tradeId /\ d.policy = x.policy /\ d.cancelled = x.cancelled
       /\ d.orders = x.orders /\ d.groups = x.groups /\ d.done = x.done /\ d.stop = x.stop /\ d.tp = x.tp
       /\ d.pending = x.pending /\ d.submitted = x.submitted
  BY <1>12, <1>13 DEF Brokers
<1>16. Waiting(d) = Waiting(x)
  BY <1>15 DEF Waiting, InQueue
<1>17. Queues(d)
  BY <1>13, <1>15, <1>16 DEF Queues, Live
<1>18. /\ d.news = << >> /\ d.trades = <<"opened">> /\ d.size = b.size /\ d.dir = b.dir
       /\ d.trade = None /\ d.tradeId = d.fillTrade /\ d.fills = b.fills /\ d.policy = b.policy
  BY <1>4, <1>5, <1>13, <1>15 DEF Aside, NoTrade
<1>22. \A r \in Waiting(d) : IsLeg(d, r) /\ Whole(d, r)
  BY <1>4, <1>13, <1>15, <1>16, <1>18 DEF IsLeg, Whole
<1>19. Protected(d)
  BY <1>4, <1>7, <1>13, <1>15, <1>16, <1>18, <1>22 DEF Protected
<1>20. Reducing(d)
  BY <1>1, <1>18 DEF Reducing
<1>21. Sentinel \in ToSet(d.pending) <=> Sentinel \in ToSet(b.pending)
  BY <1>5, <1>13, <1>15
<1> QED BY <1>11, <1>14, <1>17, <1>18, <1>19, <1>20, <1>21 DEF Heard, Sound, Situated

\* The fill of an exit is handed to the trades.
LEMMA HearsSold ==
  ASSUME NEW b, Sound(b), Sold(b)
  PROVE  Heard(HearOrder(b), b) /\ Flat(HearOrder(b))
<1>1. b \in Brokers /\ Queues(b) /\ Reducing(b)
  BY DEF Sound
<1>2. PICK c : c = Delivered(b)
  OBVIOUS
<1>3. PICK e : e = b.news[1]
  OBVIOUS
<1>4. /\ Len(b.news) = 1 /\ b.trades = << >> /\ Waiting(b) = {} /\ b.size = 0 /\ Behind(b)
      /\ b.entry = NoOrder /\ b.setup = None
      /\ e.ref \in DOMAIN b.orders /\ b.orders[e.ref].role \in Legs \cup {"end_of_data"}
      /\ e.status = "completed" /\ e.qty > 0 /\ e.trades = <<"closed">>
  BY <1>3 DEF Sold
<1>5. /\ Head(b.news) = e /\ c \in Brokers /\ Queues(c) /\ c.news = << >> /\ c.trades = <<"closed">>
      /\ c.fills = b.fills /\ c.pending = b.pending /\ c.submitted = b.submitted /\ Waiting(c) = {}
      /\ c.orders = b.orders
      /\ c.size = b.size /\ c.setup = b.setup
      /\ c.fillTrade = b.fillTrade /\ c.tradeId = b.tradeId
      /\ c.policy = b.policy /\ c.entry = b.entry
  BY <1>1, <1>2, <1>3, <1>4, Delivers
<1>6. PICK d : d = HearOrder(b)
  OBVIOUS
<1>14. \A r : Cancel(c, r) = c
  BY <1>5 DEF Cancel, Queued, Waiting, InQueue
<1>15. e.qty # 0
  <2>1. b.news \in Seq(NewsRecords) /\ b.news[1] \in NewsRecords
    BY <1>1, <1>4, Delivers DEF Brokers
  <2>2. e.qty \in Nat
    BY <1>3, <2>1, QuantitiesType DEF NewsRecords
  <2> QED BY <1>4, <2>2
<1>16. PICK role : role = b.orders[e.ref].role
  OBVIOUS
<1>7. d = [c EXCEPT !.stop = NoOrder, !.tp = NoOrder]
  <2>1. role \in {"stop_loss", "take_profit", "end_of_data"}
    BY <1>4, <1>16 DEF Legs
  <2>2. d = HearExitFill(c, e)
    BY <1>2, <1>5, <1>6, <1>15, <1>16, <2>1 DEF HearOrder, Delivered
  <2>3. CASE role = "stop_loss"
    BY <1>4, <1>5, <1>14, <1>16, <2>2, <2>3 DEF HearExitFill
  <2>4. CASE role = "take_profit"
    BY <1>4, <1>5, <1>14, <1>16, <2>2, <2>4 DEF HearExitFill
  <2>5. CASE role = "end_of_data"
    BY <1>4, <1>5, <1>16, <2>2, <2>5 DEF HearExitFill
  <2> QED BY <2>1, <2>3, <2>4, <2>5
<1>8. d \in Brokers
  <2>1. NoOrder \in Nat /\ c \in Brokers
    BY <1>5 DEF NoOrder
  <2>2. [c EXCEPT !.stop = NoOrder, !.tp = NoOrder] \in Brokers
    BY <2>1, ZenonT(30) DEF Brokers
  <2> QED BY <1>7, <2>2, Zenon
<1>9. /\ d.entry = c.entry /\ d.cancelled = c.cancelled /\ d.setup = c.setup /\ d.news = c.news
      /\ d.trades = c.trades /\ d.fills = c.fills
      /\ d.size = c.size /\ d.fillTrade = c.fillTrade /\ d.tradeId = c.tradeId /\ d.policy = c.policy
      /\ d.orders = c.orders /\ d.groups = c.groups /\ d.done = c.done
      /\ d.stop = NoOrder /\ d.tp = NoOrder
      /\ d.pending = c.pending /\ d.submitted = c.submitted
  BY <1>5, <1>7 DEF Brokers
<1>10. Waiting(d) = Waiting(c)
  BY <1>9 DEF Waiting, InQueue
<1>11. Queues(d)
  BY <1>5, <1>9, <1>10 DEF Queues, Live
<1>12. Flat(d)
  BY <1>4, <1>5, <1>9, <1>10 DEF Flat, Behind
<1>13. Reducing(d)
  BY <1>1, <1>5, <1>9 DEF Reducing
<1> QED BY <1>5, <1>6, <1>8, <1>9, <1>11, <1>12, <1>13 DEF Heard, Sound, Situated

\* notify_order hears of the entry's end, of its fill, or of the exit's.
LEMMA NotifyOrderStep ==
  ASSUME Inv, NotifyOrder
  PROVE  Inv'
<1>1. /\ phase \in {"orders", "final orders"} /\ s.news # << >> /\ s' = HearOrder(s)
      /\ phase' = phase /\ now' = now /\ bar' = bar
  BY DEF NotifyOrder
<1>2. Sound(s) /\ now \in Nat
  <2>1. Sound(s) /\ now \in 0..MaxBars
    BY DEF Inv
  <2> QED BY <2>1, AdapterAssumption
<1>3. GivenUp(s) \/ Bought(s) \/ Sold(s)
  BY <1>1, <1>2 DEF Sound, Situated, Flat, Entering, Protected
<1>4. Heard(s', s) /\ (Flat(s') \/ (Bought(s) /\ Protected(s')))
  BY <1>1, <1>2, <1>3, HearsGivenUp, HearsBought, HearsSold
<1>5. Phases'
  BY <1>1, <1>4 DEF Inv, Phases, Heard
<1>6. AtEnd'
  <2>1. ASSUME phase = "final orders" PROVE Flat(s')
    <3>1. AtEnd
      BY DEF Inv
    <3>2. ~Bought(s)
      <4>1. s.size = 0 => ~(s.size > 0)
        OBVIOUS
      <4>2. (Flat(s) \/ GivenUp(s) \/ Sold(s)) => s.size = 0
        BY DEF Flat, GivenUp, Sold
      <4>3. Bought(s) => s.size > 0
        BY DEF Bought
      <4> QED BY <2>1, <3>1, <4>1, <4>2, <4>3 DEF AtEnd
    <3> QED BY <1>4, <3>2
  <2>2. Flat(s') => ~Entering(s') /\ ~Bought(s')
    BY DEF Flat, Entering, Bought
  <2> QED BY <1>1, <2>1, <2>2 DEF AtEnd
<1> QED BY <1>1, <1>4, <1>5, <1>6 DEF Inv, Heard

\* Then the adapter hears of trades.
LEMMA OrdersHeardStep ==
  ASSUME Inv, OrdersHeard
  PROVE  Inv'
<1>1. /\ phase \in {"orders", "final orders"} /\ s.news = << >> /\ s' = s /\ now' = now /\ bar' = bar
      /\ phase' = IF phase = "orders" THEN "trades" ELSE "final trades"
  BY DEF OrdersHeard
<1>2. Phases'
  BY <1>1 DEF Inv, Phases
<1>3. AtEnd'
  BY <1>1 DEF Inv, AtEnd
<1>4. Sound(s)'
  BY <1>1 DEF Inv
<1> QED BY <1>1, <1>2, <1>3, <1>4 DEF Inv

\* Then it decides, or the run has ended.
LEMMA TradesHeardStep ==
  ASSUME Inv, TradesHeard
  PROVE  Inv'
<1>1. /\ phase \in {"trades", "final trades"} /\ s.trades = << >> /\ s' = s /\ now' = now /\ bar' = bar
      /\ phase' = IF phase = "trades" THEN "decision" ELSE "ended"
  BY DEF TradesHeard
<1>2. Phases'
  BY <1>1 DEF Inv, Phases
<1>3. AtEnd'
  BY <1>1 DEF Inv, AtEnd
<1>4. Sound(s)'
  BY <1>1 DEF Inv
<1> QED BY <1>1, <1>2, <1>3, <1>4 DEF Inv

\* The opened trade takes the setup over.
LEMMA TradeOpens ==
  ASSUME NEW b, Sound(b), b.trades = <<"opened">>, NEW d, d = TradeOpened([b EXCEPT !.trades = << >>])
  PROVE  /\ Sound(d) /\ Protected(d) /\ d.policy = b.policy /\ d.trades = << >> /\ d.news = b.news
         /\ d.pending = b.pending /\ d.submitted = b.submitted
<1>1. b \in Brokers /\ Queues(b) /\ Reducing(b) /\ Situated(b)
  BY DEF Sound
<1>2. Protected(b)
  <2>1. <<"opened">> # << >> /\ <<"opened">> # <<"closed">>
    OBVIOUS
  <2> QED BY <1>1, <2>1 DEF Situated, Flat, Entering, GivenUp, Bought, Sold
<1>3. b.setup # None /\ b.trade = None /\ (b.tp # NoOrder <=> b.setup.target # None)
  <2>1. <<"opened">> # << >>
    OBVIOUS
  <2> QED BY <1>2, <2>1 DEF Protected
<1>4. PICK setup : setup = b.setup
  OBVIOUS
<1>5. d = [b EXCEPT !.trades = << >>, !.trade = setup, !.setup = None]
  <2>1. PICK c : c = [b EXCEPT !.trades = << >>]
    OBVIOUS
  <2>2. c.setup = setup
    BY <1>1, <1>4, <2>1 DEF Brokers
  <2>3. d = [c EXCEPT !.trade = c.setup, !.setup = None]
    BY <1>3, <1>4, <2>1, <2>2 DEF TradeOpened
  <2> QED BY <1>1, <2>1, <2>2, <2>3 DEF Brokers
<1>6. d \in Brokers
  <2>1. PICK x : x = [b EXCEPT !.trades = << >>]
    OBVIOUS
  <2>2. [b EXCEPT !.trades = << >>] \in Brokers
    BY <1>1, ZenonT(60) DEF Brokers
  <2>3. x \in Brokers
    BY <2>1, <2>2, Zenon
  <2>4. b.setup \in SetupRecords \cup {None}
    BY <1>1 DEF Brokers
  <2>5. setup \in SetupRecords \cup {None} /\ None \in SetupRecords \cup {None}
    BY <1>4, <2>4
  <2>6. [x EXCEPT !.trade = setup, !.setup = None] \in Brokers
    BY <2>3, <2>5, ZenonT(60) DEF Brokers
  <2>7. d = [x EXCEPT !.trade = setup, !.setup = None]
    BY <1>5, <2>1, Zenon
  <2> QED BY <2>6, <2>7, Zenon
<1>7. /\ d.trades = << >> /\ d.trade = setup /\ d.setup = None
      /\ d.entry = b.entry /\ d.cancelled = b.cancelled /\ d.news = b.news
      /\ d.fills = b.fills /\ d.size = b.size /\ d.dir = b.dir /\ d.held = b.held
      /\ d.fillTrade = b.fillTrade /\ d.tradeId = b.tradeId /\ d.policy = b.policy
      /\ d.orders = b.orders /\ d.groups = b.groups /\ d.done = b.done
      /\ d.stop = b.stop /\ d.tp = b.tp
      /\ d.pending = b.pending /\ d.submitted = b.submitted
  <2>1. d.trades = << >> /\ d.trade = setup /\ d.setup = None
    BY <1>1, <1>5, ZenonT(90) DEF Brokers
  <2>2. /\ d.entry = b.entry /\ d.cancelled = b.cancelled /\ d.news = b.news
        /\ d.fills = b.fills /\ d.size = b.size /\ d.dir = b.dir /\ d.held = b.held
        /\ d.fillTrade = b.fillTrade /\ d.tradeId = b.tradeId /\ d.policy = b.policy
    BY <1>1, <1>5, ZenonT(90) DEF Brokers
  <2>3. /\ d.orders = b.orders /\ d.groups = b.groups /\ d.done = b.done
        /\ d.stop = b.stop /\ d.tp = b.tp
        /\ d.pending = b.pending /\ d.submitted = b.submitted
    BY <1>1, <1>5, ZenonT(90) DEF Brokers
  <2> QED BY <2>1, <2>2, <2>3
<1>8. Waiting(d) = Waiting(b)
  BY <1>7 DEF Waiting, InQueue
<1>9. Queues(d)
  BY <1>1, <1>7, <1>8 DEF Queues, Live
<1>10. \A r \in Waiting(d) : IsLeg(d, r) /\ Whole(d, r)
  BY <1>2, <1>7, <1>8 DEF Protected, IsLeg, Whole
<1>11. Protected(d)
  BY <1>2, <1>3, <1>4, <1>7, <1>8, <1>10 DEF Protected
<1>12. Reducing(d)
  BY <1>1, <1>7 DEF Reducing
<1> QED BY <1>6, <1>7, <1>9, <1>11, <1>12 DEF Sound, Situated

\* The closed trade ends the books' trade.
LEMMA TradeCloses ==
  ASSUME NEW b, Sound(b), b.trades = <<"closed">>, now \in Nat, NEW d,
         \/ d = TradeClosed([b EXCEPT !.trades = << >>])
         \/ d = [TradeClosed([b EXCEPT !.trades = << >>]) EXCEPT !.halted = TRUE]
  PROVE  /\ Sound(d) /\ Flat(d) /\ d.policy = b.policy /\ d.trades = << >> /\ d.news = b.news
         /\ d.pending = b.pending /\ d.submitted = b.submitted
<1>1. b \in Brokers /\ Queues(b) /\ Reducing(b) /\ Situated(b)
  BY DEF Sound
<1>2. Flat(b) /\ Behind(b)
  <2>1. <<"closed">> # << >> /\ <<"closed">> # <<"opened">>
    OBVIOUS
  <2>2. Flat(b)
    BY <1>1, <2>1 DEF Situated, Protected, Entering, GivenUp, Bought, Sold
  <2> QED BY <2>1, <2>2 DEF Flat
<1>3. PICK id : id = b.tradeId + 1
  OBVIOUS
<1>4. PICK c : c = [b EXCEPT !.trades = << >>, !.trade = None, !.held = 0, !.tradeId = id]
  OBVIOUS
<1>5. id \in Nat
  <2>1. b.tradeId \in Nat
    BY <1>1 DEF Brokers
  <2> QED BY <1>3, <2>1
<1>6. c \in Brokers
  <2>1. PICK x : x = [b EXCEPT !.trades = << >>]
    OBVIOUS
  <2>2. [b EXCEPT !.trades = << >>] \in Brokers
    BY <1>1, ZenonT(60) DEF Brokers
  <2>3. x \in Brokers
    BY <2>1, <2>2, Zenon
  <2>5. None \in SetupRecords \cup {None} /\ 0 \in Int
    OBVIOUS
  <2>4. PICK y : y = [x EXCEPT !.trade = None, !.held = 0]
    OBVIOUS
  <2>6. [x EXCEPT !.trade = None, !.held = 0] \in Brokers
    BY <2>3, <2>5, ZenonT(60) DEF Brokers
  <2>7. y \in Brokers
    BY <2>4, <2>6, Zenon
  <2>8. [y EXCEPT !.tradeId = id] \in Brokers
    BY <1>5, <2>7, ZenonT(60) DEF Brokers
  <2>9. c = [y EXCEPT !.tradeId = id]
    BY <1>4, <2>1, <2>4, Zenon
  <2> QED BY <2>8, <2>9, Zenon
<1>7. d = c \/ d = [c EXCEPT !.halted = TRUE]
  <2>1. b.intent = FALSE
    BY <1>1 DEF Brokers
  <2>2. TradeClosed([b EXCEPT !.trades = << >>]) = c
    BY <1>1, <1>3, <1>4, <2>1 DEF TradeClosed, Brokers
  <2> QED BY <2>2
<1>8. d \in Brokers
  <2>1. [c EXCEPT !.halted = TRUE] \in Brokers
    BY <1>6, ZenonT(60) DEF Brokers
  <2> QED BY <1>6, <1>7, <2>1, Zenon
<1>9. /\ d.trades = << >> /\ d.trade = None /\ d.held = 0 /\ d.tradeId = id
      /\ d.entry = b.entry /\ d.cancelled = b.cancelled /\ d.news = b.news
      /\ d.fills = b.fills /\ d.size = b.size /\ d.setup = b.setup
      /\ d.fillTrade = b.fillTrade /\ d.policy = b.policy
      /\ d.orders = b.orders /\ d.groups = b.groups /\ d.done = b.done
      /\ d.stop = b.stop /\ d.tp = b.tp
      /\ d.pending = b.pending /\ d.submitted = b.submitted
  <2>1. /\ c.trades = << >> /\ c.trade = None /\ c.held = 0 /\ c.tradeId = id
        /\ c.entry = b.entry /\ c.cancelled = b.cancelled /\ c.news = b.news
        /\ c.fills = b.fills /\ c.size = b.size /\ c.setup = b.setup
        /\ c.fillTrade = b.fillTrade /\ c.policy = b.policy
        /\ c.orders = b.orders /\ c.groups = b.groups /\ c.done = b.done
        /\ c.stop = b.stop /\ c.tp = b.tp
        /\ c.pending = b.pending /\ c.submitted = b.submitted
    BY <1>1, <1>4 DEF Brokers
  <2>2. CASE d = c
    BY <2>1, <2>2
  <2>3. CASE d = [c EXCEPT !.halted = TRUE]
    BY <1>6, <2>1, <2>3 DEF Brokers
  <2> QED BY <1>7, <2>2, <2>3
<1>10. Waiting(d) = Waiting(b)
  BY <1>9 DEF Waiting, InQueue
<1>11. Queues(d)
  BY <1>1, <1>9, <1>10 DEF Queues, Live
<1>12. Flat(d)
  BY <1>2, <1>3, <1>9, <1>10 DEF Flat, NoTrade, Behind
<1>13. Reducing(d)
  BY <1>1, <1>9 DEF Reducing
<1> QED BY <1>8, <1>9, <1>11, <1>12, <1>13 DEF Sound, Situated

\* notify_trade hears of the trade's opening or of its end.
LEMMA NotifyTradeStep ==
  ASSUME Inv, NotifyTrade
  PROVE  Inv'
<1>1. PICK b : b = [s EXCEPT !.trades = Tail(@)]
  OBVIOUS
<1>2. /\ phase \in {"trades", "final trades"} /\ s.trades # << >>
      /\ \/ Head(s.trades) = "opened" /\ s' = TradeOpened(b)
         \/ Head(s.trades) = "closed" /\ s' = TradeClosed(b)
         \/ Head(s.trades) = "closed" /\ s' = [TradeClosed(b) EXCEPT !.halted = TRUE]
      /\ phase' = phase /\ now' = now /\ bar' = bar
  BY <1>1 DEF NotifyTrade
<1>3. Sound(s) /\ s \in Brokers /\ now \in Nat
  <2>1. Sound(s) /\ now \in 0..MaxBars
    BY DEF Inv
  <2> QED BY <2>1, AdapterAssumption DEF Sound
<1>4. s.trades \in {<<"opened">>, <<"closed">>}
  <2>1. s.trades \in {<< >>, <<"opened">>, <<"closed">>}
    BY <1>3 DEF Brokers
  <2> QED BY <1>2, <2>1
<1>5. /\ Head(<<"opened">>) = "opened" /\ Head(<<"closed">>) = "closed"
      /\ Tail(<<"opened">>) = << >> /\ Tail(<<"closed">>) = << >>
  OBVIOUS
<1>6. b = [s EXCEPT !.trades = << >>]
  BY <1>1, <1>4, <1>5
<1>9. "opened" # "closed"
  OBVIOUS
<1>7. /\ Sound(s') /\ s'.policy = s.policy /\ s'.trades = << >> /\ s'.news = s.news
      /\ s'.pending = s.pending /\ s'.submitted = s.submitted
      /\ Flat(s') \/ (s.trades = <<"opened">> /\ Protected(s'))
  <2>1. CASE s.trades = <<"opened">>
    <3>1. s' = TradeOpened([s EXCEPT !.trades = << >>])
      BY <1>2, <1>5, <1>6, <1>9, <2>1
    <3> QED BY <1>3, <2>1, <3>1, TradeOpens
  <2>2. CASE s.trades = <<"closed">>
    <3>1. \/ s' = TradeClosed([s EXCEPT !.trades = << >>])
          \/ s' = [TradeClosed([s EXCEPT !.trades = << >>]) EXCEPT !.halted = TRUE]
      BY <1>2, <1>5, <1>6, <1>9, <2>2
    <3> QED BY <1>3, <2>2, <3>1, TradeCloses
  <2> QED BY <1>4, <2>1, <2>2
<1>10. Phases'
  BY <1>2, <1>7 DEF Inv, Phases
<1>11. AtEnd'
  <2>1. AtEnd
    BY DEF Inv
  <2>2. (Flat(s') \/ Protected(s')) => ~Entering(s') /\ ~Bought(s')
    <3>1. Flat(s') => ~Entering(s')
      BY DEF Flat, Entering
    <3>2. ASSUME Flat(s'), Bought(s') PROVE FALSE
      <4>1. s'.size = 0 /\ s'.size > 0
        BY <3>2 DEF Flat, Bought
      <4> QED BY <4>1
    <3>3. ASSUME Protected(s'), Entering(s') PROVE FALSE
      <4>1. s'.size = 0 /\ s'.size > 0
        BY <3>3 DEF Protected, Entering
      <4> QED BY <4>1
    <3>4. ASSUME Protected(s'), Bought(s') PROVE FALSE
      <4>1. s'.news = << >> /\ Len(s'.news) = 1
        BY <3>4 DEF Protected, Bought
      <4>2. Len(<< >>) = 0
        OBVIOUS
      <4> QED BY <4>1, <4>2
    <3> QED BY <3>1, <3>2, <3>3, <3>4
  <2>3. ASSUME s.trades = <<"opened">> PROVE ~Flat(s) /\ ~GivenUp(s) /\ ~Sold(s)
    <3>1. <<"opened">> # << >> /\ <<"opened">> # <<"closed">>
      OBVIOUS
    <3> QED BY <2>3, <3>1 DEF Flat, GivenUp, Sold
  <2> QED BY <1>2, <1>7, <2>1, <2>2, <2>3 DEF AtEnd
<1> QED BY <1>2, <1>7, <1>10, <1>11 DEF Inv

(* ---- The decision ------------------------------------------------------- *)

\* Cancel ends an order that waits, with what waits beside it.
LEMMA Cancels ==
  ASSUME NEW b \in Brokers, Queues(b), NEW r, Grouped(b, r), ToSet(b.submitted) \subseteq {r}
  PROVE  Gone(Cancel(b, r), b, r, "canceled")
<1>1. r \in Waiting(b) /\ r \in DOMAIN b.orders /\ r # Sentinel
  BY DEF Grouped, Queues, Live, NoOrder, Sentinel
<1>2. PICK c : c = [Unqueue(b, r) EXCEPT !.submitted = Without(@, {r})]
  OBVIOUS
<1>3. Cancel(b, r) = CloseGroup(Ended(c, r, "canceled"), r)
  BY <1>1, <1>2 DEF Cancel, Queued, Waiting, InQueue
<1>4. Taken(c, b, r)
  BY <1>1, <1>2, TakesAny
<1> QED BY <1>3, <1>4, Drops

\* What a decision leaves.
Decided(d, b) ==
  /\ Sound(d) /\ (d.news = << >> \/ GivenUp(d)) /\ d.trades = << >>
  /\ Sentinel \in ToSet(d.pending) <=> Sentinel \in ToSet(b.pending)

\* next() gives up a waiting entry.
LEMMA CancelsEntry ==
  ASSUME NEW b, Sound(b), Entering(b)
  PROVE  Decided(CancelEntry(b), b)
<1>1. b \in Brokers /\ Queues(b) /\ Reducing(b)
  BY DEF Sound
<1>2. ToSet(b.submitted) \subseteq {b.entry}
  BY DEF Entering, Waiting
<1>3. PICK x : x = Cancel(b, b.entry)
  OBVIOUS
<1>4. Gone(x, b, b.entry, "canceled")
  BY <1>1, <1>2, <1>3, EntryIsGrouped, Cancels
<1>5. PICK r : r = b.entry
  OBVIOUS
<1>6. PICK d : d = CancelEntry(b)
  OBVIOUS
<1>7. d = [x EXCEPT !.cancelled = r, !.entry = NoOrder]
  BY <1>3, <1>5, <1>6 DEF CancelEntry
<1>8. /\ x \in Brokers /\ Queues(x) /\ Aside(x, b) /\ Kept(x, b)
      /\ x.stop = b.stop /\ x.tp = b.tp /\ Waiting(x) = {}
      /\ Sentinel \in ToSet(x.pending) <=> Sentinel \in ToSet(b.pending)
  BY <1>4 DEF Gone
<1>9. PICK w : w = [ref |-> r, status |-> "canceled", filled |-> 0, qty |-> 0, trades |-> << >>]
  OBVIOUS
<1>10. x.news = Append(<< >>, w)
  <2>1. b.news = << >> /\ b.orders[b.entry].role = "entry"
    BY EntryIsGrouped, <1>1 DEF Entering
  <2> QED BY <1>4, <1>5, <1>9, <2>1 DEF Gone
<1>11. Len(x.news) = 1 /\ x.news[1] = w
  BY <1>10, OneNews
<1>12. r \in DOMAIN x.orders /\ r \in Nat
  <2>1. b.entry \in Nat
    BY <1>1 DEF Brokers
  <2> QED BY <1>1, <1>5, <1>8, <2>1, EntryIsGrouped DEF Kept
<1>13. d \in Brokers
  <2>1. r \in Nat /\ NoOrder \in Nat /\ x \in Brokers
    BY <1>8, <1>12 DEF NoOrder
  <2>2. [x EXCEPT !.cancelled = r, !.entry = NoOrder] \in Brokers
    BY <2>1, ZenonT(60) DEF Brokers
  <2> QED BY <1>7, <2>2, Zenon
<1>14. /\ d.cancelled = r /\ d.entry = NoOrder /\ d.news = x.news /\ d.trades = x.trades
       /\ d.fills = x.fills /\ d.size = x.size /\ d.setup = x.setup /\ d.held = x.held /\ d.trade = x.trade
       /\ d.fillTrade = x.fillTrade /\ d.tradeId = x.tradeId
       /\ d.orders = x.orders /\ d.groups = x.groups /\ d.done = x.done
       /\ d.stop = x.stop /\ d.tp = x.tp
       /\ d.pending = x.pending /\ d.submitted = x.submitted
  BY <1>7, <1>8 DEF Brokers
<1>15. Waiting(d) = Waiting(x)
  BY <1>14 DEF Waiting, InQueue
<1>16. Queues(d)
  <2>1. {d.entry, d.stop, d.tp, d.cancelled} \subseteq DOMAIN d.orders \cup {NoOrder}
    BY <1>8, <1>12, <1>14 DEF Queues
  <2> QED BY <1>8, <1>14, <1>15, <2>1 DEF Queues, Live
<1>17. /\ d.size = 0 /\ Waiting(d) = {} /\ d.setup # None /\ d.trades = << >> /\ NoTrade(d)
       /\ d.fills = b.fills
  BY <1>8, <1>14, <1>15 DEF Aside, Entering, Fits, NoTrade
<1>18. w.ref = r /\ w.qty = 0 /\ w.filled = 0 /\ w.trades = << >>
  BY <1>9
<1>19. GivenUp(d)
  BY <1>11, <1>12, <1>14, <1>17, <1>18 DEF GivenUp
<1>20. Reducing(d)
  BY <1>1, <1>17 DEF Reducing
<1> QED BY <1>6, <1>8, <1>13, <1>14, <1>16, <1>17, <1>19, <1>20 DEF Decided, Sound, Situated

\* A new entry waits.
LEMMA SubmitsEntry ==
  ASSUME NEW b, Sound(b), Flat(b), b.trades = << >>, now \in Nat, NEW setup \in Setups
  PROVE  Decided(SubmitEntry(b, setup), b)
<1>1. b \in Brokers /\ Queues(b) /\ Reducing(b) /\ Waiting(b) = {}
  BY DEF Sound, Flat
<1>2. /\ setup \in SetupRecords /\ setup.dir \in {1, -1} /\ setup.qty \in Quantities /\ setup.price \in Int
      /\ setup.qty > 0 /\ setup # None
  <2>1. setup \in SetupRecords /\ None \notin SetupRecords
    BY AdapterAssumption
  <2>2. setup.dir \in {1, -1} /\ setup.price \in Int /\ setup.qty \in Nat \ {0}
    BY <2>1 DEF SetupRecords
  <2>3. setup.qty > 0 /\ setup # None
    BY <2>1, <2>2
  <2> QED BY <2>1, <2>2, <2>3, QuantitiesType
<1>3. PICK c : c = Submit(b, "entry", setup.dir, setup.qty, setup.price, NoOrder, setup)
  OBVIOUS
<1>4. PICK r : r = Len(b.orders) + 1
  OBVIOUS
<1>5. /\ c \in Brokers /\ Queues(c) /\ Aside(c, b) /\ c.news = b.news /\ c.stop = b.stop /\ c.tp = b.tp
      /\ c.groups = b.groups \cup {r} /\ r \in Nat \ {0}
      /\ Newest(c) = r /\ DOMAIN c.orders = DOMAIN b.orders \cup {r}
      /\ LET o == c.orders[r]
         IN /\ o.role = "entry" /\ o.sign = setup.dir /\ o.left = setup.qty /\ o.filled = 0
            /\ o.lead = r /\ o.setup = setup /\ ~o.guarded
      /\ Waiting(c) = Waiting(b) \cup {r}
      /\ Sentinel \in ToSet(c.pending) <=> Sentinel \in ToSet(b.pending)
  <2>1. "entry" \in Roles /\ setup \in SetupRecords \cup {None} /\ setup.price \in Int \cup {None}
    BY <1>2 DEF Roles
  <2>2. Placeable(b, "entry", setup.dir, setup.qty, setup.price, NoOrder, setup)
    BY <1>1, <1>2, <2>1, NothingWaits DEF Placeable
  <2>3. Placed(b, c, "entry", setup.dir, setup.qty, setup.price, NoOrder, setup)
    BY <1>3, <2>2, Submits, Zenon
  <2> QED BY <1>4, <2>3 DEF Placed
<1>6. PICK d : d = SubmitEntry(b, setup)
  OBVIOUS
<1>7. d = [c EXCEPT !.entry = r, !.setup = setup]
  BY <1>3, <1>5, <1>6 DEF SubmitEntry
<1>8. d \in Brokers
  <2>1. r \in Nat /\ setup \in SetupRecords \cup {None} /\ c \in Brokers
    BY <1>2, <1>5
  <2>2. [c EXCEPT !.entry = r, !.setup = setup] \in Brokers
    BY <2>1, ZenonT(60) DEF Brokers
  <2> QED BY <1>7, <2>2, Zenon
<1>9. /\ d.entry = r /\ d.setup = setup /\ d.cancelled = c.cancelled /\ d.news = c.news /\ d.trades = c.trades
      /\ d.fills = c.fills /\ d.size = c.size /\ d.held = c.held /\ d.trade = c.trade
      /\ d.fillTrade = c.fillTrade /\ d.tradeId = c.tradeId
      /\ d.orders = c.orders /\ d.groups = c.groups /\ d.done = c.done
      /\ d.stop = c.stop /\ d.tp = c.tp
      /\ d.pending = c.pending /\ d.submitted = c.submitted
  BY <1>5, <1>7 DEF Brokers
<1>10. Waiting(d) = {r}
  <2>1. Waiting(d) = Waiting(c)
    BY <1>9 DEF Waiting, InQueue
  <2> QED BY <1>1, <1>5, <2>1
<1>11. Queues(d)
  <2>1. Waiting(d) = Waiting(c)
    BY <1>9 DEF Waiting, InQueue
  <2>2. {d.entry, d.stop, d.tp, d.cancelled} \subseteq DOMAIN d.orders \cup {NoOrder}
    BY <1>5, <1>9 DEF Queues
  <2> QED BY <1>5, <1>9, <2>1, <2>2 DEF Queues, Live
<1>12. Fits(d, r) /\ Whole(d, r)
  BY <1>2, <1>5, <1>9 DEF Fits, Whole
<1>13. d.size = 0 /\ d.news = << >> /\ d.trades = << >> /\ NoTrade(d) /\ d.fills = b.fills
  BY <1>5, <1>9 DEF Aside, Flat, NoTrade
<1>14. Entering(d)
  BY <1>9, <1>10, <1>12, <1>13 DEF Entering
<1>15. Reducing(d)
  BY <1>1, <1>13 DEF Reducing
<1> QED BY <1>5, <1>6, <1>8, <1>9, <1>11, <1>13, <1>14, <1>15 DEF Decided, Sound, Situated

\* The legs are placed again at other levels, with a target if there was one.
LEMMA Replaces ==
  ASSUME NEW b, Sound(b), Protected(b), b.trades = << >>, now \in Nat, NEW p \in Replacements(b)
  PROVE  Decided(Replace(b, p[1], p[2]), b)
<1>1. b \in Brokers /\ Queues(b) /\ Reducing(b)
  BY DEF Sound
<1>2. /\ b.trade # None /\ b.setup = None /\ (b.tp # NoOrder <=> b.trade.target # None)
      /\ b.stop # NoOrder /\ b.entry = NoOrder /\ Waiting(b) = {b.stop, b.tp} \ {NoOrder}
      /\ \A r \in Waiting(b) : IsLeg(b, r)
      /\ b.size > 0 /\ b.held = b.size /\ b.tradeId = b.fillTrade /\ b.news = << >>
  <2>1. << >> # <<"opened">>
    OBVIOUS
  <2> QED BY <2>1 DEF Protected
<1>3. b.stop \in Waiting(b) /\ b.orders[b.stop].price \in Int
  BY <1>2 DEF IsLeg
<1>4. PICK stop : stop = p[1]
  OBVIOUS
<1>5. PICK target : target = p[2]
  OBVIOUS
<1>6. stop \in Int /\ target \in Int \cup {None} /\ (target # None <=> b.trade.target # None)
  <2>1. CASE b.trade.target = None
    <3>1. b.tp = NoOrder
      BY <1>2, <2>1
    <3>2. ~HasTarget(b)
      BY <3>1 DEF HasTarget, Live
    <3>3. p \in ({b.orders[b.stop].price} \cup StopMoves) \X {None}
      BY <1>2, <2>1, <3>2 DEF Replacements
    <3> QED BY <1>3, <1>4, <1>5, <2>1, <3>3, AdapterAssumption
  <2>2. CASE b.trade.target # None
    <3>1. b.tp # NoOrder /\ b.tp \in Waiting(b)
      BY <1>2, <2>2
    <3>2. b.orders[b.tp].price \in Int /\ b.tp \in DOMAIN b.orders
      BY <1>1, <1>2, <3>1 DEF IsLeg, Queues
    <3>3. HasTarget(b)
      BY <1>1, <3>1, <3>2 DEF HasTarget, Queues
    <3>4. p \in ({b.orders[b.stop].price} \cup StopMoves) \X ({b.orders[b.tp].price} \cup TargetMoves)
      BY <1>2, <2>2, <3>3 DEF Replacements
    <3>5. stop \in Int /\ target \in Int
      BY <1>3, <1>4, <1>5, <3>2, <3>4, AdapterAssumption
    <3>6. None \notin Int
      BY AdapterAssumption
    <3> QED BY <2>2, <3>5, <3>6
  <2> QED BY <2>1, <2>2
<1>7. PICK x : x = Cancel(b, b.stop)
  OBVIOUS
<1>8. Gone(x, b, b.stop, "canceled")
  <2>1. Grouped(b, b.stop)
    BY <1>1, <1>3, LegsAreGrouped
  <2>2. ToSet(b.submitted) = {}
    <3>1. \A r \in ToSet(b.submitted) : r \in Waiting(b) /\ b.orders[r].role = "entry"
      BY <1>1 DEF Queues, Waiting
    <3>2. \A r \in Waiting(b) : b.orders[r].role \in Legs
      BY <1>1, LegsAreGrouped
    <3> QED BY <3>1, <3>2 DEF Legs
  <2> QED BY <1>1, <1>7, <2>1, <2>2, Cancels
<1>9. /\ x \in Brokers /\ Queues(x) /\ Aside(x, b) /\ Waiting(x) = {} /\ x.news = << >>
      /\ Sentinel \in ToSet(x.pending) <=> Sentinel \in ToSet(b.pending)
  <2>1. b.orders[b.stop].role # "entry"
    BY <1>2, <1>3 DEF IsLeg
  <2> QED BY <1>2, <1>8, <2>1 DEF Gone
<1>10. x.size = b.size /\ x.dir = b.dir /\ b.size \in Quantities /\ b.dir \in {1, -1}
  <2>1. b.size \in Quantities /\ b.dir \in {1, -1}
    BY <1>1 DEF Brokers
  <2> QED BY <1>9, <2>1 DEF Aside
<1>11. PICK d : d = Replace(b, stop, target)
  OBVIOUS
<1>12. d = PlaceBracket(x, b.dir, b.size, stop, target)
  <2>1. ~Live(b, b.entry)
    BY <1>2 DEF Live
  <2> QED BY <1>7, <1>11, <2>1 DEF Replace
<1>13. Bracketed(d, x, b.dir, b.size, target)
  <2>1. Bare(x, b.dir, b.size, stop, target)
    BY <1>2, <1>6, <1>9, <1>10 DEF Bare
  <2> QED BY <1>12, <2>1, Brackets
<1>14. /\ d \in Brokers /\ Queues(d) /\ Aside(d, x) /\ d.news = x.news
       /\ d.stop # NoOrder /\ d.tp # d.stop /\ Waiting(d) = {d.stop, d.tp} \ {NoOrder}
       /\ d.tp # NoOrder <=> target # None
       /\ \A r \in Waiting(d) :
            LET o == d.orders[r]
            IN /\ o.role = (IF r = d.stop THEN "stop_loss" ELSE "take_profit")
               /\ o.left = b.size /\ o.filled = 0 /\ o.sign = -b.dir /\ o.price \in Int
               /\ o.lead = d.stop /\ o.lead \in d.groups
       /\ Sentinel \in ToSet(d.pending) <=> Sentinel \in ToSet(x.pending)
  BY <1>13 DEF Bracketed
<1>15. Aside(d, b)
  BY <1>9, <1>14 DEF Aside
<1>16. /\ d.size = b.size /\ d.dir = b.dir /\ d.trades = << >> /\ d.setup = None /\ d.trade = b.trade
       /\ d.held = b.held /\ d.tradeId = b.tradeId /\ d.fillTrade = b.fillTrade /\ d.entry = NoOrder
       /\ d.fills = b.fills
  BY <1>2, <1>15 DEF Aside
<1>17. \A r \in Waiting(d) : IsLeg(d, r) /\ Whole(d, r)
  BY <1>2, <1>14, <1>16 DEF IsLeg, Whole
<1>18. Protected(d)
  BY <1>2, <1>6, <1>9, <1>14, <1>16, <1>17 DEF Protected
<1>19. Reducing(d)
  BY <1>1, <1>16 DEF Reducing
<1>20. Sentinel \in ToSet(d.pending) <=> Sentinel \in ToSet(b.pending)
  BY <1>9, <1>14
<1>21. Decided(d, b)
  BY <1>9, <1>14, <1>16, <1>18, <1>19, <1>20 DEF Decided, Sound, Situated
<1> QED BY <1>4, <1>5, <1>11, <1>21

\* next() does nothing, enters, gives the entry up or moves the levels.
LEMMA DecideStep ==
  ASSUME Inv, Decide
  PROVE  Inv'
<1>1. /\ phase = "decision" /\ phase' = "idle" /\ now' = now /\ bar' = bar
      /\ s' = s \/ (IF s.size = 0 THEN DecideFlat(s) ELSE DecideOpen(s))
  BY OcoAssumption DEF Decide
<1>2. Sound(s) /\ s.news = << >> /\ s.trades = << >> /\ Sentinel \notin ToSet(s.pending)
  BY <1>1 DEF Inv, Phases
<1>3. s \in Brokers /\ Queues(s) /\ Situated(s) /\ now \in Nat
  <2>1. now \in 0..MaxBars
    BY DEF Inv
  <2> QED BY <1>2, <2>1, AdapterAssumption DEF Sound
<1>4. Flat(s) \/ Entering(s) \/ Protected(s)
  <2>1. Len(<< >>) # 1
    OBVIOUS
  <2> QED BY <1>2, <1>3, <2>1 DEF Situated, GivenUp, Bought, Sold
<1>5. Decided(s', s)
  <2>1. CASE s' = s
    BY <1>2, <2>1 DEF Decided
  <2>2. CASE s' = CancelEntry(s) /\ Live(s, s.entry)
    <3>1. ~Flat(s)
      BY <2>2 DEF Flat, Live
    <3>2. ~Protected(s)
      BY <2>2 DEF Protected, Live
    <3> QED BY <1>2, <1>4, <2>2, <3>1, <3>2, CancelsEntry
  <2>3. ASSUME NEW setup \in Setups, s' = SubmitEntry(s, setup), ~Live(s, s.entry), s.size = 0
        PROVE  Decided(s', s)
    <3>1. ~Entering(s)
      BY <1>3, <2>3 DEF Entering, Queues
    <3>2. ~Protected(s)
      <4>1. ASSUME Protected(s) PROVE FALSE
        <5>1. s.size > 0
          BY <4>1 DEF Protected
        <5> QED BY <2>3, <5>1
      <4> QED BY <4>1
    <3> QED BY <1>2, <1>3, <1>4, <2>3, <3>1, <3>2, SubmitsEntry
  <2>4. ASSUME NEW p \in Replacements(s), s' = Replace(s, p[1], p[2]), s.size # 0
        PROVE  Decided(s', s)
    <3>1. Protected(s)
      BY <1>4, <2>4 DEF Flat, Entering
    <3> QED BY <1>2, <1>3, <2>4, <3>1, Replaces
  <2>5. CASE s.size = 0
    BY <1>1, <2>1, <2>2, <2>3, <2>5 DEF DecideFlat
  <2>6. CASE s.size # 0
    BY <1>1, <2>1, <2>4, <2>6 DEF DecideOpen
  <2> QED BY <2>5, <2>6
<1>6. Phases'
  BY <1>1, <1>2, <1>5 DEF Phases, Decided
<1>7. AtEnd'
  BY <1>1 DEF AtEnd
<1> QED BY <1>1, <1>5, <1>6, <1>7 DEF Inv, Decided

(* ---- The end of the data ------------------------------------------------ *)

\* Situations without a waiting entry.
LEMMA NoEntryWaits ==
  ASSUME NEW d, Flat(d) \/ GivenUp(d) \/ Protected(d)
  PROVE  ~Entering(d) /\ ~Bought(d)
<1>1. Len(<< >>) # 1
  OBVIOUS
<1>2. d.size = 0 => ~(d.size > 0)
  OBVIOUS
<1>3. Flat(d) => ~Entering(d) /\ ~Bought(d)
  BY <1>2 DEF Flat, Entering, Bought
<1>4. GivenUp(d) => ~Entering(d) /\ ~Bought(d)
  BY <1>2 DEF GivenUp, Entering, Bought
<1>5. Protected(d) => ~Entering(d) /\ ~Bought(d)
  BY <1>1, <1>2 DEF Protected, Entering, Bought
<1> QED BY <1>3, <1>4, <1>5

\* Where nothing waits, nothing is canceled.
LEMMA NothingToCancel ==
  ASSUME NEW b, Waiting(b) = {}, NEW r
  PROVE  CancelLive(b, r) = b
BY DEF CancelLive, Cancel, Queued, Waiting, InQueue

\* What the end of the data leaves of a run.
Finalized(d, b) ==
  /\ Sound(d) /\ d.policy = b.policy
  /\ Sentinel \in ToSet(d.pending) <=> Sentinel \in ToSet(b.pending)
  /\ IF b.policy = "mark_at_last_close" THEN ~Entering(d) /\ ~Bought(d)
                                        ELSE Flat(d) \/ GivenUp(d) \/ Sold(d)

\* With nothing to drop and nothing to sell, the end of the data changes nothing.
LEMMA FinalizesIdle ==
  ASSUME NEW b, Sound(b), Flat(b) \/ GivenUp(b)
  PROVE  Finalized(Finalize(b), b)
<1>1. Waiting(b) = {} /\ b.size = 0
  BY DEF Flat, GivenUp
<1>2. Dropped(b) = b
  BY <1>1, NothingToCancel DEF Dropped
<1>3. ~Flattens(b)
  BY <1>1 DEF Flattens
<1>4. Finalize(b) = b
  BY <1>2, <1>3 DEF Finalize
<1> QED BY <1>4, NoEntryWaits DEF Finalized

\* A waiting entry is dropped.
LEMMA FinalizesEntering ==
  ASSUME NEW b, Sound(b), Entering(b)
  PROVE  Finalized(Finalize(b), b)
<1>1. b \in Brokers /\ Queues(b) /\ Reducing(b) /\ Live(b, b.entry)
  BY EntryIsGrouped DEF Sound, Queues, Grouped
<1>2. PICK c : c = [Unqueue(b, b.entry) EXCEPT !.submitted = Without(@, {b.entry})]
  OBVIOUS
<1>3. Taken(c, b, b.entry)
  <2>1. ToSet(b.submitted) \subseteq {b.entry} /\ b.entry # Sentinel
    BY <1>1, EntryIsGrouped DEF Entering, Waiting, Sentinel, NoOrder
  <2> QED BY <1>1, <1>2, <2>1, TakesAny
<1>4. PICK x : x = CloseGroup(Ended(c, b.entry, "canceled"), b.entry)
  OBVIOUS
<1>5. GivenUp(x) /\ Gone(x, b, b.entry, "canceled")
  BY <1>1, <1>3, <1>4, EntryEnds
<1>6. CancelLive(b, b.entry) = x
  <2>1. b.entry \in Waiting(b) /\ b.entry # Sentinel
    BY <1>1, EntryIsGrouped DEF Grouped, Sentinel, NoOrder
  <2> QED BY <1>1, <1>2, <1>4, <2>1 DEF CancelLive, Cancel, Queued, Waiting, InQueue
<1>7. x.size = 0 /\ Waiting(x) = {}
  BY <1>5 DEF GivenUp
<1>8. Dropped(b) = x
  BY <1>6, <1>7, NothingToCancel DEF Dropped
<1>9. ~Flattens(x)
  BY <1>7 DEF Flattens
<1>10. Finalize(b) = x
  BY <1>8, <1>9 DEF Finalize
<1>11. /\ x \in Brokers /\ Queues(x) /\ x.policy = b.policy /\ x.fills = b.fills
       /\ Sentinel \in ToSet(x.pending) <=> Sentinel \in ToSet(b.pending)
  BY <1>5 DEF Gone, Aside
<1>12. Reducing(x)
  BY <1>1, <1>11 DEF Reducing
<1>13. Sound(x)
  BY <1>5, <1>11, <1>12 DEF Sound, Situated
<1> QED BY <1>5, <1>10, <1>11, <1>13, NoEntryWaits DEF Finalized

\* The closing order sells what the dropped exits protected.
LEMMA FinalizesProtected ==
  ASSUME NEW b, Sound(b), Protected(b), b.trades = << >>, now \in Nat,
         bar \in [o : Int, l : Int, h : Int, c : Int, v : Nat]
  PROVE  Finalized(Finalize(b), b)
<1>1. b \in Brokers /\ Queues(b) /\ Reducing(b)
  BY DEF Sound
<1>2. /\ b.setup = None /\ b.stop \in Waiting(b) /\ b.entry = NoOrder /\ b.news = << >>
      /\ b.size > 0 /\ b.tradeId = b.fillTrade
  <2>1. << >> # <<"opened">>
    OBVIOUS
  <2> QED BY <2>1 DEF Protected
<1>3. CancelLive(b, b.entry) = b
  BY <1>2 DEF CancelLive, Live
<1>4. b.policy \in {"mark_at_last_close", "flatten_at_last_close"}
  <2>1. b.policy \in EndPolicies
    BY <1>1 DEF Brokers
  <2> QED BY <2>1, AdapterAssumption
<1>5. CASE b.policy = "mark_at_last_close"
  <2>1. Dropped(b) = b
    BY <1>3, <1>5 DEF Dropped
  <2>2. Finalize(b) = b
    BY <1>5, <2>1 DEF Finalize, Flattens
  <2> QED BY <1>5, <2>2, NoEntryWaits DEF Finalized
<1>6. CASE b.policy = "flatten_at_last_close"
  <2>1. PICK x : x = Cancel(b, b.stop)
    OBVIOUS
  <2>2. Gone(x, b, b.stop, "canceled") /\ Live(b, b.stop) /\ b.orders[b.stop].role \in Legs
    <3>1. Grouped(b, b.stop) /\ Live(b, b.stop) /\ b.orders[b.stop].role \in Legs
      BY <1>1, <1>2, LegsAreGrouped DEF Queues
    <3>2. ToSet(b.submitted) = {}
      <4>1. \A r \in ToSet(b.submitted) : r \in Waiting(b) /\ b.orders[r].role = "entry"
        BY <1>1 DEF Queues, Waiting
      <4>2. \A r \in Waiting(b) : b.orders[r].role \in Legs
        BY <1>1, LegsAreGrouped
      <4> QED BY <4>1, <4>2 DEF Legs
    <3> QED BY <1>1, <2>1, <3>1, <3>2, Cancels
  <2>3. /\ x \in Brokers /\ Queues(x) /\ Aside(x, b) /\ Waiting(x) = {} /\ x.submitted = << >>
        /\ x.news = << >>
        /\ Sentinel \in ToSet(x.pending) <=> Sentinel \in ToSet(b.pending)
    BY <1>2, <2>2 DEF Gone, Legs
  <2>4. /\ x.size = b.size /\ x.dir = b.dir /\ x.policy = b.policy /\ x.fills = b.fills
        /\ x.entry = NoOrder /\ x.setup = None /\ x.trades = << >> /\ x.tradeId = x.fillTrade
    BY <1>2, <2>3 DEF Aside
  <2>5. Dropped(b) = x
    <3>1. CancelLive(b, b.stop) = x
      BY <2>1, <2>2 DEF CancelLive
    <3>2. b.policy # "mark_at_last_close"
      BY <1>6
    <3> QED BY <1>3, <2>3, <3>1, <3>2, NothingToCancel DEF Dropped
  <2>6. Flattens(x)
    BY <1>2, <1>6, <2>4 DEF Flattens
  <2>7. PICK r : r = Len(x.orders) + 1
    OBVIOUS
  <2>8. PICK y : y = Submit(x, "end_of_data", -x.dir, x.size, 0, NoOrder, None)
    OBVIOUS
  <2>9. /\ y \in Brokers /\ Queues(y) /\ Aside(y, x) /\ y.news = x.news
        /\ y.groups = x.groups \cup {r} /\ r \in Nat \ {0}
        /\ Newest(y) = r /\ DOMAIN y.orders = DOMAIN x.orders \cup {r}
        /\ LET o == y.orders[r]
           IN /\ o.role = "end_of_data" /\ o.sign = -x.dir /\ o.left = x.size /\ o.filled = 0 /\ o.lead = r
        /\ Waiting(y) = Waiting(x) \cup {r} /\ y.submitted = << >>
        /\ Sentinel \in ToSet(y.pending) <=> Sentinel \in ToSet(x.pending)
    <3>1. x.size \in Quantities /\ x.dir \in {1, -1}
      BY <2>3 DEF Brokers
    <3>2. /\ "end_of_data" \in Roles /\ "end_of_data" # "entry" /\ -x.dir \in {1, -1}
          /\ 0 \in Int \cup {None} /\ None \in SetupRecords \cup {None}
      BY <3>1 DEF Roles
    <3>3. Placeable(x, "end_of_data", -x.dir, x.size, 0, NoOrder, None)
      BY <2>3, <3>1, <3>2 DEF Placeable
    <3>4. Placed(x, y, "end_of_data", -x.dir, x.size, 0, NoOrder, None)
      BY <2>8, <3>3, Submits, Zenon
    <3> QED BY <2>7, <3>2, <3>4 DEF Placed
  <2>10. Waiting(y) = {r} /\ Whole(y, r)
    BY <1>2, <2>3, <2>4, <2>9 DEF Whole
  <2>11. Selling(y, r)
    <3>1. Grouped(y, r)
      BY <2>10 DEF Grouped
    <3>2. /\ y.size = x.size /\ y.dir = x.dir /\ y.entry = NoOrder /\ y.setup = None /\ y.news = << >>
          /\ y.trades = << >> /\ y.tradeId = y.fillTrade
      BY <2>3, <2>4, <2>9 DEF Aside
    <3> QED BY <1>2, <2>4, <2>9, <3>1, <3>2 DEF Selling
  <2>12. PICK c : c = Unqueue(y, r)
    OBVIOUS
  <2>13. Taken(c, y, r)
    <3>1. PICK P : P = Without(y.pending, {r})
      OBVIOUS
    <3>2. y.pending \in Seq(Nat) /\ IsInjective(y.pending)
      BY <2>9 DEF Brokers, Queues
    <3>3. P \in Seq(Nat) /\ ToSet(P) = ToSet(y.pending) \ {r} /\ IsInjective(P)
      BY <3>1, <3>2, WithoutKeeps
    <3>4. c = [y EXCEPT !.pending = P]
      BY <2>12, <3>1 DEF Unqueue
    <3>5. c \in Brokers
      <4>1. y \in Brokers
        BY <2>9
      <4>2. [y EXCEPT !.pending = P] \in Brokers
        BY <3>3, <4>1, ZenonT(60) DEF Brokers
      <4> QED BY <3>4, <4>2, Zenon
    <3>6. /\ c.pending = P /\ c.submitted = y.submitted /\ c.orders = y.orders
          /\ c.news = y.news /\ c.stop = y.stop /\ c.tp = y.tp /\ c.groups = y.groups /\ c.done = y.done
          /\ Aside(c, y)
      BY <2>9, <3>4 DEF Brokers, Aside
    <3>7. Waiting(c) = Waiting(y) \ {r}
      BY <2>9, <3>3, <3>6, NoEntries DEF Waiting, InQueue
    <3>8. r # Sentinel
      BY <2>9 DEF Sentinel
    <3> QED BY <2>9, <3>3, <3>5, <3>6, <3>7, <3>8 DEF Taken
  <2>14. Newest(c) = r /\ y.orders[r].left = x.size
    BY <2>9, <2>13 DEF Taken, Newest
  <2>15. PICK d : d = CloseGroup(Filled(c, r, y.orders[r].left, bar.c), r)
    OBVIOUS
  <2>16. Finalize(b) = d
    <3>1. Closing(x) = c
      BY <2>8, <2>9, <2>12 DEF Closing
    <3> QED BY <2>5, <2>6, <2>14, <2>15, <3>1 DEF Finalize
  <2>17. Sold(d) /\ Dealt(d, y, r)
    <3>1. bar.c \in Int
      OBVIOUS
    <3> QED BY <2>9, <2>11, <2>13, <2>15, <3>1, ExitFills
  <2>18. Reducing(y)
    <3>1. y.fills = b.fills
      BY <2>4, <2>9 DEF Aside
    <3> QED BY <1>1, <3>1 DEF Reducing
  <2>19. /\ d \in Brokers /\ Queues(d) /\ Reducing(d) /\ d.policy = y.policy
         /\ Sentinel \in ToSet(d.pending) <=> Sentinel \in ToSet(y.pending)
    <3>1. y.size > 0
      BY <2>11 DEF Selling
    <3> QED BY <2>17, <2>18, <3>1 DEF Dealt
  <2>20. d.policy = b.policy
    BY <2>4, <2>9, <2>19 DEF Aside
  <2>21. Sound(d)
    BY <2>17, <2>19 DEF Sound, Situated
  <2>22. Sentinel \in ToSet(d.pending) <=> Sentinel \in ToSet(b.pending)
    BY <2>3, <2>9, <2>19
  <2>23. b.policy # "mark_at_last_close"
    BY <1>6
  <2> QED BY <2>16, <2>17, <2>20, <2>21, <2>22, <2>23 DEF Finalized
<1> QED BY <1>4, <1>5, <1>6

\* The end of the data drops what waits, and sells the position or marks it.
LEMMA EndOfDataStep ==
  ASSUME Inv, EndOfData
  PROVE  Inv'
<1>1. /\ phase = "idle" /\ s' = Finalize(s) /\ phase' = "final orders" /\ now' = now /\ bar' = bar
  BY DEF EndOfData
<1>2. /\ Sound(s) /\ (s.news = << >> \/ GivenUp(s)) /\ s.trades = << >> /\ Sentinel \notin ToSet(s.pending)
      /\ bar \in [o : Int, l : Int, h : Int, c : Int, v : Nat]
  BY <1>1 DEF Inv, Phases
<1>3. now \in Nat
  <2>1. now \in 0..MaxBars
    BY DEF Inv
  <2> QED BY <2>1, AdapterAssumption
<1>4. Flat(s) \/ GivenUp(s) \/ Entering(s) \/ Protected(s)
  <2>1. Len(<< >>) # 1
    OBVIOUS
  <2>2. Situated(s)
    BY <1>2 DEF Sound
  <2> QED BY <1>2, <2>1, <2>2 DEF Situated, Bought, Sold
<1>5. Finalized(s', s)
  BY <1>1, <1>2, <1>3, <1>4, FinalizesIdle, FinalizesEntering, FinalizesProtected
<1>6. Phases'
  BY <1>1, <1>2, <1>5 DEF Phases, Finalized
<1>7. AtEnd'
  BY <1>5 DEF AtEnd, Finalized
<1> QED BY <1>1, <1>2, <1>5, <1>6, <1>7 DEF Inv, Finalized

(* ---- The invariant ------------------------------------------------------ *)

\* A run starts flat, with nothing queued.
LEMMA InitInv ==
  ASSUME Init
  PROVE  Inv
<1>1. phase = "idle" /\ now = 0
  BY DEF Init
<1>12. bar \in [o : Int, l : Int, h : Int, c : Int, v : Nat]
  <2>1. bar = [o |-> 0, l |-> 0, h |-> 0, c |-> 0, v |-> 0]
    BY DEF Init
  <2> QED BY <2>1
<1>2. PICK p \in EndPolicies, q \in Remainders : s = [Start EXCEPT !.policy = p, !.remainder = q]
  BY DEF Init
<1>3. /\ s.orders = << >> /\ s.pending = << >> /\ s.submitted = << >> /\ s.groups = {} /\ s.done = {}
      /\ s.news = << >> /\ s.trades = << >> /\ s.size = 0 /\ s.fillTrade = 1 /\ s.fills = << >>
      /\ s.entry = NoOrder /\ s.stop = NoOrder /\ s.tp = NoOrder /\ s.cancelled = NoOrder
      /\ s.setup = None /\ s.trade = None /\ s.tradeId = 1 /\ s.held = 0
  BY <1>2 DEF Start
<1>4. s \in Brokers
  <2>1. /\ << >> \in Seq(OrderRecords) /\ << >> \in Seq(Nat) /\ << >> \in Seq(NewsRecords) /\ << >> \in Seq(FillRecords)
        /\ {} \in SUBSET Nat /\ 0 \in Nat /\ 1 \in Nat /\ 0 \in Int /\ 0 \in Quantities
        /\ NoOrder \in Nat /\ NoOrder \in {NoOrder} /\ FALSE \in BOOLEAN /\ FALSE \in {FALSE} /\ 1 \in {1, -1}
        /\ << >> \in {<< >>, <<"opened">>, <<"closed">>}
        /\ None \in Roles \cup {None} /\ None \in Nat \cup {None} /\ None \in SetupRecords \cup {None}
    BY QuantitiesType DEF NoOrder
  <2> QED BY <1>2, <2>1, ZenonT(60) DEF Start, Brokers
<1>5. Waiting(s) = {}
  BY <1>3, NoEntries DEF Waiting, InQueue
<1>6. Queues(s)
  <2>1. DOMAIN << >> = {} /\ Len(<< >>) = 0
    OBVIOUS
  <2> QED BY <1>3, <1>5, <2>1, NoEntries DEF Queues
<1>7. Flat(s)
  BY <1>3, <1>5 DEF Flat, NoTrade
<1>8. Reducing(s)
  BY <1>3 DEF Reducing
<1>9. Phases
  BY <1>1, <1>3, NoEntries DEF Phases
<1>10. AtEnd
  BY <1>1 DEF AtEnd
<1>11. now \in 0..MaxBars
  <2>1. MaxBars \in Nat
    BY AdapterAssumption
  <2> QED BY <1>1, <2>1
<1> QED BY <1>1, <1>4, <1>6, <1>7, <1>8, <1>9, <1>10, <1>11, <1>12 DEF Inv, Sound, Situated

\* Every step keeps it.
LEMMA NextInv ==
  ASSUME Inv, [Next]_vars
  PROVE  Inv'
<1>1. CASE UNCHANGED vars
  BY <1>1 DEF vars, Inv, Phases, AtEnd
<1>2. ASSUME NEW c \in Candles, NewBar(c) PROVE Inv'
  BY <1>2, NewBarStep
<1>3. CASE CheckSubmitted
  BY <1>3, CheckSubmittedStep
<1>4. CASE BeginPass
  BY <1>4, BeginPassStep
<1>5. CASE Turn
  BY <1>5, TurnStep
<1>6. CASE EndMatching
  BY <1>6, EndMatchingStep
<1>7. CASE NotifyOrder
  BY <1>7, NotifyOrderStep
<1>8. CASE OrdersHeard
  BY <1>8, OrdersHeardStep
<1>9. CASE NotifyTrade
  BY <1>9, NotifyTradeStep
<1>10. CASE TradesHeard
  BY <1>10, TradesHeardStep
<1>11. CASE Decide
  BY <1>11, DecideStep
<1>12. CASE EndOfData
  BY <1>12, EndOfDataStep
<1> QED BY <1>1, <1>2, <1>3, <1>4, <1>5, <1>6, <1>7, <1>8, <1>9, <1>10, <1>11, <1>12 DEF Next

\* At every moment the run is in one of the situations, and its bar in one of the
\* phases, that the invariant lists: how broker and adapter drift apart and meet again.
THEOREM SituationsHold == Spec => []Inv
<1>1. Init => Inv
  BY InitInv
<1>2. Inv /\ [Next]_vars => Inv'
  BY NextInv
<1> QED BY <1>1, <1>2, PTL DEF Spec

(* ---- What follows ------------------------------------------------------- *)

\* The fields of broker and adapter have their types in every reachable state.
THEOREM TypeCorrect == Spec => []TypeOK
<1>1. ASSUME Inv PROVE TypeOK
  <2>1. s \in Brokers /\ Queues(s)
    BY <1>1 DEF Inv, Sound
  <2>2. /\ s.orders \in Seq(OrderRecords) /\ s.pending \in Seq(Nat) /\ s.size \in Quantities /\ s.dir \in {1, -1}
        /\ s.left \in Nat /\ s.setup \in SetupRecords \cup {None} /\ s.halted \in BOOLEAN /\ s.intent \in {FALSE}
        /\ s.signal \in {NoOrder}
    BY <2>1 DEF Brokers
  <2>3. \A r \in DOMAIN s.orders : s.orders[r] \in OrderRecords
    BY <2>2
  <2>4. \A r \in DOMAIN s.orders :
          /\ s.orders[r].role \in Legs \cup {"entry", "signal", "liquidation", "end_of_data"}
          /\ s.orders[r].status \in {"submitted", "accepted", "partial", "completed", "canceled", "rejected", "margin"}
          /\ s.orders[r].left \in Quantities /\ s.orders[r].filled \in Quantities
    BY <2>3 DEF OrderRecords, Roles, Statuses
  <2>5. ToSet(s.submitted) \subseteq DOMAIN s.orders /\ ToSet(s.pending) \subseteq {Sentinel} \cup DOMAIN s.orders
    BY <2>1 DEF Queues, Waiting, InQueue
  <2>6. {s.entry, s.stop, s.tp, s.signal, s.cancelled} \subseteq {NoOrder} \cup DOMAIN s.orders
    BY <2>1, <2>2 DEF Queues
  <2>7. s.setup = None \/ s.setup.dir \in {1, -1}
    BY <2>2 DEF SetupRecords
  <2>8. now \in 0..MaxBars /\ phase \in {"idle", "liquidation", "signals", "submitted", "matching", "orders", "trades",
                                         "decision", "final orders", "final trades", "ended"}
    BY <1>1 DEF Inv
  <2>9. s.halted \in BOOLEAN /\ s.intent \in BOOLEAN
    BY <2>2
  <2> QED BY <2>2, <2>4, <2>5, <2>6, <2>7, <2>8, <2>9 DEF TypeOK
<1> QED BY <1>1, SituationsHold, PTL

\* No exit ever opens a position, whatever the bars, the levels and the two legs do.
THEOREM ExitsReduce == Spec => []ExitsNeverOpen
<1>1. Inv => ExitsNeverOpen
  BY DEF Inv, Sound, Reducing, ExitsNeverOpen
<1> QED BY <1>1, SituationsHold, PTL

\* When the adapter has heard everything, the books have caught up.
LEMMA SettledSituation ==
  ASSUME Inv, Settled
  PROVE  /\ s \in Brokers /\ Queues(s) /\ s.trades = << >>
         /\ Flat(s) \/ Entering(s) \/ GivenUp(s) \/ Protected(s)
         /\ phase \in {"decision", "ended"} => ~GivenUp(s)
<1>1. Sound(s) /\ s.trades = << >> /\ (s.news = << >> \/ GivenUp(s))
      /\ (phase \in {"decision", "ended"} => s.news = << >>)
  BY DEF Inv, Phases, Settled
<1>2. Len(<< >>) # 1
  OBVIOUS
<1>3. s.news = << >> => ~GivenUp(s) /\ ~Bought(s) /\ ~Sold(s)
  BY <1>2 DEF GivenUp, Bought, Sold
<1> QED BY <1>1, <1>3 DEF Sound, Situated, GivenUp, Bought, Sold

\* The position is covered by one live stop of its size, and its target is the stop's
\* sibling; without a position no exit lives.
THEOREM InventoryStaysProtected == Spec => []InventoryIsProtected
<1>1. ASSUME Inv, Settled
      PROVE  IF s.size = 0 THEN LiveExits = {}
             ELSE /\ {r \in LiveExits : s.orders[r].role = "stop_loss"} = {s.stop}
                  /\ {r \in LiveExits : s.orders[r].role = "take_profit"} = {s.tp} \ {NoOrder}
                  /\ \A r \in {s.stop, s.tp} \ {NoOrder} :
                        /\ Queued(s, r)
                        /\ s.orders[r].left = s.size /\ s.orders[r].sign = -s.dir
                        /\ s.orders[r].lead = s.stop
  <2>1. s \in Brokers /\ Queues(s) /\ (Flat(s) \/ Entering(s) \/ GivenUp(s) \/ Protected(s))
    BY <1>1, SettledSituation
  <2>2. LiveExits = {r \in Waiting(s) : s.orders[r].role # "entry"}
    BY <2>1 DEF LiveExits, Queues
  <2>3. CASE Protected(s)
    <3>1. /\ s.size > 0 /\ Waiting(s) = {s.stop, s.tp} \ {NoOrder} /\ s.stop # NoOrder /\ s.tp # s.stop
          /\ \A r \in Waiting(s) : IsLeg(s, r)
      BY <2>3 DEF Protected
    <3>2. \A r \in Waiting(s) : /\ s.orders[r].role = (IF r = s.stop THEN "stop_loss" ELSE "take_profit")
                                /\ s.orders[r].left = s.size /\ s.orders[r].sign = -s.dir
                                /\ s.orders[r].lead = s.stop
      BY <3>1 DEF IsLeg
    <3>3. LiveExits = Waiting(s)
      BY <2>2, <3>2
    <3>4. \A r \in Waiting(s) : Queued(s, r)
      BY <2>1, <3>2 DEF Queues, Queued, Waiting, InQueue
    <3>5. s.size # 0
      BY <3>1
    <3> QED BY <3>1, <3>2, <3>3, <3>4, <3>5
  <2>4. CASE Flat(s) \/ Entering(s) \/ GivenUp(s)
    <3>1. s.size = 0
      BY <2>4 DEF Flat, Entering, GivenUp
    <3>2. \A r \in Waiting(s) : s.orders[r].role = "entry"
      BY <2>4 DEF Flat, Entering, GivenUp, Fits
    <3> QED BY <2>2, <3>1, <3>2
  <2> QED BY <2>1, <2>3, <2>4
<1>2. Inv => InventoryIsProtected
  BY <1>1 DEF InventoryIsProtected
<1> QED BY <1>2, SituationsHold, PTL

\* A trade keeps its target, or stays without one.
THEOREM TargetModeStays == Spec => []TargetModeIsKept
<1>1. ASSUME Inv, Settled, s.trade # None PROVE (s.tp # NoOrder) = (s.trade.target # None)
  <2>1. s.trades = << >> /\ (Flat(s) \/ Entering(s) \/ GivenUp(s) \/ Protected(s))
    BY <1>1, SettledSituation
  <2>2. << >> # <<"opened">> /\ << >> # <<"closed">>
    OBVIOUS
  <2>3. Protected(s)
    BY <1>1, <2>1, <2>2 DEF Flat, Entering, GivenUp, NoTrade
  <2>4. s.tp # NoOrder <=> s.trade.target # None
    BY <2>1, <2>2, <2>3 DEF Protected
  <2> QED BY <2>4
<1>2. Inv => TargetModeIsKept
  BY <1>1 DEF TargetModeIsKept
<1> QED BY <1>2, SituationsHold, PTL

\* The adapter decides on books that agree with the broker's.
THEOREM BooksFollowBroker == Spec => []BooksAgree
<1>1. ASSUME Inv, phase \in {"decision", "ended"}
      PROVE  /\ s.held = s.size /\ s.tradeId = s.fillTrade /\ (s.trade # None) = (s.size > 0)
             /\ (s.setup # None) = (s.size = 0 /\ Live(s, s.entry))
  <2>1. Settled
    BY <1>1 DEF Settled
  <2>2. Queues(s) /\ s.trades = << >> /\ (Flat(s) \/ Entering(s) \/ Protected(s))
    BY <1>1, <2>1, SettledSituation
  <2>3. << >> # <<"opened">> /\ << >> # <<"closed">>
    OBVIOUS
  <2>4. CASE Protected(s)
    <3>1. s.held = s.size /\ s.tradeId = s.fillTrade /\ s.size > 0 /\ s.trade # None /\ s.setup = None
      BY <2>2, <2>3, <2>4 DEF Protected
    <3>2. s.size # 0
      BY <3>1
    <3> QED BY <3>1, <3>2
  <2>5. CASE Flat(s)
    <3>1. s.held = s.size /\ s.tradeId = s.fillTrade /\ s.size = 0 /\ s.trade = None /\ s.setup = None
          /\ s.entry = NoOrder
      BY <2>2, <2>3, <2>5 DEF Flat, NoTrade
    <3>2. ~Live(s, s.entry)
      BY <3>1 DEF Live
    <3>3. ~(s.size > 0)
      BY <3>1
    <3> QED BY <3>1, <3>2, <3>3
  <2>6. CASE Entering(s)
    <3>1. s.held = s.size /\ s.tradeId = s.fillTrade /\ s.size = 0 /\ s.trade = None /\ s.setup # None
      BY <2>6 DEF Entering, Fits, NoTrade
    <3>2. Live(s, s.entry)
      BY <2>2, <2>6 DEF Entering, Queues
    <3>3. ~(s.size > 0)
      BY <3>1
    <3> QED BY <3>1, <3>2, <3>3
  <2> QED BY <2>2, <2>4, <2>5, <2>6
<1>2. Inv => BooksAgree
  BY <1>1 DEF BooksAgree, AccountFollowsBroker, SetupAwaitsItsEntry
<1> QED BY <1>2, SituationsHold, PTL

\* The queues of an idle broker hold the live orders, each of them once.
THEOREM QueuesHoldTheLive == Spec => []QueueHoldsTheLive
<1>1. ASSUME Inv, phase = "idle"
      PROVE  /\ IsInjective(s.pending \o s.submitted)
             /\ ToSet(s.pending \o s.submitted) = {r \in DOMAIN s.orders : Live(s, r)}
  <2>1. s \in Brokers /\ Queues(s) /\ Sentinel \notin ToSet(s.pending)
    BY <1>1 DEF Inv, Sound, Phases
  <2>2. PICK p : p = s.pending
    OBVIOUS
  <2>3. PICK q : q = s.submitted
    OBVIOUS
  <2>4. p \in Seq(Nat) /\ q \in Seq(Nat)
    BY <2>1, <2>2, <2>3 DEF Brokers
  <2>5. IsInjective(p) /\ Len(q) <= 1 /\ ToSet(p) \cap ToSet(q) = {}
    BY <2>1, <2>2, <2>3 DEF Queues
  <2>6. PICK n \in Nat : n = Len(p)
    BY <2>4
  <2>7. PICK m \in Nat : m = Len(q)
    BY <2>4
  <2>8. PICK w : w = p \o q
    OBVIOUS
  <2>9. /\ DOMAIN p = 1..n /\ DOMAIN q = 1..m /\ DOMAIN w = 1..(n + m)
        /\ \A i \in 1..n : w[i] = p[i]
        /\ \A i \in 1..m : w[n + i] = q[i]
    BY <2>4, <2>6, <2>7, <2>8, ConcatProperties
  <2>10. \A i \in 1..(n + m) : i \in 1..n \/ (i - n \in 1..m /\ n + (i - n) = i)
    OBVIOUS
  <2>11. ToSet(w) = ToSet(p) \cup ToSet(q)
    <3>1. \A i \in 1..n : i \in 1..(n + m)
      OBVIOUS
    <3>2. \A i \in 1..m : n + i \in 1..(n + m)
      OBVIOUS
    <3>3. \A i \in 1..(n + m) : w[i] \in ToSet(p) \cup ToSet(q)
      <4> TAKE i \in 1..(n + m)
      <4>1. CASE i \in 1..n
        BY <2>9, <4>1 DEF ToSet
      <4>2. CASE i - n \in 1..m /\ n + (i - n) = i
        <5>1. w[i] = q[i - n]
          BY <2>9, <4>2
        <5> QED BY <2>9, <4>2, <5>1 DEF ToSet
      <4> QED BY <2>10, <4>1, <4>2
    <3>4. \A i \in 1..n : p[i] \in ToSet(w)
      BY <2>9, <3>1 DEF ToSet
    <3>5. \A i \in 1..m : q[i] \in ToSet(w)
      BY <2>9, <3>2 DEF ToSet
    <3>6. ToSet(w) = {w[i] : i \in 1..(n + m)} /\ ToSet(p) = {p[i] : i \in 1..n} /\ ToSet(q) = {q[i] : i \in 1..m}
      BY <2>9 DEF ToSet
    <3> QED BY <3>3, <3>4, <3>5, <3>6
  <2>16. \A j \in 1..(n + m) : j \notin 1..n => w[j] \in ToSet(q)
    <3> SUFFICES ASSUME NEW j \in 1..(n + m), j \notin 1..n PROVE w[j] \in ToSet(q)
      OBVIOUS
    <3>1. j - n \in 1..m /\ n + (j - n) = j
      BY <2>10
    <3>2. w[j] = q[j - n]
      BY <2>9, <3>1
    <3> QED BY <2>9, <3>1, <3>2 DEF ToSet
  <2>17. \A i \in 1..n : w[i] \in ToSet(p)
    BY <2>9 DEF ToSet
  <2>12. m <= 1
    BY <2>5, <2>7
  <2>13. IsInjective(w)
    <3>1. ASSUME NEW i \in 1..(n + m), NEW j \in 1..(n + m), w[i] = w[j] PROVE i = j
      <4>1. CASE i \in 1..n /\ j \in 1..n
        BY <2>5, <2>9, <3>1, <4>1 DEF IsInjective
      <4>2. CASE i \notin 1..n /\ j \notin 1..n
        BY <2>12, <4>2
      <4>3. CASE i \in 1..n /\ j \notin 1..n
        <5>1. w[i] \in ToSet(p) /\ w[j] \in ToSet(q)
          BY <2>16, <2>17, <4>3
        <5> QED BY <2>5, <3>1, <5>1
      <4>4. CASE i \notin 1..n /\ j \in 1..n
        <5>1. w[j] \in ToSet(p) /\ w[i] \in ToSet(q)
          BY <2>16, <2>17, <4>4
        <5> QED BY <2>5, <3>1, <5>1
      <4> QED BY <4>1, <4>2, <4>3, <4>4
    <3> QED BY <2>9, <3>1 DEF IsInjective
  <2>14. ToSet(p) \cup ToSet(q) = Waiting(s)
    BY <2>1, <2>2, <2>3 DEF Waiting, InQueue
  <2>15. Waiting(s) = {r \in DOMAIN s.orders : Live(s, r)}
    BY <2>1 DEF Queues
  <2> QED BY <2>2, <2>3, <2>8, <2>11, <2>13, <2>14, <2>15
<1>2. Inv => QueueHoldsTheLive
  BY <1>1 DEF QueueHoldsTheLive
<1> QED BY <1>2, SituationsHold, PTL

\* The terminal policy is carried out.
THEOREM PolicyEndsTheRun == Spec => []EndsByPolicy
<1>1. ASSUME Inv, phase = "ended"
      PROVE  IF s.policy = "mark_at_last_close"
             THEN \A r \in DOMAIN s.orders : s.orders[r].role = "entry" => ~Live(s, r)
             ELSE s.size = 0 /\ \A r \in DOMAIN s.orders : ~Live(s, r)
  <2>1. Settled
    BY <1>1 DEF Settled
  <2>2. s \in Brokers /\ Queues(s) /\ ~GivenUp(s) /\ (Flat(s) \/ Entering(s) \/ Protected(s))
    BY <1>1, <2>1, SettledSituation
  <2>3. AtEnd /\ s.news = << >>
    BY <1>1 DEF Inv, Phases
  <2>4. CASE s.policy = "mark_at_last_close"
    <3>1. Flat(s) \/ Protected(s)
      BY <1>1, <2>2, <2>3, <2>4 DEF AtEnd
    <3>2. \A r \in Waiting(s) : s.orders[r].role # "entry"
      BY <2>2, <3>1, LegsAreGrouped DEF Flat, Legs
    <3> QED BY <2>2, <2>4, <3>2 DEF Queues
  <2>5. CASE s.policy # "mark_at_last_close"
    <3>1. Flat(s)
      <4>1. Len(<< >>) # 1
        OBVIOUS
      <4> QED BY <1>1, <2>2, <2>3, <2>5, <4>1 DEF AtEnd, Sold
    <3>2. s.size = 0 /\ Waiting(s) = {}
      BY <3>1 DEF Flat
    <3> QED BY <2>2, <2>5, <3>2 DEF Queues
  <2> QED BY <2>4, <2>5
<1>2. Inv => EndsByPolicy
  BY <1>1 DEF EndsByPolicy
<1> QED BY <1>2, SituationsHold, PTL

(* ---- Orders remembered ---------------------------------------------------- *)

\* Some sequence.
Listed(q) == \E S : q \in Seq(S)

\* What the orders are for and the position they make are fields of the broker.
Known(b) ==
  /\ {"orders", "size", "dir", "fillTrade", "fills", "exits", "stop", "tp"} \subseteq DOMAIN b
  /\ Listed(b.orders)
  /\ \A q \in DOMAIN b.orders : {"role", "sign", "price", "lead"} \subseteq DOMAIN b.orders[q]

\* An order as it was placed.
Same(o, p) ==
  DOMAIN o = DOMAIN p /\ o.role = p.role /\ o.sign = p.sign /\ o.price = p.price /\ o.lead = p.lead

\* Nothing was filled.
Unfilled(d, b) ==
  /\ DOMAIN d = DOMAIN b
  /\ d.size = b.size /\ d.dir = b.dir /\ d.fillTrade = b.fillTrade /\ d.fills = b.fills /\ d.exits = b.exits

\* Nothing was filled or placed either.
Unplaced(d, b) ==
  /\ Known(d) /\ Unfilled(d, b)
  /\ DOMAIN d.orders = DOMAIN b.orders
  /\ \A q \in DOMAIN b.orders : Same(d.orders[q], b.orders[q])
  /\ d.stop = NoOrder \/ (d.stop = b.stop /\ d.tp = b.tp)

\* Nothing was filled; what was placed has groups of its own, and if the bracket is
\* new, it is all that was placed.
Onward(d, b) ==
  LET new == DOMAIN d.orders \ DOMAIN b.orders
  IN /\ Known(d) /\ Unfilled(d, b)
     /\ DOMAIN b.orders \subseteq DOMAIN d.orders
     /\ \A q \in DOMAIN b.orders : Same(d.orders[q], b.orders[q])
     /\ \A q \in new : d.orders[q].lead \in new
     /\ \/ d.stop = NoOrder
        \/ d.stop = b.stop /\ d.tp = b.tp
        \/ d.stop \in new /\ new \subseteq {d.stop, d.tp}

\* A function of 1..n is a sequence.
LEMMA Lists ==
  ASSUME NEW n \in Nat, NEW f, f = [i \in 1..n |-> f[i]]
  PROVE  Listed(f) /\ Len(f) = n
<1> DEFINE S == {f[i] : i \in 1..n}
<1>1. f \in [1..n -> S]
  <2>1. \A i \in 1..n : f[i] \in S
    OBVIOUS
  <2> HIDE DEF S
  <2> QED BY <2>1
<1> HIDE DEF S
<1>2. f \in Seq(S)
  BY <1>1, IsSequence
<1>3. Len(f) = n
  BY <1>1, <1>2, LenProperties
<1> QED BY <1>2, <1>3 DEF Listed

\* The orders of a broker are numbered from 1.
LEMMA Numbered ==
  ASSUME NEW q, Listed(q)
  PROVE  /\ Len(q) \in Nat /\ DOMAIN q = 1..Len(q)
         /\ q = [i \in 1..Len(q) |-> q[i]]
<1>1. PICK S : q \in Seq(S)
  BY DEF Listed
<1> QED BY <1>1

\* Every broker has them.
LEMMA BrokerIsKnown ==
  ASSUME NEW b \in Brokers
  PROVE  Known(b)
<1>1. b.orders \in Seq(OrderRecords)
  BY DEF Brokers
<1>2. Listed(b.orders)
  BY <1>1 DEF Listed
<1>3. \A q \in DOMAIN b.orders : b.orders[q] \in OrderRecords
  BY <1>1
<1>4. \A q \in DOMAIN b.orders : {"role", "sign", "price", "lead"} \subseteq DOMAIN b.orders[q]
  BY <1>3 DEF OrderRecords
<1>5. {"orders", "size", "dir", "fillTrade", "fills", "exits", "stop", "tp"} \subseteq DOMAIN b
  BY DEF Brokers
<1> QED BY <1>2, <1>4, <1>5 DEF Known

\* Steps in a row.
LEMMA UnplacedChain ==
  ASSUME NEW b, NEW c, NEW d, Known(b)
  PROVE  /\ Unplaced(b, b)
         /\ Unplaced(d, c) /\ Unplaced(c, b) => Unplaced(d, b)
         /\ Unplaced(d, b) => Onward(d, b)
         /\ Onward(d, c) /\ Unplaced(c, b) => Onward(d, b)
         /\ Unplaced(d, c) /\ Onward(c, b) => Onward(d, b)
BY DEF Unplaced, Onward, Unfilled, Same

\* A change of other fields.
LEMMA Elsewhere ==
  ASSUME NEW b, Known(b), NEW d, Unfilled(d, b), d.orders = b.orders,
         d.stop = NoOrder \/ (d.stop = b.stop /\ d.tp = b.tp)
  PROVE  Unplaced(d, b)
BY DEF Known, Unplaced, Unfilled, Same

\* A change of an order's status.
LEMMA Restated ==
  ASSUME NEW b, Known(b), NEW d, Unfilled(d, b), d.stop = b.stop, d.tp = b.tp,
         DOMAIN d.orders = DOMAIN b.orders, d.orders = [q \in DOMAIN b.orders |-> d.orders[q]],
         \A q \in DOMAIN b.orders : Same(d.orders[q], b.orders[q])
  PROVE  Unplaced(d, b)
<1>1. Len(b.orders) \in Nat /\ DOMAIN b.orders = 1..Len(b.orders)
  BY Numbered DEF Known
<1>2. Listed(d.orders)
  BY <1>1, Lists
<1>3. {"orders", "size", "dir", "fillTrade", "fills", "exits", "stop", "tp"} \subseteq DOMAIN d
  BY DEF Known, Unfilled
<1>4. \A q \in DOMAIN d.orders : {"role", "sign", "price", "lead"} \subseteq DOMAIN d.orders[q]
  BY DEF Known, Same
<1> QED BY <1>2, <1>3, <1>4 DEF Unplaced, Known

\* The end of an order, ...
LEMMA EndsOnward ==
  ASSUME NEW b, Known(b), NEW r, NEW status
  PROVE  Unplaced(Ended(b, r, status), b)
<1>1. PICK d : d = Ended(b, r, status)
  OBVIOUS
<1>2. /\ Unfilled(d, b) /\ d.stop = b.stop /\ d.tp = b.tp
      /\ d.orders = [b.orders EXCEPT ![r].status = status]
  BY <1>1 DEF Ended, Known, Unfilled
<1>3. /\ DOMAIN d.orders = DOMAIN b.orders /\ d.orders = [q \in DOMAIN b.orders |-> d.orders[q]]
      /\ \A q \in DOMAIN b.orders : Same(d.orders[q], b.orders[q])
  BY <1>2 DEF Known, Same
<1> QED BY <1>1, <1>2, <1>3, Restated

\* ... of its group, ...
LEMMA ClosesOnward ==
  ASSUME NEW b, Known(b), NEW r
  PROVE  Unplaced(CloseGroup(b, r), b)
<1> DEFINE siblings == {q \in ToSet(b.pending) \ {Sentinel} : b.orders[r].lead \in b.groups /\ b.orders[q].lead = b.orders[r].lead}
<1>1. PICK d : d = CloseGroup(b, r)
  OBVIOUS
<1>2. /\ Unfilled(d, b) /\ d.stop = b.stop /\ d.tp = b.tp
      /\ d.orders = [q \in DOMAIN b.orders |->
                       IF q \in siblings THEN [b.orders[q] EXCEPT !.status = "canceled"] ELSE b.orders[q]]
  BY <1>1 DEF CloseGroup, Known, Unfilled
<1> HIDE DEF siblings
<1>3. /\ DOMAIN d.orders = DOMAIN b.orders /\ d.orders = [q \in DOMAIN b.orders |-> d.orders[q]]
      /\ \A q \in DOMAIN b.orders : Same(d.orders[q], b.orders[q])
  BY <1>2 DEF Known, Same
<1> QED BY <1>1, <1>2, <1>3, Restated

\* What is known stays known.
LEMMA StaysKnown ==
  ASSUME NEW b, NEW d, Unplaced(d, b)
  PROVE  Known(d)
BY DEF Unplaced

\* ... or of both only changes what the orders' status is.
LEMMA DropsOnward ==
  ASSUME NEW b, Known(b), NEW r, NEW status
  PROVE  Unplaced(CloseGroup(Ended(b, r, status), r), b)
<1>1. PICK e : e = Ended(b, r, status)
  OBVIOUS
<1>2. Unplaced(e, b) /\ Known(e)
  BY <1>1, EndsOnward, StaysKnown
<1>3. Unplaced(CloseGroup(e, r), e)
  BY <1>2, ClosesOnward
<1> QED BY <1>1, <1>2, <1>3, UnplacedChain

\* A cancel is such an end.
LEMMA CancelsOnward ==
  ASSUME NEW b, Known(b), NEW r
  PROVE  Unplaced(Cancel(b, r), b) /\ Unplaced(CancelLive(b, r), b)
<1>1. PICK c : c = [Unqueue(b, r) EXCEPT !.submitted = Without(@, {r})]
  OBVIOUS
<1>2. Unplaced(c, b)
  <2>1. Unfilled(c, b) /\ c.orders = b.orders /\ c.stop = b.stop /\ c.tp = b.tp
    BY <1>1 DEF Unqueue, Known, Unfilled
  <2> QED BY <2>1, Elsewhere
<1>3. Unplaced(CloseGroup(Ended(c, r, "canceled"), r), c)
  BY <1>2, StaysKnown, DropsOnward
<1>4. Unplaced(Cancel(b, r), b)
  BY <1>1, <1>2, <1>3, UnplacedChain DEF Cancel
<1> QED BY <1>4, UnplacedChain DEF CancelLive

\* Back in the queue, an order is the one it was.
LEMMA RequeuesOnward ==
  ASSUME NEW b, Known(b), NEW r
  PROVE  Unplaced(Requeue(b, r), b)
<1>1. PICK d : d = [b EXCEPT !.pending = Append(@, r)]
  OBVIOUS
<1>2. Unfilled(d, b) /\ d.orders = b.orders /\ d.stop = b.stop /\ d.tp = b.tp
  BY <1>1 DEF Known, Unfilled
<1>3. Unplaced(d, b)
  BY <1>2, Elsewhere
<1> QED BY <1>1, <1>3, UnplacedChain DEF Requeue

\* One order was added.
Added(d, b, r, role, sign, price, g) ==
  /\ Known(d) /\ Unfilled(d, b) /\ d.stop = b.stop /\ d.tp = b.tp
  /\ r = Len(b.orders) + 1 /\ r # NoOrder /\ r \notin DOMAIN b.orders
  /\ DOMAIN d.orders = DOMAIN b.orders \cup {r} /\ Newest(d) = r
  /\ \A q \in DOMAIN b.orders : d.orders[q] = b.orders[q]
  /\ d.orders[r].role = role /\ d.orders[r].sign = sign /\ d.orders[r].price = price /\ d.orders[r].lead = g

\* submit adds one order, in a group of its own or of its lead.
LEMMA SubmitsOnward ==
  ASSUME NEW b, Known(b), NEW role, NEW sign, NEW qty, NEW price, NEW lead, NEW setup,
         NEW d, d = Submit(b, role, sign, qty, price, lead, setup), NEW r, r = Len(b.orders) + 1
  PROVE  Added(d, b, r, role, sign, price, IF lead = NoOrder THEN r ELSE b.orders[lead].lead)
<1>1. PICK S : b.orders \in Seq(S)
  BY DEF Known, Listed
<1>2. PICK g : g = IF lead = NoOrder THEN r ELSE b.orders[lead].lead
  OBVIOUS
<1> DEFINE o == [role |-> role, sign |-> sign,
                 status |-> IF role = "entry" /\ ChecksCash THEN "submitted" ELSE "accepted",
                 left |-> qty, filled |-> 0, cost |-> 0, price |-> price, lead |-> g, born |-> now,
                 setup |-> setup, guarded |-> FALSE, matched |-> 0, trade |-> b.tradeId]
<1>3. /\ o.role = role /\ o.sign = sign /\ o.price = price /\ o.lead = g
      /\ {"role", "sign", "price", "lead"} \subseteq DOMAIN o
  OBVIOUS
<1>4. /\ Unfilled(d, b) /\ d.stop = b.stop /\ d.tp = b.tp
      /\ d.orders = Append(b.orders, o)
  BY <1>2 DEF Submit, Known, Unfilled
<1> HIDE DEF o
<1>5. Append(b.orders, o) \in Seq(S \cup {o})
  <2>1. b.orders \in Seq(S \cup {o})
    BY <1>1
  <2> QED BY <2>1
<1>6. /\ Len(b.orders) \in Nat /\ DOMAIN b.orders = 1..Len(b.orders)
      /\ Len(d.orders) = r /\ DOMAIN d.orders = 1..r /\ d.orders[r] = o
      /\ \A q \in 1..Len(b.orders) : d.orders[q] = b.orders[q]
  <2>1. b.orders \in Seq(S \cup {o})
    BY <1>1
  <2> QED BY <1>4, <2>1
<1>7. r # NoOrder /\ r \notin DOMAIN b.orders /\ DOMAIN d.orders = DOMAIN b.orders \cup {r}
  BY <1>6 DEF NoOrder
<1>8. Known(d)
  <2>1. Listed(d.orders)
    BY <1>4, <1>5 DEF Listed
  <2>2. \A q \in DOMAIN d.orders : {"role", "sign", "price", "lead"} \subseteq DOMAIN d.orders[q]
    BY <1>3, <1>6, <1>7 DEF Known
  <2>3. {"orders", "size", "dir", "fillTrade", "fills", "exits", "stop", "tp"} \subseteq DOMAIN d
    BY <1>4 DEF Known, Unfilled
  <2> QED BY <2>1, <2>2, <2>3 DEF Known
<1> QED BY <1>2, <1>3, <1>4, <1>6, <1>7, <1>8 DEF Added, Newest

\* An order of its own.
LEMMA AddedOnward ==
  ASSUME NEW b, NEW d, NEW r, NEW role, NEW sign, NEW price, Added(d, b, r, role, sign, price, r)
  PROVE  Onward(d, b)
<1>1. DOMAIN d.orders \ DOMAIN b.orders = {r}
  BY DEF Added
<1> QED BY <1>1 DEF Added, Onward, Same

\* A bracket is of orders of its own.
LEMMA BracketsOnward ==
  ASSUME NEW b, Known(b), NEW dir, NEW qty, NEW stop, NEW target
  PROVE  Onward(PlaceBracket(b, dir, qty, stop, target), b)
<1>1. PICK d : d = PlaceBracket(b, dir, qty, stop, target)
  OBVIOUS
<1>2. PICK c : c = Submit(b, "stop_loss", -dir, qty, stop, NoOrder, None)
  OBVIOUS
<1>3. PICK r : r = Len(b.orders) + 1
  OBVIOUS
<1>4. Added(c, b, r, "stop_loss", -dir, stop, r)
  BY <1>2, <1>3, SubmitsOnward
<1>5. CASE target = None
  <2>1. d = [c EXCEPT !.stop = r, !.tp = NoOrder]
    BY <1>1, <1>2, <1>4, <1>5 DEF PlaceBracket, Added
  <2>2. Unfilled(d, c) /\ d.orders = c.orders /\ d.stop = r /\ d.tp = NoOrder
    BY <1>4, <2>1 DEF Added, Known, Unfilled
  <2>3. Known(d)
    BY <1>4, <2>2 DEF Added, Known, Unfilled
  <2>4. DOMAIN d.orders \ DOMAIN b.orders = {r}
    BY <1>4, <2>2 DEF Added
  <2> QED BY <1>1, <1>4, <2>2, <2>3, <2>4 DEF Onward, Added, Unfilled, Same
<1>6. CASE target # None
  <2>1. PICK e : e = Submit(c, "take_profit", -dir, qty, target, r, None)
    OBVIOUS
  <2>2. PICK t : t = Len(c.orders) + 1
    OBVIOUS
  <2>3. Added(e, c, t, "take_profit", -dir, target, r)
    <3>1. Known(c) /\ c.orders[r].lead = r /\ r # NoOrder
      BY <1>4 DEF Added
    <3> QED BY <2>1, <2>2, <3>1, SubmitsOnward
  <2>4. d = [e EXCEPT !.stop = r, !.tp = t]
    BY <1>1, <1>2, <1>4, <1>6, <2>1, <2>3 DEF PlaceBracket, Added
  <2>5. Unfilled(d, e) /\ d.orders = e.orders /\ d.stop = r /\ d.tp = t
    BY <2>3, <2>4 DEF Added, Known, Unfilled
  <2>6. Known(d)
    BY <2>3, <2>5 DEF Added, Known, Unfilled
  <2>7. DOMAIN d.orders \ DOMAIN b.orders = {r, t}
    BY <1>4, <2>3, <2>5 DEF Added
  <2>8. d.orders[r].lead = r /\ d.orders[t].lead = r
    BY <1>4, <2>3, <2>5 DEF Added
  <2>9. \A q \in DOMAIN b.orders : Same(d.orders[q], b.orders[q])
    BY <1>4, <2>3, <2>5 DEF Added, Same
  <2>10. Unfilled(d, b)
    BY <1>4, <2>3, <2>5 DEF Added, Unfilled
  <2>11. DOMAIN b.orders \subseteq DOMAIN d.orders
    BY <1>4, <2>3, <2>5 DEF Added
  <2> QED BY <1>1, <2>5, <2>6, <2>7, <2>8, <2>9, <2>10, <2>11 DEF Onward
<1> QED BY <1>5, <1>6

\* What the adapter hears fills nothing.
LEMMA HearsOnward ==
  ASSUME NEW b, Known(b)
  PROVE  Onward(HearOrder(b), b)
<1>1. PICK c : c = [b EXCEPT !.news = Tail(@), !.trades = @ \o Head(b.news).trades]
  OBVIOUS
<1>2. Unplaced(c, b) /\ Known(c)
  <2>1. Unfilled(c, b) /\ c.orders = b.orders /\ c.stop = b.stop /\ c.tp = b.tp
    BY <1>1 DEF Known, Unfilled
  <2> QED BY <2>1, Elsewhere, StaysKnown
<1>3. PICK e : e = Head(b.news)
  OBVIOUS
<1>4. Onward(HearEntryEnd(c, e), c)
  <2>1. PICK d : d = [c EXCEPT !.entry = NoOrder, !.cancelled = NoOrder,
                               !.setup = IF e.filled = 0 THEN None ELSE @]
    OBVIOUS
  <2>2. Unfilled(d, c) /\ d.orders = c.orders /\ d.stop = c.stop /\ d.tp = c.tp
    BY <1>2, <2>1 DEF Known, Unfilled
  <2>3. Unplaced(d, c) /\ Unplaced(c, c)
    BY <1>2, <2>2, Elsewhere, UnplacedChain
  <2> QED BY <1>2, <2>1, <2>3, UnplacedChain DEF HearEntryEnd
<1>5. Onward(HearEntryFill(c, e), c)
  <2>1. PICK first : first = (e.filled = e.qty)
    OBVIOUS
  <2>2. PICK setup : setup = IF c.setup # None THEN c.setup ELSE c.orders[e.ref].setup
    OBVIOUS
  <2>3. PICK x : x = IF c.orders[e.ref].guarded THEN c
                     ELSE PlaceBracket(c, setup.dir, e.filled, setup.stop, setup.target)
    OBVIOUS
  <2>4. Onward(x, c) /\ Known(x)
    <3>1. Onward(c, c)
      BY <1>2, UnplacedChain
    <3>2. Onward(x, c)
      BY <1>2, <2>3, <3>1, BracketsOnward
    <3> QED BY <3>2 DEF Onward
  <2>5. PICK d : d = [x EXCEPT !.entry = IF e.status = "completed" THEN NoOrder ELSE @,
                               !.setup = IF first THEN setup ELSE @,
                               !.held  = IF first THEN e.qty ELSE @ + e.qty]
    OBVIOUS
  <2>6. Unfilled(d, x) /\ d.orders = x.orders /\ d.stop = x.stop /\ d.tp = x.tp
    BY <2>4, <2>5 DEF Known, Unfilled
  <2>7. Unplaced(d, x)
    BY <2>4, <2>6, Elsewhere
  <2>8. HearEntryFill(c, e) = d
    BY <2>1, <2>2, <2>3, <2>5, ZenonT(40) DEF HearEntryFill
  <2> QED BY <1>2, <2>4, <2>7, <2>8, UnplacedChain
<1>6. Onward(HearExitFill(c, e), c)
  <2> DEFINE Forgotten(x) == [x EXCEPT !.stop = NoOrder, !.tp = NoOrder]
  <2>1. ASSUME NEW x, Known(x) PROVE Unplaced(Forgotten(x), x)
    <3>1. /\ Unfilled(Forgotten(x), x) /\ Forgotten(x).orders = x.orders /\ Forgotten(x).stop = NoOrder
      BY <2>1 DEF Known, Unfilled
    <3> HIDE DEF Forgotten
    <3> QED BY <2>1, <3>1, Elsewhere
  <2> HIDE DEF Forgotten
  <2>2. PICK role : role = c.orders[e.ref].role
    OBVIOUS
  <2>3. PICK x : x = IF role \in {"liquidation", "end_of_data"} THEN Forgotten(c) ELSE c
    OBVIOUS
  <2>4. Unplaced(x, c) /\ Known(x)
    <3>1. Unplaced(x, c)
      BY <1>2, <2>1, <2>3, UnplacedChain
    <3> QED BY <3>1, StaysKnown
  <2>5. Unplaced([x EXCEPT !.held = @ - e.qty], x)
    <3>1. PICK d : d = [x EXCEPT !.held = @ - e.qty]
      OBVIOUS
    <3>2. Unfilled(d, x) /\ d.orders = x.orders /\ d.stop = x.stop /\ d.tp = x.tp
      BY <2>4, <3>1 DEF Known, Unfilled
    <3> QED BY <2>4, <3>1, <3>2, Elsewhere
  <2>6. \A r : Unplaced(Forgotten(Cancel(x, r)), x)
    <3> SUFFICES ASSUME NEW r PROVE Unplaced(Forgotten(Cancel(x, r)), x)
      OBVIOUS
    <3>1. Unplaced(Cancel(x, r), x) /\ Known(Cancel(x, r))
      BY <2>4, CancelsOnward, StaysKnown
    <3>2. Unplaced(Forgotten(Cancel(x, r)), Cancel(x, r))
      BY <2>1, <3>1
    <3> QED BY <2>4, <3>1, <3>2, UnplacedChain
  <2>7. Unplaced(x, x)
    BY <2>4, UnplacedChain
  <2>8. HearExitFill(c, e) = IF e.status = "partial" THEN [x EXCEPT !.held = @ - e.qty]
                             ELSE IF role = "stop_loss" THEN Forgotten(Cancel(x, x.tp))
                             ELSE IF role = "take_profit" THEN Forgotten(Cancel(x, x.stop))
                             ELSE x
    BY <2>2, <2>3, Zenon DEF HearExitFill, Forgotten
  <2>9. Unplaced(HearExitFill(c, e), x)
    BY <2>5, <2>6, <2>7, <2>8
  <2> QED BY <1>2, <2>4, <2>9, UnplacedChain
<1>7. HearOrder(b) \in {HearEntryEnd(c, e), HearEntryFill(c, e), HearExitFill(c, e)}
  BY <1>1, <1>3 DEF HearOrder
<1>8. Onward(HearOrder(b), c)
  BY <1>4, <1>5, <1>6, <1>7
<1> QED BY <1>2, <1>8, UnplacedChain

\* One order was filled at a price, or what was left of it.
Executed(d, b, r, price) ==
  /\ Known(d) /\ DOMAIN d = DOMAIN b
  /\ DOMAIN d.orders = DOMAIN b.orders
  /\ \A q \in DOMAIN b.orders : Same(d.orders[q], b.orders[q])
  /\ d.stop = NoOrder \/ (d.stop = b.stop /\ d.tp = b.tp)
  /\ \E f : /\ d.fills = Append(b.fills, f)
            /\ f.ref = r /\ f.role = b.orders[r].role /\ f.price = price

\* A position was taken, ...
Grown(d, b) == b.size = 0 /\ d.size > 0 /\ d.fillTrade = b.fillTrade /\ d.exits = b.exits

\* ... or closed.
Emptied(d, b) == b.size > 0 /\ d.size = 0 /\ d.dir = 1 /\ d.fillTrade = b.fillTrade + 1 /\ d.exits = 0

\* A fill takes the position of its order's side, or closes the one on the other side.
LEMMA FillsPosition ==
  ASSUME NEW b, Known(b), NEW r \in DOMAIN b.orders, NEW price, NEW qty \in Nat \ {0},
         b.size \in Nat, b.dir \in {1, -1}, b.orders[r].sign \in {1, -1},
         NEW d, d = Filled(b, r, qty, price)
  PROVE  /\ Executed(d, b, r, price)
         /\ b.size = 0 /\ b.orders[r].role = "entry" => Grown(d, b)
         /\ b.size > 0 /\ b.size = qty /\ b.orders[r].sign = -b.dir => Emptied(d, b)
<1>1. PICK o : o = b.orders[r]
  OBVIOUS
<1>2. PICK position : position = b.dir * b.size + o.sign * qty
  OBVIOUS
<1>3. PICK status : status = IF o.left = qty THEN "completed" ELSE "partial"
  OBVIOUS
<1> DEFINE f == [ref |-> r, role |-> o.role, trade |-> b.fillTrade,
                 qty |-> qty, price |-> price, reduces |-> b.size > 0 /\ o.sign = -b.dir]
           O == [o EXCEPT !.filled = @ + qty, !.left = @ - qty, !.status = status, !.cost = @ + qty * price]
<1>4. /\ DOMAIN d = DOMAIN b /\ d.stop = b.stop /\ d.tp = b.tp
      /\ d.orders = [b.orders EXCEPT ![r] = O]
      /\ d.fills = Append(b.fills, f)
      /\ d.size = IF position < 0 THEN -position ELSE position
      /\ d.dir = IF position < 0 THEN -1 ELSE 1
      /\ d.fillTrade = IF position = 0 THEN b.fillTrade + 1 ELSE b.fillTrade
      /\ d.exits = IF position = 0 THEN 0 ELSE IF o.role = "entry" THEN b.exits ELSE b.exits + 1
  BY <1>1, <1>2, <1>3 DEF Filled, Known
<1>5. f.ref = r /\ f.role = o.role /\ f.price = price
  OBVIOUS
<1>6. Same(O, o)
  BY <1>1 DEF Same, Known
<1> HIDE DEF f, O
<1>7. \A q \in DOMAIN b.orders : Same(d.orders[q], b.orders[q])
  BY <1>1, <1>4, <1>6 DEF Same
<1>8. Known(d)
  <2>1. d.orders = [q \in 1..Len(b.orders) |-> d.orders[q]] /\ Len(b.orders) \in Nat /\ DOMAIN d.orders = DOMAIN b.orders
    BY <1>4, Numbered DEF Known
  <2>2. Listed(d.orders)
    BY <2>1, Lists
  <2>3. \A q \in DOMAIN d.orders : {"role", "sign", "price", "lead"} \subseteq DOMAIN d.orders[q]
    BY <1>7, <2>1, ZenonT(40) DEF Known, Same
  <2> QED BY <1>4, <2>2, <2>3 DEF Known
<1>9. Executed(d, b, r, price)
  BY <1>1, <1>4, <1>5, <1>7, <1>8 DEF Executed
<1>10. ASSUME b.size = 0, b.orders[r].role = "entry" PROVE Grown(d, b)
  <2>1. position = o.sign * qty /\ o.sign \in {1, -1}
    BY <1>1, <1>2, <1>10
  <2>2. position = qty \/ position = -qty
    BY <2>1
  <2> QED BY <1>1, <1>4, <1>10, <2>2 DEF Grown
<1>11. ASSUME b.size > 0, b.size = qty, b.orders[r].sign = -b.dir PROVE Emptied(d, b)
  <2>1. position = b.dir * qty + (-b.dir) * qty
    BY <1>1, <1>2, <1>11
  <2>2. position = 0
    BY <2>1
  <2> QED BY <1>4, <1>11, <2>2 DEF Emptied
<1> QED BY <1>9, <1>10, <1>11

\* What happens around a fill without placing orders does not change that.
LEMMA ExecutedChain ==
  ASSUME NEW b, NEW c, NEW d, NEW e, NEW r \in DOMAIN b.orders, NEW price,
         Unplaced(c, b), Executed(d, c, r, price), Unplaced(e, d)
  PROVE  /\ Executed(e, b, r, price)
         /\ Grown(d, c) => Grown(e, b)
         /\ Emptied(d, c) => Emptied(e, b)
BY DEF Unplaced, Unfilled, Executed, Same, Grown, Emptied

(* ---- The open comes first ------------------------------------------------- *)

\* Orders of a group are known; of the stop's, its target; a fill is of an order, and
\* no trade has a fill between its first and its last.
Recorded(b) ==
  /\ \A r \in DOMAIN b.orders : b.orders[r].lead \in DOMAIN b.orders
  /\ b.stop \in DOMAIN b.orders \cup {NoOrder}
  /\ b.stop # NoOrder => \A r \in DOMAIN b.orders : b.orders[r].lead = b.stop => r \in {b.stop, b.tp}
  /\ \A i \in DOMAIN b.fills : b.fills[i].ref \in DOMAIN b.orders
  /\ b.exits = 0

\* No leg of a group was executable at the open.
Late(b, g) ==
  \A r \in DOMAIN b.orders :
    b.orders[r].role \in Legs /\ b.orders[r].lead = g => OpeningPriority(b.orders[r]) = 2

\* OpenDecidesFirst of a broker.
OpenFirst(b) ==
  \A i \in DOMAIN b.fills :
    b.fills[i].role \in Legs /\ b.fills[i].price # bar.o => Late(b, b.orders[b.fills[i].ref].lead)

\* Orders keep their priorities.
LEMMA SamePriority ==
  ASSUME NEW o, NEW p, Same(o, p)
  PROVE  OpeningPriority(o) = OpeningPriority(p)
BY DEF Same, OpeningPriority

\* What fills nothing keeps what is recorded of the fills.
LEMMA OnwardKeeps ==
  ASSUME NEW b, NEW d, Recorded(b), OpenFirst(b), Onward(d, b)
  PROVE  Recorded(d) /\ OpenFirst(d)
<1>1. PICK new : new = DOMAIN d.orders \ DOMAIN b.orders
  OBVIOUS
<1>2. /\ DOMAIN b.orders \subseteq DOMAIN d.orders
      /\ \A q \in DOMAIN b.orders : Same(d.orders[q], b.orders[q])
      /\ \A q \in new : d.orders[q].lead \in new
      /\ \/ d.stop = NoOrder
         \/ d.stop = b.stop /\ d.tp = b.tp
         \/ d.stop \in new /\ new \subseteq {d.stop, d.tp}
      /\ d.fills = b.fills /\ d.exits = b.exits
  BY <1>1 DEF Onward, Unfilled
<1>3. DOMAIN d.orders = DOMAIN b.orders \cup new /\ DOMAIN b.orders \cap new = {}
  BY <1>1, <1>2
<1>4. \A q \in DOMAIN b.orders : d.orders[q].lead = b.orders[q].lead /\ d.orders[q].role = b.orders[q].role
  BY <1>2 DEF Same
<1>5. \A r \in DOMAIN d.orders : d.orders[r].lead \in DOMAIN d.orders
  BY <1>2, <1>3, <1>4 DEF Recorded
<1>6. d.stop # NoOrder => \A r \in DOMAIN d.orders : d.orders[r].lead = d.stop => r \in {d.stop, d.tp}
  BY <1>2, <1>3, <1>4 DEF Recorded
<1>7. Recorded(d)
  BY <1>2, <1>3, <1>5, <1>6 DEF Recorded
<1>8. ASSUME NEW g \in DOMAIN b.orders, Late(b, g) PROVE Late(d, g)
  <2> SUFFICES ASSUME NEW r \in DOMAIN d.orders, d.orders[r].role \in Legs, d.orders[r].lead = g
               PROVE  OpeningPriority(d.orders[r]) = 2
    BY DEF Late
  <2>1. r \in DOMAIN b.orders
    BY <1>2, <1>3
  <2>2. OpeningPriority(b.orders[r]) = 2
    BY <1>4, <1>8, <2>1 DEF Late
  <2>3. Same(d.orders[r], b.orders[r])
    BY <1>2, <2>1
  <2> QED BY <2>2, <2>3, SamePriority
<1>9. ASSUME NEW i \in DOMAIN d.fills, d.fills[i].role \in Legs, d.fills[i].price # bar.o
      PROVE  Late(d, d.orders[d.fills[i].ref].lead)
  <2>1. Late(b, b.orders[b.fills[i].ref].lead) /\ b.fills[i].ref \in DOMAIN b.orders
    BY <1>2, <1>9 DEF OpenFirst, Recorded
  <2>2. d.orders[d.fills[i].ref].lead = b.orders[b.fills[i].ref].lead
    BY <1>2, <1>4, <2>1
  <2>3. b.orders[b.fills[i].ref].lead \in DOMAIN b.orders
    BY <2>1 DEF Recorded
  <2> QED BY <1>8, <2>1, <2>2, <2>3
<1> QED BY <1>7, <1>9 DEF OpenFirst

\* A fill keeps it, if a leg filled inside the bar has no sibling the open decided.
LEMMA ExecutedKeeps ==
  ASSUME NEW b, NEW d, NEW S, b.fills \in Seq(S), Recorded(b), OpenFirst(b),
         NEW r \in DOMAIN b.orders, NEW price, Executed(d, b, r, price), d.exits = 0,
         b.orders[r].role \in Legs /\ price # bar.o => Late(b, b.orders[r].lead)
  PROVE  Recorded(d) /\ OpenFirst(d)
<1>1. /\ DOMAIN d.orders = DOMAIN b.orders
      /\ \A q \in DOMAIN b.orders : Same(d.orders[q], b.orders[q])
      /\ d.stop = NoOrder \/ (d.stop = b.stop /\ d.tp = b.tp)
  BY DEF Executed
<1>2. PICK f : d.fills = Append(b.fills, f) /\ f.ref = r /\ f.role = b.orders[r].role /\ f.price = price
  BY DEF Executed
<1>3. \A i \in DOMAIN d.fills : (i \in DOMAIN b.fills /\ d.fills[i] = b.fills[i]) \/ d.fills[i] = f
  <2>1. b.fills \in Seq(S \cup {f})
    OBVIOUS
  <2> QED BY <1>2, <2>1
<1>4. \A q \in DOMAIN b.orders : d.orders[q].lead = b.orders[q].lead /\ d.orders[q].role = b.orders[q].role
  BY <1>1 DEF Same
<1>5. \A i \in DOMAIN d.fills : d.fills[i].ref \in DOMAIN d.orders
  BY <1>1, <1>2, <1>3 DEF Recorded
<1>6. Recorded(d)
  BY <1>1, <1>4, <1>5 DEF Recorded
<1>7. ASSUME NEW g, Late(b, g) PROVE Late(d, g)
  <2> SUFFICES ASSUME NEW q \in DOMAIN d.orders, d.orders[q].role \in Legs, d.orders[q].lead = g
               PROVE  OpeningPriority(d.orders[q]) = 2
    BY DEF Late
  <2>1. OpeningPriority(b.orders[q]) = 2
    BY <1>1, <1>4, <1>7 DEF Late
  <2>2. Same(d.orders[q], b.orders[q])
    BY <1>1
  <2> QED BY <2>1, <2>2, SamePriority
<1>8. ASSUME NEW i \in DOMAIN d.fills, d.fills[i].role \in Legs, d.fills[i].price # bar.o
      PROVE  Late(d, d.orders[d.fills[i].ref].lead)
  <2>1. CASE i \in DOMAIN b.fills /\ d.fills[i] = b.fills[i]
    <3>1. Late(b, b.orders[b.fills[i].ref].lead) /\ b.fills[i].ref \in DOMAIN b.orders
      BY <1>8, <2>1 DEF OpenFirst, Recorded
    <3>2. d.orders[d.fills[i].ref].lead = b.orders[b.fills[i].ref].lead
      BY <1>4, <2>1, <3>1
    <3> QED BY <1>7, <3>1, <3>2
  <2>2. CASE d.fills[i] = f
    <3>1. Late(b, b.orders[r].lead) /\ d.orders[d.fills[i].ref].lead = b.orders[r].lead
      BY <1>2, <1>4, <1>8, <2>2
    <3> QED BY <1>7, <3>1
  <2> QED BY <1>3, <2>1, <2>2
<1> QED BY <1>6, <1>8 DEF OpenFirst

\* What is left for the bar's range was not executable at its open.
LEMMA LateAtTheOpen ==
  ASSUME NEW o, OpeningPriority(o) # 2
  PROVE  BarPrice(o) = bar.o
<1>1. CASE o.role = "stop_loss" /\ AtOrAbove(o.sign, bar.o, o.price)
  BY <1>1 DEF BarPrice, OrderType
<1>2. CASE o.role = "take_profit" /\ AtOrBelow(o.sign, bar.o, o.price)
  BY <1>2 DEF BarPrice, OrderType
<1> QED BY <1>1, <1>2 DEF OpeningPriority

\* A pass has no order before the one whose turn it is.
PassInOrder ==
  phase = "matching" /\ Head(s.pending) # Sentinel =>
    \A r \in InQueue(s) : OpeningPriority(s.orders[Head(s.pending)]) <= OpeningPriority(s.orders[r])

Remembered == Recorded(s) /\ OpenFirst(s) /\ PassInOrder

\* A step leaves the position alone, takes one or closes it.
Quiet(d, b) == d.size = b.size /\ d.dir = b.dir /\ d.fillTrade = b.fillTrade /\ d.exits = b.exits

Lives(d, b) == Quiet(d, b) \/ Grown(d, b) \/ Emptied(d, b)

\* Within a bar, open and priorities stay.
LEMMA SameBar ==
  ASSUME bar' = bar, Recorded(s'), OpenFirst(s')
  PROVE  Recorded(s)' /\ OpenFirst(s)'
BY DEF Recorded, OpenFirst, Late, OpeningPriority, AtOrAbove, AtOrBelow

\* Outside a pass, what fills nothing keeps what is remembered.
LEMMA OnwardStep ==
  ASSUME Remembered, bar' = bar, phase' # "matching", Onward(s', s)
  PROVE  Remembered' /\ Lives(s', s)
<1>1. Recorded(s') /\ OpenFirst(s')
  BY OnwardKeeps DEF Remembered
<1>2. PassInOrder'
  BY DEF PassInOrder
<1>3. Lives(s', s)
  BY DEF Onward, Unfilled, Lives, Quiet
<1> QED BY <1>1, <1>2, <1>3, SameBar DEF Remembered

\* The broker of a run is one.
LEMMA KnownNow ==
  ASSUME Inv
  PROVE  Known(s) /\ s \in Brokers
BY BrokerIsKnown DEF Inv, Sound

\* A new bar has no fills.
LEMMA NewBarRemembers ==
  ASSUME Inv, Remembered, NEW c \in Candles, NewBar(c)
  PROVE  Remembered' /\ Lives(s', s)
<1>1. s' = [s EXCEPT !.fills = << >>, !.done = {}] /\ phase' = "submitted"
  BY DEF NewBar
<1>2. /\ s'.orders = s.orders /\ s'.stop = s.stop /\ s'.tp = s.tp /\ s'.exits = s.exits
      /\ s'.fills = << >> /\ Quiet(s', s)
  BY <1>1, KnownNow DEF Brokers, Quiet
<1>3. DOMAIN << >> = {}
  OBVIOUS
<1>4. Recorded(s)'
  BY <1>2, <1>3 DEF Remembered, Recorded
<1>5. OpenFirst(s)'
  BY <1>2, <1>3 DEF OpenFirst
<1>6. PassInOrder'
  BY <1>1 DEF PassInOrder
<1> QED BY <1>2, <1>4, <1>5, <1>6 DEF Remembered, Lives

\* The check of an entry's cash accepts or ends it.
LEMMA CheckSubmittedRemembers ==
  ASSUME Inv, Remembered, CheckSubmitted
  PROVE  Remembered' /\ Lives(s', s)
<1>1. PICK r : r = Head(s.submitted)
  OBVIOUS
<1>2. PICK b : b = [s EXCEPT !.submitted = Tail(@)]
  OBVIOUS
<1>3. /\ phase = "submitted" /\ phase' = phase /\ bar' = bar
      /\ s' = Accepted(b, r) \/ s' = Refused(b, r)
  BY <1>1, <1>2 DEF CheckSubmitted
<1>4. Unplaced(b, s) /\ Known(b) /\ Known(s)
  <2>1. Unfilled(b, s) /\ b.orders = s.orders /\ b.stop = s.stop /\ b.tp = s.tp
    BY <1>2, KnownNow DEF Known, Unfilled
  <2> QED BY <2>1, KnownNow, Elsewhere, StaysKnown
<1>5. Unplaced(Accepted(b, r), b)
  <2>1. PICK d : d = Accepted(b, r)
    OBVIOUS
  <2>2. /\ Unfilled(d, b) /\ d.stop = b.stop /\ d.tp = b.tp
        /\ d.orders = [b.orders EXCEPT ![r].status = "accepted"]
    BY <1>4, <2>1 DEF Accepted, Known, Unfilled
  <2>3. /\ DOMAIN d.orders = DOMAIN b.orders /\ d.orders = [q \in DOMAIN b.orders |-> d.orders[q]]
        /\ \A q \in DOMAIN b.orders : Same(d.orders[q], b.orders[q])
    BY <1>4, <2>2 DEF Known, Same
  <2> QED BY <1>4, <2>1, <2>2, <2>3, Restated
<1>6. Unplaced(Refused(b, r), b)
  BY <1>4, DropsOnward DEF Refused
<1>7. Onward(s', s)
  BY <1>3, <1>4, <1>5, <1>6, UnplacedChain
<1> QED BY <1>3, <1>7, OnwardStep

\* The pass begins with what the open decided.
LEMMA BeginPassRemembers ==
  ASSUME Inv, Remembered, BeginPass
  PROVE  Remembered' /\ Lives(s', s)
<1>1. PICK b : b = Prioritized(s)
  OBVIOUS
<1>2. /\ phase = "submitted" /\ s.submitted = << >> /\ phase' = "matching" /\ bar' = bar
      /\ s' = [b EXCEPT !.pending = Append(@, Sentinel)]
  BY <1>1 DEF BeginPass
<1>3. Sound(s) /\ s \in Brokers /\ Known(s) /\ Sentinel \notin ToSet(s.pending)
  BY <1>2, KnownNow DEF Inv, Phases
<1>4. PICK q \in Seq(Nat) : b = [s EXCEPT !.pending = q] /\ ToSet(q) = ToSet(s.pending) /\ LeadsByPriority(s, q)
  BY <1>1, <1>2, <1>3, PrioritizedQueue
<1>5. /\ s'.orders = s.orders /\ s'.stop = s.stop /\ s'.tp = s.tp /\ Unfilled(s', s)
      /\ s'.pending = Append(q, Sentinel)
  BY <1>2, <1>3, <1>4 DEF Brokers, Unfilled
<1>6. Unplaced(s', s)
  BY <1>3, <1>5, Elsewhere
<1>7. Recorded(s') /\ OpenFirst(s') /\ Lives(s', s)
  <2>1. Onward(s', s)
    BY <1>3, <1>6, UnplacedChain
  <2> QED BY <2>1, OnwardKeeps DEF Remembered, Onward, Unfilled, Lives, Quiet
<1>8. ASSUME Head(s'.pending) # Sentinel, NEW r \in ToSet(s'.pending) \ {Sentinel}
      PROVE  OpeningPriority(s.orders[Head(s'.pending)]) <= OpeningPriority(s.orders[r])
  <2>1. Sentinel \in Nat
    BY DEF Sentinel
  <2>2. q # << >> /\ Head(s'.pending) = Head(q)
    BY <1>5, <1>8, <2>1
  <2>3. r \in ToSet(q)
    BY <1>5, <1>8, <2>1, AppendQueue
  <2> QED BY <1>4, <2>2, <2>3 DEF LeadsByPriority
<1>9. PassInOrder'
  <2>1. SUFFICES ASSUME Head(s'.pending) # Sentinel, NEW r \in InQueue(s)'
                 PROVE  (OpeningPriority(s.orders[Head(s.pending)]) <= OpeningPriority(s.orders[r]))'
    BY DEF PassInOrder
  <2>2. r \in ToSet(s'.pending) \ {Sentinel}
    BY DEF InQueue
  <2>3. OpeningPriority(s.orders[Head(s'.pending)]) <= OpeningPriority(s.orders[r])
    BY <1>8, <2>1, <2>2
  <2> QED BY <1>2, <1>5, <2>3, ZenonT(40) DEF OpeningPriority, AtOrAbove, AtOrBelow
<1> QED BY <1>2, <1>7, <1>9, SameBar DEF Remembered

\* An order goes round that had no price, so none had one at the open.
LEMMA RoundRemembers ==
  ASSUME Inv, Remembered, bar \in [o : Int, l : Int, h : Int, c : Int, v : Nat],
         phase = "matching", bar' = bar, phase' = phase,
         NEW r, r = Head(s.pending), r # Sentinel, r \in Waiting(s), s.submitted = << >>,
         NEW c, c = [s EXCEPT !.pending = Tail(@)], BarPrice(s.orders[r]) = None, s' = Requeue(c, r)
  PROVE  Remembered' /\ Lives(s', s)
<1>1. Known(s) /\ s \in Brokers /\ s.pending \in Seq(Nat)
  BY KnownNow DEF Brokers
<1>2. Unplaced(c, s) /\ Known(c)
  <2>1. Unfilled(c, s) /\ c.orders = s.orders /\ c.stop = s.stop /\ c.tp = s.tp
    BY <1>1 DEF Known, Unfilled
  <2> QED BY <1>1, <2>1, Elsewhere, StaysKnown
<1>3. Unplaced(s', s)
  BY <1>1, <1>2, RequeuesOnward, UnplacedChain
<1>4. Recorded(s') /\ OpenFirst(s') /\ Lives(s', s)
  <2>1. Onward(s', s)
    BY <1>1, <1>3, UnplacedChain
  <2> QED BY <2>1, OnwardKeeps DEF Remembered, Onward, Unfilled, Lives, Quiet
<1>5. r \in InQueue(s) /\ r \in DOMAIN s.orders
  <2>1. ToSet(s.submitted) = {}
    BY NoEntries
  <2> QED BY <2>1 DEF Waiting, Inv, Sound, Queues
<1>6. OpeningPriority(s.orders[r]) = 2
  <2>1. bar.o # None
    BY AdapterAssumption
  <2> QED BY <2>1, LateAtTheOpen
<1>7. \A q \in InQueue(s) : OpeningPriority(s.orders[q]) = 2
  <2> SUFFICES ASSUME NEW q \in InQueue(s) PROVE OpeningPriority(s.orders[q]) = 2
    OBVIOUS
  <2>1. OpeningPriority(s.orders[r]) <= OpeningPriority(s.orders[q])
    BY DEF Remembered, PassInOrder
  <2>2. OpeningPriority(s.orders[q]) \in {0, 1, 2}
    BY PriorityType
  <2> QED BY <1>6, <2>1, <2>2
<1>8. InQueue(s') \subseteq InQueue(s)
  <2>1. ToSet(s.pending) # {} /\ ToSet(s.pending) = ToSet(Tail(s.pending)) \cup {r} /\ Tail(s.pending) \in Seq(Nat)
        /\ r \in Nat
    <3>1. ToSet(s.pending) # {}
      BY <1>5 DEF InQueue
    <3> QED BY <1>1, <3>1, HeadQueue
  <2>2. c.pending = Tail(s.pending)
    BY <1>1 DEF Brokers
  <2>3. ToSet(Append(Tail(s.pending), r)) = ToSet(s.pending)
    <3>1. PICK t \in Seq(Nat) : t = Tail(s.pending)
      BY <2>1
    <3>2. \A e \in Nat : ToSet(Append(t, e)) = ToSet(t) \cup {e}
      BY AppendQueue
    <3>3. ToSet(Append(t, r)) = ToSet(t) \cup {r}
      BY <2>1, <3>2
    <3> QED BY <2>1, <3>1, <3>3
  <2>4. s'.pending = Tail(s.pending) \/ s'.pending = Append(Tail(s.pending), r)
    <3>1. DOMAIN c = DOMAIN s /\ "pending" \in DOMAIN s
      BY <1>1, <1>2 DEF Unplaced, Unfilled, Brokers
    <3> QED BY <2>2, <3>1 DEF Requeue
  <2> QED BY <2>1, <2>3, <2>4 DEF InQueue
<1>9. \A q \in InQueue(s') : OpeningPriority(s'.orders[q]) = 2
  <2> SUFFICES ASSUME NEW q \in InQueue(s') PROVE OpeningPriority(s'.orders[q]) = 2
    OBVIOUS
  <2>1. q \in InQueue(s) /\ q \in DOMAIN s.orders
    BY <1>8 DEF Inv, Sound, Queues, Waiting
  <2>2. Same(s'.orders[q], s.orders[q])
    BY <1>3, <2>1 DEF Unplaced
  <2> QED BY <1>7, <2>1, <2>2, SamePriority
<1>10. ASSUME NEW q \in InQueue(s')
       PROVE  OpeningPriority(s'.orders[Head(s'.pending)]) <= OpeningPriority(s'.orders[q])
  <2>1. OpeningPriority(s'.orders[Head(s'.pending)]) \in {0, 1, 2}
    BY PriorityType
  <2>2. OpeningPriority(s'.orders[q]) = 2
    BY <1>9, Zenon
  <2> QED BY <2>1, <2>2
<1>11. PassInOrder'
  <2>1. SUFFICES ASSUME NEW q \in InQueue(s)'
                 PROVE  (OpeningPriority(s.orders[Head(s.pending)]) <= OpeningPriority(s.orders[q]))'
    BY DEF PassInOrder
  <2>2. q \in InQueue(s')
    BY DEF InQueue
  <2>3. OpeningPriority(s'.orders[Head(s'.pending)]) <= OpeningPriority(s'.orders[q])
    BY <1>10, <2>2
  <2> QED BY <2>3, ZenonT(40) DEF OpeningPriority, AtOrAbove, AtOrBelow
<1> QED BY <1>4, <1>11, SameBar DEF Remembered

\* A leg filled inside the bar has no sibling the open decided.
LEMMA LateSiblings ==
  ASSUME Inv, Remembered, phase = "matching", s.submitted = << >>, Protected(s),
         NEW r, r = Head(s.pending), r # Sentinel, r \in Waiting(s), BarPrice(s.orders[r]) # bar.o
  PROVE  Late(s, s.orders[r].lead)
<1>1. s.orders[r].lead = s.stop /\ s.stop # NoOrder
  BY DEF Protected, IsLeg
<1>2. OpeningPriority(s.orders[r]) = 2
  BY LateAtTheOpen
<1>3. ASSUME NEW q \in DOMAIN s.orders, s.orders[q].lead = s.stop
      PROVE  OpeningPriority(s.orders[q]) = 2
  <2>1. q \in {s.stop, s.tp} \ {NoOrder}
    <3>1. s.orders \in Seq(OrderRecords)
      BY KnownNow DEF Brokers
    <3>2. q # NoOrder
      BY <3>1 DEF NoOrder
    <3> QED BY <1>1, <1>3, <3>2 DEF Remembered, Recorded
  <2>2. q \in InQueue(s)
    <3>1. ToSet(s.submitted) = {}
      BY NoEntries
    <3> QED BY <2>1, <3>1 DEF Protected, Waiting
  <2>3. OpeningPriority(s.orders[r]) <= OpeningPriority(s.orders[q])
    BY <2>2 DEF Remembered, PassInOrder
  <2>4. OpeningPriority(s.orders[q]) \in {0, 1, 2}
    BY PriorityType
  <2> QED BY <1>2, <2>3, <2>4
<1> QED BY <1>1, <1>3 DEF Late

\* Each turn takes what the open decided before what the range may have touched.
LEMMA TurnRemembers ==
  ASSUME Inv, Remembered, Turn
  PROVE  Remembered' /\ Lives(s', s)
<1>1. PICK r : r = Head(s.pending)
  OBVIOUS
<1>2. PICK c : c = [s EXCEPT !.pending = Tail(@)]
  OBVIOUS
<1>3. /\ phase = "matching" /\ phase' = phase /\ bar' = bar /\ r # Sentinel
      /\ r \in Waiting(s) /\ r \in DOMAIN s.orders /\ Turned(c, r, s')
  BY <1>1, <1>2, TurnCases
<1>4. /\ Known(s) /\ s \in Brokers /\ Sound(s) /\ Queues(s) /\ s.submitted = << >>
      /\ bar \in [o : Int, l : Int, h : Int, c : Int, v : Nat]
  BY <1>3, KnownNow DEF Inv, Sound, Phases
<1>5. Unplaced(c, s) /\ Known(c) /\ c.orders = s.orders
  <2>1. Unfilled(c, s) /\ c.orders = s.orders /\ c.stop = s.stop /\ c.tp = s.tp
    BY <1>2, <1>4 DEF Known, Unfilled
  <2> QED BY <1>4, <2>1, Elsewhere, StaysKnown
<1>6. Waiting(s') = {} => PassInOrder'
  BY DEF PassInOrder, InQueue, Waiting
<1>7. CASE BarPrice(s.orders[r]) = None /\ s' = Requeue(c, r)
  BY <1>1, <1>2, <1>3, <1>4, <1>7, RoundRemembers
<1>8. CASE s' = Refused(c, r) /\ Waiting(s') = {}
  <2>1. Unplaced(s', s)
    BY <1>4, <1>5, <1>8, DropsOnward, UnplacedChain DEF Refused
  <2>2. Onward(s', s)
    BY <1>4, <2>1, UnplacedChain
  <2>3. Recorded(s') /\ OpenFirst(s')
    BY <2>2, OnwardKeeps DEF Remembered
  <2>4. Lives(s', s)
    BY <2>2 DEF Onward, Unfilled, Lives, Quiet
  <2> QED BY <1>3, <1>6, <1>8, <2>3, <2>4, SameBar DEF Remembered
<1>9. ASSUME NEW price \in Int, price = BarPrice(s.orders[r]), Waiting(s') = {},
             s' = CloseGroup(Filled(c, r, s.orders[r].left, price), r),
             (Entering(s) /\ r = s.entry) \/ (Protected(s) /\ Selling(s, r))
      PROVE  Remembered' /\ Lives(s', s)
  <2>1. PICK qty : qty = s.orders[r].left
    OBVIOUS
  <2>2. PICK d : d = Filled(c, r, qty, price)
    OBVIOUS
  <2>3. /\ qty \in Nat \ {0} /\ s.orders[r].sign \in {1, -1} /\ s.size \in Nat /\ s.dir \in {1, -1}
        /\ s.fills \in Seq(FillRecords)
    <3>1. s.orders \in Seq(OrderRecords) /\ s.size \in Quantities /\ s.dir \in {1, -1} /\ s.fills \in Seq(FillRecords)
      BY <1>4 DEF Brokers
    <3>4. s.orders[r] \in OrderRecords
      BY <1>3, <3>1
    <3>2. s.orders[r].left \in Quantities /\ s.orders[r].sign \in {1, -1}
      BY <3>4 DEF OrderRecords
    <3>3. s.orders[r].left > 0
      BY <1>3, <1>9 DEF Entering, Protected, Whole
    <3>5. qty \in Nat /\ s.size \in Nat
      BY <2>1, <3>1, <3>2, QuantitiesType
    <3> QED BY <2>1, <3>1, <3>2, <3>3, <3>5
  <2>4. c.size = s.size /\ c.dir = s.dir
    BY <1>5 DEF Unplaced, Unfilled
  <2>5. /\ Executed(d, c, r, price)
        /\ c.size = 0 /\ c.orders[r].role = "entry" => Grown(d, c)
        /\ c.size > 0 /\ c.size = qty /\ c.orders[r].sign = -c.dir => Emptied(d, c)
    BY <1>3, <1>5, <2>2, <2>3, <2>4, FillsPosition
  <2>6. Unplaced(s', d)
    <3>1. Known(d)
      BY <2>5 DEF Executed
    <3> QED BY <1>9, <2>1, <2>2, <3>1, ClosesOnward
  <2>7. Executed(s', s, r, price) /\ (Grown(d, c) => Grown(s', s)) /\ (Emptied(d, c) => Emptied(s', s))
    BY <1>3, <1>5, <2>5, <2>6, ExecutedChain
  <2>8. s.exits = 0 /\ OpenFirst(s) /\ Recorded(s)
    BY DEF Remembered, Recorded
  <2>9. CASE Entering(s) /\ r = s.entry
    <3>1. s.size = 0 /\ s.orders[r].role = "entry"
      BY <2>9 DEF Entering, Fits
    <3>2. Grown(s', s)
      BY <1>5, <2>4, <2>5, <2>7, <3>1
    <3>3. s'.exits = 0 /\ s.orders[r].role \notin Legs
      BY <2>8, <3>1, <3>2 DEF Grown, Legs
    <3>4. Recorded(s') /\ OpenFirst(s')
      BY <1>3, <2>3, <2>7, <2>8, <3>3, ExecutedKeeps
    <3> QED BY <1>3, <1>6, <1>9, <3>2, <3>4, SameBar DEF Remembered, Lives
  <2>10. CASE Protected(s) /\ Selling(s, r)
    <3>1. s.orders[r].left = s.size /\ s.orders[r].sign = -s.dir
      BY <1>3, <1>4, <2>10, LegsAreGrouped
    <3>2. Emptied(s', s)
      BY <1>5, <2>1, <2>3, <2>4, <2>5, <2>7, <3>1
    <3>3. s'.exits = 0
      BY <3>2 DEF Emptied
    <3>4. price # bar.o => Late(s, s.orders[r].lead)
      BY <1>1, <1>3, <1>4, <1>9, <2>10, LateSiblings
    <3>5. Recorded(s') /\ OpenFirst(s')
      BY <1>3, <2>3, <2>7, <2>8, <3>3, <3>4, ExecutedKeeps
    <3> QED BY <1>3, <1>6, <1>9, <3>2, <3>5, SameBar DEF Remembered, Lives
  <2> QED BY <1>9, <2>9, <2>10
<1> QED BY <1>3, <1>7, <1>8, <1>9 DEF Turned, MatchedAway

\* Brackets are placed, and orders forgotten, when the adapter hears of a fill.
LEMMA NotifyOrderRemembers ==
  ASSUME Inv, Remembered, NotifyOrder
  PROVE  Remembered' /\ Lives(s', s)
<1>1. s' = HearOrder(s) /\ phase' = phase /\ phase # "matching" /\ bar' = bar
  BY DEF NotifyOrder
<1>2. Onward(s', s)
  BY <1>1, KnownNow, HearsOnward
<1> QED BY <1>1, <1>2, OnwardStep

\* Hearing of a trade is bookkeeping.
LEMMA NotifyTradeRemembers ==
  ASSUME Inv, Remembered, NotifyTrade
  PROVE  Remembered' /\ Lives(s', s)
<1>1. PICK b : b = [s EXCEPT !.trades = Tail(@)]
  OBVIOUS
<1>2. /\ phase' = phase /\ phase # "matching" /\ bar' = bar
      /\ s' \in {TradeOpened(b), TradeClosed(b), [TradeClosed(b) EXCEPT !.halted = TRUE]}
  BY <1>1 DEF NotifyTrade
<1>3. Unplaced(b, s) /\ Known(b) /\ Known(s)
  <2>1. Unfilled(b, s) /\ b.orders = s.orders /\ b.stop = s.stop /\ b.tp = s.tp
    BY <1>1, KnownNow DEF Known, Unfilled
  <2> QED BY <2>1, KnownNow, Elsewhere, StaysKnown
<1>4. Unplaced(TradeOpened(b), b)
  <2>1. PICK d : d = [b EXCEPT !.trade = b.setup, !.setup = None]
    OBVIOUS
  <2>2. Unfilled(d, b) /\ d.orders = b.orders /\ d.stop = b.stop /\ d.tp = b.tp
    BY <1>3, <2>1 DEF Known, Unfilled
  <2> QED BY <1>3, <2>1, <2>2, Elsewhere, UnplacedChain DEF TradeOpened
<1>5. Unplaced(TradeClosed(b), b) /\ Known(TradeClosed(b))
  <2>1. PICK d : d = TradeClosed(b)
    OBVIOUS
  <2>2. Unfilled(d, b) /\ d.orders = b.orders /\ d.stop = b.stop /\ d.tp = b.tp
    BY <1>3, <2>1 DEF TradeClosed, Known, Unfilled
  <2> QED BY <1>3, <2>1, <2>2, Elsewhere, StaysKnown
<1>6. Unplaced([TradeClosed(b) EXCEPT !.halted = TRUE], b)
  <2>1. PICK c : c = TradeClosed(b)
    OBVIOUS
  <2>2. PICK d : d = [c EXCEPT !.halted = TRUE]
    OBVIOUS
  <2>3. Unfilled(d, c) /\ d.orders = c.orders /\ d.stop = c.stop /\ d.tp = c.tp
    BY <1>5, <2>1, <2>2 DEF Known, Unfilled
  <2> QED BY <1>3, <1>5, <2>1, <2>2, <2>3, Elsewhere, UnplacedChain
<1>7. Onward(s', s)
  BY <1>2, <1>3, <1>4, <1>5, <1>6, UnplacedChain
<1> QED BY <1>2, <1>7, OnwardStep

\* The end of a pass takes its sentinel out.
LEMMA EndMatchingRemembers ==
  ASSUME Inv, Remembered, EndMatching
  PROVE  Remembered' /\ Lives(s', s)
<1>1. s' = [s EXCEPT !.pending = Tail(@)] /\ phase' = "orders" /\ bar' = bar
  BY DEF EndMatching
<1>2. Unfilled(s', s) /\ s'.orders = s.orders /\ s'.stop = s.stop /\ s'.tp = s.tp
  BY <1>1, KnownNow DEF Known, Unfilled
<1>3. Onward(s', s)
  BY <1>2, KnownNow, Elsewhere, UnplacedChain
<1> QED BY <1>1, <1>3, OnwardStep

\* The strategy's orders are new ones.
LEMMA DecideRemembers ==
  ASSUME Inv, Remembered, Decide
  PROVE  Remembered' /\ Lives(s', s)
<1>1. /\ phase' = "idle" /\ bar' = bar
      /\ s' = s \/ (IF s.size = 0 THEN DecideFlat(s) ELSE DecideOpen(s))
  BY OcoAssumption DEF Decide
<1>2. Known(s)
  BY KnownNow
<1>3. Onward(s, s)
  BY <1>2, UnplacedChain
<1>4. Onward(CancelEntry(s), s)
  <2>1. PICK c : c = Cancel(s, s.entry)
    OBVIOUS
  <2>2. PICK d : d = [c EXCEPT !.cancelled = s.entry, !.entry = NoOrder]
    OBVIOUS
  <2>3. Unplaced(c, s) /\ Known(c)
    BY <1>2, <2>1, CancelsOnward, StaysKnown
  <2>4. Unfilled(d, c) /\ d.orders = c.orders /\ d.stop = c.stop /\ d.tp = c.tp
    BY <2>2, <2>3 DEF Known, Unfilled
  <2>5. Unplaced(d, s)
    BY <1>2, <2>3, <2>4, Elsewhere, UnplacedChain
  <2> QED BY <1>2, <2>1, <2>2, <2>5, UnplacedChain DEF CancelEntry
<1>5. ASSUME NEW setup PROVE Onward(SubmitEntry(s, setup), s)
  <2>1. PICK c : c = Submit(s, "entry", setup.dir, setup.qty, setup.price, NoOrder, setup)
    OBVIOUS
  <2>2. PICK d : d = [c EXCEPT !.entry = Newest(c), !.setup = setup]
    OBVIOUS
  <2>3. Onward(c, s) /\ Known(c)
    <3>1. Added(c, s, Len(s.orders) + 1, "entry", setup.dir, setup.price, Len(s.orders) + 1)
      BY <1>2, <2>1, SubmitsOnward
    <3>2. Onward(c, s)
      BY <3>1, AddedOnward
    <3> QED BY <3>2 DEF Onward
  <2>4. Unfilled(d, c) /\ d.orders = c.orders /\ d.stop = c.stop /\ d.tp = c.tp
    BY <2>2, <2>3 DEF Known, Unfilled
  <2>5. Unplaced(d, c)
    BY <2>3, <2>4, Elsewhere
  <2> QED BY <1>2, <2>1, <2>2, <2>3, <2>5, UnplacedChain DEF SubmitEntry
<1>6. ASSUME NEW stop, NEW target PROVE Onward(Replace(s, stop, target), s)
  <2>1. PICK e : e = [s EXCEPT !.orders[s.entry].setup = [@ EXCEPT !.stop = stop, !.target = target]]
    OBVIOUS
  <2>2. Unplaced(e, s)
    <3>1. /\ Unfilled(e, s) /\ e.stop = s.stop /\ e.tp = s.tp
          /\ \E x : e.orders = [s.orders EXCEPT ![s.entry].setup = x]
      BY <1>2, <2>1 DEF Known, Unfilled
    <3>2. /\ DOMAIN e.orders = DOMAIN s.orders /\ e.orders = [q \in DOMAIN s.orders |-> e.orders[q]]
          /\ \A q \in DOMAIN s.orders : Same(e.orders[q], s.orders[q])
      BY <1>2, <3>1 DEF Known, Same
    <3> QED BY <1>2, <3>1, <3>2, Restated
  <2>3. PICK c : c = IF Live(s, s.entry) THEN e ELSE s
    OBVIOUS
  <2>4. Unplaced(c, s) /\ Known(c)
    BY <1>2, <2>2, <2>3, UnplacedChain, StaysKnown
  <2>5. PICK x : x = Cancel(c, c.stop)
    OBVIOUS
  <2>6. Unplaced(x, s) /\ Known(x)
    BY <1>2, <2>4, <2>5, CancelsOnward, UnplacedChain, StaysKnown
  <2>7. Onward(PlaceBracket(x, c.dir, c.size, stop, target), s)
    BY <1>2, <2>6, BracketsOnward, UnplacedChain
  <2> QED BY <2>1, <2>3, <2>5, <2>7, Zenon DEF Replace
<1>7. Onward(s', s)
  BY <1>1, <1>3, <1>4, <1>5, <1>6 DEF DecideFlat, DecideOpen
<1> QED BY <1>1, <1>7, OnwardStep

\* The closing order is a new one on the other side.
LEMMA ClosingOnward ==
  ASSUME NEW b, Known(b), NEW c, c = Closing(b), NEW r, r = Newest(c)
  PROVE  /\ Onward(c, b) /\ r \in DOMAIN c.orders
         /\ c.orders[r].role = "end_of_data" /\ c.orders[r].sign = -b.dir
<1>1. PICK x : x = Submit(b, "end_of_data", -b.dir, b.size, 0, NoOrder, None)
  OBVIOUS
<1>2. PICK t : t = Len(b.orders) + 1
  OBVIOUS
<1>3. Added(x, b, t, "end_of_data", -b.dir, 0, t)
  BY <1>1, <1>2, SubmitsOnward
<1>4. Known(x) /\ Newest(x) = t
  BY <1>3 DEF Added
<1>5. c = [x EXCEPT !.pending = Without(@, {t})]
  BY <1>1, <1>4 DEF Closing, Unqueue
<1>6. Unfilled(c, x) /\ c.orders = x.orders /\ c.stop = x.stop /\ c.tp = x.tp
  BY <1>4, <1>5 DEF Known, Unfilled
<1>7. Unplaced(c, x)
  BY <1>4, <1>6, Elsewhere
<1>8. Onward(c, b)
  BY <1>3, <1>7, AddedOnward, UnplacedChain
<1>9. r = t
  BY <1>4, <1>6 DEF Newest
<1> QED BY <1>3, <1>6, <1>8, <1>9 DEF Added

\* The policy cancels, and closes a position.
LEMMA EndOfDataRemembers ==
  ASSUME Inv, Remembered, EndOfData
  PROVE  Remembered' /\ Lives(s', s)
<1>1. s' = Finalize(s) /\ phase' = "final orders" /\ bar' = bar
  BY DEF EndOfData
<1>2. Known(s) /\ s \in Brokers
  BY KnownNow
<1>3. PICK x : x = Dropped(s)
  OBVIOUS
<1>4. Unplaced(x, s) /\ Known(x)
  <2>1. PICK c : c = CancelLive(s, s.entry)
    OBVIOUS
  <2>2. Unplaced(c, s) /\ Known(c)
    BY <1>2, <2>1, CancelsOnward, StaysKnown
  <2>3. PICK d : d = CancelLive(c, s.stop)
    OBVIOUS
  <2>4. Unplaced(d, s) /\ Known(d)
    BY <1>2, <2>2, <2>3, CancelsOnward, UnplacedChain, StaysKnown
  <2>5. PICK e : e = CancelLive(d, s.tp)
    OBVIOUS
  <2>6. Unplaced(e, s) /\ Known(e)
    BY <1>2, <2>4, <2>5, CancelsOnward, UnplacedChain, StaysKnown
  <2>7. Unplaced(CancelLive(e, s.signal), s)
    BY <1>2, <2>6, CancelsOnward, UnplacedChain
  <2>8. x = c \/ x = CancelLive(e, s.signal)
    BY <1>3, <2>1, <2>3, <2>5 DEF Dropped
  <2> QED BY <2>2, <2>7, <2>8, StaysKnown
<1>5. CASE ~Flattens(x)
  <2>1. Onward(s', s)
    BY <1>1, <1>2, <1>3, <1>4, <1>5, UnplacedChain DEF Finalize
  <2> QED BY <1>1, <2>1, OnwardStep
<1>6. CASE Flattens(x)
  <2>1. PICK c : c = Closing(x)
    OBVIOUS
  <2>2. PICK r : r = Newest(c)
    OBVIOUS
  <2>3. /\ Onward(c, x) /\ r \in DOMAIN c.orders
        /\ c.orders[r].role = "end_of_data" /\ c.orders[r].sign = -x.dir
    BY <1>4, <2>1, <2>2, ClosingOnward
  <2>4. Onward(c, s) /\ Known(c)
    <3>1. Onward(c, s)
      BY <1>2, <1>4, <2>3, UnplacedChain
    <3> QED BY <3>1 DEF Onward
  <2>5. Recorded(c) /\ OpenFirst(c)
    BY <2>4, OnwardKeeps DEF Remembered
  <2>6. /\ c.size = s.size /\ c.dir = s.dir /\ c.fillTrade = s.fillTrade /\ c.exits = s.exits /\ c.fills = s.fills
        /\ x.size = s.size /\ x.dir = s.dir
    BY <1>4, <2>4 DEF Onward, Unplaced, Unfilled
  <2>7. s.size > 0 /\ s.size \in Nat /\ s.size \in Nat \ {0} /\ s.dir \in {1, -1} /\ s.fills \in Seq(FillRecords)
    <3>1. s.size \in Quantities /\ s.dir \in {1, -1} /\ s.fills \in Seq(FillRecords)
      BY <1>2 DEF Brokers
    <3>2. s.size > 0
      BY <1>6, <2>6 DEF Flattens
    <3>3. s.size \in Nat
      BY <3>1, QuantitiesType
    <3> QED BY <3>1, <3>2, <3>3
  <2>8. PICK d : d = Filled(c, r, s.size, bar.c)
    OBVIOUS
  <2>9. Executed(d, c, r, bar.c) /\ Emptied(d, c)
    <3>1. c.orders[r].sign = -c.dir /\ c.orders[r].sign \in {1, -1}
      BY <2>3, <2>6, <2>7
    <3> QED BY <2>3, <2>4, <2>6, <2>7, <2>8, <3>1, FillsPosition
  <2>10. s' = CloseGroup(d, r)
    BY <1>1, <1>3, <1>6, <2>1, <2>2, <2>6, <2>8 DEF Finalize
  <2>11. Unplaced(s', d) /\ Unplaced(c, c)
    <3>1. Known(d)
      BY <2>9 DEF Executed
    <3> QED BY <2>4, <2>10, <3>1, ClosesOnward, UnplacedChain
  <2>12. Executed(s', c, r, bar.c) /\ Emptied(s', c)
    BY <2>3, <2>9, <2>11, ExecutedChain
  <2>13. Recorded(s') /\ OpenFirst(s')
    <3>1. s'.exits = 0 /\ c.orders[r].role \notin Legs /\ c.fills \in Seq(FillRecords)
      BY <2>3, <2>6, <2>7, <2>12 DEF Emptied, Legs
    <3> QED BY <2>3, <2>5, <2>12, <3>1, ExecutedKeeps
  <2>14. Lives(s', s)
    BY <2>6, <2>12 DEF Lives, Emptied
  <2>15. PassInOrder'
    BY <1>1 DEF PassInOrder
  <2> QED BY <1>1, <2>13, <2>14, <2>15, SameBar DEF Remembered
<1> QED BY <1>5, <1>6

\* Every step keeps what is remembered, and the promises of PositionLife.
LEMMA NextRemembers ==
  ASSUME Inv, Remembered, [Next]_vars
  PROVE  Remembered' /\ Lives(s', s)
<1>1. CASE s' = s /\ bar' = bar /\ (phase' = phase \/ phase' # "matching")
  <2>1. Onward(s', s)
    BY <1>1, KnownNow, UnplacedChain
  <2>2. CASE phase' = phase
    BY <1>1, <2>2 DEF Remembered, Recorded, OpenFirst, Late, OpeningPriority, AtOrAbove, AtOrBelow, PassInOrder, InQueue, Lives, Quiet
  <2>3. CASE phase' # "matching"
    BY <1>1, <2>1, <2>3, OnwardStep
  <2> QED BY <1>1, <2>2, <2>3
<1>2. CASE UNCHANGED vars
  BY <1>1, <1>2 DEF vars
<1>3. ASSUME NEW c \in Candles, NewBar(c) PROVE Remembered' /\ Lives(s', s)
  BY <1>3, NewBarRemembers
<1>4. CASE CheckSubmitted
  BY <1>4, CheckSubmittedRemembers
<1>5. CASE BeginPass
  BY <1>5, BeginPassRemembers
<1>6. CASE Turn
  BY <1>6, TurnRemembers
<1>7. CASE EndMatching
  BY <1>7, EndMatchingRemembers
<1>8. CASE NotifyOrder
  BY <1>8, NotifyOrderRemembers
<1>9. CASE OrdersHeard
  BY <1>1, <1>9 DEF OrdersHeard
<1>10. CASE NotifyTrade
  BY <1>10, NotifyTradeRemembers
<1>11. CASE TradesHeard
  BY <1>1, <1>11 DEF TradesHeard
<1>12. CASE Decide
  BY <1>12, DecideRemembers
<1>13. CASE EndOfData
  BY <1>13, EndOfDataRemembers
<1> QED BY <1>2, <1>3, <1>4, <1>5, <1>6, <1>7, <1>8, <1>9, <1>10, <1>11, <1>12, <1>13 DEF Next

\* A run starts with nothing to remember.
LEMMA InitRemembers ==
  ASSUME Init
  PROVE  Remembered
<1>1. phase = "idle"
  BY DEF Init
<1>2. s.orders = << >> /\ s.stop = NoOrder /\ s.fills = << >> /\ s.exits = 0
  BY DEF Init, Start
<1>3. DOMAIN << >> = {}
  OBVIOUS
<1> QED BY <1>1, <1>2, <1>3 DEF Remembered, Recorded, OpenFirst, PassInOrder

\* The bar's open decides before its range: a leg is only filled inside a bar whose open
\* had not already reached its sibling.
THEOREM OpenComesFirst == Spec => []OpenDecidesFirst
<1>1. Init => Remembered
  BY InitRemembers
<1>2. Inv /\ Remembered /\ [Next]_vars => Remembered'
  BY NextRemembers
<1>3. Remembered => OpenDecidesFirst
  BY DEF Remembered, OpenFirst, Late, OpenDecidesFirst
<1> QED BY <1>1, <1>2, <1>3, SituationsHold, PTL DEF Spec

\* No position is larger than the largest quantity.
LEMMA LargestOfAll ==
  Max(Quantities) \in Nat /\ \A n \in Quantities : n \in Nat /\ n <= Max(Quantities)
<1>1. PICK m \in Nat : m = Max({setup.qty : setup \in Setups})
  BY LargestQuantity
<1>2. Quantities = 0..m
  BY <1>1 DEF Quantities
<1>3. m \in Quantities /\ \A n \in Quantities : m >= n
  BY <1>2
<1>4. Max(Quantities) \in Quantities /\ \A n \in Quantities : Max(Quantities) >= n
  BY <1>3 DEF Max
<1> QED BY <1>2, <1>4

\* Every step is one of PositionLife's, or leaves the position alone.
LEMMA StepOfLife ==
  ASSUME Inv, Inv', Remembered, Lives(s', s)
  PROVE  [Life!Next]_(Life!vars)
<1>1. s.exits = 0
  BY DEF Remembered, Recorded
<1>2. CASE Quiet(s', s)
  BY <1>2 DEF Quiet, Life!vars
<1>3. CASE Grown(s', s)
  <2>1. s'.size \in Quantities
    <3>1. s' \in Brokers
      BY DEF Inv, Sound
    <3> QED BY <3>1 DEF Brokers
  <2>4. s.size = 0 /\ s'.fillTrade = s.fillTrade /\ s'.exits = s.exits
    BY <1>3 DEF Grown
  <2>5. s'.size \in (s.size + 1)..Max(Quantities)
    <3>1. s'.size > 0
      BY <1>3 DEF Grown
    <3> QED BY <2>1, <2>4, <3>1, LargestOfAll
  <2>6. Life!KeepsSide
    BY <2>4 DEF Life!KeepsSide
  <2>7. UNCHANGED <<s.fillTrade, s.exits > 0>> /\ ~(s.exits > 0)
    BY <1>1, <2>4
  <2>3. Life!Grow
    BY <2>5, <2>6, <2>7 DEF Life!Grow
  <2> QED BY <2>3 DEF Life!Next
<1>4. CASE Emptied(s', s)
  <2>1. Life!Close
    BY <1>1, <1>4 DEF Emptied, Life!Close
  <2> QED BY <2>1 DEF Life!Next
<1> QED BY <1>2, <1>3, <1>4 DEF Lives

\* The broker with its queues, brackets and notifications keeps the promises of
\* PositionLife; of its steps only an entry's fill and an exit's are not stuttering.
THEOREM KeepsLife == Spec => KeepsPositionLife
<1>1. Init => Life!Init /\ Remembered
  <2>1. ASSUME Init PROVE s.size = 0 /\ s.dir = 1 /\ s.fillTrade = 1 /\ s.exits = 0
    BY <2>1 DEF Init, Start
  <2> QED BY <2>1, InitRemembers DEF Life!Init
<1>2. Inv /\ Remembered /\ [Next]_vars => Remembered'
  BY NextRemembers
<1>3. Inv /\ Inv' /\ Remembered /\ [Next]_vars => [Life!Next]_(Life!vars)
  BY NextRemembers, StepOfLife
<1> QED BY <1>1, <1>2, <1>3, SituationsHold, PTL DEF Spec, KeepsPositionLife, Life!Spec

=============================================================================
