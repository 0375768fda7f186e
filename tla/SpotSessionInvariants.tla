------------------------ MODULE SpotSessionInvariants ------------------------
(***************************************************************************)
(* Type correctness of SpotSession and what its stack of calls knows (Inv), *)
(* which the other proofs about the session rest on.  The actions of a call *)
(* come down to a few shapes (StepShapes); each shape is treated once.      *)
(*                                                                         *)
(* Then what the calls see to before they return.  Terminal actions are     *)
(* final (TerminalFreezes): the cancels one requests are only acknowledged  *)
(* by later calls, so what is proved is where they stand among the calls    *)
(* still to be made: nothing is matched before them, in this session or in  *)
(* one restored (Gates).  And orders are at rest between calls              *)
(* (RestIsSettled): whatever upsets one, an acknowledgement of it is still  *)
(* to come (Settling).                                                      *)
(***************************************************************************)
EXTENDS SpotSession, Induction, SequenceTheorems, FiniteSetTheorems

(* ---- The engine's reducer ----------------------------------------------- *)

\* The least of a nonempty set of natural numbers, as the session takes it of order ids
\* and of prices.
LEMMA MinOfNaturals ==
  ASSUME NEW S \in SUBSET Nat, S # {}
  PROVE  Min(S) \in S /\ \A n \in S : Min(S) <= n
BY SmallestElement DEF Min

\* The smaller of two numbers: a fill takes the remaining quantity or the volume left.
LEMMA MinOfTwo ==
  ASSUME NEW a \in Int, NEW b \in Int
  PROVE  /\ Min({a, b}) \in {a, b}
         /\ Min({a, b}) <= a /\ Min({a, b}) <= b
<1>1. \E x \in {a, b} : \A y \in {a, b} : x <= y
  OBVIOUS
<1> QED BY <1>1 DEF Min

\* Requesting cancels (RequestCancels) keeps the session well typed.
LEMMA RequestCancelsType ==
  ASSUME NEW s \in Sessions, NEW K
  PROVE  RequestCancels(s, K) \in Sessions
<1>1. [k \in Orders |-> IF k \in K /\ Open(s, k) THEN [s.orders[k] EXCEPT !.status = "cancel_pending"]
                                                 ELSE s.orders[k]] \in [Orders -> OrderStates]
  <2>1. s.orders \in [Orders -> OrderStates]
    BY DEF Sessions
  <2>2. \A o \in OrderStates : [o EXCEPT !.status = "cancel_pending"] \in OrderStates
    BY DEF OrderStates, Statuses
  <2> QED BY <2>1, <2>2
<1> QED BY <1>1 DEF RequestCancels, Sessions

\* So does a terminal action (Terminate).
LEMMA TerminateType ==
  ASSUME NEW s \in Sessions, NEW action \in Actions, NEW why \in {"stop", "command", "graph"}
  PROVE  Terminate(s, action, why) \in Sessions
<1>1. [s EXCEPT !.terminal = action, !.reason = why] \in Sessions
  BY DEF Sessions
<1> QED BY <1>1, RequestCancelsType DEF Terminate

\* A new order is an order.
LEMMA NewOrderType ==
  ASSUME NEW s, NEW limit \in Nat, NEW qty \in Nat, NEW act \in Nat
  PROVE  NewOrder(s, limit, qty, act) \in OrderStates
BY DEF NewOrder, NoOrder, OrderStates, Statuses

\* Placing an order keeps the session well typed.
LEMMA PlaceType ==
  ASSUME NEW s \in Sessions, NEW o \in OrderStates, NEW k
  PROVE  [s EXCEPT !.orders[k] = o] \in Sessions
<1>1. [s.orders EXCEPT ![k] = o] \in [Orders -> OrderStates]
  BY DEF Sessions
<1> QED BY <1>1 DEF Sessions

\* So does the replacement of the target (Retarget) ...
LEMMA RetargetType ==
  ASSUME NEW s \in Sessions
  PROVE  Retarget(s) \in Sessions
<1> DEFINE working == {k \in Targets : Open(s, k)}
           unused == {k \in Targets : ~Exists(s, k)}
<1>1. RequestCancels(s, working) \in Sessions
  BY RequestCancelsType
<1>2. s.base > 0 => [s EXCEPT !.orders[Min(unused)] = NewOrder(s, TargetLimit, s.base, s.bar + 1)]
                      \in Sessions
  <2> SUFFICES ASSUME s.base > 0
      PROVE  [s EXCEPT !.orders[Min(unused)] = NewOrder(s, TargetLimit, s.base, s.bar + 1)]
               \in Sessions
    OBVIOUS
  <2>1. s.base \in Nat /\ s.bar + 1 \in Nat /\ TargetLimit \in Nat
    BY RecipeAssumption DEF Sessions
  <2>2. NewOrder(s, TargetLimit, s.base, s.bar + 1) \in OrderStates
    BY <2>1, NewOrderType
  <2> QED BY <2>2, PlaceType
<1> QED BY <1>1, <1>2 DEF Retarget

\* ... and the replacement close of a flatten (Contain).
LEMMA ContainType ==
  ASSUME NEW s \in Sessions
  PROVE  Contain(s) \in Sessions
<1>1. s.base > 0 => [s EXCEPT !.orders[Close] = NewOrder(s, Market, s.base, s.bar)] \in Sessions
  <2> SUFFICES ASSUME s.base > 0
      PROVE  [s EXCEPT !.orders[Close] = NewOrder(s, Market, s.base, s.bar)] \in Sessions
    OBVIOUS
  <2>1. s.base \in Nat /\ s.bar \in Nat /\ Market \in Nat
    BY DEF Sessions, Market
  <2>2. NewOrder(s, Market, s.base, s.bar) \in OrderStates
    BY <2>1, NewOrderType
  <2> QED BY <2>2, PlaceType
<1> QED BY <1>1 DEF Contain

\* Updates of one field that keep the session well typed.
LEMMA SessionUpdates ==
  /\ \A s \in Sessions, v \in [Orders -> OrderStates] : [s EXCEPT !.orders = v] \in Sessions
  /\ \A s \in Sessions, v \in Nat : [s EXCEPT !.accepted = v] \in Sessions
  /\ \A s \in Sessions, v \in Int : [s EXCEPT !.base = v] \in Sessions
  /\ \A s \in Sessions, v \in Seq(Events) : [s EXCEPT !.tape = v] \in Sessions
  /\ \A s \in Sessions, v \in Nat : [s EXCEPT !.allowance = v] \in Sessions
  /\ \A s \in Sessions, v \in Nat : [s EXCEPT !.used = v] \in Sessions
<1>1. \A s \in Sessions, v \in [Orders -> OrderStates] : [s EXCEPT !.orders = v] \in Sessions
  BY DEF Sessions
<1>2. \A s \in Sessions, v \in Nat : [s EXCEPT !.accepted = v] \in Sessions
  BY DEF Sessions
<1>3. \A s \in Sessions, v \in Int : [s EXCEPT !.base = v] \in Sessions
  BY DEF Sessions
<1>4. \A s \in Sessions, v \in Seq(Events) : [s EXCEPT !.tape = v] \in Sessions
  BY DEF Sessions
<1>5. \A s \in Sessions, v \in Nat : [s EXCEPT !.allowance = v] \in Sessions
  BY DEF Sessions
<1>6. \A s \in Sessions, v \in Nat : [s EXCEPT !.used = v] \in Sessions
  BY DEF Sessions
<1> QED BY <1>1, <1>2, <1>3, <1>4, <1>5, <1>6

\* An execution event keeps the session well typed (Execute).
LEMMA ExecuteType ==
  ASSUME NEW s \in Sessions, NEW e \in Events
  PROVE  Execute(s, e) \in Sessions
<1>1. e.key \in Orders /\ e.status \in Statuses /\ e.qty \in Nat
  BY DEF Events
<1>2. /\ s.orders \in [Orders -> OrderStates] /\ s.accepted \in Nat /\ s.base \in Int
      /\ s.tape \in Seq(Events)
  BY DEF Sessions
<1>3. PICK o \in OrderStates : o = s.orders[e.key]
  BY <1>1, <1>2
<1>4. o.filled \in Nat /\ o.acc \in Nat
  BY DEF OrderStates
<1>5. PICK filled \in Nat : filled = o.filled + e.qty
  BY <1>1, <1>4
<1>6. PICK acc \in Nat : acc = IF e.status = "accepted" THEN s.accepted + 1 ELSE o.acc
  BY <1>2, <1>4
<1>7. PICK n \in OrderStates : n = [o EXCEPT !.status = e.status, !.filled = filled, !.acc = acc]
  <2>1. [o EXCEPT !.status = e.status, !.filled = filled, !.acc = acc] \in OrderStates
    BY <1>1 DEF OrderStates
  <2> QED BY <2>1
<1>8. PICK orders \in [Orders -> OrderStates] : orders = [s.orders EXCEPT ![e.key] = n]
  BY <1>2
<1>9. PICK accepted \in Nat : accepted = IF e.status = "accepted" THEN s.accepted + 1 ELSE s.accepted
  BY <1>2
<1>10. PICK base \in Int : base = s.base + (IF Side(e.key) = "buy" THEN e.qty ELSE -e.qty)
  BY <1>1, <1>2
<1>11. PICK tape \in Seq(Events) : tape = IF e.qty > 0 THEN Append(s.tape, e) ELSE s.tape
  <2>1. Append(s.tape, e) \in Seq(Events)
    BY <1>2, AppendProperties
  <2> QED BY <1>2, <2>1
<1>12. Execute(s, e) = [s EXCEPT !.orders = orders, !.accepted = accepted, !.base = base, !.tape = tape]
  BY <1>3, <1>5, <1>6, <1>7, <1>8, <1>9, <1>10, <1>11 DEF Execute
<1>13. [s EXCEPT !.orders = orders, !.accepted = accepted, !.base = base, !.tape = tape] \in Sessions
  BY SessionUpdates
<1> QED BY <1>12, <1>13

\* So do the entries of a start (Start) ...
LEMMA StartType ==
  ASSUME NEW s \in Sessions
  PROVE  Start(s) \in Sessions
<1>1. s.bar + 1 \in Nat /\ s.orders \in [Orders -> OrderStates]
  BY DEF Sessions
<1>2. \A k \in Entries : NewOrder(s, EntryLimit[k], EntryQty[k], s.bar + 1) \in OrderStates
  BY <1>1, NewOrderType, RecipeAssumption
<1>3. [k \in Orders |-> IF k \in Entries THEN NewOrder(s, EntryLimit[k], EntryQty[k], s.bar + 1)
                                         ELSE s.orders[k]] \in [Orders -> OrderStates]
  BY <1>1, <1>2
<1> QED BY <1>3 DEF Start, Sessions

\* ... and a reconciliation of the terminal orders.
LEMMA ReconcileType ==
  ASSUME NEW s \in Sessions
  PROVE  [s EXCEPT !.orders = [k \in Orders |->
              IF s.orders[k].status \in TERMINAL THEN [s.orders[k] EXCEPT !.reconciled = TRUE]
                                                 ELSE s.orders[k]]] \in Sessions
<1> DEFINE orders == [k \in Orders |->
              IF s.orders[k].status \in TERMINAL THEN [s.orders[k] EXCEPT !.reconciled = TRUE]
                                                 ELSE s.orders[k]]
<1>1. orders \in [Orders -> OrderStates]
  <2>1. s.orders \in [Orders -> OrderStates]
    BY DEF Sessions
  <2>2. \A o \in OrderStates : [o EXCEPT !.reconciled = TRUE] \in OrderStates
    BY DEF OrderStates
  <2> QED BY <2>1, <2>2
<1> HIDE DEF orders
<1>2. [s EXCEPT !.orders = orders] \in Sessions
  BY <1>1 DEF Sessions
<1> QED BY <1>2 DEF orders

\* Whatever is observed, what the engine decides of it is well typed (Decide).
LEMMA DecideType ==
  ASSUME NEW s \in Sessions, NEW ob \in Observations
  PROVE  Decide(s, ob) \in Sessions
<1>1. CASE ob \in [kind : {"price"}, price : Nat]
  <2>1. [s EXCEPT !.mark = ob.price] \in Sessions
    BY <1>1 DEF Sessions
  <2>2. Terminate([s EXCEPT !.mark = ob.price], "stop_and_flatten", "stop") \in Sessions
    BY <2>1, TerminateType DEF Actions
  <2> QED BY <1>1, <2>1, <2>2 DEF Decide
<1>2. CASE ob \in [kind : {"command"}, action : Actions]
  BY <1>2, TerminateType DEF Decide
<1>3. CASE ob \in [kind : {"closed_bar"}, request : Requests \cup {None}]
  <2>1. ob.request \in Requests \cup {None} /\ ob.kind = "closed_bar"
    BY <1>3
  <2>2. ob.request # "start" /\ ob.request # None => ob.request \in Actions
    BY <2>1, HostAssumption
  <2> QED BY <2>1, <2>2, StartType, TerminateType DEF Decide
<1>4. CASE ob \in [kind : {"executions"}, event : Events]
  BY <1>4, ExecuteType DEF Decide
<1>5. CASE ob \in [kind : {"reconciliation"}]
  <2>1. ob.kind = "reconciliation"
    BY <1>5
  <2> QED BY <2>1, ReconcileType DEF Decide
<1> QED BY <1>1, <1>2, <1>3, <1>4, <1>5 DEF Observations

\* The reducer returns a well-typed session (Reduce).
LEMMA ReduceType ==
  ASSUME NEW s \in Sessions, s.pending # None
  PROVE  Reduce(s) \in Sessions
<1>1. [s EXCEPT !.pending = None] \in Sessions /\ s.pending \in Observations
  BY DEF Sessions
<1> QED BY <1>1, DecideType, RetargetType, ContainType DEF Reduce

\* The tape after the observation of s: a fill is added to it.
Taped(s) == IF s.pending.kind = "executions" /\ s.pending.event.qty > 0
            THEN Append(s.tape, s.pending.event) ELSE s.tape

\* The reduction clears the observation and leaves the candle in progress and its
\* volume alone; a fill goes to the tape and nothing else does.
LEMMA ReduceKeeps ==
  ASSUME NEW s \in Sessions, s.pending # None
  PROVE  /\ Reduce(s).pending = None /\ Reduce(s).inBar = s.inBar
         /\ Reduce(s).used = s.used /\ Reduce(s).allowance = s.allowance
         /\ Reduce(s).tape = Taped(s)
<1> DEFINE Same(a, b) == /\ b.pending = a.pending /\ b.inBar = a.inBar
                         /\ b.used = a.used /\ b.allowance = a.allowance
           Keeps(a, b) == Same(a, b) /\ b.tape = a.tape
           ob == s.pending
<1>1. PICK t \in Sessions : t = [s EXCEPT !.pending = None]
  BY DEF Sessions
<1>2. /\ t.pending = None /\ t.inBar = s.inBar /\ t.used = s.used /\ t.allowance = s.allowance
      /\ t.tape = s.tape
  BY <1>1 DEF Sessions
<1>3. ob \in Observations
  BY DEF Sessions
<1>4. \A a \in Sessions : \A K : Keeps(a, RequestCancels(a, K))
  BY DEF Sessions, RequestCancels
<1>5. \A a \in Sessions : \A action, why : Keeps(a, Terminate(a, action, why))
  BY DEF Sessions, Terminate, RequestCancels
<1>6. PICK d \in Sessions : d = Decide(t, ob)
  BY <1>3, DecideType
<1>7. Same(t, d) /\ d.tape = Taped(s)
  <2>1. Keeps(t, Start(t))
    BY DEF Sessions, Start
  <2>2. CASE ob.kind = "price"
    <3>1. ob.price \in Nat
      BY <1>3, <2>2 DEF Observations
    <3>2. PICK m \in Sessions : m = [t EXCEPT !.mark = ob.price]
      BY <3>1 DEF Sessions
    <3>3. Keeps(t, m)
      BY <3>1, <3>2 DEF Sessions
    <3>4. Keeps(m, Terminate(m, "stop_and_flatten", "stop"))
      BY <1>5
    <3>5. d = m \/ d = Terminate(m, "stop_and_flatten", "stop")
      BY <1>6, <2>2, <3>2 DEF Decide
    <3> QED BY <1>2, <2>2, <3>3, <3>4, <3>5 DEF Taped
  <2>3. CASE ob.kind = "command"
    <3>1. d = Terminate(t, ob.action, "command")
      BY <1>6, <2>3 DEF Decide
    <3> QED BY <1>2, <1>5, <2>3, <3>1 DEF Taped
  <2>4. CASE ob.kind = "closed_bar"
    <3>1. d = t \/ d = Start(t) \/ d = Terminate(t, ob.request, "graph")
      BY <1>6, <2>4 DEF Decide
    <3> QED BY <1>2, <1>5, <2>1, <2>4, <3>1 DEF Taped
  <2>5. CASE ob.kind = "executions"
    <3>1. d = Execute(t, ob.event)
      BY <1>6, <2>5 DEF Decide
    <3>2. Same(t, Execute(t, ob.event))
      BY DEF Sessions, Execute
    <3>3. Execute(t, ob.event).tape = IF ob.event.qty > 0 THEN Append(t.tape, ob.event) ELSE t.tape
      BY DEF Sessions, Execute
    <3> QED BY <1>2, <2>5, <3>1, <3>2, <3>3 DEF Taped
  <2>6. CASE ob.kind = "reconciliation"
    <3>1. \A f : Keeps(t, [t EXCEPT !.orders = f])
      BY DEF Sessions
    <3>2. \E f : d = [t EXCEPT !.orders = f]
      BY <1>6, <2>6 DEF Decide
    <3> QED BY <1>2, <2>6, <3>1, <3>2 DEF Taped
  <2>7. ob.kind \in {"price", "command", "closed_bar", "executions", "reconciliation"}
    BY <1>3 DEF Observations
  <2> QED BY <2>2, <2>3, <2>4, <2>5, <2>6, <2>7
<1>8. PICK r \in Sessions : r = Retarget(d)
  BY RetargetType
<1>9. Keeps(d, r)
  <2>1. \A k, o : Keeps(d, [d EXCEPT !.orders[k] = o])
    BY DEF Sessions
  <2> QED BY <1>4, <1>8, <2>1 DEF Retarget
<1>10. Keeps(r, Contain(r))
  BY DEF Sessions, Contain
<1>11. Reduce(s) = Contain(r)
  BY <1>1, <1>6, <1>8 DEF Reduce
<1> QED BY <1>2, <1>7, <1>9, <1>10, <1>11


\* In a finite strict order every rank below the cardinality is somebody's: what makes
\* the CHOOSE of Sort meaningful.  By induction over the set, as a number.
LEMMA RanksAreTaken ==
  ASSUME NEW S, IsFiniteSet(S), NEW R,
         \A a \in S : <<a, a>> \notin R,
         \A a, b \in S : a # b => <<a, b>> \in R \/ <<b, a>> \in R,
         \A a, b, c \in S : <<a, b>> \in R /\ <<b, c>> \in R => <<a, c>> \in R
  PROVE  /\ Cardinality(S) \in Nat
         /\ \A i \in 1..Cardinality(S) :
              \E k \in S : Cardinality({j \in S : <<j, k>> \in R}) = i - 1
<1> DEFINE below(k) == {j \in S : <<j, k>> \in R}
<1>1. PICK n \in Nat : n = Cardinality(S)
  BY FS_CardinalityType
<1>2. ASSUME NEW k \in S
      PROVE  IsFiniteSet(below(k)) /\ Cardinality(below(k)) \in 0..(n - 1)
  <2>1. below(k) \in SUBSET S /\ below(k) # S
    OBVIOUS
  <2> HIDE DEF below
  <2>2. IsFiniteSet(below(k)) /\ Cardinality(below(k)) <= n /\ Cardinality(below(k)) # n
    BY <1>1, <2>1, FS_Subset
  <2>3. Cardinality(below(k)) \in Nat
    BY <2>2, FS_CardinalityType
  <2> QED BY <2>2, <2>3
<1>3. ASSUME NEW a \in S, NEW b \in S, <<a, b>> \in R
      PROVE  Cardinality(below(a)) # Cardinality(below(b))
  <2>1. below(a) \in SUBSET below(b) /\ a \in below(b) /\ a \notin below(a)
    BY <1>3
  <2> HIDE DEF below
  <2> QED BY <1>2, <2>1, FS_Subset
<1> DEFINE rank == [k \in S |-> Cardinality(below(k))]
<1>4. rank \in [S -> 0..(n - 1)] /\ \A k \in S : rank[k] = Cardinality(below(k))
  BY <1>2
<1> HIDE DEF rank, below
<1>5. \A a, b \in S : rank[a] = rank[b] => a = b
  BY <1>3, <1>4
<1>6. rank \in Injection(S, 0..(n - 1))
  BY <1>4, <1>5 DEF Injection, IsInjective
<1>7. IsFiniteSet(0..(n - 1)) /\ Cardinality(0..(n - 1)) = n
  BY FS_Interval
<1>8. rank \in Surjection(S, 0..(n - 1))
  BY <1>1, <1>6, <1>7, FS_Injection
<1>9. ASSUME NEW i \in 1..n PROVE \E k \in S : Cardinality(below(k)) = i - 1
  <2>1. i - 1 \in 0..(n - 1)
    OBVIOUS
  <2> QED BY <1>4, <1>8, <2>1 DEF Surjection
<1> QED BY <1>1, <1>9 DEF below

\* The recipe has finitely many orders, with numbers for ids.
LEMMA OrdersAreFinite == IsFiniteSet(Orders) /\ Orders \subseteq Nat
<1>1. IsFiniteSet(Entries \cup Targets)
  BY RecipeAssumption, FS_Union
<1> QED BY <1>1, RecipeAssumption, FS_AddElement, FS_Union, FS_Singleton DEF Orders

\* The sort key of a point orders the orders strictly and totally (Precedes).
LEMMA PrecedesOrders ==
  ASSUME state \in Sessions
  PROVE  /\ \A a \in Orders : ~Precedes(a, a)
         /\ \A a, b \in Orders : a # b => Precedes(a, b) \/ Precedes(b, a)
         /\ \A a, b, c \in Orders : Precedes(a, b) /\ Precedes(b, c) => Precedes(a, c)
<1>1. \A k \in Orders : k \in Int /\ Class(k) \in Int /\ state.orders[k].acc \in Int
  BY OrdersAreFinite DEF Class, Sessions, OrderStates
<1> QED BY <1>1 DEF Precedes

\* The snapshot of a point is a sequence of orders (Sort).
LEMMA SortedKeys ==
  ASSUME state \in Sessions
  PROVE  LET known == {k \in Orders : Exists(state, k)}
         IN  [i \in 1..Cardinality(known) |->
                CHOOSE k \in known : Cardinality({j \in known : Precedes(j, k)}) = i - 1] \in Seq(Orders)
<1> DEFINE known == {k \in Orders : Exists(state, k)}
           R == {p \in Orders \X Orders : Precedes(p[1], p[2])}
           pick(i) == CHOOSE k \in known : Cardinality({j \in known : Precedes(j, k)}) = i - 1
<1>1. known \subseteq Orders /\ IsFiniteSet(known)
  BY OrdersAreFinite, FS_Subset
<1>2. \A a, b \in Orders : <<a, b>> \in R <=> Precedes(a, b)
  OBVIOUS
<1> HIDE DEF R, known
<1>3. /\ Cardinality(known) \in Nat
      /\ \A i \in 1..Cardinality(known) :
           \E k \in known : Cardinality({j \in known : <<j, k>> \in R}) = i - 1
  <2>1. /\ \A a \in known : <<a, a>> \notin R
        /\ \A a, b \in known : a # b => <<a, b>> \in R \/ <<b, a>> \in R
        /\ \A a, b, c \in known : <<a, b>> \in R /\ <<b, c>> \in R => <<a, c>> \in R
    BY <1>1, <1>2, PrecedesOrders
  <2> QED BY <1>1, <2>1, RanksAreTaken
<1>4. \A i \in 1..Cardinality(known) : pick(i) \in known
  <2> TAKE i \in 1..Cardinality(known)
  <2>1. PICK k \in known : Cardinality({j \in known : <<j, k>> \in R}) = i - 1
    BY <1>3
  <2>2. {j \in known : <<j, k>> \in R} = {j \in known : Precedes(j, k)}
    BY <1>1, <1>2
  <2> QED BY <2>1, <2>2
<1>5. [i \in 1..Cardinality(known) |-> pick(i)] \in [1..Cardinality(known) -> Orders]
  BY <1>1, <1>4
<1> QED BY <1>3, <1>5, IsSequence DEF known

(* ---- What a step of a call does ---------------------------------------- *)

\* The arguments of a call, by its name.
LEMMA CallFields ==
  ASSUME NEW c \in Calls
  PROVE  /\ c.op = "execution" => c.event \in Events
         /\ c.op = "price" => c.price \in Nat
         /\ c.op \in {"point", "sort", "match", "sells", "buys", "bought"} =>
              c.price \in Nat /\ c.phase \in Phases /\ c.atOpen \in BOOLEAN
         /\ c.op = "match" => c.key \in Orders
         /\ c.op = "leg" => c.from \in Nat /\ c.to \in Nat /\ c.phase \in Phases
         /\ c.op \in {"sells", "buys", "bought"} => c.keys \in Seq(Orders)
BY DEF Calls

\* Calls that may stand anywhere among the calls to come ...
Inner == {c \in Calls : c.op \notin {"advance", "closedBar", "processed"}}

\* ... and those of them that do not carry a fill.
Quiet == {c \in Inner : c.op = "execution" => c.event.qty = 0}

\* The calls the session makes, none of which carries a fill except an execution of one.
LEMMA CallsAreQuiet ==
  /\ \A op \in {"drain", "expire", "stopReference", "flattenRest", "endOfData"} :
       [op |-> op] \in Quiet
  /\ \A e \in Events : execution(e) \in Inner /\ (e.qty = 0 => execution(e) \in Quiet)
  /\ \A p \in Nat : price(p) \in Quiet
  /\ \A p \in Nat, f \in Phases, t \in BOOLEAN :
       /\ point(p, f, t) \in Quiet
       /\ [op |-> "sort", price |-> p, phase |-> f, atOpen |-> t] \in Quiet
       /\ \A k \in Orders : match(k, p, f, t) \in Quiet
       /\ \A K \in Seq(Orders), op \in {"sells", "buys", "bought"} :
            [op |-> op, keys |-> K, price |-> p, phase |-> f, atOpen |-> t] \in Quiet
  /\ \A a, b \in Nat, f \in Phases : leg(a, b, f) \in Quiet
BY DEF Quiet, Inner, Calls, execution, price, point, match, leg

\* Short sequences.
LEMMA SomeCalls ==
  ASSUME NEW S
  PROVE  /\ <<>> \in Seq(S)
         /\ \A a \in S : <<a>> \in Seq(S)
         /\ \A a, b \in S : <<a, b>> \in Seq(S)
         /\ \A a, b, c \in S : <<a, b, c>> \in Seq(S)
OBVIOUS

\* The stack of calls is its head on its rest.
LEMMA TopCall ==
  ASSUME todo \in Seq(Calls), todo # <<>>
  PROVE  /\ Call \in Calls /\ Rest \in Seq(Calls)
         /\ Len(todo) \in Nat \ {0} /\ Len(Rest) = Len(todo) - 1
         /\ Call = todo[1] /\ \A i \in 1..Len(Rest) : Rest[i] = todo[i + 1]
         /\ todo = <<Call>> \o Rest
<1>1. /\ Call \in Calls /\ Rest \in Seq(Calls)
      /\ Len(todo) \in Nat \ {0} /\ Len(Rest) = Len(todo) - 1
      /\ Call = todo[1] /\ \A i \in 1..Len(Rest) : Rest[i] = todo[i + 1]
  BY EmptySeq, HeadTailProperties DEF Call, Rest
<1>2. todo = <<Call>> \o Rest
  <2>1. /\ <<Call>> \in Seq(Calls) /\ Len(<<Call>>) = 1 /\ <<Call>>[1] = Call
    BY <1>1
  <2> HIDE DEF Call, Rest
  <2>2. /\ <<Call>> \o Rest \in Seq(Calls)
        /\ Len(<<Call>> \o Rest) = Len(todo)
        /\ \A i \in 1..Len(todo) : (<<Call>> \o Rest)[i] = IF i <= 1 THEN <<Call>>[i] ELSE Rest[i - 1]
    BY <1>1, <2>1, ConcatProperties
  <2>3. \A i \in 1..Len(todo) : (<<Call>> \o Rest)[i] = todo[i]
    BY <1>1, <2>1, <2>2
  <2> QED BY <2>2, <2>3, SeqEqual
<1> QED BY <1>1, <1>2

\* A status event is an event without quantity (StatusEvent).
LEMMA StatusEventType ==
  ASSUME NEW k \in Orders, NEW status \in Statuses
  PROVE  StatusEvent(k, status) \in Events /\ StatusEvent(k, status).qty = 0
BY DEF StatusEvent, Events

\* A fill is of at most the order's remaining quantity and the bar's remaining volume
\* (MatchEvent).
LEMMA MatchEventType ==
  ASSUME state \in Sessions, NEW c \in Calls, c.op = "match"
  PROVE  LET event == MatchEvent(c)
         IN  event # None =>
               /\ event \in Events /\ event.key = c.key
               /\ event.qty # 0 =>
                    event.qty <= Remaining(state, c.key) /\ event.qty <= state.allowance - state.used
<1> DEFINE remaining == Remaining(state, c.key)
           left == state.allowance - state.used
           quantity == Min({remaining, left})
           event == [key |-> c.key, status |-> "partial", qty |-> quantity,
                     price |-> c.price, phase |-> c.phase, atOpen |-> c.atOpen]
<1>1. c.key \in Orders /\ c.price \in Nat /\ c.phase \in Phases /\ c.atOpen \in BOOLEAN
  BY CallFields
<1>2. remaining \in Int /\ left \in Int
  <2>1. state.orders[c.key] \in OrderStates /\ state.allowance \in Nat /\ state.used \in Nat
    BY <1>1 DEF Sessions
  <2> QED BY <2>1 DEF OrderStates, Remaining
<1>3. quantity \in Int /\ quantity <= remaining /\ quantity <= left
  <2> HIDE DEF remaining, left
  <2> QED BY <1>2, MinOfTwo
<1>4. StatusEvent(c.key, "rejected") \in Events /\ StatusEvent(c.key, "rejected").qty = 0
      /\ StatusEvent(c.key, "rejected").key = c.key
  BY <1>1, StatusEventType DEF Statuses, TERMINAL, StatusEvent
<1> HIDE DEF quantity
<1>5. quantity > 0 =>
        /\ event \in Events /\ [event EXCEPT !.status = "filled"] \in Events
        /\ event.key = c.key /\ [event EXCEPT !.status = "filled"].key = c.key
        /\ event.qty = quantity /\ [event EXCEPT !.status = "filled"].qty = quantity
  BY <1>1, <1>3 DEF Events, Statuses, TERMINAL
<1> HIDE DEF event
<1>6. \/ MatchEvent(c) \in {StatusEvent(c.key, "rejected"), None}
      \/ quantity > 0 /\ MatchEvent(c) \in {event, [event EXCEPT !.status = "filled"]}
  BY <1>3 DEF MatchEvent, event, quantity
<1> HIDE DEF remaining, left
<1> QED BY <1>3, <1>4, <1>5, <1>6 DEF remaining, left

\* The next stop on a leg is one of its crossings (Crossings): there is always one.
LEMMA NextCrossing ==
  ASSUME state \in Sessions, NEW c \in Calls, c.op = "leg", c.from # c.to
  PROVE  LET next == IF c.to < c.from THEN Max(Crossings(c)) ELSE Min(Crossings(c))
         IN  next \in Crossings(c) /\ next \in Nat
<1>1. c.from \in Nat /\ c.to \in Nat /\ c.to \in Crossings(c)
  BY CallFields DEF Crossings
<1>2. Crossings(c) \in SUBSET Nat
  <2>1. \A k \in Orders : state.orders[k].limit \in Nat
    BY DEF Sessions, OrderStates
  <2>2. StopLevel \in Nat
    BY RecipeAssumption
  <2> QED BY <1>1, <2>1, <2>2 DEF Crossings
<1>3. CASE c.to < c.from
  <2>1. \A p \in Crossings(c) : p <= c.from
    BY <1>1, <1>2, <1>3 DEF Crossings
  <2>2. PICK n \in {c.from - p : p \in Crossings(c)} :
               \A m \in {c.from - p : p \in Crossings(c)} : n <= m
    <3>1. {c.from - p : p \in Crossings(c)} \in SUBSET Nat
      BY <1>1, <1>2, <2>1
    <3>2. {c.from - p : p \in Crossings(c)} # {}
      BY <1>1
    <3> QED BY <3>1, <3>2, SmallestElement
  <2>3. PICK p \in Crossings(c) : n = c.from - p
    BY <2>2
  <2>4. ASSUME NEW q \in Crossings(c) PROVE p >= q
    <3>1. n <= c.from - q
      BY <2>2
    <3> QED BY <1>1, <1>2, <2>3, <3>1
  <2> QED BY <1>2, <1>3, <2>4 DEF Max
<1>4. CASE ~(c.to < c.from)
  BY <1>1, <1>2, <1>4, MinOfNaturals
<1> QED BY <1>3, <1>4

\* Control moves on: the head makes way for calls that carry no fill.
Turning == \E calls \in Seq(Quiet) :
             /\ todo # <<>> /\ Call \in Quiet
             /\ Continue(calls)

\* An observation other than a fill is noted.
Observing == \E ob \in Observations, calls \in Seq(Quiet) :
               /\ todo # <<>> /\ Call \in Quiet
               /\ ob.kind = "executions" => ob.event.qty = 0
               /\ Observe(ob, calls \o Rest) /\ UNCHANGED commands

\* A fill's quantity is debited.
Debiting == \E e \in Events :
              /\ Doing("match") /\ e = MatchEvent(Call) /\ e.qty # 0
              /\ Persist([state EXCEPT !.used = @ + e.qty], "liquidity_allocation",
                         <<execution(e), drain>> \o Rest)
              /\ UNCHANGED commands

\* A call renamed, with other keys, is a call that carries no fill.
LEMMA ExceptOp ==
  ASSUME NEW c \in Calls, c.op \in {"point", "sells", "buys", "bought"}
  PROVE  /\ c.op = "point" => [c EXCEPT !.op = "sort"] \in Quiet
         /\ c.op \in {"sells", "buys", "bought"} =>
              \A op \in {"sells", "buys", "bought"}, K \in Seq(Orders) :
                [c EXCEPT !.op = op, !.keys = K] \in Quiet
BY DEF Calls, Quiet, Inner

\* What a step of a call does: it turns control, notes an observation, debits a fill, or
\* is one of the six that write a record of their own.
LEMMA StepShapes ==
  ASSUME TypeOK, Step
  PROVE  \/ Turning \/ Observing \/ Debiting
         \/ Execution \/ Advance \/ StopReference \/ ClosedBar \/ Processed \/ EndOfData
<1>1. /\ todo \in Seq(Calls) /\ state \in Sessions
      /\ state.orders \in [Orders -> OrderStates] /\ state.mark \in Nat \cup {None}
  BY DEF TypeOK, Sessions
<1>2. /\ todo # <<>> => Call \in Calls /\ Rest \in Seq(Calls) /\ todo = <<Call>> \o Rest
      /\ todo # <<>> /\ Call.op \notin {"advance", "closedBar", "processed", "execution"}
           => Call \in Quiet
  BY <1>1, TopCall DEF Quiet, Inner
<1>3. CASE Drain
  <2>1. todo # <<>> /\ Call.op = "drain" /\ Call \in Quiet /\ todo = <<Call>> \o Rest
    BY <1>2, <1>3 DEF Drain, Doing
  <2>2. CASE state.halted \/ (Unacknowledged = {} /\ Reconciled(state))
    <3>1. Continue(<<>>)
      BY <1>3, <2>2 DEF Drain
    <3> QED BY <2>1, <3>1, SomeCalls DEF Turning
  <2>3. CASE ~(state.halted \/ (Unacknowledged = {} /\ Reconciled(state))) /\ Unacknowledged # {}
    <3> DEFINE k == Min(Unacknowledged)
               status == IF state.orders[k].status = "pending" THEN "accepted" ELSE "canceled"
               ob == [kind |-> "executions", event |-> StatusEvent(k, status)]
    <3>1. k \in Orders
      BY <2>3, MinOfNaturals, OrdersAreFinite DEF Unacknowledged
    <3>2. status \in Statuses
      BY DEF Statuses, TERMINAL
    <3>3. Observe(ob, todo) /\ UNCHANGED commands
      BY <1>3, <2>3 DEF Drain
    <3> HIDE DEF k, status
    <3>4. ob \in Observations /\ ob.event.qty = 0
      BY <3>1, <3>2, StatusEventType DEF Observations
    <3> HIDE DEF ob
    <3>5. <<Call>> \in Seq(Quiet)
      BY <2>1, SomeCalls
    <3> QED BY <2>1, <3>3, <3>4, <3>5 DEF Observing
  <2>4. CASE ~(state.halted \/ (Unacknowledged = {} /\ Reconciled(state))) /\ Unacknowledged = {}
    <3> DEFINE ob == [kind |-> "reconciliation"]
    <3>1. Observe(ob, todo) /\ UNCHANGED commands
      BY <1>3, <2>4 DEF Drain
    <3>2. ob \in Observations /\ ob.kind # "executions"
      BY DEF Observations
    <3> HIDE DEF ob
    <3>3. <<Call>> \in Seq(Quiet)
      BY <2>1, SomeCalls
    <3> QED BY <2>1, <3>1, <3>2, <3>3 DEF Observing
  <2> QED BY <2>2, <2>3, <2>4
<1>4. CASE Price
  <2>1. todo # <<>> /\ Call.op = "price" /\ Call \in Quiet /\ Call.price \in Nat
    BY <1>2, <1>4, CallFields DEF Price, Doing
  <2> DEFINE ob == [kind |-> "price", price |-> Call.price]
  <2>2. ob \in Observations /\ ob.kind # "executions"
    BY <2>1 DEF Observations
  <2>3. <<drain>> \in Seq(Quiet)
    BY CallsAreQuiet, SomeCalls DEF drain
  <2>4. Observe(ob, <<drain>> \o Rest) /\ UNCHANGED commands
    BY <1>4 DEF Price
  <2> HIDE DEF ob
  <2> QED BY <2>1, <2>2, <2>3, <2>4 DEF Observing
<1>5. CASE Match
  <2>1. todo # <<>> /\ Call.op = "match" /\ Call \in Quiet /\ Call \in Calls
    BY <1>2, <1>5 DEF Match, Doing
  <2>2. MatchEvent(Call) # None => MatchEvent(Call) \in Events
    BY <1>1, <2>1, MatchEventType
  <2>3. CASE MatchEvent(Call) = None
    <3>1. Continue(<<>>)
      BY <1>5, <2>3 DEF Match
    <3> QED BY <2>1, <3>1, SomeCalls DEF Turning
  <2>4. CASE MatchEvent(Call) # None /\ MatchEvent(Call).qty = 0
    <3>1. Continue(<<execution(MatchEvent(Call)), drain>>)
      BY <1>5, <2>4 DEF Match
    <3>2. <<execution(MatchEvent(Call)), drain>> \in Seq(Quiet)
      BY <2>2, <2>4, CallsAreQuiet, SomeCalls DEF drain
    <3> QED BY <2>1, <3>1, <3>2 DEF Turning
  <2>5. CASE MatchEvent(Call) # None /\ MatchEvent(Call).qty # 0
    BY <1>5, <2>2, <2>5 DEF Match, Debiting
  <2> QED BY <2>3, <2>4, <2>5
<1>6. CASE Point
  <2>1. todo # <<>> /\ Call.op = "point" /\ Call \in Quiet /\ Call \in Calls /\ Call.price \in Nat
    BY <1>2, <1>6, CallFields DEF Point, Doing
  <2> DEFINE stop == IF StopReached(state, Call.price) /\ state.terminal # "stop_and_hold"
                     THEN <<price(Call.price)>> ELSE <<>>
             sort == [Call EXCEPT !.op = "sort"]
  <2>2. Continue(stop \o <<sort>>)
    BY <1>6 DEF Point
  <2>3. stop \in Seq(Quiet) /\ <<sort>> \in Seq(Quiet)
    BY <2>1, CallsAreQuiet, SomeCalls, ExceptOp
  <2> HIDE DEF stop, sort
  <2>4. stop \o <<sort>> \in Seq(Quiet)
    BY <2>3, ConcatProperties
  <2> QED BY <2>1, <2>2, <2>4 DEF Turning
<1>7. CASE Sort
  <2>1. /\ todo # <<>> /\ Call.op = "sort" /\ Call \in Quiet /\ Call \in Calls
        /\ Call.price \in Nat /\ Call.phase \in Phases /\ Call.atOpen \in BOOLEAN
    BY <1>2, <1>7, CallFields DEF Sort, Doing
  <2> DEFINE known == {k \in Orders : Exists(state, k)}
             working == [i \in 1..Cardinality(known) |->
                          CHOOSE k \in known : Cardinality({j \in known : Precedes(j, k)}) = i - 1]
             loop(op) == [op |-> op, keys |-> working, price |-> Call.price,
                          phase |-> Call.phase, atOpen |-> Call.atOpen]
  <2>2. Continue(<<loop("sells"), price(Call.price), loop("buys")>>)
    BY <1>7 DEF Sort
  <2>3. working \in Seq(Orders)
    BY <1>1, SortedKeys
  <2> HIDE DEF working, known
  <2>4. loop("sells") \in Quiet /\ price(Call.price) \in Quiet /\ loop("buys") \in Quiet
    BY <2>1, <2>3, CallsAreQuiet
  <2> HIDE DEF loop
  <2>5. <<loop("sells"), price(Call.price), loop("buys")>> \in Seq(Quiet)
    BY <2>4, SomeCalls
  <2> QED BY <2>1, <2>2, <2>5 DEF Turning
<1>8. ASSUME todo # <<>>, Call.op \in {"sells", "buys", "bought"}, NEW due \in SUBSET DOMAIN Call.keys,
             due # {}
      PROVE  /\ Call.keys[Min(due)] \in Orders
             /\ After(Min(due)) \in Quiet /\ [After(Min(due)) EXCEPT !.op = "bought"] \in Quiet
  <2>1. Call \in Calls /\ Call.keys \in Seq(Orders)
    BY <1>2, <1>8, CallFields
  <2>2. PICK n \in DOMAIN Call.keys : n = Min(due)
    <3>1. due \in SUBSET Nat
      BY <2>1
    <3> QED BY <1>8, <3>1, MinOfNaturals
  <2>3. PICK K \in Seq(Orders) : K = SubSeq(Call.keys, n + 1, Len(Call.keys))
    <3>1. /\ n + 1 \in Int /\ Len(Call.keys) \in Int
          /\ \A i \in (n + 1)..Len(Call.keys) : Call.keys[i] \in Orders
      BY <2>1, <2>2
    <3> QED BY <3>1, SubSeqProperties
  <2>4. After(n) = [Call EXCEPT !.op = Call.op, !.keys = K]
    BY <1>8, <2>1, <2>3 DEF After, Calls
  <2>5. [After(n) EXCEPT !.op = "bought"] = [Call EXCEPT !.op = "bought", !.keys = K]
    BY <1>8, <2>1, <2>3 DEF After, Calls
  <2>6. After(n) \in Quiet /\ [After(n) EXCEPT !.op = "bought"] \in Quiet
    <3>1. PICK op \in {"sells", "buys", "bought"} : op = Call.op
      BY <1>8
    <3>2. [Call EXCEPT !.op = op, !.keys = K] \in Quiet
      BY <1>8, <2>1, ExceptOp
    <3>3. [Call EXCEPT !.op = "bought", !.keys = K] \in Quiet
      BY <1>8, <2>1, ExceptOp
    <3> QED BY <2>4, <2>5, <3>1, <3>2, <3>3
  <2> QED BY <2>1, <2>2, <2>6
<1>9. CASE Sells
  <2>1. /\ todo # <<>> /\ Call.op = "sells" /\ Call \in Quiet /\ Call \in Calls
        /\ Call.price \in Nat /\ Call.phase \in Phases /\ Call.atOpen \in BOOLEAN
    BY <1>2, <1>9, CallFields DEF Sells, Doing
  <2> DEFINE due == Triggering(SellTriggers)
             k == Call.keys[Min(due)]
             stop == IF k = Close /\ ~Call.atOpen THEN <<[op |-> "stopReference"]>> ELSE <<>>
             more == match(k, Call.price, Call.phase, Call.atOpen)
  <2>2. due \in SUBSET DOMAIN Call.keys
    BY DEF Triggering
  <2>3. CASE due = {}
    <3>1. Continue(<<>>)
      BY <1>9, <2>3 DEF Sells
    <3> QED BY <2>1, <3>1, SomeCalls DEF Turning
  <2>4. CASE due # {}
    <3>1. Continue(<<more>> \o stop \o <<After(Min(due))>>)
      BY <1>9, <2>4 DEF Sells
    <3> HIDE DEF due
    <3>2. k \in Orders /\ After(Min(due)) \in Quiet
      BY <1>8, <2>1, <2>2, <2>4
    <3>3. more \in Quiet /\ stop \in Seq(Quiet)
      BY <2>1, <3>2, CallsAreQuiet, SomeCalls
    <3> HIDE DEF k, more, stop
    <3>4. <<more>> \in Seq(Quiet) /\ <<After(Min(due))>> \in Seq(Quiet)
      BY <3>2, <3>3, SomeCalls
    <3>5. <<more>> \o stop \o <<After(Min(due))>> \in Seq(Quiet)
      BY <3>3, <3>4, ConcatProperties
    <3> QED BY <2>1, <3>1, <3>5 DEF Turning
  <2> QED BY <2>3, <2>4
<1>10. CASE Buys
  <2>1. /\ todo # <<>> /\ Call.op = "buys" /\ Call \in Quiet /\ Call \in Calls
        /\ Call.price \in Nat /\ Call.phase \in Phases /\ Call.atOpen \in BOOLEAN
    BY <1>2, <1>10, CallFields DEF Buys, Doing
  <2> DEFINE due == Triggering(BuyTriggers)
             more == match(Call.keys[Min(due)], Call.price, Call.phase, Call.atOpen)
             bought == [After(Min(due)) EXCEPT !.op = "bought"]
  <2>2. due \in SUBSET DOMAIN Call.keys
    BY DEF Triggering
  <2>3. CASE state.terminal # None \/ state.halted \/ due = {}
    <3>1. Continue(<<>>)
      BY <1>10, <2>3 DEF Buys
    <3> QED BY <2>1, <3>1, SomeCalls DEF Turning
  <2>4. CASE ~(state.terminal # None \/ state.halted \/ due = {})
    <3>1. Continue(<<more, bought>>)
      BY <1>10, <2>4 DEF Buys
    <3> HIDE DEF due
    <3>2. Call.keys[Min(due)] \in Orders /\ bought \in Quiet
      BY <1>8, <2>1, <2>2, <2>4
    <3>3. more \in Quiet
      BY <2>1, <3>2, CallsAreQuiet
    <3> HIDE DEF more, bought
    <3>4. <<more, bought>> \in Seq(Quiet)
      BY <3>2, <3>3, SomeCalls
    <3> QED BY <2>1, <3>1, <3>4 DEF Turning
  <2> QED BY <2>3, <2>4
<1>11. CASE Bought
  <2>1. /\ todo # <<>> /\ Call.op = "bought" /\ Call \in Quiet /\ Call \in Calls
        /\ Call.price \in Nat /\ Call.phase \in Phases /\ Call.atOpen \in BOOLEAN
        /\ Call.keys \in Seq(Orders)
    BY <1>2, <1>11, CallFields DEF Bought, Doing
  <2>2. point(Call.price, Call.phase, FALSE) \in Quiet /\ [Call EXCEPT !.op = "buys"] \in Quiet
    <3>1. [Call EXCEPT !.op = "buys"] = [Call EXCEPT !.op = "buys", !.keys = Call.keys]
      BY <2>1 DEF Calls
    <3> QED BY <2>1, <3>1, CallsAreQuiet, ExceptOp
  <2>3. Continue(<<point(Call.price, Call.phase, FALSE)>>) \/ Continue(<<[Call EXCEPT !.op = "buys"]>>)
    BY <1>11 DEF Bought
  <2> QED BY <2>1, <2>2, <2>3, SomeCalls DEF Turning
<1>12. CASE Leg
  <2>1. /\ todo # <<>> /\ Call.op = "leg" /\ Call \in Quiet /\ Call \in Calls
        /\ Call.from \in Nat /\ Call.to \in Nat /\ Call.phase \in Phases
    BY <1>2, <1>12, CallFields DEF Leg, Doing
  <2> DEFINE next == IF Call.to < Call.from THEN Max(Crossings(Call)) ELSE Min(Crossings(Call))
  <2>2. CASE Call.from = Call.to
    <3>1. Continue(<<>>)
      BY <1>12, <2>2 DEF Leg
    <3> QED BY <2>1, <3>1, SomeCalls DEF Turning
  <2>3. CASE Call.from # Call.to
    <3>1. Continue(<<point(next, Call.phase, FALSE), [Call EXCEPT !.from = next]>>)
      BY <1>12, <2>3 DEF Leg
    <3>2. next \in Nat
      BY <1>1, <2>1, <2>3, NextCrossing
    <3> HIDE DEF next
    <3>3. point(next, Call.phase, FALSE) \in Quiet /\ [Call EXCEPT !.from = next] \in Quiet
      <4>1. [Call EXCEPT !.from = next] \in Calls /\ [Call EXCEPT !.from = next].op = "leg"
        BY <2>1, <3>2 DEF Calls
      <4> QED BY <2>1, <3>2, <4>1, CallsAreQuiet DEF Quiet, Inner
    <3> QED BY <2>1, <3>1, <3>3, SomeCalls DEF Turning
  <2> QED BY <2>2, <2>3
<1>13. CASE Expire
  <2>1. todo # <<>> /\ Call.op = "expire" /\ Call \in Quiet
    BY <1>2, <1>13 DEF Expire, Doing
  <2>2. CASE Expired = {}
    <3>1. Continue(<<>>)
      BY <1>13, <2>2 DEF Expire
    <3> QED BY <2>1, <3>1, SomeCalls DEF Turning
  <2>3. CASE Expired # {}
    <3> DEFINE e == StatusEvent(Min(Expired), "expired")
    <3>1. Continue(<<execution(e), Call>>)
      BY <1>13, <2>3 DEF Expire
    <3>2. Min(Expired) \in Orders
      BY <2>3, MinOfNaturals, OrdersAreFinite DEF Expired, Orders
    <3>3. e \in Events /\ e.qty = 0
      BY <3>2, StatusEventType DEF Statuses, TERMINAL
    <3> HIDE DEF e
    <3> QED BY <2>1, <3>1, <3>3, CallsAreQuiet, SomeCalls DEF Turning
  <2> QED BY <2>2, <2>3
<1>14. CASE FlattenRest
  <2>1. todo # <<>> /\ Call.op = "flattenRest" /\ Call \in Quiet
    BY <1>2, <1>14 DEF FlattenRest, Doing
  <2>2. \/ Continue(<<>>)
        \/ state.mark # None /\ Continue(<<match(Close, state.mark, "final", FALSE)>>)
    BY <1>14 DEF FlattenRest
  <2>3. state.mark # None => match(Close, state.mark, "final", FALSE) \in Quiet
    BY <1>1, CallsAreQuiet DEF Orders, Phases
  <2> QED BY <2>1, <2>2, <2>3, SomeCalls DEF Turning
<1> QED BY <1>3, <1>4, <1>5, <1>6, <1>7, <1>9, <1>10, <1>11, <1>12, <1>13, <1>14 DEF Step

(* ---- Types -------------------------------------------------------------- *)

\* A new session is well typed (Genesis).
LEMMA GenesisType == Genesis \in Sessions
<1>1. [k \in Orders |-> NoOrder] \in [Orders -> OrderStates]
  BY DEF NoOrder, OrderStates, Statuses, Market
<1>2. <<>> \in Seq(Events)
  BY EmptySeq
<1> QED BY <1>1, <1>2 DEF Genesis, Sessions

\* A record of a well-typed candidate is well typed, and links to the last one (Record).
LEMMA RecordType ==
  ASSUME state \in Sessions, NEW candidate \in Sessions, NEW kind \in Kinds
  PROVE  /\ Record(candidate, kind) \in StoredRecords
         /\ Record(candidate, kind).seq = state.seq + 1
         /\ Record(candidate, kind).prev = state.sha
         /\ Record(candidate, kind).inBar = candidate.inBar
         /\ Record(candidate, kind).pending = candidate.pending
<1>1. [candidate EXCEPT !.seq = 0, !.sha = 0] \in Sessions
  BY DEF Sessions
<1>2. /\ state.seq \in Nat /\ state.sha \in Nat /\ candidate.inBar \in BOOLEAN
      /\ candidate.pending \in Observations \cup {None} /\ candidate.candle \in Candles \cup {None}
      /\ candidate.halted \in BOOLEAN
  BY DEF Sessions
<1> DEFINE body == IF Complete(candidate) THEN [candidate EXCEPT !.seq = 0, !.sha = 0] ELSE None
<1>3. body \in Sessions \cup {None}
  BY <1>1
<1>4. Record(candidate, kind) =
        [seq |-> state.seq + 1, prev |-> state.sha, kind |-> kind,
         inBar |-> candidate.inBar, pending |-> candidate.pending,
         candle |-> candidate.candle, halted |-> candidate.halted, body |-> body]
  BY DEF Record
<1> HIDE DEF body
<1> QED BY <1>2, <1>3, <1>4 DEF StoredRecords

\* A content hash names its content (HashOf).
LEMMA HashType ==
  ASSUME store \in Seq(StoredRecords), NEW r
  PROVE  \/ HashOf(r) \in DOMAIN store /\ store[HashOf(r)] = r
         \/ HashOf(r) = Len(store) + 1
BY DEF HashOf

\* Storing a record keeps the store well typed (Stores).
LEMMA StoresType ==
  ASSUME store \in Seq(StoredRecords), NEW r \in StoredRecords, Stores(r)
  PROVE  /\ store' \in Seq(StoredRecords)
         /\ \/ HashOf(r) \in DOMAIN store /\ store[HashOf(r)] = r /\ store' = store
            \/ HashOf(r) = Len(store) + 1 /\ store' = Append(store, r)
<1>1. \/ HashOf(r) \in DOMAIN store /\ store[HashOf(r)] = r
      \/ HashOf(r) = Len(store) + 1
  BY HashType
<1>2. HashOf(r) = Len(store) + 1 => HashOf(r) \notin DOMAIN store
  OBVIOUS
<1> HIDE DEF HashOf
<1> QED BY <1>1, <1>2, AppendProperties DEF Stores

\* The store only grows, by the record that is written.
LEMMA StoreGrows ==
  ASSUME store \in Seq(StoredRecords), NEW r \in StoredRecords, Stores(r) \/ UNCHANGED store
  PROVE  \A h \in DOMAIN store' : (h \in DOMAIN store /\ store'[h] = store[h]) \/ store'[h] = r
<1>1. store' = store \/ store' = Append(store, r)
  BY StoresType
<1> QED BY <1>1, AppendProperties, LenProperties

\* What a record restores to is well typed (StateOf).
LEMMA StateOfType ==
  ASSUME store \in Seq(StoredRecords), NEW h \in DOMAIN store
  PROVE  StateOf(h) \in Sessions /\ StateOf(h).seq = store[h].seq /\ StateOf(h).sha = h
<1>1. store[h] \in StoredRecords /\ h \in Nat
  OBVIOUS
<1>2. [Genesis EXCEPT !.inBar = store[h].inBar, !.pending = store[h].pending] \in Sessions
  BY <1>1, GenesisType DEF StoredRecords, Sessions
<1>3. PICK s \in Sessions : s = IF store[h].body # None THEN store[h].body
            ELSE [Genesis EXCEPT !.inBar = store[h].inBar, !.pending = store[h].pending]
  BY <1>1, <1>2 DEF StoredRecords
<1>4. StateOf(h) = [s EXCEPT !.seq = store[h].seq, !.sha = h]
  BY <1>3 DEF StateOf
<1>5. store[h].seq \in Nat
  BY <1>1 DEF StoredRecords
<1> QED BY <1>1, <1>4, <1>5 DEF Sessions

\* A session that notes an observation is one.
LEMMA NotingType ==
  ASSUME NEW s \in Sessions, NEW ob \in Observations
  PROVE  [s EXCEPT !.pending = ob] \in Sessions
<1>1. ob \in Observations \cup {None}
  OBVIOUS
<1> QED BY <1>1, SMTT(30) DEF Sessions

\* Persisting a well-typed candidate keeps every type (Persist) ...
LEMMA PersistTypes ==
  ASSUME TypeOK, NEW candidate \in Sessions, NEW kind \in Kinds, NEW rest \in Seq(Calls),
         Persist(candidate, kind, rest), commands' \in 0..MaxCommands
  PROVE  TypeOK'
<1> DEFINE r == Record(candidate, kind)
<1>1. /\ store \in Seq(StoredRecords) /\ state \in Sessions /\ todo \in Seq(Calls)
      /\ failed \in BOOLEAN /\ fresh \in BOOLEAN
  BY DEF TypeOK
<1>2. r \in StoredRecords /\ r.seq \in Nat
  <2>1. r \in StoredRecords
    BY <1>1, RecordType
  <2> HIDE DEF r
  <2> QED BY <2>1 DEF StoredRecords
<1>3. /\ checkpoint' \in Sessions \cup {None} /\ loading' \in Sessions \cup {None}
      /\ crashes' \in 0..MaxCrashes
  BY DEF Persist, TypeOK
<1>4. CASE /\ Stores(r) /\ fresh' = FALSE /\ todo' = rest /\ UNCHANGED failed
           /\ state' = [candidate EXCEPT !.seq = r.seq, !.sha = HashOf(r)]
  <2>1. store' \in Seq(StoredRecords) /\ HashOf(r) \in Nat
    <3> HIDE DEF r
    <3>1. store' \in Seq(StoredRecords) /\ (HashOf(r) \in DOMAIN store \/ HashOf(r) = Len(store) + 1)
      BY <1>1, <1>2, <1>4, StoresType
    <3> QED BY <1>1, <3>1
  <2> HIDE DEF r
  <2>2. state' \in Sessions
    BY <1>2, <1>4, <2>1 DEF Sessions
  <2> QED BY <1>1, <1>3, <1>4, <2>1, <2>2 DEF TypeOK
<1>5. CASE /\ Stores(r) \/ UNCHANGED store
           /\ failed' = TRUE /\ todo' = <<>> /\ UNCHANGED <<state, fresh>>
  <2>1. store' \in Seq(StoredRecords)
    BY <1>1, <1>2, <1>5, StoresType
  <2>2. <<>> \in Seq(Calls)
    BY EmptySeq
  <2> HIDE DEF r
  <2> QED BY <1>1, <1>3, <1>5, <2>1, <2>2 DEF TypeOK
<1> QED BY <1>4, <1>5 DEF Persist

\* ... and so does noting an observation (Observe).
LEMMA ObserveTypes ==
  ASSUME TypeOK, NEW ob \in Observations, NEW rest \in Seq(Calls), Observe(ob, rest),
         commands' \in 0..MaxCommands
  PROVE  TypeOK'
<1>1. [state EXCEPT !.pending = ob] \in Sessions
  BY NotingType DEF TypeOK
<1>2. <<[op |-> "advance"]>> \o rest \in Seq(Calls)
  <2>1. [op |-> "advance"] \in Calls
    BY DEF Calls
  <2>2. <<[op |-> "advance"]>> \in Seq(Calls)
    BY <2>1, SomeCalls
  <2> QED BY <2>2, ConcatProperties
<1>3. PICK candidate \in Sessions, kind \in Kinds, calls \in Seq(Calls) :
         Persist(candidate, kind, calls)
  <2> DEFINE noted == [state EXCEPT !.pending = ob]
             after == <<[op |-> "advance"]>> \o rest
             received == "observation_received"
  <2>1. Persist(noted, received, after)
    BY DEF Observe
  <2>2. received \in Kinds
    BY DEF Kinds
  <2>3. noted \in Sessions
    BY <1>1, Zenon
  <2>4. after \in Seq(Calls)
    BY <1>2
  <2> HIDE DEF noted, after, received
  <2> QED BY <2>1, <2>2, <2>3, <2>4
<1> QED BY <1>3, PersistTypes

\* Quiet calls before any calls are calls.
LEMMA PushedCalls ==
  ASSUME NEW calls \in Seq(Quiet), NEW rest \in Seq(Calls)
  PROVE  calls \o rest \in Seq(Calls)
<1>1. calls \in Seq(Calls)
  BY SeqMonotonic DEF Quiet, Inner
<1> QED BY <1>1, ConcatProperties

\* The initial state is well typed.
LEMMA TypeInit == Init => TypeOK
<1> SUFFICES ASSUME Init PROVE TypeOK
  OBVIOUS
<1>1. store \in Seq(StoredRecords) /\ todo \in Seq(Calls)
  BY EmptySeq DEF Init
<1>2. commands \in 0..MaxCommands /\ crashes \in 0..MaxCrashes
  BY HostAssumption DEF Init
<1> QED BY <1>1, <1>2, GenesisType DEF Init, TypeOK

(* ---- The calls under way ------------------------------------------------ *)

\* An observation waits exactly while its reduction is the next call; the calls
\* that end a candle come last, and only while it is in progress.
Nested(calls, s) ==
  /\ s.pending # None <=> calls # <<>> /\ calls[1].op = "advance"
  /\ \A i \in DOMAIN calls : i > 1 => calls[i].op # "advance"
  /\ \A i \in DOMAIN calls :
       calls[i].op \in {"closedBar", "processed"} => i = Len(calls) /\ s.inBar

\* Calls are under way in a session that is neither latched nor restored only.
Control ==
  /\ todo # <<>> => ~failed /\ loading = None
  /\ ~failed => Nested(todo, state)

Inv == TypeOK /\ Control

\* Calls that neither reduce nor end a candle may be pushed at any point.
LEMMA NestedPush ==
  ASSUME NEW calls \in Seq(Inner), NEW rest \in Seq(Calls), NEW s, s.pending = None,
         \A i \in DOMAIN rest : rest[i].op # "advance",
         \A i \in DOMAIN rest :
           rest[i].op \in {"closedBar", "processed"} => i = Len(rest) /\ s.inBar
  PROVE  Nested(calls \o rest, s) /\ \A i \in DOMAIN (calls \o rest) : (calls \o rest)[i].op # "advance"
<1>1. calls \in Seq(Calls)
  BY SeqMonotonic DEF Inner
<1>2. PICK all \in Seq(Calls) :
        /\ all = calls \o rest /\ Len(all) = Len(calls) + Len(rest)
        /\ \A i \in 1..(Len(calls) + Len(rest)) :
             all[i] = IF i <= Len(calls) THEN calls[i] ELSE rest[i - Len(calls)]
  <2>1. /\ calls \o rest \in Seq(Calls) /\ Len(calls \o rest) = Len(calls) + Len(rest)
        /\ \A i \in 1..(Len(calls) + Len(rest)) :
             (calls \o rest)[i] = IF i <= Len(calls) THEN calls[i] ELSE rest[i - Len(calls)]
    BY <1>1, ConcatProperties
  <2> QED BY <2>1, Zenon
<1>3. /\ Len(calls) \in Nat /\ Len(rest) \in Nat
      /\ DOMAIN calls = 1..Len(calls) /\ DOMAIN rest = 1..Len(rest) /\ DOMAIN all = 1..Len(all)
  BY LenProperties
<1>4. \A i \in DOMAIN calls : calls[i].op \notin {"advance", "closedBar", "processed"}
  BY DEF Inner
<1>5. ASSUME NEW i \in DOMAIN all
      PROVE  /\ all[i].op # "advance"
             /\ all[i].op \in {"closedBar", "processed"} => i = Len(all) /\ s.inBar
  <2>1. CASE i <= Len(calls)
    <3>1. i \in DOMAIN calls /\ all[i] = calls[i]
      BY <1>2, <1>3, <2>1
    <3> QED BY <1>4, <3>1
  <2>2. CASE i > Len(calls)
    <3>1. PICK j \in DOMAIN rest : j = i - Len(calls) /\ all[i] = rest[j]
      BY <1>2, <1>3, <2>2
    <3>2. j = Len(rest) => i = Len(all)
      BY <1>2, <1>3, <3>1
    <3> QED BY <3>1, <3>2
  <2> QED BY <1>3, <2>1, <2>2
<1>6. all # <<>> => 1 \in DOMAIN all
  BY <1>3, EmptySeq
<1> QED BY <1>2, <1>5, <1>6 DEF Nested

\* The reduction of an observation is pushed when the observation is noted.
LEMMA NestedObserve ==
  ASSUME NEW rest \in Seq(Calls), NEW s, s.pending # None,
         \A i \in DOMAIN rest : rest[i].op # "advance",
         \A i \in DOMAIN rest :
           rest[i].op \in {"closedBar", "processed"} => i = Len(rest) /\ s.inBar
  PROVE  Nested(<<[op |-> "advance"]>> \o rest, s)
<1>1. PICK a \in Calls : a = [op |-> "advance"]
  BY DEF Calls
<1>2. PICK all \in Seq(Calls) :
        /\ all = <<a>> \o rest /\ Len(all) = 1 + Len(rest)
        /\ \A i \in 1..(1 + Len(rest)) : all[i] = IF i <= 1 THEN a ELSE rest[i - 1]
  <2>1. <<a>> \in Seq(Calls) /\ Len(<<a>>) = 1 /\ <<a>>[1] = a
    BY SomeCalls
  <2>2. /\ <<a>> \o rest \in Seq(Calls) /\ Len(<<a>> \o rest) = Len(<<a>>) + Len(rest)
        /\ \A i \in 1..(Len(<<a>>) + Len(rest)) :
             (<<a>> \o rest)[i] = IF i <= Len(<<a>>) THEN <<a>>[i] ELSE rest[i - Len(<<a>>)]
    BY <2>1, ConcatProperties
  <2>3. PICK all \in Seq(Calls) : all = <<a>> \o rest
    BY <2>2
  <2>4. \A i \in 1..(1 + Len(rest)) : all[i] = IF i <= 1 THEN a ELSE rest[i - 1]
    BY <2>1, <2>2, <2>3
  <2> QED BY <2>1, <2>2, <2>3, <2>4
<1>3. Len(rest) \in Nat /\ DOMAIN rest = 1..Len(rest) /\ DOMAIN all = 1..Len(all)
  BY LenProperties
<1>4. all # <<>> /\ all[1].op = "advance"
  BY <1>1, <1>2, <1>3, EmptySeq
<1>5. ASSUME NEW i \in DOMAIN all, i > 1
      PROVE  /\ all[i].op # "advance"
             /\ all[i].op \in {"closedBar", "processed"} => i = Len(all) /\ s.inBar
  <2>1. PICK j \in DOMAIN rest : j = i - 1 /\ all[i] = rest[j]
    BY <1>2, <1>3, <1>5
  <2> QED BY <1>2, <1>3, <2>1
<1>6. \A i \in DOMAIN all :
        all[i].op \in {"closedBar", "processed"} => i = Len(all) /\ s.inBar
  BY <1>1, <1>2, <1>3, <1>5
<1> QED BY <1>1, <1>2, <1>4, <1>5, <1>6 DEF Nested

\* What a call knows of the calls after it.
LEMMA NestedRest ==
  ASSUME TypeOK, Control, todo # <<>>
  PROVE  /\ ~failed /\ loading = None /\ Nested(todo, state)
         /\ Rest \in Seq(Calls)
         /\ state.pending # None <=> Call.op = "advance"
         /\ \A i \in DOMAIN Rest : Rest[i].op # "advance"
         /\ \A i \in DOMAIN Rest :
              Rest[i].op \in {"closedBar", "processed"} => i = Len(Rest) /\ state.inBar
         /\ Call.op \in {"closedBar", "processed"} => Rest = <<>> /\ state.inBar
<1>1. /\ Rest \in Seq(Calls) /\ Len(todo) \in Nat \ {0} /\ Len(Rest) = Len(todo) - 1
      /\ Call = todo[1] /\ \A i \in 1..Len(Rest) : Rest[i] = todo[i + 1]
      /\ DOMAIN todo = 1..Len(todo) /\ DOMAIN Rest = 1..Len(Rest)
  BY TopCall, LenProperties DEF TypeOK
<1>2. ~failed /\ loading = None /\ Nested(todo, state)
  BY DEF Control
<1>3. ASSUME NEW i \in DOMAIN Rest
      PROVE  /\ Rest[i].op # "advance"
             /\ Rest[i].op \in {"closedBar", "processed"} => i = Len(Rest) /\ state.inBar
  <2>1. i + 1 \in DOMAIN todo /\ i + 1 > 1 /\ Rest[i] = todo[i + 1]
    BY <1>1
  <2> QED BY <1>1, <1>2, <2>1 DEF Nested
<1>4. Call.op \in {"closedBar", "processed"} => Len(Rest) = 0 /\ state.inBar
  BY <1>1, <1>2 DEF Nested
<1>5. Len(Rest) = 0 => Rest = <<>>
  BY <1>1, EmptySeq
<1> QED BY <1>1, <1>2, <1>3, <1>4, <1>5 DEF Nested

\* Nothing is under way initially.
LEMMA ControlInit == Init => Control
BY DEF Init, Control, Nested, Genesis

\* A record moves on to the calls named, or latches the session.
LEMMA PersistControl ==
  ASSUME NEW candidate \in Sessions, NEW kind, NEW rest, Persist(candidate, kind, rest),
         Nested(rest, candidate)
  PROVE  Control'
<1>1. CASE failed' = TRUE /\ todo' = <<>>
  BY <1>1 DEF Control
<1>2. CASE /\ state' = [candidate EXCEPT !.seq = Record(candidate, kind).seq,
                                         !.sha = HashOf(Record(candidate, kind))]
           /\ todo' = rest
  <2>1. state'.pending = candidate.pending /\ state'.inBar = candidate.inBar
    BY <1>2 DEF Sessions
  <2>2. Nested(todo', state')
    BY <1>2, <2>1 DEF Nested
  <2>3. loading' = None /\ (todo' # <<>> => ~failed')
    BY DEF Persist
  <2> QED BY <2>2, <2>3 DEF Control
<1> QED BY <1>1, <1>2 DEF Persist

\* Noting an observation, with calls to follow it, keeps the invariant.
LEMMA ObserveKeeps ==
  ASSUME Inv, NEW ob \in Observations, NEW rest \in Seq(Calls), Observe(ob, rest),
         commands' \in 0..MaxCommands,
         \A i \in DOMAIN rest : rest[i].op # "advance",
         \A i \in DOMAIN rest :
           rest[i].op \in {"closedBar", "processed"} => i = Len(rest) /\ state.inBar
  PROVE  Inv'
<1> DEFINE noted == [state EXCEPT !.pending = ob]
<1>1. noted \in Sessions /\ noted.pending = ob /\ noted.inBar = state.inBar
  BY DEF Inv, TypeOK, Sessions
<1>2. ob # None
  BY NoneAssumption
<1>3. Persist(noted, "observation_received", <<[op |-> "advance"]>> \o rest)
  BY DEF Observe
<1> HIDE DEF noted
<1>4. Nested(<<[op |-> "advance"]>> \o rest, noted)
  BY <1>1, <1>2, NestedObserve
<1>5. Control'
  BY <1>1, <1>3, <1>4, PersistControl
<1> QED BY <1>5, ObserveTypes DEF Inv

\* A record that changes neither flag moves on to the calls after it.
LEMMA AnnotationKeeps ==
  ASSUME Inv, todo # <<>>, Call.op # "advance", NEW candidate \in Sessions, NEW kind \in Kinds,
         NEW calls \in Seq(Inner), Persist(candidate, kind, calls \o Rest), UNCHANGED commands,
         candidate.pending = state.pending, candidate.inBar = state.inBar
  PROVE  Inv'
<1>1. commands' \in 0..MaxCommands
  BY DEF Inv, TypeOK
<1>2. /\ Rest \in Seq(Calls) /\ candidate.pending = None
      /\ \A i \in DOMAIN Rest : Rest[i].op # "advance"
      /\ \A i \in DOMAIN Rest :
           Rest[i].op \in {"closedBar", "processed"} => i = Len(Rest) /\ candidate.inBar
  BY NestedRest DEF Inv
<1>3. Nested(calls \o Rest, candidate)
  BY <1>2, NestedPush
<1>4. calls \o Rest \in Seq(Calls)
  <2>1. calls \in Seq(Calls)
    BY SeqMonotonic DEF Inner
  <2> QED BY <1>2, <2>1, ConcatProperties
<1> QED BY <1>1, <1>3, <1>4, PersistTypes, PersistControl DEF Inv

\* The reduction of the pending observation keeps the invariant (Advance).
LEMMA AdvanceKeeps ==
  ASSUME Inv, Advance
  PROVE  Inv'
<1>1. /\ state \in Sessions /\ commands' = commands /\ commands \in 0..MaxCommands
      /\ todo # <<>> /\ Call.op = "advance"
  BY DEF Inv, TypeOK, Advance, Doing
<1>2. /\ state.pending # None /\ Rest \in Seq(Calls)
      /\ \A i \in DOMAIN Rest : Rest[i].op # "advance"
      /\ \A i \in DOMAIN Rest :
           Rest[i].op \in {"closedBar", "processed"} => i = Len(Rest) /\ state.inBar
  BY <1>1, NestedRest DEF Inv
<1>3. CASE /\ failed' = TRUE /\ todo' = <<>>
           /\ UNCHANGED <<store, state, fresh, checkpoint, loading, crashes>>
  BY <1>1, <1>3, EmptySeq DEF Inv, TypeOK, Control
<1>4. ASSUME NEW halt \in BOOLEAN,
             Persist([Reduce(state) EXCEPT !.halted = @ \/ halt], state.pending.kind, Rest)
      PROVE  Inv'
  <2>1. PICK reduced \in Sessions : reduced = Reduce(state)
    BY <1>1, <1>2, ReduceType
  <2>2. reduced.pending = None /\ reduced.inBar = state.inBar
    BY <1>1, <1>2, <2>1, ReduceKeeps
  <2>3. PICK candidate \in Sessions : candidate = [reduced EXCEPT !.halted = @ \/ halt]
    BY DEF Sessions
  <2>4. candidate.pending = None /\ candidate.inBar = state.inBar
    BY <2>2, <2>3 DEF Sessions
  <2>5. PICK kind \in Kinds : kind = state.pending.kind
    <3>1. state.pending \in Observations
      BY <1>1, <1>2 DEF Sessions
    <3>2. \A ob \in Observations : ob.kind \in Kinds
      BY DEF Observations, Kinds
    <3> QED BY <3>1, <3>2
  <2>6. Persist(candidate, kind, Rest)
    BY <1>4, <2>1, <2>3, <2>5
  <2>7. Nested(Rest, candidate)
    <3>1. Rest # <<>> => 1 \in DOMAIN Rest
      BY <1>2, EmptySeq, LenProperties
    <3> QED BY <1>2, <2>4, <3>1 DEF Nested
  <2> QED BY <1>1, <1>2, <2>6, <2>7, PersistTypes, PersistControl DEF Inv
<1> QED BY <1>1, <1>3, <1>4 DEF Advance

\* Every step of a call keeps the invariant.
LEMMA StepKeeps ==
  ASSUME Inv, Step
  PROVE  Inv'
<1>1. /\ state \in Sessions /\ commands \in 0..MaxCommands /\ todo \in Seq(Calls)
      /\ todo # <<>> =>
           /\ Call \in Calls /\ Rest \in Seq(Calls)
           /\ ~failed /\ loading = None
           /\ state.pending # None <=> Call.op = "advance"
           /\ \A i \in DOMAIN Rest : Rest[i].op # "advance"
           /\ \A i \in DOMAIN Rest :
                Rest[i].op \in {"closedBar", "processed"} => i = Len(Rest) /\ state.inBar
           /\ Call.op \in {"closedBar", "processed"} => Rest = <<>> /\ state.inBar
  BY TopCall, NestedRest DEF Inv, TypeOK
<1>2. ASSUME NEW calls \in Seq(Quiet), todo # <<>>
      PROVE  calls \in Seq(Inner) /\ calls \o Rest \in Seq(Calls)
  <2>1. calls \in Seq(Inner)
    BY SeqMonotonic DEF Quiet
  <2> QED BY <1>1, <1>2, <2>1, PushedCalls
<1>3. CASE Turning
  <2>1. PICK calls \in Seq(Quiet) : todo # <<>> /\ Call \in Quiet /\ Continue(calls)
    BY <1>3 DEF Turning
  <2>2. calls \o Rest \in Seq(Calls) /\ Nested(calls \o Rest, state)
    <3>1. state.pending = None
      BY <1>1, <2>1 DEF Quiet, Inner
    <3> QED BY <1>1, <1>2, <2>1, <3>1, NestedPush
  <2>3. todo' = calls \o Rest /\ UNCHANGED <<journalVars, commands, crashes>>
    BY <2>1 DEF Continue
  <2>4. TypeOK'
    BY <2>2, <2>3 DEF Inv, TypeOK, journalVars
  <2>5. Nested(todo', state')
    BY <2>2, <2>3 DEF journalVars
  <2>6. Control'
    BY <1>1, <2>1, <2>3, <2>5 DEF Control, journalVars
  <2> QED BY <2>4, <2>6 DEF Inv
<1>4. CASE Observing
  <2>1. PICK ob \in Observations, calls \in Seq(Quiet) :
               todo # <<>> /\ Call \in Quiet /\ Observe(ob, calls \o Rest) /\ UNCHANGED commands
    BY <1>4 DEF Observing
  <2>2. commands' \in 0..MaxCommands /\ state.pending = None
    BY <1>1, <2>1 DEF Quiet, Inner
  <2>3. /\ calls \o Rest \in Seq(Calls)
        /\ \A i \in DOMAIN (calls \o Rest) : (calls \o Rest)[i].op # "advance"
        /\ Nested(calls \o Rest, state)
    BY <1>1, <1>2, <2>1, <2>2, NestedPush
  <2>4. \A i \in DOMAIN (calls \o Rest) : (calls \o Rest)[i].op \in {"closedBar", "processed"}
          => i = Len(calls \o Rest) /\ state.inBar
    BY <2>3 DEF Nested
  <2>5. Observe(ob, calls \o Rest)
    BY <2>1
  <2> QED BY <2>2, <2>3, <2>4, <2>5, ObserveKeeps
<1>5. CASE Debiting
  <2>1. PICK e \in Events :
              /\ todo # <<>> /\ Call.op = "match" /\ commands' = commands
              /\ Persist([state EXCEPT !.used = @ + e.qty], "liquidity_allocation",
                         <<execution(e), drain>> \o Rest)
    BY <1>5 DEF Debiting, Doing
  <2>2. PICK candidate \in Sessions :
          /\ candidate = [state EXCEPT !.used = @ + e.qty]
          /\ candidate.pending = state.pending /\ candidate.inBar = state.inBar
    <3>1. PICK used \in Nat : used = state.used + e.qty
      BY <1>1 DEF Sessions, Events
    <3>2. [state EXCEPT !.used = used] \in Sessions
      BY <1>1 DEF Sessions
    <3>3. /\ [state EXCEPT !.used = used].pending = state.pending
          /\ [state EXCEPT !.used = used].inBar = state.inBar
      BY <1>1 DEF Sessions
    <3> QED BY <3>1, <3>2, <3>3
  <2>3. PICK calls \in Seq(Inner) : calls = <<execution(e), drain>>
    BY CallsAreQuiet, SomeCalls DEF Quiet, drain
  <2>4. Persist(candidate, "liquidity_allocation", calls \o Rest)
    BY <2>1, <2>2, <2>3
  <2>5. "liquidity_allocation" \in Kinds
    BY DEF Kinds
  <2> QED BY <2>1, <2>2, <2>4, <2>5, AnnotationKeeps
<1>6. CASE Execution
  <2>1. todo # <<>> /\ Call.op = "execution" /\ Call.event \in Events
    BY <1>1, <1>6, CallFields DEF Execution, Doing
  <2>2. PICK ob \in Observations : ob = [kind |-> "executions", event |-> Call.event]
    BY <2>1 DEF Observations
  <2>3. Observe(ob, Rest) /\ commands' \in 0..MaxCommands
    BY <1>1, <1>6, <2>2 DEF Execution
  <2> QED BY <1>1, <2>1, <2>3, ObserveKeeps
<1>7. CASE ClosedBar
  <2>1. todo # <<>> /\ Call.op = "closedBar" /\ Rest = <<>> /\ state.inBar
    BY <1>1, <1>7 DEF ClosedBar, Doing
  <2> DEFINE last == <<drain, [op |-> "processed"]>>
  <2>2. last \in Seq(Calls) /\ Len(last) = 2 /\ last[1].op = "drain" /\ last[2].op = "processed"
    BY DEF Calls, drain
  <2> HIDE DEF last
  <2>3. last \o Rest = last
    BY <2>1, <2>2, ConcatEmptySeq
  <2>4. PICK request \in Requests \cup {None} :
          Observe([kind |-> "closed_bar", request |-> request], last \o Rest) /\ commands' = commands
    BY <1>7 DEF ClosedBar, last
  <2>5. PICK ob \in Observations : ob = [kind |-> "closed_bar", request |-> request]
    BY DEF Observations
  <2>6. Observe(ob, last) /\ commands' \in 0..MaxCommands
    BY <1>1, <2>3, <2>4, <2>5
  <2>7. \A i \in DOMAIN last : i = 1 \/ i = 2
    BY <2>2
  <2>8. /\ \A i \in DOMAIN last : last[i].op # "advance"
        /\ \A i \in DOMAIN last : last[i].op \in {"closedBar", "processed"} => i = Len(last) /\ state.inBar
    BY <2>1, <2>2, <2>7
  <2> QED BY <2>2, <2>6, <2>8, ObserveKeeps
<1>8. CASE Processed
  <2>1. todo # <<>> /\ Call.op = "processed" /\ Rest = <<>> /\ state.inBar /\ state.pending = None
    BY <1>1, <1>8 DEF Processed, Doing
  <2>2. PICK candidate \in Sessions : candidate = [state EXCEPT !.inBar = FALSE]
    BY <1>1 DEF Sessions
  <2>3. Persist(candidate, "candle_processed", <<>>) /\ commands' \in 0..MaxCommands
    BY <1>1, <1>8, <2>1, <2>2 DEF Processed
  <2>4. candidate.pending = None
    BY <1>1, <2>1, <2>2 DEF Sessions
  <2>5. Nested(<<>>, candidate)
    BY <2>4 DEF Nested
  <2>6. "candle_processed" \in Kinds /\ <<>> \in Seq(Calls)
    BY EmptySeq DEF Kinds
  <2> QED BY <2>3, <2>5, <2>6, PersistTypes, PersistControl DEF Inv
<1>9. ASSUME Doing("stopReference") \/ Doing("endOfData"), NEW candidate \in Sessions, NEW kind \in Kinds,
             Persist(candidate, kind, Rest), UNCHANGED commands,
             candidate.pending = state.pending, candidate.inBar = state.inBar
      PROVE  Inv'
  <2>1. todo # <<>> /\ Call.op # "advance"
    BY <1>9 DEF Doing
  <2>2. <<>> \in Seq(Inner) /\ <<>> \o Rest = Rest
    BY <1>1, <2>1, EmptySeq, ConcatEmptySeq
  <2>3. PICK calls \in Seq(Inner) : calls \o Rest = Rest
    BY <2>2
  <2>4. Persist(candidate, kind, calls \o Rest)
    BY <1>9, <2>3
  <2> QED BY <1>9, <2>1, <2>4, AnnotationKeeps
<1>10. CASE StopReference
  <2>1. PICK candidate \in Sessions : candidate = [state EXCEPT !.stopBar = state.bar]
    BY <1>1 DEF Sessions
  <2>2. candidate.pending = state.pending /\ candidate.inBar = state.inBar
    BY <1>1, <2>1 DEF Sessions
  <2>3. "stop_reference_consumed" \in Kinds
    BY DEF Kinds
  <2> QED BY <1>9, <1>10, <2>1, <2>2, <2>3 DEF StopReference
<1>11. CASE EndOfData
  <2>1. PICK candidate \in Sessions : candidate = [state EXCEPT !.finished = TRUE]
    BY <1>1 DEF Sessions
  <2>2. candidate.pending = state.pending /\ candidate.inBar = state.inBar
    BY <1>1, <2>1 DEF Sessions
  <2>3. "end_of_data" \in Kinds
    BY DEF Kinds
  <2> QED BY <1>9, <1>11, <2>1, <2>2, <2>3 DEF EndOfData
<1> QED BY StepShapes, AdvanceKeeps, <1>3, <1>4, <1>5, <1>6, <1>7, <1>8, <1>10, <1>11 DEF Inv

\* The state a candle begins with (OnCandle).
LEMMA StartedType ==
  ASSUME state \in Sessions, state.pending = None, NEW c \in Candles
  PROVE  LET started == [state EXCEPT !.bar = @ + 1, !.inBar = TRUE, !.candle = c,
                                      !.allowance = c.v, !.used = 0, !.tape = <<>>]
         IN  /\ started \in Sessions /\ started.pending = None /\ started.inBar
             /\ started.allowance = c.v /\ started.used = 0 /\ started.tape = <<>> /\ c.v \in Nat
<1> DEFINE started == [state EXCEPT !.bar = @ + 1, !.inBar = TRUE, !.candle = c,
                                    !.allowance = c.v, !.used = 0, !.tape = <<>>]
<1>1. c.v \in Nat
  BY HostAssumption
<1>2. PICK bar \in Nat : bar = state.bar + 1
  BY DEF Sessions
<1>3. PICK a \in Sessions : /\ a = [state EXCEPT !.bar = bar, !.inBar = TRUE, !.candle = c]
                            /\ a.pending = None /\ a.inBar
  <2>1. [state EXCEPT !.bar = bar, !.inBar = TRUE, !.candle = c] \in Sessions
    BY DEF Sessions
  <2>2. /\ [state EXCEPT !.bar = bar, !.inBar = TRUE, !.candle = c].pending = None
        /\ [state EXCEPT !.bar = bar, !.inBar = TRUE, !.candle = c].inBar
    BY DEF Sessions
  <2> QED BY <2>1, <2>2
<1>4. PICK b \in Sessions : /\ b = [a EXCEPT !.allowance = c.v, !.used = 0, !.tape = <<>>]
                            /\ b.pending = None /\ b.inBar
                            /\ b.allowance = c.v /\ b.used = 0 /\ b.tape = <<>>
  <2>1. [a EXCEPT !.allowance = c.v, !.used = 0, !.tape = <<>>] \in Sessions
    <3>1. <<>> \in Seq(Events)
      BY EmptySeq
    <3>2. [a EXCEPT !.allowance = c.v, !.used = 0] \in Sessions
      <4>1. PICK v \in Nat : v = c.v
        BY <1>1
      <4>2. [[a EXCEPT !.allowance = v] EXCEPT !.used = 0] \in Sessions
        BY SessionUpdates
      <4>3. [[a EXCEPT !.allowance = v] EXCEPT !.used = 0] = [a EXCEPT !.allowance = v, !.used = 0]
        BY DEF Sessions
      <4> QED BY <4>1, <4>2, <4>3
    <3>3. [a EXCEPT !.allowance = c.v, !.used = 0, !.tape = <<>>] =
            [[a EXCEPT !.allowance = c.v, !.used = 0] EXCEPT !.tape = <<>>]
      BY DEF Sessions
    <3> QED BY <3>1, <3>2, <3>3, SessionUpdates
  <2>2. /\ [a EXCEPT !.allowance = c.v, !.used = 0, !.tape = <<>>].pending = None
        /\ [a EXCEPT !.allowance = c.v, !.used = 0, !.tape = <<>>].inBar
    BY <1>3 DEF Sessions
  <2>3. /\ [a EXCEPT !.allowance = c.v, !.used = 0, !.tape = <<>>].allowance = c.v
        /\ [a EXCEPT !.allowance = c.v, !.used = 0, !.tape = <<>>].used = 0
        /\ [a EXCEPT !.allowance = c.v, !.used = 0, !.tape = <<>>].tape = <<>>
    BY DEF Sessions
  <2> QED BY <2>1, <2>2, <2>3
<1>5. started = b
  BY <1>2, <1>3, <1>4 DEF Sessions
<1> QED BY <1>1, <1>4, <1>5

\* The calls of a candle: its path, and the close and the end of the bar after it.
LEMMA CandleCalls ==
  ASSUME NEW c \in Candles
  PROVE  \E path \in Seq(Quiet), end \in Seq(Calls) :
           /\ <<[op |-> "expire"], drain>> \o Walk(c) \o <<price(c.c), [op |-> "closedBar"]>>
                = path \o end
           /\ Len(end) = 2 /\ end[1].op = "price" /\ end[2].op = "closedBar"
<1>1. /\ c.o \in Nat /\ c.l \in Nat /\ c.h \in Nat /\ c.c \in Nat
  BY HostAssumption
<1>2. PICK begin \in Seq(Quiet) : begin = <<[op |-> "expire"], drain>>
  BY CallsAreQuiet, SomeCalls DEF drain
<1>3. PICK walk \in Seq(Quiet) : walk = Walk(c)
  <2>1. /\ point(c.o, "open", TRUE) \in Quiet /\ leg(c.o, c.l, "descending") \in Quiet
        /\ leg(c.l, c.h, "ascending") \in Quiet /\ leg(c.h, c.c, "close") \in Quiet
    BY <1>1, CallsAreQuiet DEF Phases
  <2>2. \A a1, a2, a3, a4 \in Quiet : <<a1, a2, a3, a4>> \in Seq(Quiet)
    OBVIOUS
  <2>3. Walk(c) \in Seq(Quiet)
    BY <2>1, <2>2 DEF Walk
  <2> QED BY <2>3
<1>4. PICK end \in Seq(Calls) :
        /\ end = <<price(c.c), [op |-> "closedBar"]>>
        /\ Len(end) = 2 /\ end[1].op = "price" /\ end[2].op = "closedBar"
  <2>1. PICK a \in Calls : a = price(c.c) /\ a.op = "price"
    <3>1. price(c.c) \in Calls
      BY <1>1 DEF Calls, price
    <3>2. price(c.c).op = "price"
      BY DEF price
    <3> QED BY <3>1, <3>2
  <2>2. PICK b \in Calls : b = [op |-> "closedBar"] /\ b.op = "closedBar"
    <3>1. [op |-> "closedBar"] \in Calls
      BY DEF Calls
    <3>2. [op |-> "closedBar"].op = "closedBar"
      OBVIOUS
    <3> QED BY <3>1, <3>2
  <2>3. <<a, b>> \in Seq(Calls) /\ Len(<<a, b>>) = 2 /\ <<a, b>>[1] = a /\ <<a, b>>[2] = b
    OBVIOUS
  <2> QED BY <2>1, <2>2, <2>3
<1>5. PICK path \in Seq(Quiet) : path = begin \o walk
  BY ConcatProperties
<1> QED BY <1>2, <1>3, <1>4, <1>5

\* A candle keeps the invariant (OnCandle).
LEMMA OnCandleKeeps ==
  ASSUME Inv, NEW c \in Candles, OnCandle(c)
  PROVE  Inv'
<1>1. /\ state \in Sessions /\ commands' \in 0..MaxCommands
      /\ ~failed /\ todo = <<>> /\ ~state.inBar
  BY DEF Inv, TypeOK, OnCandle, Idle, Persist
<1>2. state.pending = None
  BY <1>1 DEF Inv, Control, Nested
<1>3. PICK started \in Sessions :
        /\ started = [state EXCEPT !.bar = @ + 1, !.inBar = TRUE, !.candle = c,
                                   !.allowance = c.v, !.used = 0, !.tape = <<>>]
        /\ started.pending = None /\ started.inBar
  BY <1>1, <1>2, StartedType
<1>4. PICK path \in Seq(Quiet), end \in Seq(Calls) :
        /\ Persist(started, "candle_received", path \o end)
        /\ Len(end) = 2 /\ end[1].op = "price" /\ end[2].op = "closedBar"
  BY <1>3, CandleCalls DEF OnCandle
<1>5. path \in Seq(Inner) /\ path \o end \in Seq(Calls)
  <2>1. path \in Seq(Inner)
    BY SeqMonotonic DEF Quiet
  <2> QED BY <2>1, PushedCalls
<1>6. Nested(path \o end, started)
  <2>1. \A i \in DOMAIN end : i = 1 \/ i = 2
    BY <1>4
  <2>2. /\ \A i \in DOMAIN end : end[i].op # "advance"
        /\ \A i \in DOMAIN end : end[i].op \in {"closedBar", "processed"} => i = Len(end) /\ started.inBar
    BY <1>3, <1>4, <2>1
  <2> QED BY <1>3, <1>5, <2>2, NestedPush
<1>7. "candle_received" \in Kinds
  BY DEF Kinds
<1> QED BY <1>1, <1>4, <1>5, <1>6, <1>7, PersistTypes, PersistControl DEF Inv

\* A command and the end of the feed note an observation, with calls to follow.
LEMMA CommandCalls ==
  ASSUME Inv, Finish \/ \E action \in Actions : Command(action)
  PROVE  \E ob \in Observations, calls \in Seq(Quiet) :
           /\ ob.kind = "command" /\ Observe(ob, calls)
           /\ commands' \in 0..MaxCommands /\ todo = <<>>
<1>1. CASE Finish
  <2>1. PICK ob \in Observations : ob = [kind |-> "command", action |-> EndPolicy]
    BY HostAssumption DEF Observations
  <2>2. PICK calls \in Seq(Quiet) : calls = <<drain, [op |-> "flattenRest"], [op |-> "endOfData"]>>
    BY CallsAreQuiet, SomeCalls DEF drain
  <2>3. Observe(ob, calls) /\ commands' \in 0..MaxCommands /\ todo = <<>>
    BY <1>1, <2>1, <2>2 DEF Finish, Idle, Inv, TypeOK
  <2> QED BY <2>1, <2>3
<1>2. ASSUME NEW action \in Actions, Command(action)
      PROVE  \E ob \in Observations, calls \in Seq(Quiet) :
               /\ ob.kind = "command" /\ Observe(ob, calls)
               /\ commands' \in 0..MaxCommands /\ todo = <<>>
  <2>1. PICK ob \in Observations : ob = [kind |-> "command", action |-> action]
    BY DEF Observations
  <2>2. PICK calls \in Seq(Quiet) : calls = <<drain>>
    BY CallsAreQuiet, SomeCalls DEF drain
  <2>3. commands' \in 0..MaxCommands /\ todo = <<>>
    BY <1>2, HostAssumption DEF Command, Idle, Inv, TypeOK
  <2>4. Observe(ob, calls)
    BY <1>2, <2>1, <2>2 DEF Command
  <2> QED BY <2>1, <2>3, <2>4
<1> QED BY <1>1, <1>2

\* So does a command, and the end of the feed (Command, Finish) ...
LEMMA CommandKeeps ==
  ASSUME Inv, Finish \/ \E action \in Actions : Command(action)
  PROVE  Inv'
<1>1. PICK ob \in Observations, calls \in Seq(Quiet) :
        Observe(ob, calls) /\ commands' \in 0..MaxCommands /\ todo = <<>>
  BY CommandCalls
<1>2. calls \in Seq(Calls) /\ \A i \in DOMAIN calls : calls[i].op \notin {"advance", "closedBar", "processed"}
  BY SeqMonotonic DEF Quiet, Inner
<1> QED BY <1>1, <1>2, ObserveKeeps

\* ... and every export, crash and step of a restore.
LEMMA RestoreKeeps ==
  ASSUME Inv, \/ ExportState \/ Crash \/ RestoreBegin \/ RestoreEnd
              \/ \E h \in DOMAIN store : RestoreRecord(h)
  PROVE  Inv'
<1>1. CASE ExportState
  BY <1>1 DEF ExportState, Inv, TypeOK, Control
<1>2. CASE Crash
  <2>1. crashes' \in 0..MaxCrashes
    BY <1>2, HostAssumption DEF Crash, Inv, TypeOK
  <2>2. todo' \in Seq(Calls) /\ state' \in Sessions
    BY <1>2, GenesisType, EmptySeq DEF Crash
  <2>3. TypeOK'
    BY <1>2, <2>1, <2>2 DEF Crash, Inv, TypeOK
  <2>4. Control'
    BY <1>2 DEF Crash, Control, Nested, Genesis
  <2> QED BY <2>3, <2>4 DEF Inv
<1>3. CASE RestoreBegin
  BY <1>3 DEF RestoreBegin, Idle, Inv, TypeOK, Control
<1>4. ASSUME NEW h \in DOMAIN store, RestoreRecord(h)
      PROVE  Inv'
  <2>1. StateOf(h) \in Sessions
    BY StateOfType DEF Inv, TypeOK
  <2>2. loading' \in Sessions \cup {None}
    BY <1>4, <2>1 DEF RestoreRecord
  <2>3. todo = <<>>
    BY <1>4 DEF RestoreRecord, Inv, Control
  <2> QED BY <1>4, <2>2, <2>3 DEF RestoreRecord, Inv, TypeOK, Control
<1>5. CASE RestoreEnd
  <2>1. todo = <<>> /\ loading \in Sessions
    BY <1>5 DEF RestoreEnd, Inv, TypeOK, Control
  <2>2. CASE Complete(loading)
    <3>1. state' = loading /\ fresh' = FALSE
      BY <1>5, <2>2 DEF RestoreEnd
    <3>2. TypeOK'
      BY <1>5, <2>1, <3>1 DEF RestoreEnd, Inv, TypeOK
    <3>3. Nested(todo', state')
      BY <1>5, <2>1, <2>2, <3>1 DEF RestoreEnd, Complete, Nested
    <3> QED BY <1>5, <2>1, <3>2, <3>3 DEF RestoreEnd, Inv, Control
  <2>3. CASE ~Complete(loading)
    BY <1>5, <2>1, <2>3 DEF RestoreEnd, Inv, TypeOK, Control
  <2> QED BY <2>2, <2>3
<1> QED BY <1>1, <1>2, <1>3, <1>4, <1>5

\* The invariant is inductive.
LEMMA InvStep ==
  ASSUME Inv, [Next]_vars
  PROVE  Inv'
<1>1. CASE UNCHANGED vars
  BY <1>1 DEF vars, journalVars, Inv, TypeOK, Control, Nested
<1> QED BY <1>1, StepKeeps, OnCandleKeeps, CommandKeeps, RestoreKeeps DEF Next, Host

\* In every reachable state of the session, with calls nested to any depth, types are
\* correct, an observation waits exactly while its reduction is the next call, the end of
\* a candle is the last of the calls, and a latched or restoring session makes none.
THEOREM Invariant == Spec => []Inv
<1>1. Init => Inv
  BY TypeInit, ControlInit DEF Inv
<1> QED BY <1>1, InvStep, PTL DEF Spec

\* Type correctness: every record, state, checkpoint and call the session can reach
\* belongs to its type; in particular no volume, fill or price ever turns negative.
THEOREM TypeCorrect == Spec => []TypeOK
<1>1. Inv => TypeOK
  BY DEF Inv
<1> QED BY <1>1, Invariant, PTL

(* ---- Terminal actions --------------------------------------------------- *)

\* A terminal action counts, unless the session waits for reconciliation.
Frozen(s) == s.terminal # None /\ ~s.halted

\* The close exists only to flatten; the other orders are gone or being canceled.
Sane(s) ==
  /\ Exists(s, Close) => s.terminal = "stop_and_flatten"
  /\ Frozen(s) => \A k \in Orders \ {Close} :
                    s.orders[k].status \in {"absent", "cancel_pending"} \cup TERMINAL

\* The cancels are acknowledged.
Settled(s) == Frozen(s) => \A k \in Orders \ {Close} : ~Open(s, k)

\* An event of the close, of an order that may still trade, or the end of an order.
Fits(s, e) ==
  /\ e.key = Close => Exists(s, Close)
  /\ Frozen(s) => e.key = Close \/ (e.qty = 0 /\ e.status \in TERMINAL)

\* The calls that match orders or lead to it; each comes after an acknowledgement.
Trading == {"point", "sort", "sells", "buys", "bought", "leg", "match", "flattenRest"}
Drained(calls) ==
  \A i \in DOMAIN calls : calls[i].op \in Trading => \E j \in 1..(i - 1) : calls[j].op = "drain"

\* The observations that can lead to a terminal action.
Deciding == {"price", "command", "closed_bar"}

\* A match or an execution is the next call or none.
OnTop(calls) == \A i \in DOMAIN calls : calls[i].op \in {"match", "execution"} => i = 1

\* Where an observation waits or a fill is next, it fits the orders ...
Fitting(s, calls) ==
  /\ s.pending # None => /\ s.pending.kind = "executions" => Fits(s, s.pending.event)
                         /\ s.pending.kind \in Deciding => Drained(calls)
  /\ OnTop(calls)
  /\ calls # <<>> /\ calls[1].op = "match" => Open(s, calls[1].key)
  /\ calls # <<>> /\ calls[1].op = "execution" => Fits(s, calls[1].event)

\* ... and nothing is matched between a terminal action and the acknowledgement of
\* its cancels, in this session or in one restored from what this one has kept.
Gates ==
  /\ Sane(state)
  /\ Settled(state) \/ Drained(todo)
  /\ Fitting(state, todo)
  /\ checkpoint # None => Sane(checkpoint)
  /\ loading # None => Sane(loading)
  /\ \A h \in DOMAIN store : store[h].body # None => Sane(store[h].body)

\* Requesting cancels changes no filled quantity, and the status of open orders only
\* (RequestCancels).
LEMMA RequestCancelsOrders ==
  ASSUME NEW s \in Sessions, NEW K
  PROVE  LET t == RequestCancels(s, K)
         IN  /\ t.terminal = s.terminal /\ t.halted = s.halted
             /\ \A k \in Orders :
                  /\ t.orders[k].filled = s.orders[k].filled
                  /\ t.orders[k].status = IF k \in K /\ Open(s, k) THEN "cancel_pending"
                                          ELSE s.orders[k].status
<1>1. s.orders \in [Orders -> OrderStates]
  BY DEF Sessions
<1>2. PICK f \in [Orders -> OrderStates] :
        \A k \in Orders : f[k] = IF k \in K /\ Open(s, k)
                                 THEN [s.orders[k] EXCEPT !.status = "cancel_pending"]
                                 ELSE s.orders[k]
  <2>1. \A o \in OrderStates : [o EXCEPT !.status = "cancel_pending"] \in OrderStates
    BY DEF OrderStates, Statuses
  <2>2. [k \in Orders |-> IF k \in K /\ Open(s, k)
                          THEN [s.orders[k] EXCEPT !.status = "cancel_pending"]
                          ELSE s.orders[k]] \in [Orders -> OrderStates]
    BY <1>1, <2>1
  <2> QED BY <2>2
<1>3. f = [k \in Orders |-> IF k \in K /\ Open(s, k)
                            THEN [s.orders[k] EXCEPT !.status = "cancel_pending"]
                            ELSE s.orders[k]]
  BY <1>2
<1>4. RequestCancels(s, K) = [s EXCEPT !.orders = f]
  BY <1>3 DEF RequestCancels
<1>5. /\ [s EXCEPT !.orders = f].terminal = s.terminal /\ [s EXCEPT !.orders = f].halted = s.halted
      /\ [s EXCEPT !.orders = f].orders = f
  BY DEF Sessions
<1>6. \A o \in OrderStates : /\ [o EXCEPT !.status = "cancel_pending"].filled = o.filled
                             /\ [o EXCEPT !.status = "cancel_pending"].status = "cancel_pending"
  BY DEF OrderStates
<1>7. ASSUME NEW k \in Orders
      PROVE  /\ f[k].filled = s.orders[k].filled
             /\ f[k].status = IF k \in K /\ Open(s, k) THEN "cancel_pending" ELSE s.orders[k].status
  <2>1. s.orders[k] \in OrderStates
    BY <1>1
  <2> QED BY <1>2, <1>6, <2>1
<1> QED BY <1>4, <1>5, <1>7

\* A state with the same terminal action and the same status of every order.
LEMMA SameOrders ==
  ASSUME NEW s, NEW t, t.terminal = s.terminal, t.halted = s.halted,
         \A k \in Orders : t.orders[k].status = s.orders[k].status
  PROVE  /\ Sane(s) => Sane(t)
         /\ Settled(s) => Settled(t)
         /\ \A k \in Orders : Open(t, k) <=> Open(s, k)
         /\ \A e : e.key \in Orders /\ Fits(s, e) => Fits(t, e)
<1>1. \A k \in Orders : (Exists(t, k) <=> Exists(s, k)) /\ (Open(t, k) <=> Open(s, k))
  BY DEF Exists, Open
<1>2. Close \in Orders
  BY DEF Orders
<1>3. Frozen(t) <=> Frozen(s)
  BY DEF Frozen
<1>4. Sane(s) => Sane(t)
  BY <1>1, <1>2, <1>3 DEF Sane
<1>5. Settled(s) => Settled(t)
  BY <1>1, <1>3 DEF Settled
<1>6. \A e : e.key \in Orders /\ Fits(s, e) => Fits(t, e)
  BY <1>1, <1>3 DEF Fits
<1> QED BY <1>1, <1>4, <1>5, <1>6

\* A terminal action requests the cancel of every order that is open (Terminate).
LEMMA TerminateSane ==
  ASSUME NEW s \in Sessions, NEW action \in Actions, NEW why \in {"stop", "command", "graph"},
         Sane(s)
  PROVE  LET t == Terminate(s, action, why)
         IN  /\ Sane(t) /\ t.halted = s.halted
             /\ s.terminal # None => t = s
<1>1. CASE s.terminal # None
  BY <1>1 DEF Terminate
<1>2. CASE s.terminal = None
  <2>1. PICK u \in Sessions : u = [s EXCEPT !.terminal = action, !.reason = why]
    BY DEF Sessions
  <2>2. u.terminal = action /\ u.halted = s.halted /\ u.orders = s.orders
    BY <2>1 DEF Sessions
  <2>3. PICK t \in Sessions : t = RequestCancels(u, Orders)
    BY RequestCancelsType
  <2>4. /\ t.terminal = action /\ t.halted = s.halted
        /\ \A k \in Orders :
             t.orders[k].status = IF Open(u, k) THEN "cancel_pending" ELSE s.orders[k].status
    BY <2>2, <2>3, RequestCancelsOrders
  <2>5. \A k \in Orders : Open(u, k) \/ s.orders[k].status \in {"absent"} \cup TERMINAL
    BY <2>2 DEF Open, Exists
  <2>6. ~Exists(s, Close)
    <3>1. "stop_and_flatten" # None
      BY NoneAssumption DEF Actions
    <3> QED BY <1>2, <3>1 DEF Sane
  <2>7. Close \in Orders /\ s.orders[Close].status = "absent"
    BY <2>6 DEF Orders, Exists
  <2>8. ~Exists(t, Close)
    <3>1. ~Open(u, Close)
      BY <2>2, <2>7 DEF Open, Exists
    <3> QED BY <2>4, <2>7, <3>1 DEF Exists
  <2>9. Sane(t)
    BY <2>4, <2>5, <2>8 DEF Sane
  <2> QED BY <1>2, <2>1, <2>3, <2>4, <2>9 DEF Terminate
<1> QED BY <1>1, <1>2

\* Replacing the target changes no order once a terminal action is taken, and
\* never places the close.
LEMMA RetargetSane ==
  ASSUME NEW s \in Sessions, Sane(s)
  PROVE  LET t == Retarget(s)
         IN  /\ Sane(t) /\ t.halted = s.halted /\ t.terminal = s.terminal
             /\ Settled(s) => Settled(t)
             /\ s.terminal # None => t = s
<1>1. CASE s.terminal # None
  BY <1>1 DEF Retarget
<1>2. CASE s.terminal = None
  <2>1. ~Frozen(s) /\ ~Exists(s, Close)
    <3>1. "stop_and_flatten" # None
      BY NoneAssumption DEF Actions
    <3> QED BY <1>2, <3>1 DEF Sane, Frozen
  <2>2. \A t : t.terminal = None /\ ~Exists(t, Close) => Sane(t) /\ Settled(t)
    BY DEF Sane, Settled, Frozen
  <2> DEFINE working == {k \in Targets : Open(s, k)}
             unused == {k \in Targets : ~Exists(s, k)}
             place == [s EXCEPT !.orders[Min(unused)] = NewOrder(s, TargetLimit, s.base, s.bar + 1)]
  <2>3. \/ Retarget(s) = s \/ Retarget(s) = RequestCancels(s, working)
        \/ unused # {} /\ Retarget(s) = place
    BY <1>2 DEF Retarget
  <2>4. Close \in Orders /\ s.orders[Close].status = "absent"
    BY <2>1 DEF Orders, Exists
  <2>5. CASE Retarget(s) = RequestCancels(s, working)
    <3>1. PICK t : t = Retarget(s)
      OBVIOUS
    <3>2. t.terminal = s.terminal /\ t.halted = s.halted /\ t.orders[Close].status = "absent"
      <4>1. ~Open(s, Close)
        BY <2>1 DEF Open
      <4> HIDE DEF working
      <4> QED BY <2>4, <2>5, <3>1, <4>1, RequestCancelsOrders
    <3>3. ~Exists(t, Close)
      BY <3>2 DEF Exists
    <3> QED BY <1>2, <2>2, <3>1, <3>2, <3>3
  <2>6. CASE unused # {} /\ Retarget(s) = place
    <3>1. PICK m : m = Min(unused) /\ m \in Targets
      BY <2>6, MinOfNaturals, RecipeAssumption
    <3>2. m \in Orders /\ m # Close
      BY <3>1, RecipeAssumption DEF Orders
    <3>3. PICK o : o = NewOrder(s, TargetLimit, s.base, s.bar + 1)
      OBVIOUS
    <3>4. PICK t : t = [s EXCEPT !.orders[m] = o]
      OBVIOUS
    <3>5. t = Retarget(s)
      BY <2>6, <3>1, <3>3, <3>4
    <3>6. t.terminal = s.terminal /\ t.halted = s.halted /\ t.orders[Close] = s.orders[Close]
      BY <2>4, <3>2, <3>4 DEF Sessions
    <3>7. ~Exists(t, Close)
      BY <2>4, <3>6 DEF Exists
    <3> QED BY <1>2, <2>2, <3>5, <3>6, <3>7
  <2> QED BY <1>2, <2>3, <2>5, <2>6
<1> QED BY <1>1, <1>2

\* The replacement close of a flatten is the only order placed after a terminal action.
LEMMA ContainSane ==
  ASSUME NEW s \in Sessions, Sane(s)
  PROVE  LET t == Contain(s)
         IN  /\ Sane(t) /\ t.halted = s.halted /\ t.terminal = s.terminal
             /\ Settled(s) => Settled(t)
             /\ \A k \in Orders : t.orders[k] = s.orders[k]
                                  \/ (k = Close /\ s.terminal = "stop_and_flatten")
<1>1. CASE Contain(s) = s
  <2>1. PICK t : t = s
    OBVIOUS
  <2>2. t = Contain(s)
    BY <1>1, <2>1
  <2>3. /\ Sane(t) /\ t.halted = s.halted /\ t.terminal = s.terminal
        /\ Settled(s) => Settled(t)
    BY <2>1
  <2>4. \A k \in Orders : t.orders[k] = s.orders[k] \/ (k = Close /\ s.terminal = "stop_and_flatten")
    BY <2>1
  <2> QED BY <2>2, <2>3, <2>4
<1>2. CASE Contain(s) # s
  <2>1. PICK o : o = NewOrder(s, Market, s.base, s.bar)
    OBVIOUS
  <2>2. PICK t : t = [s EXCEPT !.orders[Close] = o]
    OBVIOUS
  <2>3. t = Contain(s) /\ s.terminal = "stop_and_flatten"
    BY <1>2, <2>1, <2>2 DEF Contain
  <2>4. /\ t.terminal = s.terminal /\ t.halted = s.halted
        /\ \A k \in Orders \ {Close} : t.orders[k] = s.orders[k]
    BY <2>2 DEF Sessions
  <2>5. Sane(t) /\ (Settled(s) => Settled(t))
    BY <2>3, <2>4 DEF Sane, Settled, Frozen, Open, Exists
  <2> QED BY <2>3, <2>4, <2>5
<1> QED BY <1>1, <1>2

\* One event: it changes the order it names.
LEMMA ExecuteOrders ==
  ASSUME NEW s \in Sessions, NEW e \in Events
  PROVE  LET t == Execute(s, e)
         IN  /\ t.terminal = s.terminal /\ t.halted = s.halted
             /\ \A k \in Orders \ {e.key} : t.orders[k] = s.orders[k]
             /\ t.orders[e.key].status = e.status
             /\ t.orders[e.key].filled = s.orders[e.key].filled + e.qty
<1>1. s.orders \in [Orders -> OrderStates] /\ e.key \in Orders
  BY DEF Sessions, Events
<1>2. PICK o \in OrderStates : o = s.orders[e.key]
  BY <1>1
<1>3. PICK n : n = [o EXCEPT !.status = e.status, !.filled = @ + e.qty,
                             !.acc = IF e.status = "accepted" THEN s.accepted + 1 ELSE @]
  OBVIOUS
<1>4. n.status = e.status /\ n.filled = o.filled + e.qty
  BY <1>3 DEF OrderStates
<1>5. PICK t : t = Execute(s, e)
  OBVIOUS
<1>6. t.terminal = s.terminal /\ t.halted = s.halted /\ t.orders = [s.orders EXCEPT ![e.key] = n]
  BY <1>2, <1>3, <1>5 DEF Execute, Sessions
<1> QED BY <1>1, <1>2, <1>4, <1>5, <1>6

\* A start places entries, before any terminal action (Start).
LEMMA StartOrders ==
  ASSUME NEW s \in Sessions
  PROVE  LET t == Start(s)
         IN  /\ t.terminal = s.terminal /\ t.halted = s.halted
             /\ t.orders[Close] = s.orders[Close]
             /\ s.terminal # None => t = s
<1>1. CASE s.terminal # None \/ \E k \in Orders : Exists(s, k)
  BY <1>1 DEF Start
<1>2. CASE ~(s.terminal # None \/ \E k \in Orders : Exists(s, k))
  <2>1. PICK f : f = [k \in Orders |-> IF k \in Entries
                                       THEN NewOrder(s, EntryLimit[k], EntryQty[k], s.bar + 1)
                                       ELSE s.orders[k]]
    OBVIOUS
  <2>2. PICK t : t = [s EXCEPT !.orders = f]
    OBVIOUS
  <2>3. t = Start(s)
    BY <1>2, <2>1, <2>2 DEF Start, Sessions
  <2>4. t.terminal = s.terminal /\ t.halted = s.halted /\ t.orders = f
    BY <2>2 DEF Sessions
  <2>5. f[Close] = s.orders[Close]
    BY <2>1, RecipeAssumption DEF Orders
  <2> QED BY <1>2, <2>3, <2>4, <2>5
<1> QED BY <1>1, <1>2

\* What the engine decides, first half: only a price, a command or a request can be
\* terminal, and the orders are gone or being canceled as soon as one is.
LEMMA DecideSane ==
  ASSUME NEW s \in Sessions, NEW ob \in Observations, Sane(s),
         ob.kind = "executions" => Fits(s, ob.event)
  PROVE  LET t == Decide(s, ob)
         IN  /\ Sane(t) /\ t.halted = s.halted
             /\ ob.kind \notin Deciding => /\ t.terminal = s.terminal
                                           /\ Settled(s) => Settled(t)
             /\ s.terminal # None => t.terminal = s.terminal
             /\ Frozen(s) => \A k \in Orders :
                               \/ t.orders[k].filled = s.orders[k].filled
                               \/ (k = Close /\ s.terminal = "stop_and_flatten")
<1>1. ob.kind \in {"price", "command", "closed_bar", "executions", "reconciliation"}
  BY DEF Observations
<1>2. CASE ob.kind = "price"
  <2>1. ob.price \in Nat
    BY <1>2 DEF Observations
  <2>2. PICK m \in Sessions : m = [s EXCEPT !.mark = ob.price]
    BY <2>1 DEF Sessions
  <2>3. m.terminal = s.terminal /\ m.halted = s.halted /\ m.orders = s.orders
    BY <2>2 DEF Sessions
  <2>4. Sane(m)
    BY <2>3, SameOrders
  <2>5. PICK t : t = Decide(s, ob) /\ (t = m \/ t = Terminate(m, "stop_and_flatten", "stop"))
    BY <1>2, <2>2 DEF Decide
  <2>6. "stop_and_flatten" \in Actions
    BY DEF Actions
  <2>7. Sane(t) /\ t.halted = s.halted /\ (s.terminal # None => t = m)
    BY <2>3, <2>4, <2>5, <2>6, TerminateSane
  <2> QED BY <1>2, <2>3, <2>5, <2>7 DEF Deciding, Frozen
<1>3. CASE ob.kind = "command"
  <2>1. PICK action \in Actions : action = ob.action
    BY <1>3 DEF Observations
  <2>2. PICK t : t = Decide(s, ob) /\ t = Terminate(s, action, "command")
    BY <1>3, <2>1 DEF Decide
  <2>3. Sane(t) /\ t.halted = s.halted /\ (s.terminal # None => t = s)
    BY <2>2, TerminateSane
  <2> QED BY <1>3, <2>2, <2>3 DEF Deciding, Frozen
<1>4. CASE ob.kind = "closed_bar"
  <2>1. ob.request \in Requests \cup {None}
    BY <1>4 DEF Observations
  <2>2. PICK t : t = Decide(s, ob)
    OBVIOUS
  <2>3. \/ t = s \/ t = Start(s)
        \/ ob.request \in Actions /\ t = Terminate(s, ob.request, "graph")
    BY <1>4, <2>1, <2>2, HostAssumption DEF Decide
  <2>4. CASE t = s
    BY <1>4, <2>2, <2>4 DEF Deciding
  <2>5. CASE t = Start(s)
    <3>1. t.terminal = s.terminal /\ t.halted = s.halted /\ t.orders[Close] = s.orders[Close]
          /\ (s.terminal # None => t = s)
      BY <2>5, StartOrders
    <3>2. s.terminal = None => Sane(t)
      BY <3>1 DEF Sane, Frozen, Exists
    <3> QED BY <1>4, <2>2, <3>1, <3>2 DEF Deciding, Frozen
  <2>6. CASE ob.request \in Actions /\ t = Terminate(s, ob.request, "graph")
    <3>1. Sane(t) /\ t.halted = s.halted /\ (s.terminal # None => t = s)
      BY <2>6, TerminateSane
    <3> QED BY <1>4, <2>2, <3>1 DEF Deciding, Frozen
  <2> QED BY <2>3, <2>4, <2>5, <2>6
<1>5. CASE ob.kind = "executions"
  <2>1. PICK e \in Events : e = ob.event /\ Fits(s, e)
    BY <1>5 DEF Observations
  <2>2. PICK t : t = Decide(s, ob) /\ t = Execute(s, e)
    BY <1>5, <2>1 DEF Decide
  <2>3. /\ t.terminal = s.terminal /\ t.halted = s.halted
        /\ \A k \in Orders \ {e.key} : t.orders[k] = s.orders[k]
        /\ t.orders[e.key].status = e.status
        /\ t.orders[e.key].filled = s.orders[e.key].filled + e.qty
    BY <2>2, ExecuteOrders
  <2>4. Close \in Orders /\ e.key \in Orders
    BY DEF Orders, Events
  <2>5. Exists(t, Close) => Exists(s, Close)
    <3>1. CASE e.key = Close
      BY <2>1, <3>1 DEF Fits
    <3>2. CASE e.key # Close
      BY <2>3, <2>4, <3>2 DEF Exists
    <3> QED BY <3>1, <3>2
  <2>6. ASSUME Frozen(t), NEW k \in Orders \ {Close}
        PROVE  /\ t.orders[k].status \in {"absent", "cancel_pending"} \cup TERMINAL
               /\ Open(t, k) => Open(s, k)
    <3>1. Frozen(s)
      BY <2>3, <2>6 DEF Frozen
    <3>2. CASE k = e.key
      <4>1. t.orders[k].status \in TERMINAL
        BY <2>1, <2>3, <2>6, <3>1, <3>2 DEF Fits
      <4> QED BY <4>1 DEF Open
    <3>3. CASE k # e.key
      BY <2>3, <3>1, <3>3 DEF Sane, Open, Exists
    <3> QED BY <3>2, <3>3
  <2>7. Sane(t) /\ (Settled(s) => Settled(t))
    BY <2>3, <2>5, <2>6 DEF Sane, Settled, Frozen
  <2>8. ASSUME Frozen(s), NEW k \in Orders
        PROVE  \/ t.orders[k].filled = s.orders[k].filled
               \/ (k = Close /\ s.terminal = "stop_and_flatten")
    <3>1. CASE k # e.key
      BY <2>3, <3>1
    <3>2. CASE k = e.key /\ e.qty = 0
      <4>1. s.orders[k].filled \in Nat
        BY DEF Sessions, OrderStates
      <4> QED BY <2>3, <3>2, <4>1
    <3>3. CASE k = e.key /\ k = Close
      BY <2>1, <3>3 DEF Fits, Sane
    <3> QED BY <2>1, <2>8, <3>1, <3>2, <3>3 DEF Fits
  <2> QED BY <2>2, <2>3, <2>7, <2>8
<1>6. CASE ob.kind = "reconciliation"
  <2>1. s.orders \in [Orders -> OrderStates]
    BY DEF Sessions
  <2>2. PICK f : /\ f = [k \in Orders |-> IF s.orders[k].status \in TERMINAL
                                          THEN [s.orders[k] EXCEPT !.reconciled = TRUE]
                                          ELSE s.orders[k]]
                 /\ Decide(s, ob) = [s EXCEPT !.orders = f]
    BY <1>6 DEF Decide
  <2>3. PICK t : t = Decide(s, ob) /\ t.terminal = s.terminal /\ t.halted = s.halted /\ t.orders = f
    BY <2>2 DEF Sessions
  <2>4. \A o \in OrderStates : /\ [o EXCEPT !.reconciled = TRUE].status = o.status
                               /\ [o EXCEPT !.reconciled = TRUE].filled = o.filled
    BY DEF OrderStates
  <2>5. \A k \in Orders : f[k].status = s.orders[k].status /\ f[k].filled = s.orders[k].filled
    BY <2>1, <2>2, <2>4
  <2>6. Sane(t) /\ (Settled(s) => Settled(t))
    BY <2>3, <2>5, SameOrders
  <2> QED BY <2>3, <2>5, <2>6
<1> QED BY <1>1, <1>2, <1>3, <1>4, <1>5, <1>6

\* A reduction keeps the orders sane; only a deciding observation leaves cancels to be
\* acknowledged; and after a terminal action nothing is filled but a flattening close.
LEMMA ReduceSane ==
  ASSUME NEW s \in Sessions, s.pending # None, Sane(s),
         s.pending.kind = "executions" => Fits(s, s.pending.event)
  PROVE  LET t == Reduce(s)
         IN  /\ Sane(t) /\ t.halted = s.halted
             /\ s.pending.kind \notin Deciding => (Settled(s) => Settled(t))
             /\ Frozen(s) => \A k \in Orders :
                               \/ t.orders[k].filled = s.orders[k].filled
                               \/ (k = Close /\ s.terminal = "stop_and_flatten")
<1>1. PICK ob \in Observations : ob = s.pending
  BY DEF Sessions
<1>2. PICK m \in Sessions : m = [s EXCEPT !.pending = None]
  BY DEF Sessions
<1>3. m.terminal = s.terminal /\ m.halted = s.halted /\ m.orders = s.orders
  BY <1>2 DEF Sessions
<1>4. ob.kind = "executions" => ob.event \in Events /\ ob.event.key \in Orders
  BY DEF Observations, Events
<1>5. Sane(m) /\ (Settled(s) => Settled(m)) /\ (ob.kind = "executions" => Fits(m, ob.event))
  BY <1>1, <1>3, <1>4, SameOrders
<1>6. PICK d \in Sessions : d = Decide(m, ob)
  BY DecideType
<1>7. /\ Sane(d) /\ d.halted = m.halted
      /\ ob.kind \notin Deciding => /\ d.terminal = m.terminal
                                    /\ Settled(m) => Settled(d)
      /\ m.terminal # None => d.terminal = m.terminal
      /\ Frozen(m) => \A k \in Orders :
                        \/ d.orders[k].filled = m.orders[k].filled
                        \/ (k = Close /\ m.terminal = "stop_and_flatten")
  BY <1>5, <1>6, DecideSane
<1>8. PICK r \in Sessions : r = Retarget(d)
  BY RetargetType
<1>9. /\ Sane(r) /\ r.halted = d.halted /\ r.terminal = d.terminal
      /\ Settled(d) => Settled(r)
      /\ d.terminal # None => r = d
  BY <1>7, <1>8, RetargetSane
<1>10. PICK t : t = Contain(r)
  OBVIOUS
<1>11. /\ Sane(t) /\ t.halted = r.halted /\ t.terminal = r.terminal
       /\ Settled(r) => Settled(t)
       /\ \A k \in Orders : t.orders[k] = r.orders[k]
                            \/ (k = Close /\ r.terminal = "stop_and_flatten")
  BY <1>9, <1>10, ContainSane
<1>12. t = Reduce(s)
  BY <1>1, <1>2, <1>6, <1>8, <1>10 DEF Reduce
<1>13. ASSUME Frozen(s), NEW k \in Orders
       PROVE  \/ t.orders[k].filled = s.orders[k].filled
              \/ (k = Close /\ s.terminal = "stop_and_flatten")
  <2>1. Frozen(m) /\ d.terminal = s.terminal /\ r = d
    BY <1>3, <1>7, <1>9, <1>13 DEF Frozen
  <2> QED BY <1>3, <1>7, <1>11, <2>1
<1>14. t.halted = s.halted
  BY <1>3, <1>7, <1>9, <1>11
<1>15. ob.kind \notin Deciding => (Settled(s) => Settled(t))
  BY <1>5, <1>7, <1>9, <1>11
<1> QED BY <1>1, <1>11, <1>12, <1>13, <1>14, <1>15

(* ---- Calls that match, and calls that acknowledge ------------------------ *)

\* Calls none of which is a match or an execution; calls none of which leads to a match.
Beneath(calls) == \A i \in DOMAIN calls : calls[i].op \notin {"match", "execution"}
Untrading(calls) == \A i \in DOMAIN calls : calls[i].op \notin Trading

\* Calls before others: no match below the top, and drained if either part is.
LEMMA CallsBefore ==
  ASSUME NEW S, NEW a \in Seq(S), NEW b \in Seq(Calls)
  PROVE  /\ a # <<>> => a \o b # <<>> /\ (a \o b)[1] = a[1]
         /\ OnTop(a) /\ Beneath(b) => OnTop(a \o b)
         /\ Beneath(a) /\ Beneath(b) => Beneath(a \o b)
         /\ Untrading(a) /\ (Drained(b) \/ \E j \in DOMAIN a : a[j].op = "drain") => Drained(a \o b)
<1>1. PICK all \in Seq(S \cup Calls) :
        /\ all = a \o b /\ Len(all) = Len(a) + Len(b)
        /\ \A i \in 1..(Len(a) + Len(b)) : all[i] = IF i <= Len(a) THEN a[i] ELSE b[i - Len(a)]
  <2>1. a \in Seq(S \cup Calls) /\ b \in Seq(S \cup Calls)
    BY SeqMonotonic
  <2>2. /\ a \o b \in Seq(S \cup Calls) /\ Len(a \o b) = Len(a) + Len(b)
        /\ \A i \in 1..(Len(a) + Len(b)) : (a \o b)[i] = IF i <= Len(a) THEN a[i] ELSE b[i - Len(a)]
    BY <2>1, ConcatProperties
  <2> QED BY <2>2, Zenon
<1>2. /\ Len(a) \in Nat /\ Len(b) \in Nat
      /\ DOMAIN a = 1..Len(a) /\ DOMAIN b = 1..Len(b) /\ DOMAIN all = 1..Len(all)
  BY LenProperties
<1>3. ASSUME NEW i \in DOMAIN all
      PROVE  \/ i \in DOMAIN a /\ all[i] = a[i]
             \/ i > Len(a) /\ i - Len(a) \in DOMAIN b /\ all[i] = b[i - Len(a)]
  BY <1>1, <1>2
<1>4. a # <<>> => all # <<>> /\ all[1] = a[1] /\ Len(a) >= 1
  <2>1. a # <<>> => Len(a) # 0
    BY EmptySeq
  <2>2. Len(all) # 0 => all # <<>>
    BY EmptySeq
  <2> QED BY <1>1, <1>2, <2>1, <2>2
<1>5. OnTop(a) /\ Beneath(b) => OnTop(all)
  BY <1>3 DEF OnTop, Beneath
<1>6. Beneath(a) /\ Beneath(b) => Beneath(all)
  BY <1>3 DEF Beneath
<1>7. ASSUME Untrading(a), Drained(b) \/ \E j \in DOMAIN a : a[j].op = "drain",
             NEW i \in DOMAIN all, all[i].op \in Trading
      PROVE  \E j \in 1..(i - 1) : all[j].op = "drain"
  <2>1. i > Len(a) /\ i - Len(a) \in DOMAIN b /\ all[i] = b[i - Len(a)]
    BY <1>3, <1>7 DEF Untrading
  <2>2. CASE \E j \in DOMAIN a : a[j].op = "drain"
    <3>1. PICK j \in DOMAIN a : a[j].op = "drain"
      BY <2>2
    <3>2. j \in 1..(i - 1) /\ all[j] = a[j]
      BY <1>1, <1>2, <2>1
    <3> QED BY <3>1, <3>2
  <2>3. CASE Drained(b)
    <3>1. PICK j \in 1..(i - Len(a) - 1) : b[j].op = "drain"
      BY <1>7, <2>1, <2>3 DEF Drained
    <3>2. j + Len(a) \in 1..(i - 1) /\ all[j + Len(a)] = b[j]
      BY <1>1, <1>2, <2>1
    <3> QED BY <3>1, <3>2
  <2> QED BY <1>7, <2>2, <2>3
<1> QED BY <1>1, <1>4, <1>5, <1>6, <1>7 DEF Drained

\* The calls after the next one.
LEMMA CallsAfter ==
  ASSUME todo \in Seq(Calls), todo # <<>>
  PROVE  /\ Rest \in Seq(Calls)
         /\ OnTop(todo) => Beneath(Rest)
         /\ Drained(todo) => Call.op \notin Trading /\ (Call.op # "drain" => Drained(Rest))
<1>1. /\ Rest \in Seq(Calls) /\ Len(todo) \in Nat \ {0} /\ Len(Rest) = Len(todo) - 1
      /\ Call = todo[1] /\ \A i \in 1..Len(Rest) : Rest[i] = todo[i + 1]
      /\ DOMAIN todo = 1..Len(todo) /\ DOMAIN Rest = 1..Len(Rest)
  BY TopCall, LenProperties
<1>2. OnTop(todo) => Beneath(Rest)
  <2> SUFFICES ASSUME OnTop(todo), NEW i \in DOMAIN Rest
               PROVE  Rest[i].op \notin {"match", "execution"}
    BY DEF Beneath
  <2>1. i + 1 \in DOMAIN todo /\ i + 1 # 1 /\ Rest[i] = todo[i + 1]
    BY <1>1
  <2> QED BY <2>1 DEF OnTop
<1>3. Drained(todo) => Call.op \notin Trading
  <2> SUFFICES ASSUME Drained(todo), Call.op \in Trading PROVE FALSE
    OBVIOUS
  <2>1. \E j \in 1..(1 - 1) : todo[j].op = "drain"
    BY <1>1 DEF Drained
  <2> QED BY <2>1
<1>4. ASSUME Drained(todo), Call.op # "drain", NEW i \in DOMAIN Rest, Rest[i].op \in Trading
      PROVE  \E j \in 1..(i - 1) : Rest[j].op = "drain"
  <2>1. i + 1 \in DOMAIN todo /\ todo[i + 1] = Rest[i]
    BY <1>1
  <2>2. PICK j \in 1..((i + 1) - 1) : todo[j].op = "drain"
    BY <1>4, <2>1 DEF Drained
  <2>3. j # 1
    BY <1>1, <1>4, <2>2
  <2>4. j - 1 \in 1..(i - 1) /\ j - 1 \in 1..Len(Rest)
    BY <1>1, <2>2, <2>3
  <2>5. Rest[j - 1] = todo[j]
    BY <1>1, <2>2, <2>4
  <2> QED BY <2>2, <2>4, <2>5
<1> QED BY <1>1, <1>2, <1>3, <1>4 DEF Drained

\* A record whose candidate and calls pass the gates keeps them.
LEMMA GatesPersist ==
  ASSUME Inv, Gates, NEW candidate \in Sessions, NEW kind \in Kinds, NEW rest \in Seq(Calls),
         Persist(candidate, kind, rest), Sane(candidate), Settled(candidate) \/ Drained(rest),
         Fitting(candidate, rest)
  PROVE  Gates'
<1>1. PICK r \in StoredRecords :
        /\ r = Record(candidate, kind)
        /\ r.body # None => r.body = [candidate EXCEPT !.seq = 0, !.sha = 0]
  <2>1. PICK r \in StoredRecords : r = Record(candidate, kind)
    BY RecordType DEF Inv, TypeOK
  <2>2. r.body # None => r.body = [candidate EXCEPT !.seq = 0, !.sha = 0]
    BY <2>1 DEF Record
  <2> QED BY <2>1, <2>2
<1>2. ASSUME NEW n, NEW h
      PROVE  LET s == [candidate EXCEPT !.seq = n, !.sha = h]
             IN  /\ s.terminal = candidate.terminal /\ s.halted = candidate.halted
                 /\ s.orders = candidate.orders /\ s.pending = candidate.pending
  BY DEF Sessions
<1>3. r.body # None => Sane(r.body)
  <2>1. PICK s : s = [candidate EXCEPT !.seq = 0, !.sha = 0]
    OBVIOUS
  <2>2. s.terminal = candidate.terminal /\ s.halted = candidate.halted /\ s.orders = candidate.orders
    BY <1>2, <2>1
  <2>3. Sane(s)
    BY <2>2, SameOrders
  <2> QED BY <1>1, <2>1, <2>3
<1>4. \A h \in DOMAIN store' : store'[h].body # None => Sane(store'[h].body)
  <2>1. Stores(r) \/ UNCHANGED store
    BY <1>1 DEF Persist
  <2>2. \A h \in DOMAIN store' : (h \in DOMAIN store /\ store'[h] = store[h]) \/ store'[h] = r
    BY <2>1, StoreGrows DEF Inv, TypeOK
  <2> QED BY <1>3, <2>2 DEF Gates
<1>5. checkpoint' = checkpoint /\ loading' = loading
  BY DEF Persist
<1>6. Sane(state') /\ (Settled(state') \/ Drained(todo')) /\ Fitting(state', todo')
  <2>1. CASE state' = [candidate EXCEPT !.seq = r.seq, !.sha = HashOf(r)] /\ todo' = rest
    <3>1. /\ state'.terminal = candidate.terminal /\ state'.halted = candidate.halted
          /\ state'.orders = candidate.orders /\ state'.pending = candidate.pending
      BY <1>2, <2>1
    <3>2. /\ Sane(state') /\ (Settled(candidate) => Settled(state'))
          /\ \A k \in Orders : Open(state', k) <=> Open(candidate, k)
          /\ \A e : e.key \in Orders /\ Fits(candidate, e) => Fits(state', e)
      BY <3>1, SameOrders
    <3>3. /\ state'.pending # None /\ state'.pending.kind = "executions" =>
               state'.pending.event.key \in Orders
          /\ rest # <<>> => /\ rest[1].op = "match" => rest[1].key \in Orders
                            /\ rest[1].op = "execution" => rest[1].event.key \in Orders
      <4>1. candidate.pending # None => candidate.pending \in Observations
        BY DEF Sessions
      <4>2. rest # <<>> => rest[1] \in Calls
        BY EmptySeq, LenProperties
      <4>3. \A e \in Events : e.key \in Orders
        BY DEF Events
      <4>4. \A o \in Observations : o.kind = "executions" => o.event \in Events
        BY DEF Observations
      <4> QED BY <3>1, <4>1, <4>2, <4>3, <4>4, CallFields
    <3>4. Fitting(state', rest)
      BY <3>1, <3>2, <3>3 DEF Fitting
    <3> QED BY <2>1, <3>2, <3>4
  <2>2. CASE state' = state /\ todo' = <<>>
    <3>1. Drained(todo') /\ OnTop(todo')
      BY <2>2 DEF Drained, OnTop
    <3>2. Fitting(state', todo')
      BY <2>2, <3>1 DEF Gates, Fitting
    <3> QED BY <2>2, <3>1, <3>2 DEF Gates
  <2> QED BY <1>1, <2>1, <2>2 DEF Persist
<1> QED BY <1>4, <1>5, <1>6 DEF Gates

\* Noting an observation that fits, before an acknowledgement if it can be terminal.
LEMMA GatesObserve ==
  ASSUME Inv, Gates, NEW ob \in Observations, NEW rest \in Seq(Calls), Observe(ob, rest),
         Beneath(rest), Settled(state) \/ Drained(rest),
         ob.kind = "executions" => Fits(state, ob.event),
         ob.kind \in Deciding => Drained(rest)
  PROVE  Gates'
<1>1. PICK candidate \in Sessions :
        /\ candidate = [state EXCEPT !.pending = ob]
        /\ candidate.pending = ob /\ candidate.orders = state.orders
        /\ candidate.terminal = state.terminal /\ candidate.halted = state.halted
  <2>1. state \in Sessions
    BY DEF Inv, TypeOK
  <2>2. [state EXCEPT !.pending = ob] \in Sessions
    BY <2>1, NotingType
  <2>3. /\ [state EXCEPT !.pending = ob].pending = ob
        /\ [state EXCEPT !.pending = ob].orders = state.orders
        /\ [state EXCEPT !.pending = ob].terminal = state.terminal
        /\ [state EXCEPT !.pending = ob].halted = state.halted
    BY <2>1 DEF Sessions
  <2> QED BY <2>2, <2>3
<1>2. PICK top \in Seq(Calls) : /\ top = <<[op |-> "advance"]>> /\ top # <<>> /\ top[1].op = "advance"
                                /\ Beneath(top) /\ OnTop(top) /\ Untrading(top)
  <2>1. PICK c \in Calls : c = [op |-> "advance"] /\ c.op = "advance"
    <3>1. [op |-> "advance"] \in Calls
      BY DEF Calls
    <3>2. [op |-> "advance"].op = "advance"
      OBVIOUS
    <3> QED BY <3>1, <3>2
  <2>2. <<c>> \in Seq(Calls) /\ <<c>> # <<>> /\ <<c>>[1] = c /\ \A i \in DOMAIN <<c>> : <<c>>[i] = c
    OBVIOUS
  <2> QED BY <2>1, <2>2 DEF Beneath, OnTop, Untrading, Trading
<1>3. PICK all \in Seq(Calls) : /\ all = top \o rest /\ all # <<>> /\ all[1].op = "advance"
                                /\ OnTop(all) /\ (Drained(rest) => Drained(all))
  <2>1. top \o rest \in Seq(Calls)
    BY ConcatProperties
  <2> QED BY <1>2, <2>1, CallsBefore
<1>4. Persist(candidate, "observation_received", all)
  BY <1>1, <1>2, <1>3 DEF Observe
<1>5. "observation_received" \in Kinds
  BY DEF Kinds
<1>6. /\ Sane(candidate) /\ (Settled(state) => Settled(candidate))
      /\ \A e : e.key \in Orders /\ Fits(state, e) => Fits(candidate, e)
  BY <1>1, SameOrders DEF Gates
<1>7. ob.kind = "executions" => Fits(candidate, ob.event)
  <2>1. ob.kind = "executions" => ob.event.key \in Orders
    BY DEF Observations, Events
  <2> QED BY <1>6, <2>1
<1>8. Fitting(candidate, all)
  BY <1>1, <1>3, <1>7 DEF Fitting
<1>9. Settled(candidate) \/ Drained(all)
  BY <1>3, <1>6
<1> QED BY <1>4, <1>5, <1>6, <1>8, <1>9, GatesPersist

\* Calls before others keep what waits and what is next fitting.
LEMMA FittingBefore ==
  ASSUME NEW s, s.pending = None, NEW S, NEW calls \in Seq(S), NEW rest \in Seq(Calls),
         OnTop(calls), Beneath(rest),
         calls # <<>> => /\ calls[1].op = "match" => Open(s, calls[1].key)
                         /\ calls[1].op = "execution" => Fits(s, calls[1].event)
  PROVE  Fitting(s, calls \o rest)
<1>1. OnTop(calls \o rest)
  BY CallsBefore
<1>2. CASE calls = <<>>
  <2>1. calls \o rest = rest
    BY <1>2, ConcatEmptySeq
  <2>2. rest # <<>> => rest[1].op \notin {"match", "execution"}
    <3>1. rest # <<>> => 1 \in DOMAIN rest
      BY EmptySeq, LenProperties
    <3> QED BY <3>1 DEF Beneath
  <2> QED BY <1>1, <2>1, <2>2 DEF Fitting
<1>3. CASE calls # <<>>
  <2>1. calls \o rest # <<>> /\ (calls \o rest)[1] = calls[1]
    BY <1>3, CallsBefore
  <2>2. PICK all : all = calls \o rest
    OBVIOUS
  <2>3. Fitting(s, all)
    BY <1>1, <1>3, <2>1, <2>2 DEF Fitting
  <2> QED BY <2>2, <2>3
<1> QED BY <1>2, <1>3

\* Control moves on, to a match of an order that is open or an execution that fits.
LEMMA GatesContinue ==
  ASSUME Inv, Gates, todo # <<>>, Call.op # "advance", NEW S, NEW calls \in Seq(S), Continue(calls),
         OnTop(calls),
         calls # <<>> => /\ calls[1].op = "match" => Open(state, calls[1].key)
                         /\ calls[1].op = "execution" => Fits(state, calls[1].event),
         Settled(state) \/ Drained(calls \o Rest)
  PROVE  Gates'
<1>1. todo' = calls \o Rest /\ UNCHANGED <<store, state, checkpoint, loading>>
  BY DEF Continue, journalVars
<1>2. todo \in Seq(Calls) /\ state.pending = None /\ Rest \in Seq(Calls) /\ Beneath(Rest)
  BY NestedRest, CallsAfter DEF Inv, TypeOK, Gates, Fitting
<1>3. PICK all : all = calls \o Rest
  OBVIOUS
<1>4. Fitting(state, all) /\ (Settled(state) \/ Drained(all))
  BY <1>2, <1>3, FittingBefore
<1> QED BY <1>1, <1>3, <1>4 DEF Gates

\* The reduction: after a terminal action the next call acknowledges its cancels.
LEMMA GatesAdvance ==
  ASSUME Inv, Gates, Advance
  PROVE  Gates'
<1>1. /\ state \in Sessions /\ todo \in Seq(Calls) /\ todo # <<>> /\ Call.op = "advance"
  BY DEF Inv, TypeOK, Advance, Doing
<1>2. state.pending # None
  BY <1>1, NestedRest DEF Inv
<1>3. /\ Rest \in Seq(Calls) /\ Beneath(Rest) /\ (Drained(todo) => Drained(Rest))
  BY <1>1, CallsAfter DEF Gates, Fitting
<1>4. ASSUME failed' = TRUE, todo' = <<>>,
             UNCHANGED <<store, state, fresh, checkpoint, loading, crashes>>
      PROVE  Gates'
  <2>1. Drained(todo') /\ OnTop(todo')
    BY <1>4 DEF Drained, OnTop
  <2>2. Fitting(state', todo')
    BY <1>4, <2>1 DEF Gates, Fitting
  <2> QED BY <1>4, <2>1, <2>2 DEF Gates
<1>5. ASSUME NEW halt \in BOOLEAN,
             Persist([Reduce(state) EXCEPT !.halted = @ \/ halt], state.pending.kind, Rest)
      PROVE  Gates'
  <2>1. PICK reduced \in Sessions : reduced = Reduce(state)
    BY <1>1, <1>2, ReduceType
  <2>2. /\ Sane(reduced) /\ reduced.pending = None
        /\ state.pending.kind \notin Deciding => (Settled(state) => Settled(reduced))
    BY <1>1, <1>2, <2>1, ReduceSane, ReduceKeeps DEF Gates, Fitting
  <2>3. PICK halted \in BOOLEAN : halted = (reduced.halted \/ halt)
    OBVIOUS
  <2>4. PICK candidate \in Sessions : candidate = [reduced EXCEPT !.halted = halted]
    BY DEF Sessions
  <2>5. candidate = [reduced EXCEPT !.halted = @ \/ halt]
    BY <2>3, <2>4
  <2>6. /\ candidate.pending = None /\ candidate.orders = reduced.orders
        /\ candidate.terminal = reduced.terminal /\ candidate.halted = halted
    BY <2>2, <2>4 DEF Sessions
  <2>7. PICK kind \in Kinds : kind = state.pending.kind
    <3>1. state.pending \in Observations
      BY <1>1, <1>2 DEF Sessions
    <3>2. \A ob \in Observations : ob.kind \in Kinds
      BY DEF Observations, Kinds
    <3> QED BY <3>1, <3>2
  <2>8. Persist(candidate, kind, Rest)
    BY <1>5, <2>1, <2>5, <2>7
  <2>9. Frozen(candidate) => Frozen(reduced)
    BY <2>3, <2>6 DEF Frozen
  <2>10. Sane(candidate) /\ (Settled(reduced) => Settled(candidate))
    BY <2>2, <2>6, <2>9 DEF Sane, Settled, Open, Exists
  <2>11. Settled(candidate) \/ Drained(Rest)
    <3>1. CASE kind \in Deciding
      BY <1>2, <1>3, <2>7, <3>1 DEF Gates, Fitting
    <3>2. CASE kind \notin Deciding
      BY <1>3, <2>2, <2>7, <2>10, <3>2 DEF Gates
    <3> QED BY <3>1, <3>2
  <2>12. Fitting(candidate, Rest)
    <3>1. Rest # <<>> => Rest[1].op \notin {"match", "execution"}
      <4>1. Rest # <<>> => 1 \in DOMAIN Rest
        BY <1>3, EmptySeq, LenProperties
      <4> QED BY <1>3, <4>1 DEF Beneath
    <3>2. OnTop(Rest)
      BY <1>3 DEF OnTop, Beneath
    <3> QED BY <2>6, <3>1, <3>2 DEF Fitting
  <2> QED BY <1>3, <2>8, <2>10, <2>11, <2>12, GatesPersist
<1> QED BY <1>4, <1>5 DEF Advance

\* An id that triggers is that of an order which is open and active by now.
LEMMA DueOpen ==
  ASSUME TypeOK, todo # <<>>, Call.op \in {"sells", "buys", "bought"}
  PROVE  /\ Triggering(SellTriggers) # {} => Eligible(Call.keys[Min(Triggering(SellTriggers))])
         /\ Triggering(BuyTriggers) # {} => Eligible(Call.keys[Min(Triggering(BuyTriggers))])
<1>1. Call.keys \in Seq(Orders)
  BY TopCall, CallFields DEF TypeOK
<1>2. /\ Triggering(SellTriggers) \in SUBSET Nat /\ Triggering(BuyTriggers) \in SUBSET Nat
      /\ \A i \in Triggering(SellTriggers) \cup Triggering(BuyTriggers) : Eligible(Call.keys[i])
  BY <1>1 DEF Triggering, SellTriggers, BuyTriggers
<1> QED BY <1>2, MinOfNaturals

\* Short sequences put together.
LEMMA ShortConcat ==
  ASSUME NEW a, NEW b, NEW c
  PROVE  /\ <<>> \o <<b>> = <<b>> /\ <<a>> \o <<b>> = <<a, b>>
         /\ <<a>> \o <<b>> \o <<c>> = <<a, b, c>> /\ <<a>> \o <<>> \o <<c>> = <<a, c>>
<1>1. PICK S : a \in S /\ b \in S /\ c \in S
  <2>1. a \in {a, b, c} /\ b \in {a, b, c} /\ c \in {a, b, c}
    OBVIOUS
  <2> QED BY <2>1
<1>2. ASSUME NEW x \in S, NEW y \in S
      PROVE  <<x>> \o <<y>> = <<x, y>>
  <2>1. /\ <<x>> \in Seq(S) /\ <<y>> \in Seq(S) /\ <<x, y>> \in Seq(S)
        /\ Len(<<x>>) = 1 /\ Len(<<y>>) = 1 /\ Len(<<x, y>>) = 2
    OBVIOUS
  <2>2. /\ Len(<<x>> \o <<y>>) = 2 /\ <<x>> \o <<y>> \in Seq(S)
        /\ \A i \in 1..2 : (<<x>> \o <<y>>)[i] = IF i <= 1 THEN <<x>>[i] ELSE <<y>>[i - 1]
    BY <2>1, ConcatProperties
  <2>3. \A i \in 1..2 : (<<x>> \o <<y>>)[i] = <<x, y>>[i]
    BY <2>2
  <2> QED BY <2>1, <2>2, <2>3, SeqEqual
<1>3. <<a, b>> \o <<c>> = <<a, b, c>>
  <2>1. /\ <<a, b>> \in Seq(S) /\ <<c>> \in Seq(S) /\ <<a, b, c>> \in Seq(S)
        /\ Len(<<a, b>>) = 2 /\ Len(<<c>>) = 1 /\ Len(<<a, b, c>>) = 3
    BY <1>1
  <2>2. /\ Len(<<a, b>> \o <<c>>) = 3 /\ <<a, b>> \o <<c>> \in Seq(S)
        /\ \A i \in 1..3 : (<<a, b>> \o <<c>>)[i] = IF i <= 2 THEN <<a, b>>[i] ELSE <<c>>[i - 2]
    BY <2>1, ConcatProperties
  <2>3. \A i \in 1..3 : (<<a, b>> \o <<c>>)[i] = <<a, b, c>>[i]
    BY <2>2
  <2> QED BY <2>1, <2>2, <2>3, SeqEqual
<1>4. <<>> \o <<b>> = <<b>> /\ <<a>> \o <<>> = <<a>>
  <2>1. <<a>> \in Seq(S) /\ <<b>> \in Seq(S)
    BY <1>1
  <2> QED BY <2>1, ConcatEmptySeq
<1>5. <<a>> \o <<b>> = <<a, b>> /\ <<a>> \o <<c>> = <<a, c>>
  BY <1>1, <1>2
<1> QED BY <1>3, <1>4, <1>5

\* Short stacks of calls, at most the first of them a match or an execution.
LEMMA Stacks ==
  ASSUME NEW a, NEW b, NEW c, b.op \notin {"match", "execution"}, c.op \notin {"match", "execution"}
  PROVE  /\ <<a>> \in Seq({a, b, c}) /\ <<a, b>> \in Seq({a, b, c}) /\ <<a, b, c>> \in Seq({a, b, c})
         /\ <<a>>[1] = a /\ <<a, b>>[1] = a /\ <<a, b, c>>[1] = a
         /\ OnTop(<<a>>) /\ OnTop(<<a, b>>) /\ OnTop(<<a, b, c>>)
<1>1. /\ \A i \in DOMAIN <<a>> : i = 1
      /\ \A i \in DOMAIN <<a, b>> : i = 1 \/ (i = 2 /\ <<a, b>>[i] = b)
      /\ \A i \in DOMAIN <<a, b, c>> : \/ i = 1 \/ (i = 2 /\ <<a, b, c>>[i] = b)
                                       \/ (i = 3 /\ <<a, b, c>>[i] = c)
  OBVIOUS
<1> QED BY <1>1 DEF OnTop

\* While orders are matched, the cancels of a terminal action are acknowledged.
LEMMA TradingSettled ==
  ASSUME Inv, Gates, todo # <<>>, Call.op \in Trading
  PROVE  Settled(state) /\ Call.op \notin {"advance", "drain", "execution"}
BY CallsAfter DEF Inv, TypeOK, Gates, Trading

\* A matching call makes way for others: for a match of an open order, or an execution
\* that fits.
LEMMA GatesTrade ==
  ASSUME Inv, Gates, todo # <<>>, Call.op \in Trading, NEW S, NEW calls \in Seq(S), Continue(calls),
         OnTop(calls),
         calls # <<>> => /\ calls[1].op = "match" => Open(state, calls[1].key)
                         /\ calls[1].op = "execution" => Fits(state, calls[1].event)
  PROVE  Gates'
BY TradingSettled, GatesContinue

\* The same for a short stack.
LEMMA GatesStack ==
  ASSUME Inv, Gates, todo # <<>>, Call.op \in Trading, NEW a, NEW b, NEW c,
         b.op \notin {"match", "execution"}, c.op \notin {"match", "execution"},
         Continue(<<a>>) \/ Continue(<<a, b>>) \/ Continue(<<a, b, c>>),
         a.op = "match" => Open(state, a.key), a.op = "execution" => Fits(state, a.event)
  PROVE  Gates'
<1>1. ASSUME NEW calls \in Seq({a, b, c}), Continue(calls), OnTop(calls), calls[1] = a
      PROVE  Gates'
  BY <1>1, GatesTrade
<1>2. /\ <<a>> \in Seq({a, b, c}) /\ <<a, b>> \in Seq({a, b, c}) /\ <<a, b, c>> \in Seq({a, b, c})
      /\ <<a>>[1] = a /\ <<a, b>>[1] = a /\ <<a, b, c>>[1] = a
      /\ OnTop(<<a>>) /\ OnTop(<<a, b>>) /\ OnTop(<<a, b, c>>)
  BY Stacks
<1>3. PICK one, two, three : one = <<a>> /\ two = <<a, b>> /\ three = <<a, b, c>>
  OBVIOUS
<1> QED BY <1>1, <1>2, <1>3

\* So does it when it returns.
LEMMA GatesReturn ==
  ASSUME Inv, Gates, todo # <<>>, Call.op \in Trading, Continue(<<>>)
  PROVE  Gates'
<1>1. PICK calls \in Seq(Calls) : calls = <<>>
  BY EmptySeq
<1>2. OnTop(calls)
  BY <1>1 DEF OnTop
<1> QED BY <1>1, <1>2, GatesTrade

\* The point of a price, the loops over its orders, the stop within, and the legs make
\* way for a few calls, of which the first may match an order that is open; but for the
\* close, which FlattenRest may match, the order is active by now.
Sub == (Trading \ {"match"}) \cup {"price", "stopReference"}
Unfolding(a, b, c) ==
  /\ a.op \in Trading \cup {"price"} /\ b.op \in Sub /\ c.op \in Sub
  /\ a.op = "match" => Open(state, a.key) /\ (a.key # Close => Eligible(a.key))
  /\ Continue(<<>>) \/ Continue(<<a>>) \/ Continue(<<a, b>>) \/ Continue(<<a, b, c>>)

LEMMA WalkUnfolds ==
  ASSUME Inv, Point \/ Sort \/ Sells \/ Buys \/ Bought \/ Leg \/ FlattenRest
  PROVE  /\ todo # <<>> /\ Call.op \in Trading
         /\ \E a, b, c : Unfolding(a, b, c)
<1>1. /\ todo # <<>> /\ Call \in Calls /\ Call.op \in Trading
      /\ Point => Call.op = "point"
      /\ Sells => Call.op = "sells"
      /\ Buys \/ Bought => Call.op \in {"buys", "bought"}
      /\ Leg => Call.op = "leg"
  <2>1. todo # <<>>
    BY DEF Point, Sort, Sells, Buys, Bought, Leg, FlattenRest, Doing
  <2>2. Call.op \in {"point", "sort", "sells", "buys", "bought", "leg", "flattenRest"}
    BY DEF Point, Sort, Sells, Buys, Bought, Leg, FlattenRest, Doing
  <2>3. Call \in Calls
    BY <2>1, TopCall DEF Inv, TypeOK
  <2> QED BY <2>1, <2>2, <2>3 DEF Trading, Point, Sells, Buys, Bought, Leg, Doing
<1>2. ASSUME NEW a, NEW b, NEW c, Unfolding(a, b, c)
      PROVE  \E d, e, f : Unfolding(d, e, f)
  BY <1>2
<1>3. \A p, phase, atOpen : price(p).op = "price" /\ point(p, phase, atOpen).op = "point"
  BY DEF price, point
<1>4. PICK none : none.op = "price"
  BY <1>3
<1>5. /\ {"point", "sort", "sells", "buys", "bought", "leg", "price", "stopReference"} \subseteq Sub
      /\ Sub \subseteq (Trading \ {"match"}) \cup {"price", "stopReference"}
  BY DEF Sub, Trading
<1>6. Continue(<<>>) => \E a, b, c : Unfolding(a, b, c)
  <2>1. Continue(<<>>) => Unfolding(none, none, none)
    BY <1>4, <1>5 DEF Unfolding
  <2> QED BY <1>2, <2>1
<1>7. CASE Point
  <2>1. PICK a, b : a = price(Call.price) /\ b = [Call EXCEPT !.op = "sort"]
    OBVIOUS
  <2>2. a.op = "price" /\ b.op = "sort"
    BY <1>1, <1>3, <1>7, <2>1 DEF Calls
  <2>3. Continue(<<b>>) \/ Continue(<<a, b>>)
    <3>1. <<>> \o <<b>> = <<b>> /\ <<a>> \o <<b>> = <<a, b>>
      BY ShortConcat
    <3> QED BY <1>7, <2>1, <3>1 DEF Point
  <2>4. Unfolding(a, b, b) \/ Unfolding(b, b, b)
    BY <1>5, <2>2, <2>3 DEF Unfolding, Trading
  <2> QED BY <1>1, <1>2, <2>4
<1>8. CASE Sort
  <2>1. PICK keys : Continue(<<[op |-> "sells", keys |-> keys, price |-> Call.price,
                                phase |-> Call.phase, atOpen |-> Call.atOpen], price(Call.price),
                               [op |-> "buys", keys |-> keys, price |-> Call.price,
                                phase |-> Call.phase, atOpen |-> Call.atOpen]>>)
    BY <1>8 DEF Sort
  <2>2. PICK a, b, c : /\ a = [op |-> "sells", keys |-> keys, price |-> Call.price,
                               phase |-> Call.phase, atOpen |-> Call.atOpen]
                       /\ b = price(Call.price)
                       /\ c = [op |-> "buys", keys |-> keys, price |-> Call.price,
                               phase |-> Call.phase, atOpen |-> Call.atOpen]
    OBVIOUS
  <2>3. a.op = "sells" /\ b.op = "price" /\ c.op = "buys"
    BY <1>3, <2>2
  <2>4. Continue(<<a, b, c>>)
    BY <2>1, <2>2
  <2>5. Unfolding(a, b, c)
    BY <1>5, <2>3, <2>4 DEF Unfolding, Trading
  <2> QED BY <1>1, <1>2, <2>5
<1>9. CASE Sells
  <2>1. CASE Triggering(SellTriggers) = {}
    <3>1. Continue(<<>>)
      BY <1>9, <2>1 DEF Sells
    <3> QED BY <1>1, <1>6, <3>1
  <2>2. CASE Triggering(SellTriggers) # {}
    <3>1. PICK k, n : n = Min(Triggering(SellTriggers)) /\ k = Call.keys[n]
      OBVIOUS
    <3>2. PICK a, b, c : /\ a = match(k, Call.price, Call.phase, Call.atOpen)
                         /\ b = [op |-> "stopReference"] /\ c = After(n)
      OBVIOUS
    <3>3. Open(state, k) /\ Eligible(k)
      BY <1>1, <1>9, <2>2, <3>1, DueOpen DEF Inv, Eligible
    <3>4. a.op = "match" /\ a.key = k /\ b.op = "stopReference" /\ c.op = "sells"
      <4>1. a.op = "match" /\ a.key = k /\ b.op = "stopReference"
        BY <3>2 DEF match
      <4>2. c.op = Call.op
        BY <1>1, <1>9, <3>2 DEF After, Calls
      <4> QED BY <1>1, <1>9, <4>1, <4>2
    <3>5. Continue(<<a, b, c>>) \/ Continue(<<a, c>>)
      <4>1. <<a>> \o <<b>> \o <<c>> = <<a, b, c>> /\ <<a>> \o <<>> \o <<c>> = <<a, c>>
        BY ShortConcat
      <4> QED BY <1>9, <2>2, <3>1, <3>2, <4>1 DEF Sells
    <3>6. Unfolding(a, b, c) \/ Unfolding(a, c, c)
      BY <1>5, <3>3, <3>4, <3>5 DEF Unfolding, Trading
    <3> QED BY <1>1, <1>2, <3>6
  <2> QED BY <2>1, <2>2
<1>10. CASE Buys
  <2>1. CASE Continue(<<>>)
    BY <1>1, <1>6, <2>1
  <2>2. CASE ~Continue(<<>>)
    <3>1. PICK k, n : n = Min(Triggering(BuyTriggers)) /\ k = Call.keys[n]
      OBVIOUS
    <3>2. PICK a, b : /\ a = match(k, Call.price, Call.phase, Call.atOpen)
                      /\ b = [After(n) EXCEPT !.op = "bought"]
      OBVIOUS
    <3>3. Triggering(BuyTriggers) # {} /\ Continue(<<a, b>>)
      BY <1>10, <2>2, <3>1, <3>2 DEF Buys
    <3>4. Open(state, k) /\ Eligible(k)
      BY <1>1, <1>10, <3>1, <3>3, DueOpen DEF Inv, Eligible
    <3>5. a.op = "match" /\ a.key = k /\ b.op = "bought"
      <4>1. a.op = "match" /\ a.key = k
        BY <3>2 DEF match
      <4>2. b.op = "bought"
        BY <1>1, <1>10, <3>2 DEF After, Calls
      <4> QED BY <4>1, <4>2
    <3>6. Unfolding(a, b, b)
      BY <1>5, <3>3, <3>4, <3>5 DEF Unfolding, Trading
    <3> QED BY <1>1, <1>2, <3>6
  <2> QED BY <2>1, <2>2
<1>11. CASE Bought
  <2>1. PICK a, b : a = point(Call.price, Call.phase, FALSE) /\ b = [Call EXCEPT !.op = "buys"]
    OBVIOUS
  <2>2. a.op = "point" /\ b.op = "buys"
    BY <1>1, <1>11, <2>1 DEF Calls, point
  <2>3. Continue(<<a>>) \/ Continue(<<b>>)
    BY <1>11, <2>1 DEF Bought
  <2>4. Unfolding(a, b, b) \/ Unfolding(b, b, b)
    BY <1>5, <2>2, <2>3 DEF Unfolding, Trading
  <2> QED BY <1>1, <1>2, <2>4
<1>12. CASE Leg
  <2>1. CASE Continue(<<>>)
    BY <1>1, <1>6, <2>1
  <2>2. CASE ~Continue(<<>>)
    <3>1. PICK next : Continue(<<point(next, Call.phase, FALSE), [Call EXCEPT !.from = next]>>)
      BY <1>12, <2>2 DEF Leg
    <3>2. PICK a, b : a = point(next, Call.phase, FALSE) /\ b = [Call EXCEPT !.from = next]
      OBVIOUS
    <3>3. a.op = "point" /\ b.op = "leg"
      BY <1>1, <1>3, <1>12, <3>2 DEF Calls
    <3>4. Continue(<<a, b>>)
      BY <3>1, <3>2
    <3>5. Unfolding(a, b, b)
      BY <1>5, <3>3, <3>4 DEF Unfolding, Trading
    <3> QED BY <1>1, <1>2, <3>5
  <2> QED BY <2>1, <2>2
<1>13. CASE FlattenRest
  <2>1. CASE Continue(<<>>)
    BY <1>1, <1>6, <2>1
  <2>2. CASE ~Continue(<<>>)
    <3>1. PICK a : a = match(Close, state.mark, "final", FALSE)
      OBVIOUS
    <3>2. Open(state, Close) /\ Continue(<<a>>)
      BY <1>13, <2>2, <3>1 DEF FlattenRest
    <3>3. a.op = "match" /\ a.key = Close
      BY <3>1 DEF match
    <3>4. Unfolding(a, none, none)
      BY <1>4, <1>5, <3>2, <3>3 DEF Unfolding, Trading
    <3> QED BY <1>1, <1>2, <3>4
  <2> QED BY <2>1, <2>2
<1> QED BY <1>1, <1>7, <1>8, <1>9, <1>10, <1>11, <1>12, <1>13

\* So only an order that is open is matched.
LEMMA GatesWalk ==
  ASSUME Inv, Gates, Point \/ Sort \/ Sells \/ Buys \/ Bought \/ Leg \/ FlattenRest
  PROVE  Gates'
<1>1. PICK a, b, c : Unfolding(a, b, c)
  BY WalkUnfolds
<1>2. todo # <<>> /\ Call.op \in Trading
  BY WalkUnfolds
<1>3. /\ a.op # "execution" /\ b.op \notin {"match", "execution"} /\ c.op \notin {"match", "execution"}
      /\ a.op = "match" => Open(state, a.key)
  BY <1>1 DEF Unfolding, Sub, Trading
<1>4. CASE Continue(<<>>)
  BY <1>2, <1>4, GatesReturn
<1>5. CASE Continue(<<a>>) \/ Continue(<<a, b>>) \/ Continue(<<a, b, c>>)
  BY <1>2, <1>3, <1>5, GatesStack
<1> QED BY <1>1, <1>4, <1>5 DEF Unfolding

\* A record of a call that touches no order (StopReference, Processed, EndOfData, and
\* the debit of a Match).
LEMMA GatesRecord ==
  ASSUME Inv, Gates, todo # <<>>, NEW candidate \in Sessions, candidate.pending = None,
         candidate.orders = state.orders, candidate.terminal = state.terminal,
         candidate.halted = state.halted, NEW kind \in Kinds, NEW calls \in Seq(Calls),
         Persist(candidate, kind, calls \o Rest), OnTop(calls),
         calls # <<>> => /\ calls[1].op = "match" => Open(state, calls[1].key)
                         /\ calls[1].op = "execution" => Fits(state, calls[1].event),
         Settled(state) \/ Drained(calls \o Rest)
  PROVE  Gates'
<1>1. Rest \in Seq(Calls) /\ Beneath(Rest)
  BY CallsAfter DEF Inv, TypeOK, Gates, Fitting
<1>2. calls \o Rest \in Seq(Calls)
  BY <1>1, ConcatProperties
<1>3. /\ Sane(candidate) /\ (Settled(state) => Settled(candidate))
      /\ \A k \in Orders : Open(candidate, k) <=> Open(state, k)
      /\ \A e : e.key \in Orders /\ Fits(state, e) => Fits(candidate, e)
  BY SameOrders DEF Gates
<1>4. calls # <<>> => /\ calls[1].op = "match" => calls[1].key \in Orders
                      /\ calls[1].op = "execution" => calls[1].event.key \in Orders
  <2>1. calls # <<>> => calls[1] \in Calls
    BY EmptySeq, LenProperties
  <2>2. \A e \in Events : e.key \in Orders
    BY DEF Events
  <2> QED BY <2>1, <2>2, CallFields
<1>5. calls # <<>> => /\ calls[1].op = "match" => Open(candidate, calls[1].key)
                      /\ calls[1].op = "execution" => Fits(candidate, calls[1].event)
  BY <1>3, <1>4
<1>6. PICK rest \in Seq(Calls) :
        /\ Persist(candidate, kind, rest) /\ (Settled(state) \/ Drained(rest))
        /\ Fitting(candidate, rest)
  <2>1. Fitting(candidate, calls \o Rest)
    BY <1>1, <1>5, FittingBefore
  <2> QED BY <1>2, <2>1
<1> QED BY <1>3, <1>6, GatesPersist

\* The event of a match fits: it is the order's, which is open (Match).
LEMMA GatesMatch ==
  ASSUME Inv, Gates, Match
  PROVE  Gates'
<1>1. /\ todo # <<>> /\ Call \in Calls /\ Call.op = "match" /\ Call.key \in Orders
      /\ state \in Sessions /\ todo \in Seq(Calls)
  BY TopCall, CallFields DEF Match, Doing, Inv, TypeOK
<1>2. Call.op \in Trading /\ Settled(state) /\ Open(state, Call.key) /\ state.pending = None
  <2>1. Call.op \in Trading
    BY <1>1 DEF Trading
  <2>2. Open(state, Call.key)
    BY <1>1, TopCall DEF Gates, Fitting
  <2>3. state.pending = None
    BY <1>1, NestedRest DEF Inv
  <2> QED BY <1>1, <2>1, <2>2, <2>3, TradingSettled
<1>3. PICK event : event = MatchEvent(Call)
  OBVIOUS
<1>4. event # None => event \in Events /\ event.key = Call.key
  BY <1>1, <1>3, MatchEventType
<1>5. event # None => Fits(state, event)
  BY <1>1, <1>2, <1>4 DEF Fits, Settled, Open
<1>6. PICK a, b : /\ a = execution(event) /\ b = drain
                  /\ a.op = "execution" /\ a.event = event /\ b.op = "drain"
  <2>1. execution(event).op = "execution" /\ execution(event).event = event /\ drain.op = "drain"
    BY DEF execution, drain
  <2> QED BY <2>1
<1>7. CASE event = None
  <2>1. Continue(<<>>)
    BY <1>3, <1>7 DEF Match
  <2> QED BY <1>1, <1>2, <2>1, GatesReturn
<1>8. CASE event # None /\ event.qty = 0
  <2>1. Continue(<<a, b>>)
    BY <1>3, <1>6, <1>8 DEF Match
  <2> QED BY <1>1, <1>2, <1>5, <1>6, <1>8, <2>1, GatesStack
<1>9. CASE event # None /\ event.qty # 0
  <2>1. PICK candidate : candidate = [state EXCEPT !.used = @ + event.qty]
    OBVIOUS
  <2>2. /\ candidate.pending = None /\ candidate.orders = state.orders
        /\ candidate.terminal = state.terminal /\ candidate.halted = state.halted
    BY <1>1, <1>2, <2>1 DEF Sessions
  <2>3. candidate \in Sessions
    <3>1. PICK n \in Nat : n = state.used + event.qty
      BY <1>1, <1>4, <1>9 DEF Sessions, Events
    <3>2. candidate = [state EXCEPT !.used = n]
      BY <2>1, <3>1
    <3> QED BY <1>1, <3>2, SessionUpdates
  <2>4. PICK calls \in Seq(Calls) : calls = <<a, b>> /\ calls[1] = a /\ OnTop(calls)
    <3>1. a \in Calls /\ b \in Calls
      BY <1>4, <1>6, <1>9, CallsAreQuiet DEF Inner, Quiet, drain
    <3>2. <<a, b>> \in Seq(Calls)
      BY <3>1, SomeCalls
    <3>3. <<a, b>>[1] = a /\ OnTop(<<a, b>>)
      BY <1>6, Stacks
    <3> QED BY <3>2, <3>3
  <2>5. Persist(candidate, "liquidity_allocation", calls \o Rest)
    BY <1>3, <1>6, <1>9, <2>1, <2>4 DEF Match
  <2>6. "liquidity_allocation" \in Kinds
    BY DEF Kinds
  <2>7. calls[1].op = "execution" /\ Fits(state, calls[1].event)
    BY <1>5, <1>6, <1>9, <2>4
  <2> QED BY <1>1, <1>2, <2>2, <2>3, <2>4, <2>5, <2>6, <2>7, GatesRecord
<1> QED BY <1>7, <1>8, <1>9

\* Calls whose first acknowledges are drained whatever follows.
LEMMA DrainFirst ==
  ASSUME NEW S, NEW a \in Seq(S), NEW rest \in Seq(Calls), a # <<>>, a[1].op = "drain", Untrading(a)
  PROVE  Drained(a \o rest)
<1>1. 1 \in DOMAIN a
  BY EmptySeq, LenProperties
<1> QED BY <1>1, CallsBefore

\* An order that expires is an entry (Expire).
LEMMA GatesExpire ==
  ASSUME Inv, Gates, Expire
  PROVE  Gates'
<1>1. /\ todo # <<>> /\ Call \in Calls /\ Call.op = "expire" /\ todo \in Seq(Calls) /\ Rest \in Seq(Calls)
  BY TopCall DEF Expire, Doing, Inv, TypeOK
<1>2. Settled(state) \/ Drained(Rest)
  BY <1>1, CallsAfter DEF Gates
<1>3. CASE Expired = {}
  <2>1. PICK calls \in Seq(Calls) : calls = <<>> /\ calls \o Rest = Rest
    BY <1>1, ConcatEmptySeq, EmptySeq
  <2>2. Continue(calls)
    BY <1>3, <2>1 DEF Expire
  <2>3. OnTop(calls)
    BY <2>1 DEF OnTop
  <2> QED BY <1>1, <1>2, <2>1, <2>2, <2>3, GatesContinue
<1>4. CASE Expired # {}
  <2>1. PICK k \in Entries : k = Min(Expired)
    <3>1. Expired \in SUBSET Nat /\ Expired \subseteq Entries
      BY RecipeAssumption DEF Expired
    <3> QED BY <1>4, <3>1, MinOfNaturals
  <2>2. PICK event \in Events :
          event = StatusEvent(k, "expired") /\ event.key = k /\ event.qty = 0 /\ event.status = "expired"
    <3>1. k \in Orders /\ "expired" \in Statuses
      BY DEF Orders, Statuses, TERMINAL
    <3>2. /\ StatusEvent(k, "expired").key = k /\ StatusEvent(k, "expired").qty = 0
          /\ StatusEvent(k, "expired").status = "expired"
      BY DEF StatusEvent
    <3> QED BY <3>1, <3>2, StatusEventType
  <2>3. Fits(state, event)
    BY <2>2, RecipeAssumption DEF Fits, TERMINAL
  <2>4. PICK a, b : /\ a = execution(event) /\ b = Call
                    /\ a.op = "execution" /\ a.event = event /\ b.op = "expire"
    <3>1. execution(event).op = "execution" /\ execution(event).event = event
      BY DEF execution
    <3> QED BY <1>1, <3>1
  <2>5. PICK calls \in Seq(Calls) : calls = <<a, b>> /\ calls[1] = a /\ OnTop(calls) /\ Untrading(calls)
    <3>1. a \in Calls /\ b \in Calls
      BY <1>1, <2>4, CallsAreQuiet DEF Inner
    <3>2. <<a, b>> \in Seq(Calls) /\ \A i \in DOMAIN <<a, b>> : <<a, b>>[i] = a \/ <<a, b>>[i] = b
      BY <3>1
    <3>3. <<a, b>>[1] = a /\ OnTop(<<a, b>>)
      BY <2>4, Stacks
    <3>4. Untrading(<<a, b>>)
      BY <2>4, <3>2 DEF Untrading, Trading
    <3> QED BY <3>2, <3>3, <3>4
  <2>6. Continue(calls)
    BY <1>4, <2>1, <2>2, <2>4, <2>5 DEF Expire
  <2>7. Drained(Rest) => Drained(calls \o Rest)
    BY <1>1, <2>5, CallsBefore
  <2>8. /\ calls[1].op = "execution" /\ Fits(state, calls[1].event)
        /\ Call.op # "advance"
    BY <1>1, <2>3, <2>4, <2>5
  <2> QED BY <1>1, <1>2, <2>5, <2>6, <2>7, <2>8, GatesContinue
<1> QED BY <1>3, <1>4

\* The acknowledgements follow a terminal action before anything is matched (Drain).
LEMMA GatesDrain ==
  ASSUME Inv, Gates, Drain
  PROVE  Gates'
<1>1. /\ todo # <<>> /\ Call \in Calls /\ Call.op = "drain" /\ todo \in Seq(Calls)
      /\ Rest \in Seq(Calls) /\ Beneath(Rest) /\ state \in Sessions
  BY TopCall, CallsAfter DEF Drain, Doing, Inv, TypeOK, Gates, Fitting
<1>2. CASE state.halted \/ (Unacknowledged = {} /\ Reconciled(state))
  <2>1. Settled(state)
    BY <1>2 DEF Settled, Frozen, Gates, Sane, Unacknowledged, Open, Exists
  <2>2. PICK calls \in Seq(Calls) : calls = <<>>
    BY EmptySeq
  <2>3. Continue(calls) /\ OnTop(calls)
    BY <1>2, <2>2 DEF Drain, OnTop
  <2> QED BY <1>1, <2>1, <2>2, <2>3, GatesContinue
<1>3. CASE ~(state.halted \/ (Unacknowledged = {} /\ Reconciled(state)))
  <2>1. Drained(todo) /\ Beneath(todo)
    <3>1. PICK a \in Seq(Calls) : a = <<Call>>
      BY <1>1, SomeCalls
    <3>2. a # <<>> /\ a[1] = Call /\ \A i \in DOMAIN a : a[i] = Call
      BY <3>1
    <3>3. Untrading(a) /\ Beneath(a)
      BY <1>1, <3>2 DEF Untrading, Beneath, Trading
    <3>4. Drained(a \o Rest) /\ Beneath(a \o Rest)
      BY <1>1, <3>2, <3>3, DrainFirst, CallsBefore
    <3>5. todo = a \o Rest
      BY <1>1, <3>1, TopCall
    <3> QED BY <3>4, <3>5
  <2>2. ASSUME NEW ob \in Observations, Observe(ob, todo),
               ob.kind = "executions" => Fits(state, ob.event)
        PROVE  Gates'
    BY <1>1, <2>1, <2>2, GatesObserve
  <2>3. CASE Unacknowledged # {}
    <3>1. PICK k \in Unacknowledged : k = Min(Unacknowledged)
      <4>1. Unacknowledged \in SUBSET Nat
        BY OrdersAreFinite DEF Unacknowledged
      <4> QED BY <2>3, <4>1, MinOfNaturals
    <3>2. PICK status \in {"accepted", "canceled"} :
            status = IF state.orders[k].status = "pending" THEN "accepted" ELSE "canceled"
      OBVIOUS
    <3>3. k \in Orders /\ status \in Statuses
      BY <3>1, <3>2 DEF Unacknowledged, Statuses, TERMINAL
    <3>4. PICK event \in Events : /\ event = StatusEvent(k, status)
                                  /\ event.key = k /\ event.qty = 0 /\ event.status = status
      <4>1. StatusEvent(k, status).key = k /\ StatusEvent(k, status).status = status
        BY DEF StatusEvent
      <4> QED BY <3>3, <4>1, StatusEventType
    <3>5. Fits(state, event)
      <4>1. k = Close => Exists(state, Close)
        BY <3>1 DEF Unacknowledged, Exists
      <4>2. Frozen(state) /\ k # Close => status \in TERMINAL
        BY <3>1, <3>2, <3>3 DEF Gates, Sane, Unacknowledged, TERMINAL
      <4> QED BY <3>4, <4>1, <4>2 DEF Fits
    <3>6. PICK ob \in Observations : ob = [kind |-> "executions", event |-> event] /\ ob.event = event
      <4>1. [kind |-> "executions", event |-> event] \in Observations
        BY DEF Observations
      <4>2. [kind |-> "executions", event |-> event].event = event
        OBVIOUS
      <4> QED BY <4>1, <4>2
    <3>7. Observe(ob, todo)
      BY <1>3, <2>3, <3>1, <3>2, <3>4, <3>6 DEF Drain
    <3> QED BY <2>2, <3>5, <3>6, <3>7
  <2>4. CASE Unacknowledged = {}
    <3>1. PICK ob \in Observations : ob = [kind |-> "reconciliation"] /\ ob.kind = "reconciliation"
      <4>1. [kind |-> "reconciliation"] \in Observations
        BY DEF Observations
      <4>2. [kind |-> "reconciliation"].kind = "reconciliation"
        OBVIOUS
      <4> QED BY <4>1, <4>2
    <3>2. Observe(ob, todo)
      BY <1>3, <2>4, <3>1 DEF Drain
    <3> QED BY <2>2, <3>1, <3>2
  <2> QED BY <2>3, <2>4
<1> QED BY <1>2, <1>3

\* What can be terminal is observed before an acknowledgement: a price, a command, a
\* request at the close.
LEMMA GatesDecide ==
  ASSUME Inv, Gates, NEW ob \in Observations, ob.kind # "executions",
         NEW rest \in Seq(Calls), Beneath(rest),
         NEW S, NEW a \in Seq(S), a # <<>>, a[1].op = "drain", Untrading(a), Beneath(a),
         a \o rest \in Seq(Calls), Observe(ob, a \o rest)
  PROVE  Gates'
<1>1. Drained(a \o rest) /\ Beneath(a \o rest)
  BY DrainFirst, CallsBefore
<1>2. PICK all \in Seq(Calls) : Observe(ob, all) /\ Drained(all) /\ Beneath(all)
  BY <1>1
<1> QED BY <1>2, GatesObserve

\* The steps that observe and do not match (Price, Execution, ClosedBar).
LEMMA GatesNote ==
  ASSUME Inv, Gates, Price \/ Execution \/ ClosedBar
  PROVE  Gates'
<1>1. /\ todo # <<>> /\ Call \in Calls /\ todo \in Seq(Calls) /\ Rest \in Seq(Calls) /\ Beneath(Rest)
  BY TopCall, CallsAfter DEF Price, Execution, ClosedBar, Doing, Inv, TypeOK, Gates, Fitting
<1>2. PICK d \in Calls : d = drain /\ d.op = "drain"
  <2>1. drain \in Calls
    BY DEF drain, Calls
  <2>2. drain.op = "drain"
    BY DEF drain
  <2> QED BY <2>1, <2>2
<1>3. CASE Price
  <2>1. PICK ob \in Observations : ob = [kind |-> "price", price |-> Call.price] /\ ob.kind = "price"
    <3>1. Call.price \in Nat
      BY <1>1, <1>3, CallFields DEF Price, Doing
    <3>2. [kind |-> "price", price |-> Call.price] \in Observations
      BY <3>1 DEF Observations
    <3>3. [kind |-> "price", price |-> Call.price].kind = "price"
      OBVIOUS
    <3> QED BY <3>2, <3>3
  <2>2. PICK a \in Seq(Calls) : a = <<d>> /\ a # <<>> /\ a[1] = d /\ \A i \in DOMAIN a : a[i] = d
    <3>1. <<d>> \in Seq(Calls) /\ <<d>> # <<>> /\ <<d>>[1] = d /\ \A i \in DOMAIN <<d>> : <<d>>[i] = d
      OBVIOUS
    <3> QED BY <3>1
  <2>3. Untrading(a) /\ Beneath(a)
    BY <1>2, <2>2 DEF Untrading, Beneath, Trading
  <2>4. Observe(ob, a \o Rest)
    BY <1>2, <1>3, <2>1, <2>2 DEF Price
  <2>5. a \o Rest \in Seq(Calls)
    BY <1>1, ConcatProperties
  <2> QED BY <1>1, <1>2, <2>1, <2>2, <2>3, <2>4, <2>5, GatesDecide
<1>4. CASE Execution
  <2>1. Call.op = "execution" /\ Call.event \in Events /\ Fits(state, Call.event)
    BY <1>1, <1>4, TopCall, CallFields DEF Execution, Doing, Gates, Fitting
  <2>2. PICK ob \in Observations : /\ ob = [kind |-> "executions", event |-> Call.event]
                                   /\ ob.kind = "executions" /\ ob.event = Call.event
    <3>1. [kind |-> "executions", event |-> Call.event] \in Observations
      BY <2>1 DEF Observations
    <3>2. /\ [kind |-> "executions", event |-> Call.event].kind = "executions"
          /\ [kind |-> "executions", event |-> Call.event].event = Call.event
      OBVIOUS
    <3> QED BY <3>1, <3>2
  <2>3. Observe(ob, Rest)
    BY <1>4, <2>2 DEF Execution
  <2>4. Settled(state) \/ Drained(Rest)
    BY <1>1, <2>1, CallsAfter DEF Gates
  <2>5. ob.kind \notin Deciding
    BY <2>2 DEF Deciding
  <2> QED BY <1>1, <2>1, <2>2, <2>3, <2>4, <2>5, GatesObserve
<1>5. CASE ClosedBar
  <2>1. PICK request \in Requests \cup {None} :
          Observe([kind |-> "closed_bar", request |-> request], <<drain, [op |-> "processed"]>> \o Rest)
    BY <1>5 DEF ClosedBar
  <2>2. PICK ob \in Observations : /\ ob = [kind |-> "closed_bar", request |-> request]
                                   /\ ob.kind = "closed_bar"
    <3>1. [kind |-> "closed_bar", request |-> request] \in Observations
      BY DEF Observations
    <3>2. [kind |-> "closed_bar", request |-> request].kind = "closed_bar"
      OBVIOUS
    <3> QED BY <3>1, <3>2
  <2>3. PICK p \in Calls : p = [op |-> "processed"] /\ p.op = "processed"
    <3>1. [op |-> "processed"] \in Calls
      BY DEF Calls
    <3>2. [op |-> "processed"].op = "processed"
      OBVIOUS
    <3> QED BY <3>1, <3>2
  <2>4. PICK a \in Seq(Calls) : /\ a = <<d, p>> /\ a # <<>> /\ a[1] = d
                                /\ \A i \in DOMAIN a : a[i] = d \/ a[i] = p
    <3>1. /\ <<d, p>> \in Seq(Calls) /\ <<d, p>> # <<>> /\ <<d, p>>[1] = d
          /\ \A i \in DOMAIN <<d, p>> : <<d, p>>[i] = d \/ <<d, p>>[i] = p
      OBVIOUS
    <3> QED BY <3>1
  <2>5. Untrading(a) /\ Beneath(a)
    BY <1>2, <2>3, <2>4 DEF Untrading, Beneath, Trading
  <2>6. Observe(ob, a \o Rest)
    BY <1>2, <2>1, <2>2, <2>3, <2>4
  <2>7. a \o Rest \in Seq(Calls)
    BY <1>1, ConcatProperties
  <2> QED BY <1>1, <1>2, <2>2, <2>4, <2>5, <2>6, <2>7, GatesDecide
<1> QED BY <1>3, <1>4, <1>5

\* The steps that only record (StopReference, Processed, EndOfData).
LEMMA GatesMark ==
  ASSUME Inv, Gates, StopReference \/ Processed \/ EndOfData
  PROVE  Gates'
<1>1. /\ todo # <<>> /\ todo \in Seq(Calls) /\ state \in Sessions /\ Rest \in Seq(Calls)
      /\ Call.op \in {"stopReference", "processed", "endOfData"}
  BY TopCall DEF StopReference, Processed, EndOfData, Doing, Inv, TypeOK
<1>2. state.pending = None /\ (Settled(state) \/ Drained(Rest))
  BY <1>1, NestedRest, CallsAfter DEF Inv, Gates
<1>3. PICK calls \in Seq(Calls) : calls = <<>> /\ calls \o Rest = Rest
  BY <1>1, ConcatEmptySeq, EmptySeq
<1>4. OnTop(calls)
  BY <1>3 DEF OnTop
<1>5. ASSUME NEW candidate \in Sessions, NEW kind \in Kinds, Persist(candidate, kind, Rest),
             candidate.pending = state.pending, candidate.orders = state.orders,
             candidate.terminal = state.terminal, candidate.halted = state.halted
      PROVE  Gates'
  <2>1. Persist(candidate, kind, calls \o Rest) /\ (Settled(state) \/ Drained(calls \o Rest))
    BY <1>2, <1>3, <1>5
  <2> QED BY <1>1, <1>2, <1>3, <1>4, <1>5, <2>1, GatesRecord
<1>6. CASE StopReference
  <2>1. PICK candidate \in Sessions : candidate = [state EXCEPT !.stopBar = state.bar]
    BY <1>1 DEF Sessions
  <2>2. /\ candidate.pending = state.pending /\ candidate.orders = state.orders
        /\ candidate.terminal = state.terminal /\ candidate.halted = state.halted
    BY <1>1, <2>1 DEF Sessions
  <2>3. "stop_reference_consumed" \in Kinds
    BY DEF Kinds
  <2> QED BY <1>5, <1>6, <2>1, <2>2, <2>3 DEF StopReference
<1>7. CASE Processed
  <2>1. PICK candidate \in Sessions : candidate = [state EXCEPT !.inBar = FALSE]
    BY <1>1 DEF Sessions
  <2>2. /\ candidate.pending = state.pending /\ candidate.orders = state.orders
        /\ candidate.terminal = state.terminal /\ candidate.halted = state.halted
    BY <1>1, <2>1 DEF Sessions
  <2>3. "candle_processed" \in Kinds
    BY DEF Kinds
  <2> QED BY <1>5, <1>7, <2>1, <2>2, <2>3 DEF Processed
<1>8. CASE EndOfData
  <2>1. PICK candidate \in Sessions : candidate = [state EXCEPT !.finished = TRUE]
    BY <1>1 DEF Sessions
  <2>2. /\ candidate.pending = state.pending /\ candidate.orders = state.orders
        /\ candidate.terminal = state.terminal /\ candidate.halted = state.halted
    BY <1>1, <2>1 DEF Sessions
  <2>3. "end_of_data" \in Kinds
    BY DEF Kinds
  <2> QED BY <1>5, <1>8, <2>1, <2>2, <2>3 DEF EndOfData
<1> QED BY <1>6, <1>7, <1>8

\* Every step of a call keeps the gates.
LEMMA GatesStep ==
  ASSUME Inv, Gates, Step
  PROVE  Gates'
BY GatesAdvance, GatesWalk, GatesMatch, GatesExpire, GatesDrain, GatesNote, GatesMark DEF Step

\* The path of a candle and what ends it match nothing themselves (Walk).
LEMMA CandlePath ==
  ASSUME NEW c \in Candles
  PROVE  /\ \E walk \in Seq(Calls) : walk = Walk(c) /\ Beneath(walk)
         /\ \E end \in Seq(Calls) : end = <<price(c.c), [op |-> "closedBar"]>> /\ Beneath(end)
<1>1. /\ c.o \in Nat /\ c.l \in Nat /\ c.h \in Nat /\ c.c \in Nat
  BY HostAssumption
<1>2. \E walk \in Seq(Calls) : walk = Walk(c) /\ Beneath(walk)
  <2>1. PICK a1 \in Calls, a2 \in Calls, a3 \in Calls, a4 \in Calls :
          /\ a1 = point(c.o, "open", TRUE) /\ a2 = leg(c.o, c.l, "descending")
          /\ a3 = leg(c.l, c.h, "ascending") /\ a4 = leg(c.h, c.c, "close")
          /\ a1.op = "point" /\ a2.op = "leg" /\ a3.op = "leg" /\ a4.op = "leg"
    <3>1. /\ point(c.o, "open", TRUE) \in Calls /\ leg(c.o, c.l, "descending") \in Calls
          /\ leg(c.l, c.h, "ascending") \in Calls /\ leg(c.h, c.c, "close") \in Calls
      BY <1>1, CallsAreQuiet DEF Phases, Inner, Quiet
    <3>2. point(c.o, "open", TRUE).op = "point"
      BY DEF point
    <3>3. /\ leg(c.o, c.l, "descending").op = "leg"
          /\ leg(c.l, c.h, "ascending").op = "leg" /\ leg(c.h, c.c, "close").op = "leg"
      BY DEF leg
    <3> QED BY <3>1, <3>2, <3>3
  <2>2. /\ <<a1, a2, a3, a4>> \in Seq(Calls)
        /\ \A i \in DOMAIN <<a1, a2, a3, a4>> : <<a1, a2, a3, a4>>[i] \in {a1, a2, a3, a4}
    OBVIOUS
  <2>3. Walk(c) = <<a1, a2, a3, a4>>
    BY <2>1 DEF Walk
  <2>4. Beneath(<<a1, a2, a3, a4>>)
    BY <2>1, <2>2 DEF Beneath
  <2> QED BY <2>2, <2>3, <2>4
<1>3. \E end \in Seq(Calls) : end = <<price(c.c), [op |-> "closedBar"]>> /\ Beneath(end)
  <2>1. PICK a \in Calls, b \in Calls : /\ a = price(c.c) /\ b = [op |-> "closedBar"]
                                        /\ a.op = "price" /\ b.op = "closedBar"
    <3>1. price(c.c) \in Calls /\ [op |-> "closedBar"] \in Calls
      BY <1>1 DEF Calls, price
    <3>2. price(c.c).op = "price" /\ [op |-> "closedBar"].op = "closedBar"
      BY DEF price
    <3> QED BY <3>1, <3>2
  <2>2. <<a, b>> \in Seq(Calls) /\ \A i \in DOMAIN <<a, b>> : <<a, b>>[i] \in {a, b}
    OBVIOUS
  <2>3. Beneath(<<a, b>>)
    BY <2>1, <2>2 DEF Beneath
  <2> QED BY <2>1, <2>2, <2>3
<1> QED BY <1>2, <1>3

\* A candle is announced before its path: expiries and acknowledgements come first.
LEMMA GatesCandle ==
  ASSUME Inv, Gates, NEW c \in Candles, OnCandle(c)
  PROVE  Gates'
<1>1. state \in Sessions /\ todo = <<>> /\ ~failed
  BY DEF Inv, TypeOK, OnCandle, Idle, Persist
<1>2. state.pending = None
  BY <1>1 DEF Inv, Control, Nested
<1>3. PICK started \in Sessions :
        /\ started = [state EXCEPT !.bar = @ + 1, !.inBar = TRUE, !.candle = c,
                                   !.allowance = c.v, !.used = 0, !.tape = <<>>]
        /\ started.pending = None
  BY <1>1, <1>2, StartedType
<1>4. started.orders = state.orders /\ started.terminal = state.terminal /\ started.halted = state.halted
  BY <1>1, <1>3 DEF Sessions
<1>5. PICK e \in Calls, d \in Calls : e = [op |-> "expire"] /\ d = drain /\ e.op = "expire" /\ d.op = "drain"
  <2>1. [op |-> "expire"] \in Calls /\ drain \in Calls
    BY DEF Calls, drain
  <2>2. [op |-> "expire"].op = "expire" /\ drain.op = "drain"
    BY DEF drain
  <2> QED BY <2>1, <2>2
<1>6. PICK begin \in Seq(Calls) : /\ begin = <<e, d>> /\ begin # <<>> /\ begin[1] = e
                                  /\ 2 \in DOMAIN begin /\ begin[2] = d
                                  /\ \A i \in DOMAIN begin : begin[i] = e \/ begin[i] = d
  <2>1. /\ <<e, d>> \in Seq(Calls) /\ <<e, d>> # <<>> /\ <<e, d>>[1] = e
        /\ 2 \in DOMAIN <<e, d>> /\ <<e, d>>[2] = d
        /\ \A i \in DOMAIN <<e, d>> : <<e, d>>[i] = e \/ <<e, d>>[i] = d
    OBVIOUS
  <2> QED BY <2>1
<1>7. Untrading(begin) /\ OnTop(begin) /\ \E j \in DOMAIN begin : begin[j].op = "drain"
  BY <1>5, <1>6 DEF Untrading, Trading, OnTop
<1>9. PICK walk \in Seq(Calls) : walk = Walk(c) /\ Beneath(walk)
  BY CandlePath
<1>10. PICK end \in Seq(Calls) : end = <<price(c.c), [op |-> "closedBar"]>> /\ Beneath(end)
  BY CandlePath
<1>11. PICK rest \in Seq(Calls) : rest = walk \o end /\ Beneath(rest)
  <2>1. walk \o end \in Seq(Calls)
    BY ConcatProperties
  <2>2. Beneath(walk \o end)
    BY <1>9, <1>10, CallsBefore
  <2> QED BY <2>1, <2>2
<1>12. PICK all \in Seq(Calls) : /\ all = begin \o rest /\ Drained(all) /\ Fitting(started, all)
  <2>1. begin \o rest \in Seq(Calls)
    BY ConcatProperties
  <2>2. Drained(begin \o rest)
    BY <1>7, CallsBefore
  <2>3. Fitting(started, begin \o rest)
    BY <1>3, <1>5, <1>6, <1>7, <1>11, FittingBefore
  <2> QED BY <2>1, <2>2, <2>3
<1>13. Persist(started, "candle_received", all)
  <2>1. \A s, t, u \in Seq(Calls) : (s \o t) \o u = s \o (t \o u)
    BY ConcatAssociative, SMTT(30)
  <2>2. Persist(started, "candle_received", begin \o walk \o end)
    BY <1>3, <1>5, <1>6, <1>9, <1>10 DEF OnCandle
  <2>3. begin \o walk \o end = all
    BY <1>11, <1>12, <2>1
  <2> QED BY <2>2, <2>3
<1>14. "candle_received" \in Kinds
  BY DEF Kinds
<1>15. Sane(started)
  BY <1>4, SameOrders DEF Gates
<1> QED BY <1>12, <1>13, <1>14, <1>15, GatesPersist

\* A command and the end of the feed are acknowledged next (Command, Finish).
LEMMA GatesCommand ==
  ASSUME Inv, Gates, Finish \/ \E action \in Actions : Command(action)
  PROVE  Gates'
<1>1. PICK d \in Calls, f \in Calls, e \in Calls :
        /\ d = drain /\ f = [op |-> "flattenRest"] /\ e = [op |-> "endOfData"]
        /\ d.op = "drain" /\ f.op = "flattenRest" /\ e.op = "endOfData"
  <2>1. drain \in Calls /\ [op |-> "flattenRest"] \in Calls /\ [op |-> "endOfData"] \in Calls
    BY DEF Calls, drain
  <2>2. drain.op = "drain" /\ [op |-> "flattenRest"].op = "flattenRest" /\ [op |-> "endOfData"].op = "endOfData"
    BY DEF drain
  <2> QED BY <2>1, <2>2
<1>2. PICK one \in Seq(Calls) : one = <<d>> /\ one[1] = d /\ \A i \in DOMAIN one : i = 1
  <2>1. <<d>> \in Seq(Calls) /\ <<d>>[1] = d /\ \A i \in DOMAIN <<d>> : i = 1
    OBVIOUS
  <2> QED BY <2>1
<1>3. PICK three \in Seq(Calls) :
        /\ three = <<d, f, e>> /\ three[1] = d /\ three[2] = f /\ three[3] = e
        /\ \A i \in DOMAIN three : i = 1 \/ i = 2 \/ i = 3
  <2>1. /\ <<d, f, e>> \in Seq(Calls)
        /\ <<d, f, e>>[1] = d /\ <<d, f, e>>[2] = f /\ <<d, f, e>>[3] = e
        /\ \A i \in DOMAIN <<d, f, e>> : i = 1 \/ i = 2 \/ i = 3
    OBVIOUS
  <2> QED BY <2>1
<1>4. Drained(one) /\ Beneath(one)
  BY <1>1, <1>2 DEF Drained, Beneath, Trading
<1>5. Drained(three) /\ Beneath(three)
  BY <1>1, <1>3 DEF Drained, Beneath, Trading
<1>6. ASSUME NEW action \in Actions, NEW calls \in Seq(Calls), Drained(calls), Beneath(calls),
             Observe([kind |-> "command", action |-> action], calls)
      PROVE  Gates'
  <2>1. PICK ob \in Observations : ob = [kind |-> "command", action |-> action] /\ ob.kind = "command"
    <3>1. [kind |-> "command", action |-> action] \in Observations
      BY DEF Observations
    <3>2. [kind |-> "command", action |-> action].kind = "command"
      OBVIOUS
    <3> QED BY <3>1, <3>2
  <2>2. Observe(ob, calls)
    BY <1>6, <2>1
  <2> QED BY <1>6, <2>1, <2>2, GatesObserve
<1>7. CASE Finish
  <2>1. Observe([kind |-> "command", action |-> EndPolicy], three)
    BY <1>1, <1>3, <1>7 DEF Finish
  <2> QED BY <1>5, <1>6, <2>1, HostAssumption
<1>8. ASSUME NEW action \in Actions, Command(action)
      PROVE  Gates'
  <2>1. Observe([kind |-> "command", action |-> action], one)
    BY <1>1, <1>2, <1>8 DEF Command
  <2> QED BY <1>4, <1>6, <2>1
<1> QED BY <1>7, <1>8

\* A new session has no orders.
LEMMA GenesisSane == Sane(Genesis) /\ Settled(Genesis) /\ Genesis.pending = None
<1>1. Genesis.terminal = None /\ Genesis.pending = None /\ Genesis.orders = [k \in Orders |-> NoOrder]
  BY DEF Genesis
<1>2. ~Exists(Genesis, Close)
  BY <1>1 DEF Exists, Orders, NoOrder
<1> QED BY <1>1, <1>2 DEF Sane, Settled, Frozen

\* What a record restores to is sane, as what it has kept is (StateOf).
LEMMA StateOfSane ==
  ASSUME Inv, Gates, NEW h \in DOMAIN store
  PROVE  Sane(StateOf(h))
<1>1. store[h] \in StoredRecords /\ h \in Nat
  BY DEF Inv, TypeOK
<1>2. PICK g \in Sessions : /\ g = [Genesis EXCEPT !.inBar = store[h].inBar, !.pending = store[h].pending]
                            /\ Sane(g)
  <2>1. [Genesis EXCEPT !.inBar = store[h].inBar, !.pending = store[h].pending] \in Sessions
    BY <1>1, GenesisType DEF StoredRecords, Sessions
  <2>2. PICK g \in Sessions : g = [Genesis EXCEPT !.inBar = store[h].inBar, !.pending = store[h].pending]
    BY <2>1
  <2>3. g.terminal = Genesis.terminal /\ g.halted = Genesis.halted /\ g.orders = Genesis.orders
    BY <2>2, GenesisType DEF Sessions
  <2> QED BY <2>2, <2>3, GenesisSane, SameOrders
<1>3. PICK s \in Sessions : s = (IF store[h].body # None THEN store[h].body ELSE g) /\ Sane(s)
  BY <1>1, <1>2 DEF StoredRecords, Gates
<1>4. PICK t : t = [s EXCEPT !.seq = store[h].seq, !.sha = h]
  OBVIOUS
<1>5. StateOf(h) = t
  BY <1>2, <1>3, <1>4 DEF StateOf
<1>6. t.terminal = s.terminal /\ t.halted = s.halted /\ t.orders = s.orders
  BY <1>4 DEF Sessions
<1> QED BY <1>3, <1>5, <1>6, SameOrders

\* Exports, crashes and restores keep the gates.
LEMMA GatesRestore ==
  ASSUME Inv, Gates, \/ ExportState \/ Crash \/ RestoreBegin \/ RestoreEnd
                     \/ \E h \in DOMAIN store : RestoreRecord(h)
  PROVE  Gates'
<1>1. CASE ExportState
  BY <1>1 DEF ExportState, Gates, Fitting
<1>2. Drained(<<>>) /\ OnTop(<<>>)
  BY DEF Drained, OnTop
<1>3. CASE Crash
  <2>1. state' = Genesis /\ loading' = None /\ todo' = <<>> /\ UNCHANGED <<store, checkpoint>>
    BY <1>3 DEF Crash
  <2>2. Fitting(Genesis, <<>>)
    BY <1>2, GenesisSane DEF Fitting
  <2> QED BY <1>2, <2>1, <2>2, GenesisSane DEF Gates
<1>4. CASE RestoreBegin
  BY <1>4 DEF RestoreBegin, Gates, Fitting
<1>5. ASSUME NEW h \in DOMAIN store, RestoreRecord(h)
      PROVE  Gates'
  BY <1>5, StateOfSane DEF RestoreRecord, Gates, Fitting
<1>6. CASE RestoreEnd
  <2>1. todo = <<>> /\ loading # None /\ todo' = todo /\ loading' = None /\ UNCHANGED <<store, checkpoint>>
    BY <1>6 DEF RestoreEnd, Inv, Control
  <2>2. CASE Complete(loading)
    <3>1. state' = loading /\ loading.pending = None
      BY <1>6, <2>2 DEF RestoreEnd, Complete
    <3>2. Fitting(loading, <<>>)
      BY <1>2, <3>1 DEF Fitting
    <3> QED BY <1>2, <2>1, <3>1, <3>2 DEF Gates
  <2>3. CASE ~Complete(loading)
    BY <1>6, <2>1, <2>3 DEF RestoreEnd, Gates, Fitting
  <2> QED BY <2>2, <2>3
<1> QED BY <1>1, <1>3, <1>4, <1>5, <1>6

\* The gates hold initially.
LEMMA GatesInit == Init => Gates
<1> SUFFICES ASSUME Init PROVE Gates
  OBVIOUS
<1>1. /\ state = Genesis /\ todo = <<>> /\ store = <<>> /\ checkpoint = None /\ loading = None
  BY DEF Init
<1>2. Fitting(Genesis, <<>>) /\ DOMAIN <<>> = {}
  BY GenesisSane DEF Fitting, OnTop
<1> QED BY <1>1, <1>2, GenesisSane DEF Gates

\* The gates are inductive.
LEMMA GatesNext ==
  ASSUME Inv, Gates, [Next]_vars
  PROVE  Gates'
<1>1. CASE UNCHANGED vars
  BY <1>1 DEF vars, journalVars, Gates, Fitting
<1> QED BY <1>1, GatesStep, GatesCandle, GatesCommand, GatesRestore DEF Next, Host

\* Only a reduction fills an order.
LEMMA FillsByReduction ==
  ASSUME Inv, Gates, [Next]_vars, ~fresh, ~fresh', loading = None, Frozen(state), NEW k \in Orders
  PROVE  \/ state'.orders[k].filled = state.orders[k].filled
         \/ (k = Close /\ state.terminal = "stop_and_flatten")
<1>1. state \in Sessions /\ todo \in Seq(Calls)
  BY DEF Inv, TypeOK
<1>2. ASSUME NEW candidate, NEW kind, NEW rest, Persist(candidate, kind, rest),
             "orders" \in DOMAIN candidate
      PROVE  state'.orders = candidate.orders \/ state' = state
  <2>1. PICK n, h : state' = [candidate EXCEPT !.seq = n, !.sha = h] \/ state' = state
    BY <1>2 DEF Persist
  <2>2. [candidate EXCEPT !.seq = n, !.sha = h].orders = candidate.orders
    BY <1>2
  <2> QED BY <2>1, <2>2
<1>3. ASSUME NEW ob, NEW rest, Observe(ob, rest)
      PROVE  state'.orders = state.orders
  <2>1. PICK candidate : candidate = [state EXCEPT !.pending = ob]
    OBVIOUS
  <2>2. "orders" \in DOMAIN candidate /\ candidate.orders = state.orders
    BY <1>1, <2>1 DEF Sessions
  <2>3. state'.orders = candidate.orders \/ state' = state
    BY <1>2, <1>3, <2>1, <2>2 DEF Observe
  <2> QED BY <2>2, <2>3
<1>4. CASE Advance
  <2>1. state.pending # None /\ state.pending.kind \in Kinds
    <3>1. state.pending # None
      BY <1>4, NestedRest DEF Advance, Doing, Inv
    <3>2. \A ob \in Observations : ob.kind \in Kinds
      BY DEF Observations, Kinds
    <3> QED BY <1>1, <3>1, <3>2 DEF Sessions
  <2>2. PICK reduced \in Sessions : reduced = Reduce(state)
    BY <1>1, <2>1, ReduceType
  <2>3. \/ reduced.orders[k].filled = state.orders[k].filled
        \/ (k = Close /\ state.terminal = "stop_and_flatten")
    BY <1>1, <2>1, <2>2, ReduceSane DEF Gates, Fitting
  <2>4. state'.orders = reduced.orders \/ state'.orders = state.orders
    <3>1. CASE state' = state
      BY <3>1
    <3>2. CASE state' # state
      <4>1. PICK halt \in BOOLEAN :
              Persist([Reduce(state) EXCEPT !.halted = @ \/ halt], state.pending.kind, Rest)
        BY <1>4, <3>2 DEF Advance
      <4>2. PICK halted \in BOOLEAN : halted = (reduced.halted \/ halt)
        OBVIOUS
      <4>3. PICK candidate : candidate = [reduced EXCEPT !.halted = halted]
        OBVIOUS
      <4>4. "orders" \in DOMAIN candidate /\ candidate.orders = reduced.orders
        BY <4>3 DEF Sessions
      <4>5. candidate = [reduced EXCEPT !.halted = @ \/ halt]
        BY <4>2, <4>3
      <4>6. Persist(candidate, state.pending.kind, Rest)
        BY <2>2, <4>1, <4>5
      <4> QED BY <1>2, <4>4, <4>6
    <3> QED BY <3>1, <3>2
  <2> QED BY <2>3, <2>4
<1>5. CASE UNCHANGED state
  BY <1>5
<1>6. CASE Step
  <2>1. CASE Turning
    BY <1>5, <2>1 DEF Turning, Continue, journalVars
  <2>2. CASE Observing
    BY <1>3, <2>2 DEF Observing
  <2>3. CASE Debiting
    <3>1. PICK e : Persist([state EXCEPT !.used = @ + e.qty], "liquidity_allocation",
                           <<execution(e), drain>> \o Rest)
      BY <2>3 DEF Debiting
    <3>2. PICK candidate : candidate = [state EXCEPT !.used = @ + e.qty]
      OBVIOUS
    <3>3. "orders" \in DOMAIN candidate /\ candidate.orders = state.orders
      BY <1>1, <3>2 DEF Sessions
    <3>4. state'.orders = candidate.orders \/ state' = state
      BY <1>2, <3>1, <3>2, <3>3
    <3> QED BY <3>3, <3>4
  <2>4. CASE Execution \/ ClosedBar
    BY <1>3, <2>4 DEF Execution, ClosedBar
  <2>5. CASE StopReference \/ Processed \/ EndOfData
    <3>1. PICK a, b, c : /\ a = [state EXCEPT !.stopBar = state.bar]
                         /\ b = [state EXCEPT !.inBar = FALSE] /\ c = [state EXCEPT !.finished = TRUE]
      OBVIOUS
    <3>2. /\ "orders" \in DOMAIN a /\ a.orders = state.orders
          /\ "orders" \in DOMAIN b /\ b.orders = state.orders
          /\ "orders" \in DOMAIN c /\ c.orders = state.orders
      BY <1>1, <3>1 DEF Sessions
    <3>3. \/ Persist(a, "stop_reference_consumed", Rest) \/ Persist(b, "candle_processed", Rest)
          \/ Persist(c, "end_of_data", Rest)
      BY <2>5, <3>1 DEF StopReference, Processed, EndOfData
    <3> QED BY <1>2, <3>2, <3>3
  <2> QED BY <1>4, <1>6, <2>1, <2>2, <2>3, <2>4, <2>5, StepShapes DEF Inv
<1>7. ASSUME NEW c \in Candles, OnCandle(c)
      PROVE  state'.orders = state.orders
  <2>1. PICK started : started = [state EXCEPT !.bar = @ + 1, !.inBar = TRUE, !.candle = c,
                                               !.allowance = c.v, !.used = 0, !.tape = <<>>]
    OBVIOUS
  <2>2. "orders" \in DOMAIN started /\ started.orders = state.orders
    BY <1>1, <2>1 DEF Sessions
  <2>3. PICK rest : Persist(started, "candle_received", rest)
    BY <1>7, <2>1 DEF OnCandle
  <2> QED BY <1>2, <2>2, <2>3
<1>8. CASE Finish \/ \E action \in Actions : Command(action)
  BY <1>3, <1>8, CommandCalls
<1>9. CASE ExportState \/ RestoreBegin \/ \E h \in DOMAIN store : RestoreRecord(h)
  BY <1>5, <1>9 DEF ExportState, RestoreBegin, RestoreRecord
<1>10. ~Crash /\ ~RestoreEnd
  BY DEF Crash, RestoreEnd
<1>11. CASE UNCHANGED vars
  BY <1>5, <1>11 DEF vars, journalVars
<1> QED BY <1>6, <1>7, <1>8, <1>9, <1>10, <1>11 DEF Next, Host

\* Once a terminal action is taken no entry and no target is filled any more, and after a
\* hold nothing is, whatever candles, commands, failures and restarts come.
THEOREM TerminalFrozen == Spec => TerminalFreezes
<1>1. Init => Inv /\ Gates
  BY TypeInit, ControlInit, GatesInit DEF Inv
<1>2. Inv /\ Gates /\ [Next]_vars => Inv' /\ Gates'
  BY InvStep, GatesNext
<1>3. Inv /\ Gates /\ [Next]_vars =>
        [~fresh /\ ~fresh' /\ loading = None /\ state.terminal # None /\ ~state.halted =>
           \A k \in Orders :
              state'.orders[k].filled = state.orders[k].filled
              \/ (k = Close /\ state.terminal = "stop_and_flatten")]_vars
  BY FillsByReduction DEF Frozen
<1> QED BY <1>1, <1>2, <1>3, PTL DEF Spec, TerminalFreezes

(* ---- Rest between calls -------------------------------------------------- *)

\* Calls that leave an order to be acknowledged or reconciled.
Upsetting == {"advance", "execution", "expire"}

\* An acknowledgement is still to come; one is to come after every call that needs it.
Awaited(calls) == \E i \in DOMAIN calls : calls[i].op = "drain"
Answered(calls) ==
  \A i \in DOMAIN calls :
    calls[i].op \in Upsetting => \E j \in DOMAIN calls : j > i /\ calls[j].op = "drain"

\* Nothing is left to be acknowledged, canceled or reconciled.
AtRest(s) ==
  /\ \A k \in Orders : s.orders[k].status \notin {"pending", "cancel_pending"}
  /\ Reconciled(s)

\* In a process that never crashed, orders are at rest, or an acknowledgement is still to
\* come; and a restore begins and ends where a session starts.
Settling ==
  crashes = 0 /\ ~failed =>
    /\ Answered(todo)
    /\ state.halted \/ AtRest(state) \/ Awaited(todo)
    /\ fresh => state = Genesis /\ store = <<>> /\ todo = <<>> /\ checkpoint \in {None, Genesis}
    /\ loading # None => fresh /\ loading = Genesis

\* Calls before others: what is awaited still is, and all are answered if both parts are,
\* the first by itself or by the second.
LEMMA AnsweredBefore ==
  ASSUME NEW S, NEW a \in Seq(S), NEW b \in Seq(Calls)
  PROVE  /\ Awaited(a) \/ Awaited(b) => Awaited(a \o b)
         /\ Answered(b) /\ (Answered(a) \/ Awaited(b)) => Answered(a \o b)
<1>1. PICK all \in Seq(S \cup Calls) :
        /\ all = a \o b /\ Len(all) = Len(a) + Len(b)
        /\ \A i \in 1..(Len(a) + Len(b)) : all[i] = IF i <= Len(a) THEN a[i] ELSE b[i - Len(a)]
  <2>1. a \in Seq(S \cup Calls) /\ b \in Seq(S \cup Calls)
    BY SeqMonotonic
  <2>2. /\ a \o b \in Seq(S \cup Calls) /\ Len(a \o b) = Len(a) + Len(b)
        /\ \A i \in 1..(Len(a) + Len(b)) : (a \o b)[i] = IF i <= Len(a) THEN a[i] ELSE b[i - Len(a)]
    BY <2>1, ConcatProperties
  <2> QED BY <2>2, Zenon
<1>2. /\ Len(a) \in Nat /\ Len(b) \in Nat
      /\ DOMAIN a = 1..Len(a) /\ DOMAIN b = 1..Len(b) /\ DOMAIN all = 1..Len(all)
  BY LenProperties
<1>3. ASSUME NEW i \in DOMAIN all
      PROVE  \/ i \in DOMAIN a /\ all[i] = a[i]
             \/ i > Len(a) /\ i - Len(a) \in DOMAIN b /\ all[i] = b[i - Len(a)]
  BY <1>1, <1>2
<1>4. ASSUME NEW j \in DOMAIN a
      PROVE  j \in DOMAIN all /\ all[j] = a[j] /\ j <= Len(a)
  BY <1>1, <1>2
<1>5. ASSUME NEW j \in DOMAIN b
      PROVE  j + Len(a) \in DOMAIN all /\ all[j + Len(a)] = b[j] /\ j + Len(a) > Len(a)
  BY <1>1, <1>2
<1>6. Awaited(a) \/ Awaited(b) => Awaited(all)
  BY <1>4, <1>5 DEF Awaited
<1>7. ASSUME Answered(b), Answered(a) \/ Awaited(b), NEW i \in DOMAIN all, all[i].op \in Upsetting
      PROVE  \E j \in DOMAIN all : j > i /\ all[j].op = "drain"
  <2>1. CASE i \in DOMAIN a /\ all[i] = a[i] /\ Answered(a)
    <3>1. PICK j \in DOMAIN a : j > i /\ a[j].op = "drain"
      BY <1>7, <2>1 DEF Answered
    <3> QED BY <1>4, <3>1
  <2>2. CASE i \in DOMAIN a /\ Awaited(b)
    <3>1. PICK j \in DOMAIN b : b[j].op = "drain"
      BY <2>2 DEF Awaited
    <3>2. j + Len(a) > i
      BY <1>2, <2>2, <3>1
    <3> QED BY <1>5, <3>1, <3>2
  <2>3. CASE i > Len(a) /\ i - Len(a) \in DOMAIN b /\ all[i] = b[i - Len(a)]
    <3>1. PICK j \in DOMAIN b : j > i - Len(a) /\ b[j].op = "drain"
      BY <1>7, <2>3 DEF Answered
    <3>2. j + Len(a) > i
      BY <1>2, <2>3, <3>1
    <3> QED BY <1>5, <3>1, <3>2
  <2> QED BY <1>3, <1>7, <2>1, <2>2, <2>3
<1> QED BY <1>1, <1>6, <1>7 DEF Answered

\* The calls after the next one.
LEMMA AnsweredAfter ==
  ASSUME todo \in Seq(Calls), todo # <<>>, Answered(todo)
  PROVE  /\ Rest \in Seq(Calls) /\ Answered(Rest)
         /\ Call.op \in Upsetting => Awaited(Rest)
         /\ Awaited(todo) /\ Call.op # "drain" => Awaited(Rest)
<1>1. /\ Rest \in Seq(Calls) /\ Len(todo) \in Nat \ {0} /\ Len(Rest) = Len(todo) - 1
      /\ Call = todo[1] /\ \A i \in 1..Len(Rest) : Rest[i] = todo[i + 1]
      /\ DOMAIN todo = 1..Len(todo) /\ DOMAIN Rest = 1..Len(Rest)
  BY TopCall, LenProperties
<1>2. \A i \in DOMAIN Rest : i + 1 \in DOMAIN todo /\ todo[i + 1] = Rest[i]
  BY <1>1
<1>3. \A j \in DOMAIN todo : j > 1 => j - 1 \in DOMAIN Rest /\ Rest[j - 1] = todo[j]
  BY <1>1
<1>4. ASSUME NEW i \in DOMAIN Rest, Rest[i].op \in Upsetting
      PROVE  \E j \in DOMAIN Rest : j > i /\ Rest[j].op = "drain"
  <2>1. PICK j \in DOMAIN todo : j > i + 1 /\ todo[j].op = "drain"
    BY <1>2, <1>4 DEF Answered
  <2>2. j > 1 /\ j - 1 > i
    BY <1>1, <2>1
  <2> QED BY <1>3, <2>1, <2>2
<1>5. Call.op \in Upsetting => Awaited(Rest)
  <2> SUFFICES ASSUME Call.op \in Upsetting PROVE Awaited(Rest)
    OBVIOUS
  <2>1. PICK j \in DOMAIN todo : j > 1 /\ todo[j].op = "drain"
    BY <1>1 DEF Answered
  <2> QED BY <1>3, <2>1 DEF Awaited
<1>6. Awaited(todo) /\ Call.op # "drain" => Awaited(Rest)
  <2> SUFFICES ASSUME Awaited(todo), Call.op # "drain" PROVE Awaited(Rest)
    OBVIOUS
  <2>1. PICK j \in DOMAIN todo : todo[j].op = "drain"
    BY DEF Awaited
  <2>2. j > 1
    BY <1>1, <2>1
  <2> QED BY <1>3, <2>1, <2>2 DEF Awaited
<1> QED BY <1>1, <1>4, <1>5, <1>6 DEF Answered

\* Short stacks of calls none of which upsets anything, and one that is acknowledged.
LEMMA CalmStacks ==
  ASSUME NEW a, NEW b, NEW c, b.op \notin Upsetting, c.op \notin Upsetting
  PROVE  /\ <<>> \in Seq({a, b, c}) /\ Answered(<<>>)
         /\ <<a>> \in Seq({a, b, c}) /\ <<a, b>> \in Seq({a, b, c}) /\ <<a, b, c>> \in Seq({a, b, c})
         /\ a.op \notin Upsetting => Answered(<<a>>) /\ Answered(<<a, b>>) /\ Answered(<<a, b, c>>)
         /\ b.op = "drain" => Answered(<<a, b>>) /\ Awaited(<<a, b>>)
         /\ a.op = "drain" => Awaited(<<a>>) /\ Awaited(<<a, b>>) /\ Awaited(<<a, b, c>>)
<1>1. /\ DOMAIN <<>> = {} /\ DOMAIN <<a>> = {1} /\ DOMAIN <<a, b>> = {1, 2}
      /\ DOMAIN <<a, b, c>> = {1, 2, 3}
  OBVIOUS
<1>2. /\ <<a>>[1] = a /\ <<a, b>>[1] = a /\ <<a, b>>[2] = b
      /\ <<a, b, c>>[1] = a /\ <<a, b, c>>[2] = b /\ <<a, b, c>>[3] = c
  OBVIOUS
<1>3. Answered(<<>>)
  BY <1>1 DEF Answered
<1>4. a.op \notin Upsetting => Answered(<<a>>) /\ Answered(<<a, b>>) /\ Answered(<<a, b, c>>)
  BY <1>1, <1>2 DEF Answered
<1>5. b.op = "drain" => Answered(<<a, b>>) /\ Awaited(<<a, b>>)
  BY <1>1, <1>2 DEF Answered, Awaited
<1>6. a.op = "drain" => Awaited(<<a>>) /\ Awaited(<<a, b>>) /\ Awaited(<<a, b, c>>)
  BY <1>1, <1>2 DEF Awaited
<1> QED BY <1>3, <1>4, <1>5, <1>6

\* A record moves on to calls that are answered, or latches the session.
LEMMA SettlingPersist ==
  ASSUME Settling, NEW candidate \in Sessions, NEW kind, NEW rest, Persist(candidate, kind, rest),
         crashes = 0 => Answered(rest),
         crashes = 0 => candidate.halted \/ AtRest(candidate) \/ Awaited(rest)
  PROVE  Settling'
<1>1. CASE failed' = TRUE
  BY <1>1 DEF Settling
<1>2. CASE /\ state' = [candidate EXCEPT !.seq = Record(candidate, kind).seq,
                                         !.sha = HashOf(Record(candidate, kind))]
           /\ fresh' = FALSE /\ todo' = rest
  <2>1. state'.orders = candidate.orders /\ state'.halted = candidate.halted
    BY <1>2 DEF Sessions
  <2>2. AtRest(candidate) => AtRest(state')
    BY <2>1 DEF AtRest, Reconciled
  <2>3. loading' = None /\ crashes' = crashes
    BY DEF Persist
  <2>4. AtRest(state') => AtRest(state)'
    BY DEF AtRest, Reconciled
  <2>5. (Answered(rest) <=> Answered(todo)') /\ (Awaited(rest) <=> Awaited(todo)')
    BY <1>2 DEF Answered, Awaited
  <2> QED BY <1>2, <2>1, <2>2, <2>3, <2>4, <2>5 DEF Settling
<1> QED BY <1>1, <1>2 DEF Persist

\* An observation is noted before calls that are answered and acknowledge it.
LEMMA SettlingObserve ==
  ASSUME Inv, Settling, NEW ob \in Observations, NEW rest \in Seq(Calls), Observe(ob, rest),
         crashes = 0 => Answered(rest) /\ Awaited(rest)
  PROVE  Settling'
<1>1. PICK noted \in Sessions : noted = [state EXCEPT !.pending = ob]
  <2>1. [state EXCEPT !.pending = ob] \in Sessions
    BY DEF Inv, TypeOK, Sessions
  <2> QED BY <2>1
<1>2. PICK a \in Calls : a = [op |-> "advance"]
  BY DEF Calls
<1>3. PICK one \in Seq(Calls) : one = <<a>>
  BY <1>2, SomeCalls
<1>4. PICK all : all = one \o rest /\ (crashes = 0 => Answered(all) /\ Awaited(all))
  BY AnsweredBefore
<1>5. Persist(noted, "observation_received", all)
  BY <1>1, <1>2, <1>3, <1>4 DEF Observe
<1> QED BY <1>4, <1>5, SettlingPersist

\* A call makes way for calls that are answered: no acknowledgement is lost but one
\* that has nothing left to do.
LEMMA SettlingContinue ==
  ASSUME Inv, Settling, todo # <<>>, NEW S, NEW calls \in Seq(S), Continue(calls),
         Answered(calls) \/ Call.op \in Upsetting,
         Call.op = "drain" => state.halted \/ AtRest(state)
  PROVE  Settling'
<1>1. todo \in Seq(Calls) /\ ~failed
  BY DEF Inv, TypeOK, Control
<1>2. UNCHANGED <<store, state, failed, fresh, checkpoint, loading, crashes>> /\ todo' = calls \o Rest
  BY DEF Continue, journalVars
<1>3. ASSUME crashes = 0
      PROVE  /\ Answered(calls \o Rest)
             /\ state.halted \/ AtRest(state) \/ Awaited(calls \o Rest)
  <2>1. Answered(todo) /\ (state.halted \/ AtRest(state) \/ Awaited(todo))
    BY <1>1, <1>3 DEF Settling
  <2>2. /\ Rest \in Seq(Calls) /\ Answered(Rest) /\ (Call.op \in Upsetting => Awaited(Rest))
        /\ Awaited(todo) /\ Call.op # "drain" => Awaited(Rest)
    BY <1>1, <2>1, AnsweredAfter
  <2>3. Answered(calls \o Rest) /\ (Awaited(Rest) => Awaited(calls \o Rest))
    BY <2>2, AnsweredBefore
  <2> QED BY <2>1, <2>2, <2>3
<1>4. crashes = 0 => ~fresh /\ loading = None
  BY <1>1 DEF Settling, Inv, Control
<1>5. PICK all : all = calls \o Rest
  OBVIOUS
<1>6. (Answered(todo)' <=> Answered(all)) /\ (Awaited(todo)' <=> Awaited(all))
  BY <1>2, <1>5 DEF Answered, Awaited
<1>7. (AtRest(state) => AtRest(state)') /\ state'.halted = state.halted
  BY <1>2 DEF AtRest, Reconciled
<1> QED BY <1>1, <1>2, <1>3, <1>4, <1>5, <1>6, <1>7 DEF Settling

\* A short stack of calls that upset nothing.
LEMMA SettlingStack ==
  ASSUME Inv, Settling, todo # <<>>, Call.op # "drain", NEW a, NEW b, NEW c,
         a.op \notin Upsetting, b.op \notin Upsetting, c.op \notin Upsetting,
         Continue(<<>>) \/ Continue(<<a>>) \/ Continue(<<a, b>>) \/ Continue(<<a, b, c>>)
  PROVE  Settling'
<1>1. PICK none, one, two, three : none = <<>> /\ one = <<a>> /\ two = <<a, b>> /\ three = <<a, b, c>>
  OBVIOUS
<1>2. /\ {none, one, two, three} \subseteq Seq({a, b, c})
      /\ Answered(none) /\ Answered(one) /\ Answered(two) /\ Answered(three)
  BY <1>1, CalmStacks
<1>3. PICK calls \in {none, one, two, three} : Continue(calls)
  BY <1>1
<1> QED BY <1>2, <1>3, SettlingContinue

\* The walk settles what it upsets.
LEMMA SettlingWalk ==
  ASSUME Inv, Settling, Point \/ Sort \/ Sells \/ Buys \/ Bought \/ Leg \/ FlattenRest
  PROVE  Settling'
<1>1. PICK a, b, c : Unfolding(a, b, c)
  BY WalkUnfolds
<1>2. todo # <<>> /\ Call.op \in Trading
  BY WalkUnfolds
<1>3. /\ a.op \notin Upsetting /\ b.op \notin Upsetting /\ c.op \notin Upsetting
      /\ Continue(<<>>) \/ Continue(<<a>>) \/ Continue(<<a, b>>) \/ Continue(<<a, b, c>>)
  BY <1>1 DEF Unfolding, Sub, Trading, Upsetting
<1>4. Call.op # "drain"
  BY <1>2 DEF Trading
<1> QED BY <1>2, <1>3, <1>4, SettlingStack

\* A record of a call that touches no order, before calls that are answered.
LEMMA SettlingRecord ==
  ASSUME Inv, Settling, todo # <<>>, Call.op # "drain", NEW candidate \in Sessions,
         candidate.orders = state.orders, candidate.halted = state.halted, NEW kind,
         NEW calls \in Seq(Calls), Answered(calls), Persist(candidate, kind, calls \o Rest)
  PROVE  Settling'
<1>1. todo \in Seq(Calls) /\ ~failed
  BY DEF Inv, TypeOK, Control
<1>2. ASSUME crashes = 0
      PROVE  /\ Answered(calls \o Rest)
             /\ candidate.halted \/ AtRest(candidate) \/ Awaited(calls \o Rest)
  <2>1. Answered(todo) /\ (state.halted \/ AtRest(state) \/ Awaited(todo))
    BY <1>1, <1>2 DEF Settling
  <2>2. Rest \in Seq(Calls) /\ Answered(Rest) /\ (Awaited(todo) => Awaited(Rest))
    BY <1>1, <2>1, AnsweredAfter
  <2>3. Answered(calls \o Rest) /\ (Awaited(Rest) => Awaited(calls \o Rest))
    BY <2>2, AnsweredBefore
  <2>4. AtRest(state) => AtRest(candidate)
    BY DEF AtRest, Reconciled
  <2> QED BY <2>1, <2>2, <2>3, <2>4
<1>3. PICK all : /\ all = calls \o Rest
                 /\ crashes = 0 => /\ Answered(all)
                                   /\ candidate.halted \/ AtRest(candidate) \/ Awaited(all)
  BY <1>2
<1> QED BY <1>3, SettlingPersist

\* An execution and the acknowledgement it is answered by.
LEMMA ExecutionAnswered ==
  ASSUME NEW e \in Events
  PROVE  \E calls \in Seq(Calls) :
           calls = <<execution(e), drain>> /\ Answered(calls) /\ Awaited(calls)
<1>1. PICK a \in Calls, b \in Calls : a = execution(e) /\ b = drain /\ b.op = "drain"
  <2>1. execution(e) \in Calls /\ drain \in Calls
    BY CallsAreQuiet DEF Inner, Quiet, drain
  <2>2. drain.op = "drain"
    BY DEF drain
  <2> QED BY <2>1, <2>2
<1>2. Answered(<<a, b>>) /\ Awaited(<<a, b>>)
  BY <1>1, CalmStacks DEF Upsetting
<1>3. <<a, b>> \in Seq(Calls)
  BY SomeCalls
<1> QED BY <1>1, <1>2, <1>3

\* The event of a match is followed by an acknowledgement (Match).
LEMMA SettlingMatch ==
  ASSUME Inv, Settling, Match
  PROVE  Settling'
<1>1. /\ todo # <<>> /\ Call \in Calls /\ Call.op = "match" /\ Call.key \in Orders
      /\ state \in Sessions
  BY TopCall, CallFields DEF Match, Doing, Inv, TypeOK
<1>2. PICK event : event = MatchEvent(Call)
  OBVIOUS
<1>3. event # None => event \in Events
  BY <1>1, <1>2, MatchEventType
<1>4. CASE event = None
  <2>1. PICK calls : calls = <<>> /\ calls \in Seq(Calls) /\ Answered(calls)
    <3>1. <<>> \in Seq(Calls) /\ Answered(<<>>)
      BY SomeCalls DEF Answered
    <3> QED BY <3>1
  <2>2. Continue(calls)
    BY <1>2, <1>4, <2>1 DEF Match
  <2> QED BY <1>1, <2>1, <2>2, SettlingContinue
<1>5. CASE event # None
  <2>1. PICK calls \in Seq(Calls) : calls = <<execution(event), drain>> /\ Answered(calls)
    BY <1>3, <1>5, ExecutionAnswered
  <2>2. CASE event.qty = 0
    <3>1. Continue(calls)
      BY <1>2, <1>5, <2>1, <2>2 DEF Match
    <3> QED BY <1>1, <2>1, <3>1, SettlingContinue
  <2>3. CASE event.qty # 0
    <3>1. PICK n \in Nat : n = state.used + event.qty
      BY <1>1, <1>3, <1>5 DEF Sessions, Events
    <3>2. PICK candidate \in Sessions : candidate = [state EXCEPT !.used = n]
      BY <1>1, SessionUpdates
    <3>3. candidate.orders = state.orders /\ candidate.halted = state.halted
      BY <1>1, <3>2 DEF Sessions
    <3>4. Persist(candidate, "liquidity_allocation", calls \o Rest)
      BY <1>2, <1>5, <2>1, <2>3, <3>1, <3>2 DEF Match
    <3> QED BY <1>1, <2>1, <3>3, <3>4, SettlingRecord
  <2> QED BY <2>2, <2>3
<1> QED BY <1>4, <1>5

\* An expiry is acknowledged after the last of them (Expire).
LEMMA SettlingExpire ==
  ASSUME Inv, Settling, Expire
  PROVE  Settling'
<1>1. todo # <<>> /\ Call.op = "expire"
  BY DEF Expire, Doing
<1>2. PICK a, b : a = execution(StatusEvent(Min(Expired), "expired")) /\ b = Call
  OBVIOUS
<1>3. PICK calls \in Seq({a, b}) : Continue(calls)
  <2>1. <<>> \in Seq({a, b}) /\ <<a, b>> \in Seq({a, b})
    BY SomeCalls
  <2>2. Continue(<<>>) \/ Continue(<<a, b>>)
    BY <1>2 DEF Expire
  <2> QED BY <2>1, <2>2
<1> QED BY <1>1, <1>3, SettlingContinue DEF Upsetting

\* The acknowledgements go on until orders are at rest (Drain).
LEMMA SettlingDrain ==
  ASSUME Inv, Settling, Drain
  PROVE  Settling'
<1>1. /\ todo # <<>> /\ Call.op = "drain" /\ todo \in Seq(Calls) /\ ~failed
  BY DEF Drain, Doing, Inv, TypeOK, Control
<1>2. CASE state.halted \/ (Unacknowledged = {} /\ Reconciled(state))
  <2>1. state.halted \/ AtRest(state)
    BY <1>2 DEF AtRest, Unacknowledged
  <2>2. PICK calls : calls = <<>> /\ calls \in Seq(Calls) /\ Answered(calls)
    <3>1. <<>> \in Seq(Calls) /\ Answered(<<>>)
      BY SomeCalls DEF Answered
    <3> QED BY <3>1
  <2>3. Continue(calls)
    BY <1>2, <2>2 DEF Drain
  <2> QED BY <1>1, <2>1, <2>2, <2>3, SettlingContinue
<1>3. CASE ~(state.halted \/ (Unacknowledged = {} /\ Reconciled(state)))
  <2>1. crashes = 0 => Answered(todo) /\ Awaited(todo)
    <3>1. 1 \in DOMAIN todo /\ todo[1].op = "drain"
      BY <1>1, TopCall
    <3> QED BY <1>1, <3>1 DEF Settling, Awaited
  <2>2. PICK ob \in Observations : Observe(ob, todo)
    <3>1. CASE Unacknowledged # {}
      <4>1. PICK k \in Unacknowledged : k = Min(Unacknowledged)
        <5>1. Unacknowledged \in SUBSET Nat
          BY OrdersAreFinite DEF Unacknowledged
        <5> QED BY <3>1, <5>1, MinOfNaturals
      <4>2. PICK status \in Statuses :
              status = IF state.orders[k].status = "pending" THEN "accepted" ELSE "canceled"
        BY DEF Statuses, TERMINAL
      <4>3. PICK event \in Events : event = StatusEvent(k, status)
        BY <4>1, StatusEventType DEF Unacknowledged
      <4>4. PICK ob \in Observations : ob = [kind |-> "executions", event |-> event]
        BY DEF Observations
      <4> QED BY <1>3, <3>1, <4>1, <4>2, <4>3, <4>4 DEF Drain
    <3>2. CASE Unacknowledged = {}
      <4>1. PICK ob \in Observations : ob = [kind |-> "reconciliation"]
        BY DEF Observations
      <4> QED BY <1>3, <3>2, <4>1 DEF Drain
    <3> QED BY <3>1, <3>2
  <2> QED BY <1>1, <2>1, <2>2, SettlingObserve
<1> QED BY <1>2, <1>3

\* What is observed is acknowledged: by calls of its own, or by those after it
\* (Price, Execution, ClosedBar).
LEMMA SettlingNote ==
  ASSUME Inv, Settling, Price \/ Execution \/ ClosedBar
  PROVE  Settling'
<1>1. /\ todo # <<>> /\ Call \in Calls /\ todo \in Seq(Calls) /\ Rest \in Seq(Calls) /\ ~failed
  BY TopCall DEF Price, Execution, ClosedBar, Doing, Inv, TypeOK, Control
<1>2. /\ crashes = 0 => Answered(Rest)
      /\ crashes = 0 /\ Call.op = "execution" => Awaited(Rest)
  BY <1>1, AnsweredAfter DEF Settling, Upsetting
<1>3. PICK d \in Calls, p \in Calls : /\ d = drain /\ p = [op |-> "processed"]
                                      /\ d.op = "drain" /\ p.op = "processed"
  <2>1. drain \in Calls /\ [op |-> "processed"] \in Calls
    BY DEF drain, Calls
  <2>2. drain.op = "drain" /\ [op |-> "processed"].op = "processed"
    BY DEF drain
  <2> QED BY <2>1, <2>2
<1>4. PICK one \in Seq(Calls), two \in Seq(Calls) :
        /\ one = <<d>> /\ Answered(one) /\ Awaited(one)
        /\ two = <<d, p>> /\ Answered(two) /\ Awaited(two)
  <2>1. d.op \notin Upsetting /\ p.op \notin Upsetting
    BY <1>3 DEF Upsetting
  <2>2. Answered(<<d>>) /\ Awaited(<<d>>) /\ Answered(<<d, p>>) /\ Awaited(<<d, p>>)
    BY <1>3, <2>1, CalmStacks
  <2> QED BY <2>2, SomeCalls
<1>5. ASSUME NEW ob \in Observations, NEW a \in Seq(Calls), Answered(a), Awaited(a),
             Observe(ob, a \o Rest)
      PROVE  Settling'
  <2>1. PICK all \in Seq(Calls) : /\ all = a \o Rest
                                  /\ crashes = 0 => Answered(all) /\ Awaited(all)
    <3>1. a \o Rest \in Seq(Calls)
      BY <1>1, ConcatProperties
    <3>2. crashes = 0 => Answered(a \o Rest) /\ Awaited(a \o Rest)
      BY <1>1, <1>2, <1>5, AnsweredBefore
    <3> QED BY <3>1, <3>2
  <2> QED BY <1>5, <2>1, SettlingObserve
<1>6. CASE Price
  <2>1. PICK ob \in Observations : ob = [kind |-> "price", price |-> Call.price]
    <3>1. Call.price \in Nat
      BY <1>1, <1>6, CallFields DEF Price, Doing
    <3> QED BY <3>1 DEF Observations
  <2>2. Observe(ob, one \o Rest)
    BY <1>3, <1>4, <1>6, <2>1 DEF Price
  <2> QED BY <1>4, <1>5, <2>2
<1>7. CASE Execution
  <2>1. Call.op = "execution" /\ Call.event \in Events
    BY <1>1, <1>7, CallFields DEF Execution, Doing
  <2>2. PICK ob \in Observations : ob = [kind |-> "executions", event |-> Call.event]
    BY <2>1 DEF Observations
  <2>3. Observe(ob, Rest)
    BY <1>7, <2>2 DEF Execution
  <2> QED BY <1>1, <1>2, <2>1, <2>3, SettlingObserve
<1>8. CASE ClosedBar
  <2>1. PICK request \in Requests \cup {None} :
          Observe([kind |-> "closed_bar", request |-> request], <<drain, [op |-> "processed"]>> \o Rest)
    BY <1>8 DEF ClosedBar
  <2>2. PICK ob \in Observations : ob = [kind |-> "closed_bar", request |-> request]
    BY DEF Observations
  <2>3. Observe(ob, two \o Rest)
    BY <1>3, <1>4, <2>1, <2>2
  <2> QED BY <1>4, <1>5, <2>3
<1> QED BY <1>6, <1>7, <1>8

\* The steps that only record (StopReference, Processed, EndOfData).
LEMMA SettlingMark ==
  ASSUME Inv, Settling, StopReference \/ Processed \/ EndOfData
  PROVE  Settling'
<1>1. /\ todo # <<>> /\ todo \in Seq(Calls) /\ state \in Sessions /\ Rest \in Seq(Calls)
      /\ Call.op # "drain"
  BY TopCall DEF StopReference, Processed, EndOfData, Doing, Inv, TypeOK
<1>2. PICK calls \in Seq(Calls) : calls = <<>> /\ calls \o Rest = Rest /\ Answered(calls)
  <2>1. <<>> \in Seq(Calls) /\ <<>> \o Rest = Rest /\ Answered(<<>>)
    BY <1>1, ConcatEmptySeq, EmptySeq DEF Answered
  <2> QED BY <2>1
<1>3. ASSUME NEW candidate \in Sessions, NEW kind, Persist(candidate, kind, Rest),
             candidate.orders = state.orders, candidate.halted = state.halted
      PROVE  Settling'
  <2>1. Persist(candidate, kind, calls \o Rest)
    BY <1>2, <1>3
  <2> QED BY <1>1, <1>2, <1>3, <2>1, SettlingRecord
<1>4. PICK a \in Sessions, b \in Sessions, c \in Sessions :
        /\ a = [state EXCEPT !.stopBar = state.bar] /\ b = [state EXCEPT !.inBar = FALSE]
        /\ c = [state EXCEPT !.finished = TRUE]
  <2>1. [state EXCEPT !.stopBar = state.bar] \in Sessions
    BY <1>1 DEF Sessions
  <2>2. [state EXCEPT !.inBar = FALSE] \in Sessions
    BY <1>1 DEF Sessions
  <2>3. [state EXCEPT !.finished = TRUE] \in Sessions
    BY <1>1 DEF Sessions
  <2> QED BY <2>1, <2>2, <2>3
<1>5. \A s \in {a, b, c} : s.orders = state.orders /\ s.halted = state.halted
  BY <1>1, <1>4 DEF Sessions
<1>6. \/ Persist(a, "stop_reference_consumed", Rest) \/ Persist(b, "candle_processed", Rest)
      \/ Persist(c, "end_of_data", Rest)
  BY <1>4 DEF StopReference, Processed, EndOfData
<1> QED BY <1>3, <1>5, <1>6

\* A reduction is followed by an acknowledgement, whatever it decides (Advance).
LEMMA SettlingAdvance ==
  ASSUME Inv, Settling, Advance
  PROVE  Settling'
<1>1. /\ todo # <<>> /\ Call.op = "advance" /\ todo \in Seq(Calls) /\ ~failed
      /\ state \in Sessions /\ state.pending # None
  <2>1. todo # <<>> /\ Call.op = "advance"
    BY DEF Advance, Doing
  <2> QED BY <2>1, NestedRest DEF Inv, TypeOK
<1>2. crashes = 0 => Answered(Rest) /\ Awaited(Rest)
  BY <1>1, AnsweredAfter DEF Settling, Upsetting
<1>3. CASE failed' = TRUE
  BY <1>3 DEF Settling
<1>4. CASE failed' # TRUE
  <2>1. PICK halt \in BOOLEAN :
          Persist([Reduce(state) EXCEPT !.halted = @ \/ halt], state.pending.kind, Rest)
    BY <1>4 DEF Advance
  <2>2. PICK reduced \in Sessions : reduced = Reduce(state)
    BY <1>1, ReduceType
  <2>3. PICK halted \in BOOLEAN : halted = (reduced.halted \/ halt)
    OBVIOUS
  <2>4. PICK candidate \in Sessions : candidate = [reduced EXCEPT !.halted = halted]
    <3>1. [reduced EXCEPT !.halted = halted] \in Sessions
      BY DEF Sessions
    <3> QED BY <3>1
  <2>5. Persist(candidate, state.pending.kind, Rest)
    BY <2>1, <2>2, <2>3, <2>4
  <2> QED BY <1>2, <2>5, SettlingPersist
<1> QED BY <1>3, <1>4

\* A candle begins with the expiries and their acknowledgement (OnCandle).
LEMMA SettlingCandle ==
  ASSUME Inv, Settling, NEW c \in Candles, OnCandle(c)
  PROVE  Settling'
<1>1. state \in Sessions /\ todo = <<>> /\ state.pending = None
  BY DEF Inv, TypeOK, Control, Nested, OnCandle, Idle, Persist
<1>2. PICK started \in Sessions :
        started = [state EXCEPT !.bar = @ + 1, !.inBar = TRUE, !.candle = c,
                                !.allowance = c.v, !.used = 0, !.tape = <<>>]
  BY <1>1, StartedType
<1>3. PICK x, d, walk, end :
        /\ x = [op |-> "expire"] /\ d = drain /\ walk = Walk(c)
        /\ end = <<price(c.c), [op |-> "closedBar"]>>
  OBVIOUS
<1>4. x \in Calls /\ d \in Calls /\ x.op = "expire" /\ d.op = "drain"
  BY <1>3 DEF Calls, drain
<1>5. walk \in Seq(Calls) /\ Answered(walk)
  <2>1. /\ c.o \in Nat /\ c.l \in Nat /\ c.h \in Nat /\ c.c \in Nat
    BY HostAssumption
  <2>2. PICK p, q, r, s : /\ p = point(c.o, "open", TRUE) /\ q = leg(c.o, c.l, "descending")
                          /\ r = leg(c.l, c.h, "ascending") /\ s = leg(c.h, c.c, "close")
    OBVIOUS
  <2>3. p \in Calls /\ q \in Calls /\ r \in Calls /\ s \in Calls
    BY <2>1, <2>2, CallsAreQuiet DEF Phases, Quiet, Inner
  <2>4. p.op = "point" /\ q.op = "leg" /\ r.op = "leg" /\ s.op = "leg"
    BY <2>2 DEF point, leg
  <2>5. /\ <<p, q, r, s>> \in Seq(Calls)
        /\ \A i \in DOMAIN <<p, q, r, s>> : <<p, q, r, s>>[i] \in {p, q, r, s}
    BY <2>3
  <2>6. walk = <<p, q, r, s>>
    BY <1>3, <2>2 DEF Walk
  <2> QED BY <2>4, <2>5, <2>6 DEF Answered, Upsetting
<1>6. end \in Seq(Calls) /\ Answered(end)
  <2>1. PICK p \in Calls, q \in Calls : /\ p = price(c.c) /\ q = [op |-> "closedBar"]
                                        /\ p.op = "price" /\ q.op = "closedBar"
    <3>1. price(c.c) \in Calls /\ [op |-> "closedBar"] \in Calls
      BY HostAssumption DEF Calls, price
    <3>2. price(c.c).op = "price" /\ [op |-> "closedBar"].op = "closedBar"
      BY DEF price
    <3> QED BY <3>1, <3>2
  <2> QED BY <1>3, <2>1, CalmStacks, SomeCalls DEF Upsetting
<1>7. PICK begin \in Seq(Calls) : begin = <<x, d>> /\ Answered(begin) /\ Awaited(begin)
  BY <1>4, CalmStacks, SomeCalls DEF Upsetting
<1>8. PICK all : /\ all = begin \o walk \o end /\ Answered(all) /\ Awaited(all)
  <2>1. PICK most \in Seq(Calls) : most = begin \o walk /\ Answered(most) /\ Awaited(most)
    <3>1. begin \o walk \in Seq(Calls)
      BY <1>5, ConcatProperties
    <3> QED BY <1>5, <1>7, <3>1, AnsweredBefore
  <2> QED BY <1>6, <2>1, AnsweredBefore
<1>9. Persist(started, "candle_received", all)
  BY <1>2, <1>3, <1>7, <1>8 DEF OnCandle
<1> QED BY <1>8, <1>9, SettlingPersist

\* A command is acknowledged before anything else, at the end of the feed too
\* (Command, Finish).
LEMMA SettlingCommand ==
  ASSUME Inv, Settling, Finish \/ \E action \in Actions : Command(action)
  PROVE  Settling'
<1>1. PICK d \in Calls, f \in Calls, e \in Calls :
        /\ d = drain /\ f = [op |-> "flattenRest"] /\ e = [op |-> "endOfData"]
        /\ d.op = "drain" /\ f.op = "flattenRest" /\ e.op = "endOfData"
  <2>1. drain \in Calls /\ [op |-> "flattenRest"] \in Calls /\ [op |-> "endOfData"] \in Calls
    BY DEF drain, Calls
  <2>2. /\ drain.op = "drain"
        /\ [op |-> "flattenRest"].op = "flattenRest" /\ [op |-> "endOfData"].op = "endOfData"
    BY DEF drain
  <2> QED BY <2>1, <2>2
<1>2. PICK one \in Seq(Calls), three \in Seq(Calls) :
        /\ one = <<d>> /\ Answered(one) /\ Awaited(one)
        /\ three = <<d, f, e>> /\ Answered(three) /\ Awaited(three)
  <2>1. d.op \notin Upsetting /\ f.op \notin Upsetting /\ e.op \notin Upsetting
    BY <1>1 DEF Upsetting
  <2>2. Answered(<<d>>) /\ Awaited(<<d>>) /\ Answered(<<d, f, e>>) /\ Awaited(<<d, f, e>>)
    BY <1>1, <2>1, CalmStacks
  <2> QED BY <2>2, SomeCalls
<1>3. ASSUME NEW action \in Actions, NEW calls \in Seq(Calls), Answered(calls), Awaited(calls),
             Observe([kind |-> "command", action |-> action], calls)
      PROVE  Settling'
  <2>1. PICK ob \in Observations : ob = [kind |-> "command", action |-> action]
    BY DEF Observations
  <2> QED BY <1>3, <2>1, SettlingObserve
<1>4. CASE Finish
  <2>1. Observe([kind |-> "command", action |-> EndPolicy], three)
    BY <1>1, <1>2, <1>4 DEF Finish
  <2> QED BY <1>2, <1>3, <2>1, HostAssumption
<1>5. ASSUME NEW action \in Actions, Command(action)
      PROVE  Settling'
  <2>1. Observe([kind |-> "command", action |-> action], one)
    BY <1>1, <1>2, <1>5 DEF Command
  <2> QED BY <1>2, <1>3, <2>1
<1> QED BY <1>4, <1>5

\* A new session is at rest.
LEMMA GenesisAtRest == AtRest(Genesis)
<1>1. \A k \in Orders : Genesis.orders[k].status = "absent"
  BY DEF Genesis, NoOrder
<1> QED BY <1>1 DEF AtRest, Reconciled, TERMINAL

\* What is exported before the first record is what a session starts with, so a restore
\* in the same process changes nothing; after a crash nothing is claimed.
LEMMA SettlingRestore ==
  ASSUME Inv, Settling, \/ ExportState \/ Crash \/ RestoreBegin \/ RestoreEnd
                        \/ \E h \in DOMAIN store : RestoreRecord(h)
  PROVE  Settling'
<1>1. CASE Crash
  <2>1. crashes' # 0
    <3>1. crashes \in Nat
      BY DEF Inv, TypeOK
    <3> QED BY <1>1, <3>1 DEF Crash
  <2> QED BY <2>1 DEF Settling
<1>2. ASSUME UNCHANGED <<failed, todo, crashes, state, store, fresh>>,
             crashes = 0 /\ ~failed =>
               /\ fresh => checkpoint' \in {None, Genesis}
               /\ loading' # None => fresh /\ loading' = Genesis
      PROVE  Settling'
  <2>1. /\ Answered(todo) => Answered(todo)'
        /\ Awaited(todo) => Awaited(todo)'
        /\ AtRest(state) => AtRest(state)'
    BY <1>2 DEF Answered, Awaited, AtRest, Reconciled
  <2> QED BY <1>2, <2>1 DEF Settling
<1>3. CASE ExportState
  BY <1>2, <1>3 DEF ExportState, Settling
<1>4. CASE RestoreBegin
  BY <1>2, <1>4 DEF RestoreBegin, Settling
<1>5. ASSUME NEW h \in DOMAIN store, RestoreRecord(h)
      PROVE  Settling'
  <2>1. ~(crashes = 0 /\ ~failed)
    BY <1>5 DEF RestoreRecord, Settling
  <2> QED BY <1>5, <2>1 DEF RestoreRecord, Settling
<1>6. CASE RestoreEnd
  <2>1. UNCHANGED <<store, failed, checkpoint, todo, crashes>> /\ loading' = None /\ loading # None
    BY <1>6 DEF RestoreEnd
  <2>2. CASE UNCHANGED <<state, fresh>>
    BY <1>2, <2>1, <2>2 DEF Settling
  <2>3. CASE state' = loading /\ fresh' = FALSE
    <3>1. crashes = 0 /\ ~failed => state' = state /\ Answered(todo) /\ Awaited(todo) = FALSE
      BY <2>1, <2>3 DEF Settling, Awaited
    <3>2. crashes = 0 /\ ~failed => AtRest(state')
      BY <2>1, <2>3, GenesisAtRest DEF Settling
    <3>3. (Answered(todo) => Answered(todo)') /\ (AtRest(state') => AtRest(state)')
      BY <2>1 DEF Answered, AtRest, Reconciled
    <3> QED BY <2>1, <2>3, <3>1, <3>2, <3>3 DEF Settling
  <2> QED BY <1>6, <2>2, <2>3 DEF RestoreEnd
<1> QED BY <1>1, <1>3, <1>4, <1>5, <1>6

\* The initial state is at rest.
LEMMA SettlingInit == Init => Settling
<1> SUFFICES ASSUME Init PROVE Settling
  OBVIOUS
<1>1. /\ state = Genesis /\ todo = <<>> /\ store = <<>> /\ checkpoint = None /\ loading = None
  BY DEF Init
<1>2. Answered(todo)
  BY <1>1 DEF Answered
<1> QED BY <1>1, <1>2, GenesisAtRest DEF Settling

\* Settling is inductive.
LEMMA SettlingNext ==
  ASSUME Inv, Settling, [Next]_vars
  PROVE  Settling'
<1>1. CASE UNCHANGED vars
  BY <1>1 DEF vars, journalVars, Settling, Answered, Awaited, AtRest, Reconciled
<1>2. CASE Step
  BY <1>2, SettlingAdvance, SettlingNote, SettlingDrain, SettlingMatch, SettlingWalk, SettlingExpire,
     SettlingMark DEF Step
<1> QED BY <1>1, <1>2, SettlingCandle, SettlingCommand, SettlingRestore DEF Next, Host

\* Between calls nothing is left to be acknowledged, canceled or reconciled unless the
\* session waits for reconciliation, whatever orders, expiries, fills and terminal actions
\* the calls led to: in a process that has not crashed and not latched.
THEOREM RestSettled == Spec => [](crashes = 0 => RestIsSettled)
<1>1. Init => Inv /\ Settling
  BY TypeInit, ControlInit, SettlingInit DEF Inv
<1>2. Inv /\ Settling /\ [Next]_vars => Inv' /\ Settling'
  BY InvStep, SettlingNext
<1>3. Inv /\ Settling => (crashes = 0 => RestIsSettled)
  BY DEF Settling, RestIsSettled, Idle, Awaited, AtRest, Unacknowledged
<1> QED BY <1>1, <1>2, <1>3, PTL DEF Spec
=============================================================================
