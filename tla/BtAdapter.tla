----------------------------- MODULE BtAdapter -----------------------------
(***************************************************************************)
(* What every Backtrader lane shares: the pending queue and OCO groups of   *)
(* Backtrader's broker as patched by oco_patch.py, the fills recorded by    *)
(* execution_broker.py, and the strategy adapter of bt_adapter.py, which    *)
(* places, replaces and forgets the orders.  RealisticBroker and OcoBroker  *)
(* extend it by the way their brokers match a bar.                          *)
(*                                                                          *)
(* The program is one thread, but broker and adapter each keep their own    *)
(* idea of the position and speak through queues: a bar is matched order by *)
(* order, then the notifications are delivered, first those of orders, then *)
(* those of trades, then the strategy decides.  phase says how far the bar  *)
(* is.  Times are bar numbers, prices small integers and quantities lots;   *)
(* costs, ticks and the evidence of a fill are left out, and what depends on*)
(* them (risk, margin, liquidation) is a choice.                            *)
(***************************************************************************)
EXTENDS Integers, Sequences, FiniteSets, SequencesExt, FiniteSetsExt

CONSTANTS
    Setups,               \* what the strategy may enter: [dir, type, price, stop, target, qty]
    Candles,              \* [o, l, h, c, v], v the volume the bar's budget allows
    StopMoves, TargetMoves, \* levels on_sl_update and on_tp_update may return
    ChecksCash,           \* entries pass the submit check, as brokers without validate_entry do it
    MayLackMargin, MayExit, MayStop,  \* what costs and strategy may do
    EndPolicies,          \* what end_of_data_policy of the runtime boundaries may be
    Remainders,           \* what entry_remainder_policy may be: "carry", "cancel"
    MaxBars,              \* bound on the feed
    None

\* What a strategy may set up, and what the candles and the levels are.
SetupRecords == [dir : {1, -1}, type : {"market", "limit", "stop"}, price : Int, stop : Int,
                 target : Int \cup {None}, qty : Nat \ {0}]

ASSUME AdapterAssumption ==
    /\ Setups \subseteq SetupRecords /\ Setups # {} /\ IsFiniteSet(Setups)
    /\ Candles \subseteq [o : Int, l : Int, h : Int, c : Int, v : Nat]
    /\ StopMoves \subseteq Int /\ TargetMoves \subseteq Int
    /\ EndPolicies \subseteq {"mark_at_last_close", "flatten_at_last_close"}
    /\ Remainders \subseteq {"carry", "cancel"}
    /\ MaxBars \in Nat
    /\ None \notin Int /\ None \notin SetupRecords

VARIABLES
    phase,   \* what the bar waits for, see the lanes' Next
    now, bar, \* len(data) and the current candle
    s        \* broker and adapter, see Start

vars == <<phase, now, bar, s>>

NoOrder  == 0
Sentinel == 0      \* the None that ends one pass over the pending queue

Start == [
    orders |-> << >>,         \* every order, by ref
    pending |-> << >>, submitted |-> << >>, groups |-> {}, done |-> {},   \* queues, open OCO groups, _oco_done
    news |-> << >>, trades |-> << >>,  \* notifications of orders and trades
    size |-> 0, dir |-> 1,    \* the position
    fillTrade |-> 1,          \* _execution_trade_id
    fills |-> << >>,          \* execution_fills of this bar
    exits |-> 0,              \* exit fills of the current trade, in trade_fills
    left |-> 0,               \* the bar's remaining liquidity
    exitBar |-> 0, exitRole |-> None, active |-> None,  \* _exit_bar, _last_exit_role, _protection_active_ms
    raised |-> FALSE,         \* an exception the broker does not handle
    entry |-> NoOrder, stop |-> NoOrder, tp |-> NoOrder, signal |-> NoOrder,
    cancelled |-> NoOrder,    \* _cancelled_entry_ref
    setup |-> None,           \* _pending_setup
    trade |-> None,           \* the setup in _trade_map
    tradeId |-> 1,            \* _next_trade_id
    held |-> 0,               \* the quantity of the account
    intent |-> FALSE,         \* _position_exit_intent
    closedBySignal |-> 0,     \* _signal_completion_bar
    halted |-> FALSE,         \* _dd_limit_hit
    policy |-> None, remainder |-> None]   \* the policies the run is configured with

Legs == {"stop_loss", "take_profit"}

Live(b, r) == r # NoOrder /\ b.orders[r].status \in {"submitted", "accepted", "partial"}
Queued(b, r) == r \in ToSet(b.pending) \ {Sentinel}

\* What is left of a queue without some orders: SelectSeq as a recursive function,
\* which proofs can unfold.
Without(queue, refs) ==
    LET upTo[n \in 0..Len(queue)] ==
          IF n = 0 THEN << >>
          ELSE IF queue[n] \in refs THEN upTo[n - 1] ELSE Append(upTo[n - 1], queue[n])
    IN upTo[Len(queue)]

Unqueue(b, r) == [b EXCEPT !.pending = Without(@, {r})]

-----------------------------------------------------------------------------
(* Backtrader's queues and OCO groups. *)

\* Closing orders skip the submit check: they are accepted and queued at once.
Submit(b, role, sign, qty, price, lead, setup) ==
    LET r == Len(b.orders) + 1
        g == IF lead = NoOrder THEN r ELSE b.orders[lead].lead
        checked == role = "entry" /\ ChecksCash
    IN [b EXCEPT !.orders = Append(@,
            [role |-> role, sign |-> sign, status |-> IF checked THEN "submitted" ELSE "accepted",
             left |-> qty, filled |-> 0, cost |-> 0, price |-> price, lead |-> g, born |-> now,
             setup |-> setup, guarded |-> FALSE, matched |-> 0, trade |-> b.tradeId]),
                 !.pending = IF checked THEN @ ELSE Append(@, r),
                 !.submitted = IF checked THEN Append(@, r) ELSE @,
                 !.groups = @ \cup {g}]
Newest(b) == Len(b.orders)

\* order.cancel, reject or margin, and its notification, which the adapter only
\* acts on for entries.
Ended(b, r, status) ==
    LET e == [ref |-> r, status |-> status, filled |-> b.orders[r].filled, qty |-> 0, trades |-> << >>]
    IN [b EXCEPT !.orders[r].status = status,
                 !.news = IF b.orders[r].role = "entry" THEN Append(@, e) ELSE @]

Resize(b) ==
    [b EXCEPT !.orders = [r \in DOMAIN @ |->
        IF r \in {b.stop, b.tp} /\ Live(b, r) THEN [@[r] EXCEPT !.left = b.size] ELSE @[r]]]

\* Mutant of CloseGroup: the siblings live on and nothing is marked.
CloseGroupOnly(b, r) == [b EXCEPT !.groups = @ \ {b.orders[r].lead}]

\* The patched _ococheck: the group is done, its queued siblings are canceled.
CloseGroup(b, r) ==
    LET g == b.orders[r].lead
        siblings == {q \in ToSet(b.pending) \ {Sentinel} : g \in b.groups /\ b.orders[q].lead = g}
    IN [b EXCEPT !.groups = @ \ {g}, !.done = @ \cup {g},
                 !.pending = Without(@, siblings),
                 !.orders = [q \in DOMAIN @ |->
                                IF q \in siblings THEN [@[q] EXCEPT !.status = "canceled"] ELSE @[q]]]

\* Mutant of Cancel: as upstream, submitted orders are not found.
CancelPending(b, r) ==
    IF Queued(b, r) THEN CloseGroup(Ended(Unqueue(b, r), r, "canceled"), r) ELSE b

\* An order in neither queue, because the loop holds it, cannot be canceled.
Cancel(b, r) ==
    IF Queued(b, r) \/ r \in ToSet(b.submitted)
    THEN LET c == [Unqueue(b, r) EXCEPT !.submitted = Without(@, {r})]
         IN CloseGroup(Ended(c, r, "canceled"), r)
    ELSE b

CancelLive(b, r) == IF Live(b, r) THEN Cancel(b, r) ELSE b

\* Mutant of Requeue: dead orders go back too.
RequeueAlways(b, r) == [b EXCEPT !.pending = Append(@, r)]

\* Back into the queue, as long as it is alive.
Requeue(b, r) == IF Live(b, r) THEN [b EXCEPT !.pending = Append(@, r)] ELSE b

-----------------------------------------------------------------------------
(* Prices.  For a short position every comparison is mirrored. *)

Worst(dir) == IF dir = 1 THEN bar.l ELSE bar.h
Best(dir)  == IF dir = 1 THEN bar.h ELSE bar.l
AtOrBelow(dir, p, level) == dir * p <= dir * level
AtOrAbove(dir, p, level) == dir * p >= dir * level

OrderType(o) ==
    CASE o.role = "entry"       -> o.setup.type
      [] o.role = "stop_loss"   -> "stop"
      [] o.role = "take_profit" -> "limit"
      [] OTHER                  -> "market"

\* Where Backtrader executes a market, limit or stop order in this bar, or None.
BarPrice(o) ==
    CASE OrderType(o) = "market" -> bar.o
      [] OrderType(o) = "limit" ->
           IF AtOrBelow(o.sign, bar.o, o.price) THEN bar.o
           ELSE IF AtOrBelow(o.sign, Worst(o.sign), o.price) THEN o.price ELSE None
      [] OrderType(o) = "stop" ->
           IF AtOrAbove(o.sign, bar.o, o.price) THEN bar.o
           ELSE IF AtOrAbove(o.sign, Best(o.sign), o.price) THEN o.price ELSE None

\* Executions the open already decided come first, the stop before the target.
OpeningPriority(o) ==
    CASE o.role = "stop_loss" /\ AtOrAbove(o.sign, bar.o, o.price)   -> 0
      [] o.role = "take_profit" /\ AtOrBelow(o.sign, bar.o, o.price) -> 1
      [] OTHER                                                       -> 2

\* Mutant of Prioritized: the queue stays as it is.
PrioritizedNot(b) == b

\* Protection is reordered within the slots its own OCO group has in the queue.
Prioritized(b) ==
    LET Order(i) == b.orders[b.pending[i]]
        Slots(i) == {j \in DOMAIN b.pending : Order(j).role \in Legs /\ Order(j).lead = Order(i).lead}
        Before(i, j) == \/ OpeningPriority(Order(i)) < OpeningPriority(Order(j))
                        \/ OpeningPriority(Order(i)) = OpeningPriority(Order(j)) /\ i < j
        Of(i) == CHOOSE j \in Slots(i) : Cardinality({k \in Slots(i) : Before(k, j)})
                                         = Cardinality({k \in Slots(i) : k < i})
    IN [b EXCEPT !.pending = [i \in DOMAIN @ |-> IF Order(i).role \in Legs THEN @[Of(i)] ELSE @[i]]]

\* BackBroker._execute and _record_fill: order, position, record, notification.  The
\* notification carries the trades that the fill closes and opens.
Filled(b, r, qty, price) ==
    LET o == b.orders[r]
        status == IF o.left = qty THEN "completed" ELSE "partial"
        position == b.dir * b.size + o.sign * qty
        closes == b.size > 0 /\ (position = 0 \/ (position > 0) # (b.dir = 1))
        opens == position # 0 /\ (b.size = 0 \/ closes)
    IN [b EXCEPT
            !.orders[r] = [o EXCEPT !.filled = @ + qty, !.left = @ - qty, !.status = status,
                                    !.cost = @ + qty * price],
            !.size = IF position < 0 THEN -position ELSE position,
            !.dir = IF position < 0 THEN -1 ELSE 1,
            !.fillTrade = IF position = 0 THEN @ + 1 ELSE @,
            !.exits = IF position = 0 THEN 0 ELSE IF o.role = "entry" THEN @ ELSE @ + 1,
            !.fills = Append(@, [ref |-> r, role |-> o.role, trade |-> b.fillTrade,
                                 qty |-> qty, price |-> price, reduces |-> b.size > 0 /\ o.sign = -b.dir]),
            !.news = Append(@, [ref |-> r, status |-> status, filled |-> o.filled + qty, qty |-> qty,
                                trades |-> (IF closes THEN <<"closed">> ELSE << >>)
                                           \o (IF opens THEN <<"opened">> ELSE << >>)])]

-----------------------------------------------------------------------------
(* The bracket. *)

\* Mutant of PlaceBracket: the target is not in the stop's OCO group.
PlaceBracketApart(b, dir, qty, stop, target) ==
    LET c == Submit(b, "stop_loss", -dir, qty, stop, NoOrder, None)
        d == IF target = None THEN c ELSE Submit(c, "take_profit", -dir, qty, target, NoOrder, None)
    IN [d EXCEPT !.stop = Newest(c), !.tp = IF target = None THEN NoOrder ELSE Newest(d)]

\* _place_bracket: the stop leads the OCO group; a setup may have no target.
PlaceBracket(b, dir, qty, stop, target) ==
    LET c == Submit(b, "stop_loss", -dir, qty, stop, NoOrder, None)
        d == IF target = None THEN c ELSE Submit(c, "take_profit", -dir, qty, target, Newest(c), None)
    IN [d EXCEPT !.stop = Newest(c), !.tp = IF target = None THEN NoOrder ELSE Newest(d)]

HasTarget(b) == Live(b, b.tp)

-----------------------------------------------------------------------------
(* The adapter hears: notify_order and notify_trade. *)

\* An entry the broker has not protected itself gets its bracket now.
HearEntryFill(b, e) ==
    LET first == e.filled = e.qty
        setup == IF b.setup # None THEN b.setup ELSE b.orders[e.ref].setup
        c == IF b.orders[e.ref].guarded THEN b
             ELSE PlaceBracket(b, setup.dir, e.filled, setup.stop, setup.target)
    IN [c EXCEPT !.entry = IF e.status = "completed" THEN NoOrder ELSE @,
                 !.setup = IF first THEN setup ELSE @,
                 !.held  = IF first THEN e.qty ELSE @ + e.qty]

\* Mutant of HearEntryEnd: the setup of an unfilled entry stays.
HearEntryEndKeeping(b, e) ==
    IF e.ref \in {b.entry, b.cancelled} THEN [b EXCEPT !.entry = NoOrder, !.cancelled = NoOrder] ELSE b

\* A completed leg cancels the other one, which the OCO check cannot find while
\* the loop holds it.
HearExitFill(b, e) ==
    LET role == b.orders[e.ref].role
        Forget(c) == [c EXCEPT !.stop = NoOrder, !.tp = NoOrder]
        b1 == IF role \in {"liquidation", "end_of_data"} THEN Forget(b) ELSE b
    IN IF e.status = "partial"         THEN [b1 EXCEPT !.held = @ - e.qty]
       ELSE IF role = "stop_loss"      THEN Forget(Cancel(b1, b1.tp))
       ELSE IF role = "take_profit"    THEN Forget(Cancel(b1, b1.stop))
       ELSE b1

HearEntryEnd(b, e) ==
    IF e.ref \in {b.entry, b.cancelled}
    THEN [b EXCEPT !.entry = NoOrder, !.cancelled = NoOrder,
                   !.setup = IF e.filled = 0 THEN None ELSE @]
    ELSE b

\* Delivery hands the fills to the trades too; the trades are heard after all orders.
HearOrder(b) ==
    LET e == Head(b.news)
        c == [b EXCEPT !.news = Tail(@),
                       !.trades = @ \o e.trades]
    IN IF e.qty = 0                             THEN HearEntryEnd(c, e)
       ELSE IF b.orders[e.ref].role = "entry"   THEN HearEntryFill(c, e)
       ELSE HearExitFill(c, e)

NotifyOrder ==
    /\ phase \in {"orders", "final orders"} /\ s.news # << >>
    /\ s' = HearOrder(s)
    /\ UNCHANGED <<phase, now, bar>>

OrdersHeard ==
    /\ phase \in {"orders", "final orders"} /\ s.news = << >>
    /\ phase' = IF phase = "orders" THEN "trades" ELSE "final trades"
    /\ UNCHANGED <<now, bar, s>>

TradeOpened(b) ==
    IF b.setup = None THEN b ELSE [b EXCEPT !.trade = b.setup, !.setup = None]

TradeClosed(b) ==
    [b EXCEPT !.trade = None, !.held = 0, !.intent = FALSE, !.tradeId = @ + 1,
              !.signal = IF b.intent THEN NoOrder ELSE @,
              !.closedBySignal = IF b.intent THEN now ELSE @]

\* A closed trade may trip the drawdown limit, which ends the run with this bar.
NotifyTrade ==
    /\ phase \in {"trades", "final trades"} /\ s.trades # << >>
    /\ LET b == [s EXCEPT !.trades = Tail(@)]
       IN \/ Head(s.trades) = "opened" /\ s' = TradeOpened(b)
          \/ Head(s.trades) = "closed" /\ s' = TradeClosed(b)
          \/ Head(s.trades) = "closed" /\ MayStop /\ s' = [TradeClosed(b) EXCEPT !.halted = TRUE]
    /\ UNCHANGED <<phase, now, bar>>

TradesHeard ==
    /\ phase \in {"trades", "final trades"} /\ s.trades = << >>
    /\ phase' = IF phase = "trades" THEN "decision" ELSE "ended"
    /\ UNCHANGED <<now, bar, s>>

-----------------------------------------------------------------------------
(* The strategy decides on the closed bar: KovalBTStrategy.next. *)

\* Mutant of AcceptExit: a carried entry goes on.
AcceptExitOnly(b) ==
    IF b.intent \/ b.size = 0 \/ b.dir # 1 THEN b
    ELSE LET c == Submit(b, "signal", -1, b.size, 0, NoOrder, None)
         IN [c EXCEPT !.signal = Newest(c), !.intent = TRUE]

\* _accept_position_exit: longs only, one at a time; a carried entry is canceled.
AcceptExit(b) ==
    LET carried == Live(b, b.entry)
        c == IF carried THEN [Cancel(b, b.entry) EXCEPT !.cancelled = b.entry, !.entry = NoOrder]
             ELSE b
        d == Submit(c, "signal", -1, b.size, 0, NoOrder, None)
    IN IF b.intent \/ b.size = 0 \/ b.dir # 1 THEN b
       ELSE [d EXCEPT !.signal = Newest(d), !.intent = TRUE]

CancelEntry(b) == [Cancel(b, b.entry) EXCEPT !.cancelled = b.entry, !.entry = NoOrder]

\* _submit_entry of a setup that passes the filters and the submission checks.
SubmitEntry(b, setup) ==
    LET c == Submit(b, "entry", setup.dir, setup.qty, setup.price, NoOrder, setup)
    IN [c EXCEPT !.entry = Newest(c), !.setup = setup]

\* The pair on_sl_update and on_tp_update ask for, if the validators accept it:
\* the stop does not widen risk and stays on its side of the target.
Replacements(b) ==
    LET stop == b.orders[b.stop].price
        target == IF HasTarget(b) THEN b.orders[b.tp].price ELSE None
        setup == IF b.trade # None THEN b.trade ELSE b.setup
        targets == {target} \cup (IF setup # None /\ setup.target = None THEN {} ELSE TargetMoves)
    IN {p \in ({stop} \cup StopMoves) \X targets :
            /\ p # <<stop, target>>
            /\ AtOrAbove(b.dir, p[1], stop)
            /\ p[2] # None => ~AtOrAbove(b.dir, p[1], p[2])}

\* Mutant of Replace: the target is read after the stop's cancel took it away.
ReplaceReadingLate(b, stop, target) ==
    LET c == Cancel(b, b.stop)
    IN PlaceBracket(c, c.dir, c.size, stop, IF HasTarget(c) THEN target ELSE None)

\* _update_exits: both legs are canceled and placed again, and a carried entry
\* takes the new levels over.
Replace(b, stop, target) ==
    LET c == IF Live(b, b.entry)
             THEN [b EXCEPT !.orders[b.entry].setup = [@ EXCEPT !.stop = stop, !.target = target]]
             ELSE b
    IN PlaceBracket(Cancel(c, c.stop), c.dir, c.size, stop, target)

DecideFlat(b) ==
    \/ s' = b
    \/ /\ b.closedBySignal # now /\ Live(b, b.entry)
       /\ s' = CancelEntry(b)
    \/ /\ b.closedBySignal # now /\ ~Live(b, b.entry)
       /\ \E setup \in Setups : s' = SubmitEntry(b, setup)

DecideOpen(b) ==
    \/ s' = b
    \/ /\ Live(b, b.stop)
       /\ \E p \in Replacements(b) : s' = Replace(b, p[1], p[2])

Decide ==
    /\ phase = "decision"
    /\ \/ s.halted /\ s' = s
       \/ /\ ~s.halted
          /\ \E b \in {s} \cup (IF MayExit THEN {AcceptExit(s)} ELSE {}) :
                IF b.size = 0 THEN DecideFlat(b) ELSE DecideOpen(b)
    /\ phase' = "idle"
    /\ UNCHANGED <<now, bar>>

-----------------------------------------------------------------------------
(* The end of the data: finalize_runtime, without the flattening execution. *)

\* A run that is marked drops its entry, one that is flattened every order.
Dropped(b) ==
    LET c == CancelLive(b, b.entry)
    IN IF b.policy = "mark_at_last_close" THEN c
       ELSE CancelLive(CancelLive(CancelLive(c, b.stop), b.tp), b.signal)

\* The closing order, taken out of the queue again to be executed at once.
Closing(b) ==
    LET c == Submit(b, "end_of_data", -b.dir, b.size, 0, NoOrder, None)
    IN Unqueue(c, Newest(c))

Flattens(b) == b.policy = "flatten_at_last_close" /\ b.size > 0

Init ==
    /\ phase = "idle" /\ now = 0
    /\ bar = [o |-> 0, l |-> 0, h |-> 0, c |-> 0, v |-> 0]
    /\ \E p \in EndPolicies, q \in Remainders : s = [Start EXCEPT !.policy = p, !.remainder = q]

-----------------------------------------------------------------------------
(* What both lanes promise. *)

Quantities == 0..Max({setup.qty : setup \in Setups})

\* Type correctness of the broker and the adapter.
TypeOK ==
    /\ phase \in {"idle", "liquidation", "signals", "submitted", "matching", "orders", "trades", "decision",
                  "final orders", "final trades", "ended"}
    /\ now \in 0..MaxBars
    /\ \A r \in DOMAIN s.orders :
          /\ s.orders[r].role \in Legs \cup {"entry", "signal", "liquidation", "end_of_data"}
          /\ s.orders[r].status \in {"submitted", "accepted", "partial", "completed", "canceled", "rejected", "margin"}
          /\ s.orders[r].left \in Quantities /\ s.orders[r].filled \in Quantities
    /\ ToSet(s.submitted) \subseteq DOMAIN s.orders
    /\ ToSet(s.pending) \subseteq {Sentinel} \cup DOMAIN s.orders
    /\ {s.entry, s.stop, s.tp, s.signal, s.cancelled} \subseteq {NoOrder} \cup DOMAIN s.orders
    /\ s.size \in Quantities /\ s.dir \in {1, -1} /\ s.left \in Nat
    /\ s.setup = None \/ s.setup.dir \in {1, -1}
    /\ s.halted \in BOOLEAN /\ s.intent \in BOOLEAN

\* The adapter has heard everything of the bar, or the bar is over.
Settled == phase \in {"decision", "idle", "ended"}

LiveExits == {r \in DOMAIN s.orders : s.orders[r].role # "entry" /\ Live(s, r)}

\* Whenever the strategy can look, an open position is covered by one live stop of
\* its whole size, and a live target is its OCO sibling of the same size; without a
\* position no exit is alive that could open one later.  Partial fills, replacements
\* and cancels on both sides never leave inventory bare or exits orphaned.
InventoryIsProtected ==
    Settled =>
        IF s.size = 0 THEN LiveExits = {}
        ELSE /\ {r \in LiveExits : s.orders[r].role = "stop_loss"} = {s.stop}
             /\ {r \in LiveExits : s.orders[r].role = "take_profit"} = {s.tp} \ {NoOrder}
             /\ \A r \in {s.stop, s.tp} \ {NoOrder} :
                   /\ Queued(s, r)
                   /\ s.orders[r].left = s.size /\ s.orders[r].sign = -s.dir
                   /\ s.orders[r].lead = s.stop

\* A trade keeps the target it was set up with through every replacement and
\* partial fill, and one set up without a target never gets one.
TargetModeIsKept ==
    Settled /\ s.trade # None => (s.tp # NoOrder) = (s.trade.target # None)

\* A live order is queued exactly once between bars, and a queued one is live.
QueueHoldsTheLive ==
    phase = "idle" =>
        /\ IsInjective(s.pending \o s.submitted)
        /\ ToSet(s.pending \o s.submitted) = {r \in DOMAIN s.orders : Live(s, r)}

\* What the adapter built up from notifications is what the broker holds: the
\* quantity and the number of the trade.
AccountFollowsBroker ==
    phase \in {"decision", "ended"} =>
        /\ s.held = s.size
        /\ s.tradeId = s.fillTrade
        /\ (s.trade # None) = (s.size > 0)

\* A setup waits exactly as long as its unfilled entry does: it is neither lost
\* before the trade opens nor left for the next trade.
SetupAwaitsItsEntry ==
    phase = "decision" => ((s.setup # None) = (s.size = 0 /\ Live(s, s.entry)))

\* When the strategy decides, the adapter's books agree with the broker's, although
\* each side only hears of the other through queued notifications.
BooksAgree == AccountFollowsBroker /\ SetupAwaitsItsEntry

\* The order that was the stop of a leg.
StopOf(r) == s.orders[s.orders[r].lead]

\* A target is only taken in a bar whose range leaves its stop alone, unless the
\* price was beyond the target when the bar opened or when the entry was filled.
StopFirst ==
    \A i \in DOMAIN s.fills :
        LET f == s.fills[i]
            dir == -s.orders[f.ref].sign
        IN f.role = "take_profit" /\ f.price = s.orders[f.ref].price /\ bar.o # f.price
             => \/ ~AtOrBelow(dir, Worst(dir), StopOf(f.ref).price)
                \/ \E j \in 1..(i - 1) : s.fills[j].role = "entry" /\ s.fills[j].price = f.price

Life == INSTANCE PositionLife WITH
    Limit <- Max(Quantities), size <- s.size, dir <- s.dir,
    trade <- s.fillTrade, reducing <- s.exits > 0

\* The broker keeps the promises of PositionLife.
KeepsPositionLife == Life!Spec

\* The terminal policy is carried out: a flattened run ends flat and without
\* orders, a marked one keeps its protected position but no entry.
EndsByPolicy ==
    phase = "ended" =>
        IF s.policy = "mark_at_last_close"
        THEN \A r \in DOMAIN s.orders : s.orders[r].role = "entry" => ~Live(s, r)
        ELSE s.size = 0 /\ \A r \in DOMAIN s.orders : ~Live(s, r)

=============================================================================
