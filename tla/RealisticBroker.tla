-------------------------- MODULE RealisticBroker --------------------------
(***************************************************************************)
(* The ohlcv_realistic_v2 lane: RealisticBroker (realistic_broker.py) under *)
(* the adapter of BtAdapter.  The volume of a bar is shared and entries are *)
(* filled in parts, protection is active in the bar of the entry itself, a  *)
(* strategy may close a position by a signal, the account may be liquidated.*)
(***************************************************************************)
EXTENDS BtAdapter

CONSTANTS
    FillLatency,          \* bars between a decision's next open and eligibility
    ProtectionLatency,    \* protection_activation_ms, in bars
    RiskCaps,             \* quantities the stop-risk budget may leave an entry
    MayLiquidate          \* there is mark price evidence

\* RealisticBroker._ococheck: a partial fill keeps the group and resizes it.
Ococheck(b, r) ==
    IF b.orders[r].status # "partial" THEN CloseGroup(b, r)
    ELSE IF b.orders[r].role \in Legs THEN Resize(b) ELSE b

-----------------------------------------------------------------------------
(* Executions. *)

Limited(b, r) == b.orders[r].role \notin {"liquidation", "end_of_data"}

\* Mutant of Debit: fills do not use the bar's volume up.
DebitNothing(b, r, qty) == b.left

Debit(b, r, qty) == IF Limited(b, r) THEN b.left - qty ELSE b.left

\* A fill, the volume it takes and its OCO check.  What an entry fills here is
\* protected by the broker, not by the adapter.
Fill(b, r, qty, price) ==
    Ococheck([Filled(b, r, qty, price) EXCEPT !.left = Debit(b, r, qty), !.orders[r].guarded = TRUE], r)

\* An exit ends the entry remainder, unless the loop holds it.
CancelCarried(b) == CancelLive(b, b.entry)

Exited(b, r) == [b EXCEPT !.exitBar = now, !.exitRole = b.orders[r].role]

\* Mutant of RecordExit: the entry remainder survives the exit.
RecordExitOnly(b, r) == Exited(b, r)

\* _record_fill of an exit.
RecordExit(b, r) == CancelCarried(Exited(b, r))

\* A signal leaves protection resized, or none.
SettleSignal(b) == IF b.size > 0 THEN Resize(b) ELSE Cancel(Cancel(b, b.stop), b.tp)

\* A closed position needs no signal any more.
DropSignal(b, r) ==
    IF b.size = 0 /\ Live(b, b.signal) /\ b.signal # r THEN Cancel(b, b.signal) ELSE b

AfterExit(b, r) == DropSignal(IF b.orders[r].role = "signal" THEN SettleSignal(b) ELSE b, r)

\* What a closing order may execute: never more than the position, nor than the
\* bar's volume where that counts.
ClosingQty(b, r) ==
    Min({b.orders[r].left, b.size} \cup (IF Limited(b, r) THEN {b.left} ELSE {}))

\* _execute of an order that closes.
ExecuteExit(b, r, price) ==
    LET capped == [b EXCEPT !.orders[r].left = Min({@, b.size})]
        qty == ClosingQty(b, r)
    IN IF b.size = 0 \/ b.orders[r].sign = b.dir THEN b
       ELSE IF qty = 0 THEN capped
       ELSE AfterExit(RecordExit(Fill(capped, r, qty, price), r), r)

-----------------------------------------------------------------------------
(* Protection: _match_protection. *)

StopGap(b)   == AtOrBelow(b.dir, bar.o, b.orders[b.stop].price)
TargetGap(b) == HasTarget(b) /\ AtOrAbove(b.dir, bar.o, b.orders[b.tp].price)
HitStop(b)   == AtOrBelow(b.dir, Worst(b.dir), b.orders[b.stop].price)
HitTarget(b) == HasTarget(b) /\ AtOrAbove(b.dir, Best(b.dir), b.orders[b.tp].price)

MayProtect(b, breached) ==
    /\ b.exitBar # now \/ b.exitRole = "signal"     \* one protective exit in a bar
    /\ breached \/ b.active = None \/ now >= b.active
    /\ b.size > 0 /\ Live(b, b.stop)

\* Executes the leg selected, if any, which may be queued or held by the loop.
Protect(b, leg, price) ==
    IF leg = NoOrder         THEN b
    ELSE IF Queued(b, leg)   THEN Requeue(ExecuteExit(Unqueue(b, leg), leg, price), leg)
    ELSE ExecuteExit(b, leg, price)

\* Mutant of TouchedLeg: the target is looked at first.
TouchedLegTargetFirst(b) == IF HitTarget(b) THEN b.tp ELSE IF HitStop(b) THEN b.stop ELSE NoOrder

\* Both touched inside the bar: the stop comes first.
TouchedLeg(b) == IF HitStop(b) THEN b.stop ELSE IF HitTarget(b) THEN b.tp ELSE NoOrder

\* Levels the open already crossed, the stop before the target.
GappedLeg(b) == IF StopGap(b) THEN b.stop ELSE IF TargetGap(b) THEN b.tp ELSE NoOrder

LegPrice(b, leg) == IF leg = NoOrder THEN None ELSE b.orders[leg].price

\* _match_protection at the open, and in the rest of the bar unless openOnly.
MatchProtection(b, openOnly) ==
    IF ~MayProtect(b, FALSE) THEN b
    ELSE LET gapped == GappedLeg(b)
             touched == IF openOnly THEN NoOrder ELSE TouchedLeg(b)
         IN Protect(b, IF gapped # NoOrder THEN gapped ELSE touched,
                    IF gapped # NoOrder THEN bar.o ELSE LegPrice(b, touched))

\* The leg the entry's average price has already passed.
BreachedLeg(b, r) ==
    LET o == b.orders[r]
        Passed(leg, sign) == sign * o.cost >= sign * b.orders[leg].price * o.filled
    IN IF Passed(b.stop, -o.sign)                            THEN b.stop
       ELSE IF b.tp # NoOrder /\ Passed(b.tp, o.sign)        THEN b.tp
       ELSE NoOrder

\* After an entry fill: what the fill is already beyond is contained at the price
\* of the fill, else the bar's range is matched.
Contain(b, r, price) ==
    LET breached == BreachedLeg(b, r)
        leg == IF breached # NoOrder THEN breached ELSE TouchedLeg(b)
    IN IF ~MayProtect(b, breached # NoOrder) THEN b
       ELSE Protect(b, leg, IF breached # NoOrder THEN price ELSE LegPrice(b, leg))

-----------------------------------------------------------------------------
(* Entries. *)

\* Mutant of Protected: a later partial fill leaves the bracket as it was.
ProtectedOnce(b, first, setup) ==
    IF Live(b, b.stop) THEN b
    ELSE PlaceBracket([b EXCEPT !.active = now + ProtectionLatency], b.dir, b.size,
                      setup.stop, setup.target)

\* The first fill of a trade places the bracket, a later one resizes it.
Protected(b, first, setup) ==
    IF Live(b, b.stop) THEN Resize(b)
    ELSE PlaceBracket([b EXCEPT !.active = IF first THEN now + ProtectionLatency ELSE @],
                      b.dir, b.size, setup.stop, setup.target)

\* The remainder of a partly filled entry.
KeepRemainder(b, r) ==
    IF Live(b, r) /\ b.remainder = "cancel" THEN Ended(b, r, "canceled") ELSE b

\* _execute of an entry: the volume and the risk budget cap it, and it needs margin.
ExecuteEntry(b, r, price, risk, funded) ==
    LET o == b.orders[r]
        qty == Min({o.left, b.left, risk})
        capped == [b EXCEPT !.orders[r].left = Min({@, risk})]
    IN IF b.left = 0 THEN b
       ELSE IF qty = 0 THEN Ended(capped, r, "rejected")
       ELSE IF ~funded THEN Ended(capped, r, "margin")
       ELSE KeepRemainder(Contain(Protected(Fill(capped, r, qty, price), b.size = 0, o.setup), r, price), r)

\* fill_eligible_timestamp_ms of a decision made at the close of a bar.
Eligible(o) == now >= o.born + 1 + FillLatency

TryEntry(b, r, risk, funded) ==
    LET o == b.orders[r]
    IN IF b.exitBar = now \/ ~Eligible(o) \/ BarPrice(o) = None THEN b
       ELSE ExecuteEntry(b, r, BarPrice(o), risk, funded)

\* The signal itself, after the gaps: partly filled it waits for the next open.
ExecuteSignal(b, r) ==
    IF b.size = 0 \/ ~Live(b, r) \/ ~Eligible(b.orders[r]) THEN b
    ELSE IF ~Queued(b, r) THEN [b EXCEPT !.raised = TRUE]     \* pending.remove
    ELSE Requeue(ExecuteExit(Unqueue([b EXCEPT !.orders[r].matched = now], r), r, bar.o), r)

ForThisPosition(b, r) == b.orders[r].trade = b.fillTrade /\ b.size > 0 /\ b.dir = 1

\* Mutant of MatchSignal: protection is matched with the whole bar first.
MatchSignalAfterRange(b, r) ==
    IF b.orders[r].matched = now \/ now <= b.orders[r].born THEN b
    ELSE IF ~ForThisPosition(b, r) THEN Cancel(b, r)
    ELSE ExecuteSignal(MatchProtection(b, FALSE), r)

\* Mutant of MatchSignal: a bar may match the order twice.
MatchSignalTwice(b, r) ==
    IF now <= b.orders[r].born THEN b
    ELSE IF ~ForThisPosition(b, r) THEN Cancel(b, r)
    ELSE ExecuteSignal(MatchProtection(b, TRUE), r)

MatchSignal(b, r) ==
    IF b.orders[r].matched = now \/ now <= b.orders[r].born THEN b
    ELSE IF ~ForThisPosition(b, r) THEN Cancel(b, r)
    ELSE ExecuteSignal(MatchProtection(b, TRUE), r)

TryExec(b, r, risk, funded) ==
    CASE b.orders[r].role = "entry"  -> TryEntry(b, r, risk, funded)
      [] b.orders[r].role = "signal" -> MatchSignal(b, r)
      [] OTHER                       -> MatchProtection(b, FALSE)

-----------------------------------------------------------------------------
(* A bar in the broker: RealisticBroker.next and the patched BackBroker.next. *)

NewBar(c) ==
    /\ phase = "idle" /\ now < MaxBars /\ ~s.halted
    /\ now' = now + 1 /\ bar' = c
    /\ s' = [s EXCEPT !.left = c.v, !.fills = << >>]
    /\ phase' = "liquidation"

\* _liquidate at the mark price: the owner's orders are canceled through the first
\* queued order, so one must be there.
Liquidation(b) ==
    LET Sell(c) == ExecuteExit(Unqueue(c, Newest(c)), Newest(c), 0)
        gone == FoldLeft(Cancel, b, b.pending)
    IN IF b.pending = << >> THEN [b EXCEPT !.raised = TRUE]
       ELSE Sell(Submit(gone, "liquidation", -b.dir, b.size, 0, NoOrder, None))

Liquidate ==
    /\ phase = "liquidation"
    /\ \/ s' = s
       \/ MayLiquidate /\ s.size > 0 /\ s' = Liquidation(s)
    /\ phase' = "signals"
    /\ UNCHANGED <<now, bar>>

\* Accepted closes are matched at the open, before the queue.
MatchSignals(b) ==
    FoldLeft(LAMBDA c, r : IF Live(c, r) /\ c.orders[r].role = "signal" THEN MatchSignal(c, r) ELSE c,
             b, b.pending)

\* sorted is stable: stops, then targets, then the rest, each in queue order.
Sorted(b) ==
    LET Of(roles) == SelectSeq(b.pending, LAMBDA r : b.orders[r].role \in roles)
    IN Of({"stop_loss"}) \o Of({"take_profit"}) \o Of({"entry", "signal"})

BeginPass(b) ==
    LET sorted == Prioritized([b EXCEPT !.pending = Sorted(b), !.done = {}])
    IN [sorted EXCEPT !.pending = Append(@, Sentinel)]

Signals ==
    /\ phase = "signals"
    /\ s' = BeginPass(MatchSignals(s))
    /\ phase' = "matching"
    /\ UNCHANGED <<now, bar>>

\* Mutant of Turn: a leg that stays alive gets another turn in this pass.
TurnInThisPass ==
    /\ phase = "matching" /\ Head(s.pending) # Sentinel
    /\ LET r == Head(s.pending)
           Again(b) ==
               LET end == CHOOSE i \in DOMAIN b.pending : b.pending[i] = Sentinel
               IN IF Live(b, r) /\ b.orders[r].role \in Legs
                  THEN [b EXCEPT !.pending = InsertAt(@, end, r)] ELSE Requeue(b, r)
       IN s' = Again(TryExec([s EXCEPT !.pending = Tail(@)], r, Max(RiskCaps), TRUE))
    /\ UNCHANGED <<phase, now, bar>>

\* One order's turn.  An order of a group that completed in this bar is canceled.
Turn ==
    /\ phase = "matching" /\ Head(s.pending) # Sentinel
    /\ LET r == Head(s.pending)
           popped == [s EXCEPT !.pending = Tail(@)]
           isEntry == s.orders[r].role = "entry"
       IN \E risk   \in IF isEntry THEN RiskCaps ELSE {0},
             funded \in IF isEntry /\ MayLackMargin THEN BOOLEAN ELSE {TRUE} :
             s' = IF s.orders[r].lead \in s.done
                  THEN CloseGroup(Ended(popped, r, "canceled"), r)
                  ELSE Requeue(TryExec(popped, r, risk, funded), r)
    /\ UNCHANGED <<phase, now, bar>>

EndMatching ==
    /\ phase = "matching" /\ Head(s.pending) = Sentinel
    /\ s' = [s EXCEPT !.pending = Tail(@)]
    /\ phase' = "orders"
    /\ UNCHANGED <<now, bar>>

-----------------------------------------------------------------------------
(* The end of the data: finalize_runtime. *)

\* Mutant of Finalize: the flatten counts against the volume that is left.
FinalizeProtected(b) ==
    LET closing == Closing(b)
    IN IF Flattens(b) THEN ExecuteExit(closing, Newest(closing), bar.c) ELSE b

Finalize(b) ==
    LET dropped == Dropped(b)
        closing == Closing(dropped)
    IN IF Flattens(dropped) THEN ExecuteExit(closing, Newest(closing), bar.c) ELSE dropped

\* The feed may end after any bar.
EndOfData ==
    /\ phase = "idle" /\ now > 0
    /\ s' = Finalize(s)
    /\ phase' = "final orders"
    /\ UNCHANGED <<now, bar>>

-----------------------------------------------------------------------------

\* An exception the broker does not handle ends the run.
Next ==
    /\ ~s.raised
    /\ \/ \E c \in Candles : NewBar(c)
       \/ Liquidate
       \/ Signals
       \/ Turn
       \/ EndMatching
       \/ NotifyOrder
       \/ OrdersHeard
       \/ NotifyTrade
       \/ TradesHeard
       \/ Decide
       \/ EndOfData

Spec == Init /\ [][Next]_vars

\* A bar that has begun, and the end of the data, are worked through; the feed is not
\* obliged to go on.  A step is enabled throughout, which makes this the weak
\* fairness of Next outside "idle".
Running == phase \notin {"idle", "ended"} /\ ~s.raised

FairSpec == Spec /\ ([]<>~Running \/ []<><<Next>>_vars)

-----------------------------------------------------------------------------
(* Properties. *)

\* While a position is being closed by a signal no entry of it is alive.
ClosingAdmitsNoEntry ==
    phase = "decision" /\ s.intent => \A r \in DOMAIN s.orders :
        s.orders[r].role = "entry" => ~Live(s, r)

\* The fills of the bar that draw on its volume.
Shared == {i \in DOMAIN s.fills : s.fills[i].role \notin {"liquidation", "end_of_data"}}

\* All orders of a bar share one volume.
LiquidityShared == MapThenSumSet(LAMBDA i : s.fills[i].qty, Shared) <= bar.v

\* What the bar's range does later cannot come before a signal at its open: before a
\* leg is filled inside the bar, an eligible signal of the trade has had its turn.
SignalBeforeRange ==
    \A i \in DOMAIN s.fills :
        LET f == s.fills[i]
        IN f.role \in Legs /\ f.price # bar.o =>
             \A r \in DOMAIN s.orders :
                LET o == s.orders[r]
                IN o.role = "signal" /\ o.trade = f.trade /\ Eligible(o) => o.matched = now

\* Neither the liquidation's search for an owner nor a removal from the queue fails.
NeverRaises == ~s.raised

\* A bar's pass over the queue ends, although turns put orders back, and no search
\* or removal in it fails: the strategy decides on every bar that begins.
EveryBarIsDecided == phase = "liquidation" ~> phase = "decision"

=============================================================================
