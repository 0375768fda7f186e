----------------------------- MODULE OcoBroker -----------------------------
(***************************************************************************)
(* The lanes legacy_v1 and ohlcv_fixed_v1: Backtrader's own matching of a   *)
(* bar with the queue handling of oco_patch.py, which fills every order as  *)
(* a whole, under the adapter of BtAdapter.  Entries wait for the check of  *)
(* their cash, exits become active in the bar after the entry.  Both legs   *)
(* of a bracket may be executable in one bar, and only one of them may be.  *)
(***************************************************************************)
EXTENDS BtAdapter

\* Signal exits are a feature of the realistic broker.
ASSUME OcoAssumption == MayExit = FALSE

NewBar(c) ==
    /\ phase = "idle" /\ now < MaxBars /\ ~s.halted
    /\ now' = now + 1 /\ bar' = c
    /\ s' = [s EXCEPT !.fills = << >>, !.done = {}]
    /\ phase' = "submitted"

Accepted(b, r) == [b EXCEPT !.orders[r].status = "accepted", !.pending = Append(@, r)]

Refused(b, r) == CloseGroup(Ended(b, r, "margin"), r)

\* check_submitted: an entry is queued if its cost as of now leaves no debt.
CheckSubmitted ==
    /\ phase = "submitted" /\ s.submitted # << >>
    /\ LET r == Head(s.submitted)
           b == [s EXCEPT !.submitted = Tail(@)]
       IN \/ s' = Accepted(b, r)
          \/ MayLackMargin /\ s' = Refused(b, r)
    /\ UNCHANGED <<phase, now, bar>>

BeginPass ==
    /\ phase = "submitted" /\ s.submitted = << >>
    /\ LET b == Prioritized(s)
       IN s' = [b EXCEPT !.pending = Append(@, Sentinel)]
    /\ phase' = "matching"
    /\ UNCHANGED <<now, bar>>

Opens(b, r) == b.size = 0 \/ b.orders[r].sign = b.dir

\* _try_exec: the whole order at the price Backtrader finds in the bar.  What opens
\* a position needs its cash again, at the actual price.
TryExec(b, r, funded) ==
    LET price == BarPrice(b.orders[r])
    IN IF price = None THEN b
       ELSE IF Opens(b, r) /\ ~funded THEN Refused(b, r)
       ELSE CloseGroup(Filled(b, r, b.orders[r].left, price), r)

\* One order's turn.  An order of a group that completed in this bar is canceled.
Turn ==
    /\ phase = "matching" /\ Head(s.pending) # Sentinel
    /\ LET r == Head(s.pending)
           popped == [s EXCEPT !.pending = Tail(@)]
       IN \E funded \in IF MayLackMargin THEN BOOLEAN ELSE {TRUE} :
             s' = IF s.orders[r].lead \in s.done
                  THEN CloseGroup(Ended(popped, r, "canceled"), r)
                  ELSE Requeue(TryExec(popped, r, funded), r)
    /\ UNCHANGED <<phase, now, bar>>

EndMatching ==
    /\ phase = "matching" /\ Head(s.pending) = Sentinel
    /\ s' = [s EXCEPT !.pending = Tail(@)]
    /\ phase' = "orders"
    /\ UNCHANGED <<now, bar>>

\* finalize_runtime: what the policy drops, and the flattening execution.
Finalize(b) ==
    LET dropped == Dropped(b)
        closing == Closing(dropped)
    IN IF Flattens(dropped)
       THEN CloseGroup(Filled(closing, Newest(closing), dropped.size, bar.c), Newest(closing))
       ELSE dropped

\* The feed may end after any bar, with entries not yet checked.
EndOfData ==
    /\ phase = "idle" /\ now > 0
    /\ s' = Finalize(s)
    /\ phase' = "final orders"
    /\ UNCHANGED <<now, bar>>

Next ==
    \/ \E c \in Candles : NewBar(c)
    \/ CheckSubmitted
    \/ BeginPass
    \/ Turn
    \/ EndMatching
    \/ NotifyOrder
    \/ OrdersHeard
    \/ NotifyTrade
    \/ TradesHeard
    \/ Decide
    \/ EndOfData

Spec == Init /\ [][Next]_vars

-----------------------------------------------------------------------------
(* Properties. *)

\* An exit only ever reduces the position it was placed for: stop and target of a
\* bracket are never both filled, in the same bar or later.
ExitsNeverOpen ==
    \A i \in DOMAIN s.fills : s.fills[i].role # "entry" => s.fills[i].reduces

\* What the open decided comes before what the range may have touched: a leg is only
\* filled inside a bar whose open was not already beyond its sibling.
OpenDecidesFirst ==
    \A i \in DOMAIN s.fills :
        LET f == s.fills[i]
        IN f.role \in Legs /\ f.price # bar.o =>
             \A r \in DOMAIN s.orders :
                s.orders[r].role \in Legs /\ s.orders[r].lead = s.orders[f.ref].lead
                    => OpeningPriority(s.orders[r]) = 2

=============================================================================
