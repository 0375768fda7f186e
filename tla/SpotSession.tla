---------------------------- MODULE SpotSession ----------------------------
(***************************************************************************)
(* HistoricalSpotSession: one candle at a time is walked open, low, high,   *)
(* close (spot_candles.py), orders are matched against the bar's volume     *)
(* (spot_matching.py), and every step is journaled before it counts         *)
(* (spot_session.py).  Calls nest in the code; here the calls not yet made  *)
(* are the stack todo, and a step takes its head.  Each step persists at    *)
(* most one record, so a crash or a raising sink can fall between any two.  *)
(*                                                                          *)
(* The reducer advance_spot belongs to koval-engine, which is not part of   *)
(* the repository: Reduce and what it uses model one recipe of entries, a   *)
(* replaceable target, a stop and a closing order, from how the session     *)
(* uses it.  Prices are small integers and the fill costs are left out.     *)
(***************************************************************************)
EXTENDS Integers, Sequences, FiniteSets, SequencesExt, FiniteSetsExt, Totals

CONSTANTS
    Entries, Targets, Close,  \* client order ids, as numbers: buys, targets, the flatten order
    EntryLimit, EntryQty,     \* what each entry asks for; limit Market for a market order
    ExpiresAfter,             \* expires_after_bars of each entry, 0 for none
    TargetLimit, StopLevel,   \* the recipe's target and stop prices
    MinimumQty,               \* the market order minimum
    Candles,                  \* the candles the feed may hold
    EndPolicy,                \* the binding's end_of_data_policy
    Requests,                 \* what the graph may request at a close
    MayHalt,                  \* the engine may require reconciliation after an event
    MaxBars, MaxCommands, MaxCrashes,   \* bounds on the host
    RecordBound,              \* as many records as SpotJournal admits
    None

VARIABLES store, state, failed, fresh, checkpoint, loading,  \* as in SpotJournal
          todo,                 \* the calls the session still has to make, innermost first
          commands, crashes     \* how many the host has sent, how often the process died

journalVars == <<store, state, failed, fresh, checkpoint, loading>>
vars == <<journalVars, todo, commands, crashes>>

Orders   == Entries \cup Targets \cup {Close}
Market   == 0
TERMINAL == {"filled", "canceled", "expired", "rejected"}
Side(k)  == IF k \in Entries THEN "buy" ELSE "sell"
Actions  == {"stop_and_hold", "stop_and_flatten"}

\* Ids and amounts are natural numbers; the engine's ids grow, so that Min of a set
\* of them is the first created, and entries, targets and the close are distinct.
ASSUME RecipeAssumption ==
    /\ IsFiniteSet(Entries) /\ IsFiniteSet(Targets)
    /\ Entries \subseteq Nat /\ Targets \subseteq Nat /\ Close \in Nat
    /\ Entries \cap Targets = {} /\ Close \notin Entries \cup Targets
    /\ EntryLimit \in [Entries -> Nat] /\ EntryQty \in [Entries -> Nat]
    /\ ExpiresAfter \in [Entries -> Nat]
    /\ TargetLimit \in Nat /\ StopLevel \in Nat /\ MinimumQty \in Nat

\* What the host and the graph may ask for.  A candle need not be well formed: the
\* walk does not rely on low <= high.
ASSUME HostAssumption ==
    /\ Candles \subseteq [o : Nat, l : Nat, h : Nat, c : Nat, v : Nat]
    /\ EndPolicy \in Actions /\ Requests \subseteq {"start"} \cup Actions
    /\ MayHalt \in BOOLEAN
    /\ MaxBars \in Nat /\ MaxCommands \in Nat /\ MaxCrashes \in Nat /\ RecordBound \in Nat

NoOrder == [status |-> "absent", limit |-> Market, qty |-> 0, filled |-> 0,
            act |-> 0, acc |-> 0, reconciled |-> FALSE]

Genesis ==
    [seq |-> 0, sha |-> 0, pending |-> None, bar |-> 0, inBar |-> FALSE, candle |-> None,
     allowance |-> 0, used |-> 0, mark |-> None, orders |-> [k \in Orders |-> NoOrder],
     accepted |-> 0, base |-> 0, terminal |-> None, reason |-> None, stopBar |-> 0,
     halted |-> FALSE, finished |-> FALSE, tape |-> << >>]

Exists(s, k) == s.orders[k].status # "absent"
Open(s, k)   == Exists(s, k) /\ s.orders[k].status \notin TERMINAL
Remaining(s, k) == s.orders[k].qty - s.orders[k].filled
Reconciled(s) == \A k \in Orders : s.orders[k].status \in TERMINAL => s.orders[k].reconciled

\* controller.stop, set and relevant only while there is inventory.
StopReached(s, price) == s.base > 0 /\ price <= StopLevel

-----------------------------------------------------------------------------
(* The engine's reducer. *)

NewOrder(s, limit, qty, act) ==
    [NoOrder EXCEPT !.status = "pending", !.limit = limit, !.qty = qty, !.act = act]

RequestCancels(s, K) ==
    [s EXCEPT !.orders = [k \in Orders |-> IF k \in K /\ Open(s, k)
                                           THEN [s.orders[k] EXCEPT !.status = "cancel_pending"]
                                           ELSE s.orders[k]]]

Terminate(s, action, why) ==
    IF s.terminal # None THEN s
    ELSE RequestCancels([s EXCEPT !.terminal = action, !.reason = why], Orders)

\* The inventory's target: of the size of the inventory, replaced when that
\* changes; a replacement waits for its predecessor's reconciliation.
Retarget(s) ==
    LET working == {k \in Targets : Open(s, k)}
        unused  == {k \in Targets : ~Exists(s, k)}
    IN IF s.terminal # None THEN s
       ELSE IF \E k \in working : Remaining(s, k) # s.base THEN RequestCancels(s, working)
       ELSE IF /\ working = {} /\ unused # {} /\ s.base > 0
               /\ \A k \in Targets : s.orders[k].status \in TERMINAL => s.orders[k].reconciled
       THEN [s EXCEPT !.orders[Min(unused)] = NewOrder(s, TargetLimit, s.base, s.bar + 1)]
       ELSE s

\* The replacement close of a flatten, after every owned order is reconciled.
Contain(s) ==
    IF /\ s.terminal = "stop_and_flatten"
       /\ s.base > 0
       /\ ~Exists(s, Close)
       /\ \A k \in Orders : ~Open(s, k)
       /\ Reconciled(s)
    THEN [s EXCEPT !.orders[Close] = NewOrder(s, Market, s.base, s.bar)]
    ELSE s

\* One execution event: a status, or a fill that moves the inventory too.
Execute(s, e) ==
    LET bought == IF Side(e.key) = "buy" THEN e.qty ELSE -e.qty
        order  == [s.orders[e.key] EXCEPT
                      !.status = e.status, !.filled = @ + e.qty,
                      !.acc = IF e.status = "accepted" THEN s.accepted + 1 ELSE @]
    IN [s EXCEPT !.orders[e.key] = order,
                 !.accepted = IF e.status = "accepted" THEN @ + 1 ELSE @,
                 !.base = @ + bought,
                 !.tape = IF e.qty > 0 THEN Append(@, e) ELSE @]

Start(s) ==
    IF s.terminal # None \/ \E k \in Orders : Exists(s, k) THEN s
    ELSE [s EXCEPT !.orders = [k \in Orders |->
            IF k \in Entries THEN NewOrder(s, EntryLimit[k], EntryQty[k], s.bar + 1) ELSE @[k]]]

Decide(s, ob) ==
    CASE ob.kind = "price" ->
           LET m == [s EXCEPT !.mark = ob.price]
           IN IF StopReached(s, ob.price) THEN Terminate(m, "stop_and_flatten", "stop") ELSE m
      [] ob.kind = "command"        -> Terminate(s, ob.action, "command")
      [] ob.kind = "executions"     -> Execute(s, ob.event)
      [] ob.kind = "reconciliation" ->
           [s EXCEPT !.orders = [k \in Orders |->
              IF s.orders[k].status \in TERMINAL THEN [s.orders[k] EXCEPT !.reconciled = TRUE]
                                                 ELSE s.orders[k]]]
      [] ob.kind = "closed_bar"     ->
           CASE ob.request = "start" -> Start(s)
             [] ob.request = None    -> s
             [] OTHER                -> Terminate(s, ob.request, "graph")

Reduce(s) == Contain(Retarget(Decide([s EXCEPT !.pending = None], s.pending)))

-----------------------------------------------------------------------------
(* The journal: see SpotJournal. *)

\* Only a candle boundary without a pending observation is accepted by a restore.
Complete(s) == ~s.inBar /\ s.pending = None

\* A record of the candidate state.  The previous record, the kind and what came
\* from outside (candle, observation, a halt) determine the rest of the
\* candidate, which is kept only where a restore can end.
Record(candidate, kind) ==
    [seq |-> state.seq + 1, prev |-> state.sha, kind |-> kind,
     inBar |-> candidate.inBar, pending |-> candidate.pending,
     candle |-> candidate.candle, halted |-> candidate.halted,
     body |-> IF Complete(candidate) THEN [candidate EXCEPT !.seq = 0, !.sha = 0] ELSE None]

\* spot_content_hash, as a position of the store.
HashOf(r) == IF \E h \in DOMAIN store : store[h] = r
             THEN CHOOSE h \in DOMAIN store : store[h] = r
             ELSE Len(store) + 1

Stores(r) == store' = IF HashOf(r) \in DOMAIN store THEN store ELSE Append(store, r)

\* The state the record of hash h restores to; of one that is not complete only
\* the position and the two flags are used.
StateOf(h) ==
    LET r == store[h]
    IN [IF r.body # None THEN r.body ELSE [Genesis EXCEPT !.inBar = r.inBar, !.pending = r.pending]
          EXCEPT !.seq = r.seq, !.sha = h]

\* _persist; rest are the calls that follow it.  A raising sink, which may have
\* stored the record, unwinds them all.
Persist(candidate, kind, rest) ==
    LET r == Record(candidate, kind)
    IN /\ ~failed /\ loading = None
       /\ \/ /\ Stores(r)
             /\ state' = [candidate EXCEPT !.seq = r.seq, !.sha = HashOf(r)]
             /\ fresh' = FALSE
             /\ todo' = rest
             /\ UNCHANGED failed
          \/ /\ crashes < MaxCrashes
             /\ Stores(r) \/ UNCHANGED store
             /\ failed' = TRUE
             /\ todo' = << >>
             /\ UNCHANGED <<state, fresh>>
       /\ UNCHANGED <<checkpoint, loading, crashes>>

\* Mutant of Observe: the observation is only noted in memory.
ObserveUnjournaled(ob, rest) ==
    /\ ~failed /\ loading = None
    /\ state' = [state EXCEPT !.pending = ob]
    /\ todo' = <<[op |-> "advance"]>> \o rest
    /\ UNCHANGED <<store, failed, fresh, checkpoint, loading, crashes>>

\* The first half of _observe; the second is the call Advance.
Observe(ob, rest) ==
    Persist([state EXCEPT !.pending = ob], "observation_received", <<[op |-> "advance"]>> \o rest)

Call == Head(todo)
Rest == Tail(todo)

\* Only a call of the given name is on top.
Doing(op) == todo # << >> /\ Call.op = op

\* Pure control: the head is replaced by further calls.
Continue(calls) == todo' = calls \o Rest /\ UNCHANGED <<journalVars, commands, crashes>>

Advance ==
    /\ Doing("advance")
    /\ \/ \E halt \in IF MayHalt /\ state.pending.kind = "executions" THEN BOOLEAN ELSE {FALSE} :
            Persist([Reduce(state) EXCEPT !.halted = @ \/ halt], state.pending.kind, Rest)
       \/ /\ crashes < MaxCrashes          \* the reducer raises
          /\ failed' = TRUE
          /\ todo' = << >>
          /\ UNCHANGED <<store, state, fresh, checkpoint, loading, crashes>>
    /\ UNCHANGED commands

-----------------------------------------------------------------------------
(* Calls that nest: each definition builds the call the action of its name    *)
(* executes.                                                                  *)

drain == [op |-> "drain"]
execution(e) == [op |-> "execution", event |-> e]
price(p) == [op |-> "price", price |-> p]
point(p, phase, atOpen) == [op |-> "point", price |-> p, phase |-> phase, atOpen |-> atOpen]
match(k, p, phase, atOpen) ==
    [op |-> "match", key |-> k, price |-> p, phase |-> phase, atOpen |-> atOpen]
leg(from, to, phase) == [op |-> "leg", from |-> from, to |-> to, phase |-> phase]

StatusEvent(k, status) ==
    [key |-> k, status |-> status, qty |-> 0, price |-> None, phase |-> None, atOpen |-> FALSE]

Execution ==
    /\ Doing("execution")
    /\ Observe([kind |-> "executions", event |-> Call.event], Rest)
    /\ UNCHANGED commands

\* Mutant of Unacknowledged: cancel requests are left alone.
UnacknowledgedPending == {k \in Orders : state.orders[k].status = "pending"}

\* The orders _drain still has to acknowledge or cancel, taken in the order of
\* their ids: it is the order they are created in, and the dictionary's.
Unacknowledged == {k \in Orders : state.orders[k].status \in {"pending", "cancel_pending"}}

Drain ==
    /\ Doing("drain")
    /\ IF state.halted \/ (Unacknowledged = {} /\ Reconciled(state))
         THEN Continue(<< >>)
         ELSE /\ IF Unacknowledged # {}
                   THEN LET k == Min(Unacknowledged)
                            status == IF state.orders[k].status = "pending" THEN "accepted" ELSE "canceled"
                        IN Observe([kind |-> "executions", event |-> StatusEvent(k, status)], todo)
                   ELSE Observe([kind |-> "reconciliation"], todo)
              /\ UNCHANGED commands

Price ==
    /\ Doing("price")
    /\ Observe([kind |-> "price", price |-> Call.price], <<drain>> \o Rest)
    /\ UNCHANGED commands

-----------------------------------------------------------------------------
(* Matching: spot_matching.py. *)

\* Mutant of Eligible: an order is live as soon as it is accepted.
EligibleAtOnce(k) == Open(state, k)

Eligible(k) ==
    /\ Open(state, k)
    /\ state.orders[k].act <= state.bar

\* The event match_event computes, or None when no volume is left.
MatchEvent(c) ==
    LET remaining == Remaining(state, c.key)
        quantity  == Min({remaining, state.allowance - state.used})
        event     == [key |-> c.key, status |-> "partial", qty |-> quantity,
                      price |-> c.price, phase |-> c.phase, atOpen |-> c.atOpen]
    IN IF /\ state.orders[c.key].limit = Market
          /\ state.orders[c.key].filled = 0
          /\ remaining < MinimumQty
       THEN StatusEvent(c.key, "rejected")
       ELSE IF quantity <= 0 THEN None
       ELSE IF quantity = remaining THEN [event EXCEPT !.status = "filled"]
       ELSE event

\* Mutant of Match: no debit.
MatchUndebited ==
    /\ Doing("match")
    /\ LET event == MatchEvent(Call)
       IN Continue(IF event = None THEN << >> ELSE <<execution(event), drain>>)

\* _match: a fill's quantity is debited in a record of its own, before the event.
Match ==
    /\ Doing("match")
    /\ LET event == MatchEvent(Call)
           rest  == <<execution(event), drain>> \o Rest
       IN IF event = None THEN Continue(<< >>)
          ELSE IF event.qty = 0 THEN Continue(<<execution(event), drain>>)
          ELSE /\ Persist([state EXCEPT !.used = @ + event.qty], "liquidity_allocation", rest)
               /\ UNCHANGED commands

-----------------------------------------------------------------------------
(* The walk of a candle: spot_candles.py. *)

\* Equal prices: the close first, sells before buys, then by acceptance.
Class(k) == IF k = Close THEN 0 ELSE IF Side(k) = "sell" THEN 1 ELSE 2

Precedes(a, b) ==
    LET accepted(k) == state.orders[k].acc
    IN \/ Class(a) < Class(b)
       \/ Class(a) = Class(b) /\ accepted(a) < accepted(b)
       \/ Class(a) = Class(b) /\ accepted(a) = accepted(b) /\ a < b

\* _point: a reached stop is observed first, then the orders are sorted.
Point ==
    /\ Doing("point")
    /\ Continue((IF StopReached(state, Call.price) /\ state.terminal # "stop_and_hold"
                 THEN <<price(Call.price)>> ELSE << >>)
                \o <<[Call EXCEPT !.op = "sort"]>>)

\* The snapshot of the order ids both loops of _point go through.
Sort ==
    /\ Doing("sort")
    /\ LET known   == {k \in Orders : Exists(state, k)}
           working == [i \in 1..Cardinality(known) |->
                          CHOOSE k \in known : Cardinality({j \in known : Precedes(j, k)}) = i - 1]
           loop(op) == [op |-> op, keys |-> working, price |-> Call.price,
                        phase |-> Call.phase, atOpen |-> Call.atOpen]
       IN Continue(<<loop("sells"), price(Call.price), loop("buys")>>)

SellTriggers(k, c) ==
    /\ Eligible(k) /\ Side(k) = "sell"
    /\ IF state.orders[k].limit = Market
       THEN c.atOpen \/ (k = Close /\ state.reason = "stop" /\ state.stopBar # state.bar)
       ELSE c.price >= state.orders[k].limit

BuyTriggers(k, c) ==
    /\ Eligible(k) /\ Side(k) = "buy"
    /\ IF state.orders[k].limit = Market THEN c.atOpen ELSE c.price <= state.orders[k].limit

\* The loop continues at the first id, of those left, that triggers.
Triggering(Triggers(_, _)) == {i \in DOMAIN Call.keys : Triggers(Call.keys[i], Call)}

\* Mutant of After: the order just tried stays in the loop.
AfterKeeping(i) == [Call EXCEPT !.keys = SubSeq(@, i, Len(@))]

After(i) == [Call EXCEPT !.keys = SubSeq(@, i + 1, Len(@))]

Sells ==
    /\ Doing("sells")
    /\ LET due == Triggering(SellTriggers)
           i   == Min(due)
           k   == Call.keys[i]
       IN IF due = {} THEN Continue(<< >>)
          ELSE Continue(<<match(k, Call.price, Call.phase, Call.atOpen)>>
                        \o (IF k = Close /\ ~Call.atOpen THEN <<[op |-> "stopReference"]>> ELSE << >>)
                        \o <<After(i)>>)

\* stop_reference_consumed: the bar's one intrabar close has been tried.
StopReference ==
    /\ Doing("stopReference")
    /\ Persist([state EXCEPT !.stopBar = state.bar], "stop_reference_consumed", Rest)
    /\ UNCHANGED commands

Buys ==
    /\ Doing("buys")
    /\ LET due == Triggering(BuyTriggers)
           i   == Min(due)
       IN IF state.terminal # None \/ state.halted \/ due = {} THEN Continue(<< >>)
          ELSE Continue(<<match(Call.keys[i], Call.price, Call.phase, Call.atOpen),
                          [After(i) EXCEPT !.op = "bought"]>>)

\* After a buy: a stop it makes relevant at this very price is run at once, and
\* ends the loop.
Bought ==
    /\ Doing("bought")
    /\ IF StopReached(state, Call.price)
         THEN Continue(<<point(Call.price, Call.phase, FALSE)>>)
         ELSE Continue(<<[Call EXCEPT !.op = "buys"]>>)

\* Mutant of Crossings: the stop is no stopping point.
CrossingsWithoutStop(c) ==
    LET limits(side) == {state.orders[k].limit : k \in {j \in Orders :
                            Eligible(j) /\ Side(j) = side /\ state.orders[j].limit # Market}}
    IN {c.to} \cup (IF c.to < c.from THEN {p \in limits("buy")  : c.to <= p /\ p < c.from}
                                     ELSE {p \in limits("sell") : c.from < p /\ p <= c.to})

\* The prices _leg stops at on its way: its end, the limits and the stop it crosses.
Crossings(c) ==
    LET limits(side) == {state.orders[k].limit : k \in {j \in Orders :
                            Eligible(j) /\ Side(j) = side /\ state.orders[j].limit # Market}}
    IN IF c.to < c.from
       THEN {c.to} \cup {p \in limits("buy") \cup (IF state.base > 0 THEN {StopLevel} ELSE {}) :
                            c.to <= p /\ p < c.from}
       ELSE {c.to} \cup {p \in limits("sell") : c.from < p /\ p <= c.to}

\* _leg: to the next crossing, until the end is reached.
Leg ==
    /\ Doing("leg")
    /\ LET next == IF Call.to < Call.from THEN Max(Crossings(Call)) ELSE Min(Crossings(Call))
       IN IF Call.from = Call.to THEN Continue(<< >>)
          ELSE Continue(<<point(next, Call.phase, FALSE), [Call EXCEPT !.from = next]>>)

\* Orders whose life ended with the previous bar; each is expired by an event.
Expired == {k \in Entries : /\ Eligible(k) /\ ExpiresAfter[k] > 0
                            /\ state.bar >= state.orders[k].act + ExpiresAfter[k]}

Expire ==
    /\ Doing("expire")
    /\ IF Expired = {} THEN Continue(<< >>)
       ELSE Continue(<<execution(StatusEvent(Min(Expired), "expired")), Call>>)

\* _closed_bar: the graph sees the close and may request something.
ClosedBar ==
    /\ Doing("closedBar")
    /\ \E request \in Requests \cup {None} :
         Observe([kind |-> "closed_bar", request |-> request], <<drain, [op |-> "processed"]>> \o Rest)
    /\ UNCHANGED commands

Processed ==
    /\ Doing("processed")
    /\ Persist([state EXCEPT !.inBar = FALSE], "candle_processed", Rest)
    /\ UNCHANGED commands

-----------------------------------------------------------------------------
(* What the host calls. *)

Idle == todo = << >> /\ loading = None

\* The assumed path of a bar's price.
Walk(c) ==
    <<point(c.o, "open", TRUE),
      leg(c.o, c.l, "descending"), leg(c.l, c.h, "ascending"), leg(c.h, c.c, "close")>>

OnCandle(c) ==
    /\ Idle /\ ~state.finished /\ ~state.inBar
    /\ state.bar < MaxBars
    /\ Persist([state EXCEPT !.bar = @ + 1, !.inBar = TRUE, !.candle = c,
                             !.allowance = c.v, !.used = 0, !.tape = << >>],
               "candle_received",
               <<[op |-> "expire"], drain>> \o Walk(c) \o <<price(c.c), [op |-> "closedBar"]>>)
    /\ UNCHANGED commands

\* Mutant of Command: the orders it cancels are left to the next candle.
CommandUndrained(action) ==
    /\ Idle
    /\ commands < MaxCommands
    /\ commands' = commands + 1
    /\ Observe([kind |-> "command", action |-> action], << >>)

Command(action) ==
    /\ Idle
    /\ commands < MaxCommands
    /\ commands' = commands + 1
    /\ Observe([kind |-> "command", action |-> action], <<drain>>)

Finish ==
    /\ Idle /\ ~state.finished
    /\ Observe([kind |-> "command", action |-> EndPolicy],
               <<drain, [op |-> "flattenRest"], [op |-> "endOfData"]>>)
    /\ UNCHANGED commands

\* Mutant of FlattenRest: the close is left open.
FlattenNothing == Doing("flattenRest") /\ Continue(<< >>)

\* The end of finish: what is left to close takes the final bar's unused volume.
FlattenRest ==
    /\ Doing("flattenRest")
    /\ IF /\ EndPolicy = "stop_and_flatten" /\ ~state.halted
          /\ Open(state, Close) /\ state.mark # None
         THEN Continue(<<match(Close, state.mark, "final", FALSE)>>)
         ELSE Continue(<< >>)

EndOfData ==
    /\ Doing("endOfData")
    /\ Persist([state EXCEPT !.finished = TRUE], "end_of_data", Rest)
    /\ UNCHANGED commands

\* The document of the last exported state.
ExportState ==
    /\ Idle
    /\ checkpoint' = state
    /\ UNCHANGED <<store, state, failed, fresh, loading, todo, commands, crashes>>

Crash ==
    /\ crashes < MaxCrashes
    /\ crashes' = crashes + 1
    /\ state' = Genesis /\ failed' = FALSE /\ fresh' = TRUE
    /\ loading' = None /\ todo' = << >>
    /\ UNCHANGED <<store, checkpoint, commands>>

RestoreBegin ==
    /\ Idle /\ fresh /\ ~failed /\ checkpoint # None
    /\ loading' = checkpoint
    /\ UNCHANGED <<store, state, failed, fresh, checkpoint, todo, commands, crashes>>

Continues(h) == store[h].seq = loading.seq + 1 /\ store[h].prev = loading.sha

RestoreRecord(h) ==
    /\ loading # None
    /\ loading' = IF Continues(h) THEN StateOf(h) ELSE None
    /\ UNCHANGED <<store, state, failed, fresh, checkpoint, todo, commands, crashes>>

RestoreEnd ==
    /\ loading # None
    /\ IF Complete(loading) THEN state' = loading /\ fresh' = FALSE
                            ELSE UNCHANGED <<state, fresh>>
    /\ loading' = None
    /\ UNCHANGED <<store, failed, checkpoint, todo, commands, crashes>>

-----------------------------------------------------------------------------

Init ==
    /\ store = << >>
    /\ state = Genesis
    /\ failed = FALSE /\ fresh = TRUE
    /\ checkpoint = None /\ loading = None
    /\ todo = << >>
    /\ commands = 0 /\ crashes = 0

\* The steps of a call in progress.
Step ==
    \/ Advance \/ Execution \/ Drain \/ Price \/ Match
    \/ Point \/ Sort \/ Sells \/ StopReference \/ Buys \/ Bought \/ Leg
    \/ Expire \/ ClosedBar \/ Processed
    \/ FlattenRest \/ EndOfData

Host ==
    \/ \E c \in Candles : OnCandle(c)
    \/ \E action \in Actions : Command(action)
    \/ Finish
    \/ ExportState
    \/ Crash
    \/ RestoreBegin
    \/ \E h \in DOMAIN store : RestoreRecord(h)
    \/ RestoreEnd

Next == Step \/ Host

Spec == Init /\ [][Next]_vars

\* A call runs to its end unless the process dies or the session latches; the host
\* is not obliged to call anything.  A call in progress always has a step to take
\* (else the runs without crashes would deadlock), which makes this the weak
\* fairness of Step.
Running == todo # << >> /\ ~failed

FairSpec == Spec /\ ([]<>~Running \/ []<><<Step>>_vars)

-----------------------------------------------------------------------------
(* Properties. *)

Statuses == {"absent", "pending", "accepted", "partial", "cancel_pending"} \cup TERMINAL
Phases == {"open", "descending", "ascending", "close", "final"}

\* The types: orders, the events of the matching, what the session observes, the
\* session itself, its records, and its calls.
OrderStates == [status : Statuses, limit : Nat, qty : Nat, filled : Nat, act : Nat, acc : Nat,
                reconciled : BOOLEAN]

Events == [key : Orders, status : Statuses, qty : Nat, price : Nat \cup {None},
           phase : Phases \cup {None}, atOpen : BOOLEAN]

Observations == [kind : {"price"}, price : Nat]
                \cup [kind : {"command"}, action : Actions]
                \cup [kind : {"closed_bar"}, request : Requests \cup {None}]
                \cup [kind : {"executions"}, event : Events]
                \cup [kind : {"reconciliation"}]

Sessions == [seq : Nat, sha : Nat, pending : Observations \cup {None}, bar : Nat, inBar : BOOLEAN,
             candle : Candles \cup {None}, allowance : Nat, used : Nat, mark : Nat \cup {None},
             orders : [Orders -> OrderStates], accepted : Nat, base : Int,
             terminal : Actions \cup {None}, reason : {"stop", "command", "graph", None},
             stopBar : Nat, halted : BOOLEAN, finished : BOOLEAN, tape : Seq(Events)]

Kinds == {"observation_received", "price", "command", "closed_bar", "executions",
          "reconciliation", "liquidity_allocation", "stop_reference_consumed",
          "candle_received", "candle_processed", "end_of_data"}

StoredRecords == [seq : Nat, prev : Nat, kind : Kinds, inBar : BOOLEAN,
                  pending : Observations \cup {None}, candle : Candles \cup {None},
                  halted : BOOLEAN, body : Sessions \cup {None}]

Calls == [op : {"advance", "drain", "expire", "closedBar", "processed", "stopReference",
                "flattenRest", "endOfData"}]
         \cup [op : {"execution"}, event : Events]
         \cup [op : {"price"}, price : Nat]
         \cup [op : {"point", "sort"}, price : Nat, phase : Phases, atOpen : BOOLEAN]
         \cup [op : {"match"}, key : Orders, price : Nat, phase : Phases, atOpen : BOOLEAN]
         \cup [op : {"leg"}, from : Nat, to : Nat, phase : Phases]
         \cup [op : {"sells", "buys", "bought"}, keys : Seq(Orders), price : Nat, phase : Phases,
               atOpen : BOOLEAN]

\* None is none of the values it stands in for.
ASSUME NoneAssumption ==
    /\ None \notin Nat /\ None \notin Candles
    /\ None \notin Events /\ None \notin Observations /\ None \notin Sessions
    /\ None \notin Actions /\ None \notin Requests
    /\ None \notin [seq : Nat, sha : Nat, inBar : BOOLEAN, pending : BOOLEAN]  \* of SpotJournal

\* Type correctness of the durable records, the session and the calls under way.
TypeOK ==
    /\ store \in Seq(StoredRecords)
    /\ state \in Sessions
    /\ checkpoint \in Sessions \cup {None} /\ loading \in Sessions \cup {None}
    /\ failed \in BOOLEAN /\ fresh \in BOOLEAN
    /\ todo \in Seq(Calls)
    /\ commands \in 0..MaxCommands /\ crashes \in 0..MaxCrashes

\* The quantity of the fills of the current bar that Test selects.
Volume(Test(_)) ==
    Total([i \in DOMAIN state.tape |-> IF Test(state.tape[i]) THEN state.tape[i].qty ELSE 0])

Filled == Volume(LAMBDA e : TRUE)

\* The inventory the bar began with.
OpeningBase ==
    state.base - Volume(LAMBDA e : Side(e.key) = "buy") + Volume(LAMBDA e : Side(e.key) = "sell")

\* All orders of a bar share one volume allowance, and a fill never counts
\* before its volume is debited, also when a call was cut off between the two.
LiquidityShared == Filled <= state.used /\ state.used <= state.allowance

\* A lot bought in this bar is not sold at a price the bar reached earlier: what
\* targets sell in a bar is inventory the bar began with.
NewLotsWait == Volume(LAMBDA e : e.key \in Targets) <= OpeningBase

PathOrder == <<"open", "descending", "ascending", "close", "final">>
Phase(e) == CHOOSE i \in DOMAIN PathOrder : PathOrder[i] = e.phase

\* The fills of a bar lie on the path open, low, high, close, in that order.
FillsAreChronological ==
    \A i, j \in DOMAIN state.tape : i < j =>
        LET d == state.tape[i]
            e == state.tape[j]
        IN /\ Phase(d) <= Phase(e)
           /\ Phase(d) = Phase(e) =>
                IF d.phase = "ascending" THEN d.price <= e.price ELSE d.price >= e.price

\* On the way between the open and the close a resting limit order is filled at
\* the crossing of its own limit and a stop the price falls through at the stop,
\* never at a deeper price of the candle.
FillsAtTheirLevel ==
    \A i \in DOMAIN state.tape :
        LET e == state.tape[i]
        IN /\ e.key # Close /\ ~e.atOpen /\ state.orders[e.key].limit # Market
                => e.price = state.orders[e.key].limit
           /\ e.key = Close /\ e.phase = "descending" /\ state.reason = "stop"
                => e.price = Min({StopLevel, state.candle.o})

\* However calls nest and orders come and go at a point, the fills of a bar follow
\* the path of its price: in its order, and at the levels it crosses.
FillsFollowThePath == FillsAreChronological /\ FillsAtTheirLevel

\* Once a terminal action is taken no entry and no target is filled any more,
\* and after a hold nothing is.  A session that waits for reconciliation cannot
\* cancel, so there an order already placed may still be filled.
TerminalFreezes ==
    [][~fresh /\ ~fresh' /\ loading = None /\ state.terminal # None /\ ~state.halted =>
         \A k \in Orders :
            state'.orders[k].filled = state.orders[k].filled
            \/ (k = Close /\ state.terminal = "stop_and_flatten")]_vars

\* Between calls every order is acknowledged, canceled and reconciled, unless the
\* session waits for reconciliation.
RestIsSettled ==
    Idle /\ ~failed /\ ~state.halted => Unacknowledged = {} /\ Reconciled(state)

\* A finished flatten leaves inventory only if the final bar's volume is used up
\* by fills or the close was too small to be sent.
FinalFlattenUsesUnusedVolume ==
    /\ state.finished /\ EndPolicy = "stop_and_flatten" /\ state.terminal = "stop_and_flatten"
    /\ ~state.halted /\ state.base > 0
    => Filled = state.allowance \/ state.orders[Close].status = "rejected"

\* Every call of the host returns: the walk of a candle, its nested points and
\* the acknowledgement of orders all come to an end.
CallsReturn == todo # << >> ~> todo = << >>

-----------------------------------------------------------------------------

\* What a journal knows of a session and of a record.
Noted(s) == [seq |-> s.seq, sha |-> s.sha, inBar |-> s.inBar, pending |-> s.pending # None]

Written(r) == [seq |-> r.seq, prev |-> r.prev, inBar |-> r.inBar, pending |-> r.pending # None]

\* The session is a SpotJournal: every step writes one record the journal's way,
\* or none.
Journal == INSTANCE SpotJournal WITH
    MaxRecords <- RecordBound,
    store <- [h \in DOMAIN store |-> Written(store[h])],
    state <- Noted(state),
    checkpoint <- IF checkpoint = None THEN None ELSE Noted(checkpoint),
    loading <- IF loading = None THEN None ELSE Noted(loading)

ImplementsJournal == Journal!Spec

=============================================================================
