---------------------------- MODULE AccountBooks ----------------------------
(***************************************************************************)
(* Who keeps the books of a run.  Backtrader keeps the cash and the        *)
(* position, the cost brokers a list of fills and a ledger, the strategy's *)
(* account follows the notifications and shares that ledger or, without a  *)
(* cost broker, books its own; the analyzer lists the closed trades and    *)
(* the audit adds everything up again at the end.  Funding and liquidation *)
(* change several of them at the beginning of a bar.                       *)
(*                                                                         *)
(* Which orders execute and when is the matter of BtAdapter and            *)
(* RealisticBroker; here an execution is any that PositionLife allows.     *)
(* Amounts are whole.  A price is Leverage times a unit, the margin of one *)
(* lot, and only prices whose average with those before is whole occur:    *)
(* the rounding of floats is left out.                                     *)
(***************************************************************************)
EXTENDS Integers, Sequences, SequencesExt, FiniteSets, Totals

CONSTANTS
  Lanes,          \* brokers: "legacy", "fixed" and "realistic"
  Capital, Leverage,
  Units,          \* prices of executions, marks and closes, in units
  Adjustments,    \* spread and slippage of a lot
  Commissions,    \* commission of an execution
  LiquidationFee,
  MaxLots,        \* the largest position
  MaxFills,       \* executions of a bar
  Feeds,          \* opening times of the bars of a run
  Evaluations,    \* opening times of the first bar after the warm-up
  Evidences       \* funding and mark-price evidence

EvidenceType ==
  [from : Int, to : Int,                                  \* covered interval
   records : Seq([time : Int, rate : Int]),               \* per lot held
   marks : SUBSET Int, hasFunding : BOOLEAN, hasMarks : BOOLEAN]

ASSUME BooksAssumption ==
  /\ Lanes \subseteq {"legacy", "fixed", "realistic"}
  /\ Capital \in Nat /\ Leverage \in Nat \ {0} /\ Units \subseteq Nat \ {0}
  /\ Adjustments \subseteq Int /\ Commissions \subseteq Nat
  /\ LiquidationFee \in Nat /\ MaxLots \in Nat /\ MaxFills \in Nat
  /\ Feeds \subseteq Seq(Int) \ {<<>>} /\ Evaluations \subseteq Int
  /\ Evidences \subseteq EvidenceType

\* Candles and funding records are accepted in the order of time only.
ASSUME ChronologyAssumption ==
  /\ \A f \in Feeds : \A i \in 1..Len(f) - 1 : f[i] < f[i + 1]
  /\ \A e \in Evidences : \A i \in 1..Len(e.records) - 1 :
       e.records[i].time <= e.records[i + 1].time

VARIABLES
  phase,     \* where the run is in its bar, or how it ended
  lane, bars, evaluation, evidence, \* the run's inputs
  bar,       \* bars delivered
  filled,    \* executions of this bar
  ended,     \* the data has ended
  position,  \* lots held, negative if short, and their average unit
  cash,      \* Backtrader's
  ledger,    \* totals of the shared or local ledger
  cursor, funding,          \* records settled, and the entries made for them
  fills, tradeId, reducing, \* of the broker: executions, number of the trade,
                            \* and whether an exit of it has executed
  running,   \* what Backtrader has added up of the open trade
  orderNotices, tradeNotices, \* not yet delivered
  account,   \* the strategy's position and the fees of its entry
  trades,    \* closed trades of the analyzer
  held       \* history: what was held at the end of each bar

inputs == <<lane, bars, evaluation, evidence>>
money == <<position, cash, ledger, fills, tradeId, reducing, running,
           orderNotices, tradeNotices>>
settlement == <<cursor, funding>>
vars == <<phase, inputs, bar, filled, ended, money, settlement, account, trades,
          held>>

Abs(n) == IF n < 0 THEN -n ELSE n
Sign(n) == IF n < 0 THEN -1 ELSE 1
Flat == [size |-> 0, unit |-> 0]
Now == bars[bar]
Evaluated(time) == time >= evaluation

(* ---- The ledger ------------------------------------------------------ *)

\* IncrementalAccountLedger.record: the entry and the totals derived from it.
Posted(l, kind, amount) ==
  [cash |-> l.cash + amount,
   fees |-> IF kind \in {"commission", "liquidation_fee"} THEN l.fees - amount
                                                          ELSE l.fees,
   funding |-> IF kind = "funding" THEN l.funding + amount ELSE l.funding,
   pnl |-> IF kind = "trade_pnl" THEN l.pnl + amount ELSE l.pnl]

Balance == Capital + ledger.cash

\* The strategy's account has a ledger of its own only without a cost broker.
OwnsLedger == lane = "legacy"

(* ---- Executions ------------------------------------------------------ *)

\* Backtrader takes the margin of a long position from the cash, and credits
\* the proceeds of a short sale in full.
Tied(size, unit) == IF size > 0 THEN size * unit ELSE size * Leverage * unit

\* The units a position may have after lots at a unit were added to it.
Averages(size, unit, lots, u) ==
  {q \in 0..(unit + u) : (size + lots) * q = size * unit + lots * u}

\* The cash an entry needs: of the ledger for the first fill of a fixed-cost
\* trade, of the free margin at the reference price for the realistic broker
\* (which on a spot market leaves out the open profit; a leveraged one here).
Affordable(lots, u, reference, commission) ==
  LET required == Abs(lots) * u + commission
      open == position.size * (reference - Leverage * position.unit)
  IN CASE lane = "legacy" -> TRUE
       [] lane = "fixed" -> required <= Balance
       [] lane = "realistic" ->
            required <= Balance + open - Abs(position.size) * position.unit

\* Lots are bought or sold short at a unit; they are negative for a short.  The
\* strategy decides on an entry when it is told of no position.
Enter(lots, u, adjustment, commission) ==
  LET reference == Leverage * u - Sign(lots) * adjustment
  IN
  /\ phase = "pass" /\ filled < MaxFills
  /\ bar > 1 /\ Evaluated(bars[bar - 1]) /\ tradeNotices = <<>>
  /\ \/ position.size = 0
     \/ lane = "realistic" /\ ~reducing /\ Sign(position.size) = Sign(lots)
  /\ Abs(position.size + lots) <= MaxLots
  /\ Affordable(lots, u, reference, commission)
  /\ cash' = cash - Tied(lots, u) - commission
  /\ cash' >= 0
  /\ \E q \in Averages(position.size, position.unit, lots, u) :
        position' = [size |-> position.size + lots, unit |-> q]
  /\ fills' = Append(fills,
        [trade |-> tradeId, role |-> "entry", signed |-> lots, reference |-> reference,
         price |-> Leverage * u, commission |-> commission, liquidation |-> 0])
  /\ ledger' = IF OwnsLedger THEN ledger ELSE Posted(ledger, "commission", -commission)
  /\ running' = [running EXCEPT !.commission = @ + commission]
  /\ orderNotices' = Append(orderNotices,
        [kind |-> IF position.size = 0 THEN "opened" ELSE "grown",
         lots |-> Abs(lots), pnl |-> 0, commission |-> commission])
  /\ filled' = filled + 1
  /\ UNCHANGED <<phase, inputs, bar, ended, settlement, tradeId, reducing,
                 tradeNotices, account, trades, held>>

\* Lots of the position are closed, by a leg, a signal, a liquidation or the
\* end of the data.  The cost broker records it and, when nothing is left,
\* counts on to the next trade.
Leave(lots, u, adjustment, commission, fee) ==
  LET side == Sign(position.size)
      gain == side * lots * Leverage * (u - position.unit)
      left == position.size - side * lots
      total == [pnl |-> running.pnl + gain, commission |-> running.commission + commission]
      booked == Posted(Posted(ledger, "trade_pnl", gain), "commission", -commission)
  IN
  /\ cash' = cash + Tied(side * lots, position.unit) + gain - commission - fee
  /\ position' = IF left = 0 THEN Flat ELSE [position EXCEPT !.size = left]
  /\ fills' = Append(fills,
        [trade |-> tradeId, role |-> "exit", signed |-> -side * lots,
         reference |-> Leverage * u + side * adjustment, price |-> Leverage * u,
         commission |-> commission, liquidation |-> fee])
  /\ ledger' = IF OwnsLedger THEN ledger ELSE Posted(booked, "liquidation_fee", -fee)
  /\ orderNotices' = Append(orderNotices,
        [kind |-> IF left = 0 THEN "completed" ELSE "reduced",
         lots |-> lots, pnl |-> gain, commission |-> commission])
  /\ IF left = 0
     THEN /\ tradeNotices' = Append(tradeNotices, total)
          /\ running' = [pnl |-> 0, commission |-> 0]
          /\ tradeId' = tradeId + 1 /\ reducing' = FALSE
     ELSE running' = total /\ reducing' = TRUE /\ UNCHANGED <<tradeNotices, tradeId>>

\* Only the realistic broker fills orders in parts.
Exit(lots, u, adjustment, commission) ==
  /\ phase = "pass" /\ filled < MaxFills
  /\ lots <= Abs(position.size)
  /\ lane # "realistic" => lots = Abs(position.size)
  /\ Leave(lots, u, adjustment, commission, 0)
  /\ filled' = filled + 1
  /\ UNCHANGED <<phase, inputs, bar, ended, settlement, account, trades, held>>

(* ---- The run and its bars -------------------------------------------- *)

\* validate_evidence_coverage, for the realistic broker.  Times are in bars, so a
\* settlement is always on their grid.
Covered ==
  \A i \in DOMAIN bars : Evaluated(bars[i]) =>
    /\ evidence.hasFunding => bars[i] \in evidence.from..evidence.to
    /\ evidence.hasMarks => bars[i] \in evidence.marks

Contiguous == \A i \in 1..Len(bars) - 1 : bars[i + 1] = bars[i] + 1

\* A warm-up takes runtime boundaries, which need a feed without a gap and are not
\* for legacy_v1.
Admitted ==
  /\ ~Evaluated(Head(bars)) => Contiguous /\ lane # "legacy"
  /\ lane = "realistic" => Contiguous /\ Covered

Admit ==
  /\ phase = "admit"
  /\ phase' = IF Admitted THEN "rest" ELSE "refused"
  /\ UNCHANGED <<inputs, bar, filled, ended, money, settlement, account, trades, held>>

\* A bar begins.  Only the realistic broker has evidence to apply, and does
\* nothing in the warm-up.
OpenBar ==
  /\ phase = "rest" /\ ~ended /\ bar < Len(bars)
  /\ bar' = bar + 1 /\ filled' = 0
  /\ phase' = IF lane = "realistic" /\ Evaluated(bars[bar + 1]) THEN "settle" ELSE "pass"
  /\ UNCHANGED <<inputs, ended, money, settlement, account, trades, held>>

Uncovered == evidence.hasFunding /\ Now \notin evidence.from..evidence.to

\* Mutant of Due: leaves a record of the very moment to the next bar.
DueLate ==
  /\ evidence.hasFunding /\ cursor < Len(evidence.records)
  /\ evidence.records[cursor + 1].time < Now

Due ==
  /\ evidence.hasFunding /\ cursor < Len(evidence.records)
  /\ evidence.records[cursor + 1].time <= Now

\* One turn of the loop of settle_funding.
SettleRecord ==
  /\ phase = "settle" /\ ~Uncovered /\ Due
  /\ cursor' = cursor + 1
  /\ LET record == evidence.records[cursor + 1]
         amount == -position.size * record.rate
     IN IF position.size = 0 THEN UNCHANGED <<ledger, funding, cash>>
        ELSE /\ ledger' = Posted(ledger, "funding", amount)
             /\ funding' = Append(funding, [time |-> record.time, amount |-> amount,
                                            trade |-> tradeId])
             /\ cash' = cash + amount
  /\ UNCHANGED <<phase, inputs, bar, filled, ended, position, fills, tradeId, reducing,
                 running, orderNotices, tradeNotices, account, trades, held>>

\* _liquidate looks at the mark only of a position.  Whether the margin is
\* exhausted is the engine's answer.
NoMark == evidence.hasMarks /\ position.size # 0 /\ Now \notin evidence.marks

Settled == phase = "settle" /\ ~Uncovered /\ ~Due /\ ~NoMark

Liquidate(u) ==
  /\ Settled /\ evidence.hasMarks /\ position.size # 0
  /\ Leave(Abs(position.size), u, 0, 0, LiquidationFee)
  /\ phase' = "pass"
  /\ UNCHANGED <<inputs, bar, filled, ended, settlement, account, trades, held>>

\* Otherwise the bar goes on, unless the evidence it needs is missing.
Survive ==
  /\ phase = "settle" /\ (Uncovered \/ ~Due)
  /\ phase' = IF Uncovered \/ NoMark THEN "uncovered" ELSE "pass"
  /\ UNCHANGED <<inputs, bar, filled, ended, money, settlement, account, trades, held>>

EndPass ==
  /\ phase = "pass" /\ phase' = "notify"
  /\ held' = Append(held, [time |-> Now, size |-> position.size, trade |-> tradeId])
  /\ UNCHANGED <<inputs, bar, filled, ended, money, settlement, account, trades>>

(* ---- Notifications --------------------------------------------------- *)

\* Mutant of Owned: books what the cost broker has booked already.
OwnedAlways(l, kind, amount) == Posted(l, kind, amount)

\* ExecutionAccount.on_fee and the other bookings of an account that has a
\* ledger of its own.
Owned(l, kind, amount) == IF OwnsLedger THEN Posted(l, kind, amount) ELSE l

NotifyOrder ==
  /\ phase = "notify" /\ orderNotices # <<>>
  /\ LET n == Head(orderNotices) IN
     \/ /\ n.kind = "opened"
        /\ account' = [size |-> n.lots, entryCommission |-> n.commission]
        /\ ledger' = Owned(ledger, "commission", -n.commission)
     \/ /\ n.kind = "grown"
        /\ account' = [size |-> account.size + n.lots,
                       entryCommission |-> account.entryCommission + n.commission]
        /\ ledger' = Owned(ledger, "commission", -n.commission)
     \/ /\ n.kind = "reduced"
        /\ account' = [account EXCEPT !.size = @ - n.lots]
        /\ ledger' = Owned(Owned(ledger, "trade_pnl", n.pnl), "commission", -n.commission)
     \/ n.kind = "completed" /\ UNCHANGED <<account, ledger>>
  /\ orderNotices' = Tail(orderNotices)
  /\ UNCHANGED <<phase, inputs, bar, filled, ended, position, cash, fills, tradeId,
                 reducing, running, tradeNotices, settlement, trades, held>>

\* The total of an amount over the entries of a log at some of its positions.
SumOver(log, chosen, Amount(_)) ==
  Total([i \in DOMAIN log |-> IF i \in chosen THEN Amount(log[i]) ELSE 0])

\* Mutant of FillsOf: joins the entries only, and misses the liquidation.
FillsOfEntry(trade) ==
  {i \in DOMAIN fills : fills[i].trade = trade /\ fills[i].role = "entry"}

FillsOf(trade) == {i \in DOMAIN fills : fills[i].trade = trade}

\* Strategy.notify_trade and TradeListAnalyzer.notify_trade: the account books
\* what is left to book of the trade, and the analyzer joins its number with
\* the fills the broker has under it.
NotifyTrade ==
  /\ phase = "notify" /\ orderNotices = <<>> /\ tradeNotices # <<>>
  /\ LET n == Head(tradeNotices)
         joined == FillsOf(Len(trades) + 1)
         liquidation == SumOver(fills, joined, LAMBDA f : f.liquidation)
     IN /\ account' = [size |-> 0, entryCommission |-> 0]
        /\ ledger' = Owned(Owned(ledger, "trade_pnl", n.pnl), "commission",
                           account.entryCommission - n.commission)
        /\ IF joined = {} /\ lane # "legacy"
           THEN phase' = "unreconciled" /\ UNCHANGED trades
           ELSE /\ trades' = Append(trades, n.pnl - n.commission - liquidation)
                /\ UNCHANGED phase
  /\ tradeNotices' = Tail(tradeNotices)
  /\ UNCHANGED <<inputs, bar, filled, ended, position, cash, fills, tradeId, reducing,
                 running, orderNotices, settlement, held>>

Rest ==
  /\ phase = "notify" /\ orderNotices = <<>> /\ tradeNotices = <<>>
  /\ phase' = IF ended THEN "audit" ELSE "rest"
  /\ UNCHANGED <<inputs, bar, filled, ended, money, settlement, account, trades, held>>

(* ---- The end --------------------------------------------------------- *)

\* The run ends as it is or, under boundaries that say so, closes what it holds
\* first, at a price after costs.
Terminate ==
  /\ phase = "rest" /\ ~ended /\ bar = Len(bars)
  /\ ended' = TRUE /\ phase' = "notify"
  /\ \/ UNCHANGED money
     \/ /\ lane # "legacy" /\ Contiguous /\ position.size # 0
        /\ \E u \in Units, a \in Adjustments, c \in Commissions :
             Leave(Abs(position.size), u, a, c, 0)
  /\ UNCHANGED <<inputs, bar, filled, settlement, account, trades, held>>

\* Broker value with a position marked at a price.
Value(close) ==
  cash + (IF position.size > 0
          THEN Tied(position.size, position.unit)
                 + position.size * (close - Leverage * position.unit)
          ELSE position.size * close)

OverFills(Amount(_)) == SumOver(fills, DOMAIN fills, Amount)
OverFunding == SumOver(funding, DOMAIN funding, LAMBDA e : e.amount)

\* build_execution_audit adds the run up from the fills' reference prices ...
FromFills(close) ==
  Capital + OverFills(LAMBDA f : -f.signed * f.reference) + position.size * close
    - OverFills(LAMBDA f : f.signed * (f.price - f.reference))
    - OverFills(LAMBDA f : f.commission)
    + OverFunding
    - OverFills(LAMBDA f : f.liquidation)

\* ... and from the closed trades and the fills of the open one.
FromTrades(close) ==
  LET open == {i \in DOMAIN fills : fills[i].trade > Len(trades)}
      exits == {i \in open : fills[i].role = "exit"}
      entry == Leverage * position.unit
      realized == IF position.size = 0 THEN 0
                  ELSE SumOver(fills, exits, LAMBDA f : -f.signed * (f.price - entry))
  IN Capital + Total(trades) + realized
       + position.size * (close - entry)
       - SumOver(fills, open, LAMBDA f : f.commission)
       + OverFunding

Reconciles(close) ==
  Value(close) = FromFills(close) /\ Value(close) = FromTrades(close)

Audit ==
  /\ phase = "audit"
  /\ \E u \in Units :
       phase' = IF lane = "legacy" \/ Reconciles(Leverage * u) THEN "done"
                                                               ELSE "unreconciled"
  /\ UNCHANGED <<inputs, bar, filled, ended, money, settlement, account, trades, held>>

Init ==
  /\ phase = "admit"
  /\ lane \in Lanes /\ bars \in Feeds /\ evaluation \in Evaluations
  /\ evidence \in Evidences
  /\ bar = 0 /\ filled = 0 /\ ended = FALSE
  /\ position = Flat /\ cash = Capital
  /\ ledger = [cash |-> 0, fees |-> 0, funding |-> 0, pnl |-> 0]
  /\ cursor = 0 /\ funding = <<>>
  /\ fills = <<>> /\ tradeId = 1 /\ reducing = FALSE
  /\ running = [pnl |-> 0, commission |-> 0]
  /\ orderNotices = <<>> /\ tradeNotices = <<>>
  /\ account = [size |-> 0, entryCommission |-> 0]
  /\ trades = <<>> /\ held = <<>>

Next ==
  \/ Admit \/ OpenBar \/ SettleRecord \/ Survive
  \/ \E u \in Units : Liquidate(u)
  \/ \E n \in 1..MaxLots, s \in {-1, 1}, u \in Units, a \in Adjustments, c \in Commissions :
       Enter(s * n, u, a, c)
  \/ \E n \in 1..MaxLots, u \in Units, a \in Adjustments, c \in Commissions :
       Exit(n, u, a, c)
  \/ EndPass \/ NotifyOrder \/ NotifyTrade \/ Rest \/ Terminate \/ Audit

Spec == Init /\ [][Next]_vars

(* ---- Properties ------------------------------------------------------ *)

TypeOK ==
  /\ phase \in {"admit", "refused", "rest", "settle", "pass", "notify", "audit",
                "done", "uncovered", "unreconciled"}
  /\ lane \in Lanes /\ bars \in Feeds /\ evaluation \in Evaluations
  /\ evidence \in Evidences
  /\ bar \in 0..Len(bars) /\ filled \in Nat /\ ended \in BOOLEAN
  /\ position \in [size : -MaxLots..MaxLots, unit : Nat] /\ cash \in Int
  /\ ledger \in [cash : Int, fees : Int, funding : Int, pnl : Int]
  /\ cursor \in 0..Len(evidence.records)
  /\ funding \in Seq([time : Int, amount : Int, trade : Nat])
  /\ fills \in Seq([trade : Nat, role : {"entry", "exit"}, signed : Int,
                    reference : Int, price : Int, commission : Nat, liquidation : Nat])
  /\ tradeId \in Nat \ {0} /\ reducing \in BOOLEAN
  /\ running \in [pnl : Int, commission : Int]
  /\ orderNotices \in Seq([kind : {"opened", "grown", "reduced", "completed"},
                           lots : Nat, pnl : Int, commission : Nat])
  /\ tradeNotices \in Seq([pnl : Int, commission : Int])
  /\ account \in [size : Int, entryCommission : Int]
  /\ trades \in Seq(Int)
  /\ held \in Seq([time : Int, size : Int, trade : Nat])

\* At rest the three keepers agree: the ledger, whoever books it, holds the
\* cash and what of it is tied up in the position, its totals add up to its
\* balance, and the strategy's account knows of the lots the broker holds.
\* Nothing is booked twice by broker and account and nothing forgotten, over
\* partial fills, funding, liquidations and a closing end of the data
\* (execution_account.py:169-213, evidence_execution.py:76-94,
\* execution_broker.py:86-106).
LedgerIsCash ==
  phase \in {"rest", "audit", "done"} =>
    /\ Balance = cash + Tied(position.size, position.unit)
    /\ ledger.cash = ledger.pnl - ledger.fees + ledger.funding
    /\ account.size = Abs(position.size)

\* The position at a moment between the bars: that of the end of the last bar
\* before it.
HeldAt(time) ==
  LET before == {k \in DOMAIN held : held[k].time < time}
  IN IF before = {} THEN [time |-> time, size |-> 0, trade |-> 1] ELSE held[Max(before)]

\* What is to be booked for a funding record.
Owed(record) ==
  [time |-> record.time, amount |-> -HeldAt(record.time).size * record.rate,
   trade |-> HeldAt(record.time).trade]

\* A log has an entry for each of these numbers, in their order.
Lists(log, numbers, entry) ==
  /\ Len(log) = Cardinality(numbers)
  /\ \A i \in numbers : log[Cardinality({j \in numbers : j <= i})] = entry[i]

\* A funding record has been settled when its time has come, once, for the
\* position held when the bar of that time began and in its trade, also if
\* several records come due at the first bar after the warm-up, and whatever the
\* orders and the liquidation of that bar do to the position
\* (evidence_execution.py:36-74).
FundingMatchesHoldings ==
  phase \in {"pass", "notify", "rest", "audit", "done"} =>
    LET records == evidence.records
        come == {i \in DOMAIN records :
                   /\ lane = "realistic" /\ evidence.hasFunding /\ bar > 0
                   /\ Evaluated(Now) /\ records[i].time <= Now}
    IN /\ cursor = Cardinality(come)
       /\ Lists(funding, {i \in come : HeldAt(records[i].time).size # 0},
                [i \in DOMAIN records |-> Owed(records[i])])

\* A run that was admitted comes to its report: no bar lacks the evidence that
\* was validated beforehand, the analyzer finds the fills of every trade it is
\* told of, and both sums of the audit meet the broker's value, at whatever
\* price the position is marked (execution_evidence.py:207-224,
\* bt_analyzers.py:96-98, execution_audit.py:256-280).
AdmittedRunsFinish == phase \notin {"uncovered", "unreconciled"}

=============================================================================
