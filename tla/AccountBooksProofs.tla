------------------------- MODULE AccountBooksProofs -------------------------
(***************************************************************************)
(* The books of AccountBooks agree for every feed, evidence, price and     *)
(* size: the sums the books keep as tallies of the fills and of the        *)
(* funding log, the arithmetic of tied money, and the types come first;    *)
(* then LedgerIsCash and AdmittedRunsFinish, from the inductive invariant  *)
(* Books, and FundingMatchesHoldings, from Settlement beside it.           *)
(***************************************************************************)
EXTENDS AccountBooks, Induction, SequenceTheorems, FiniteSetTheorems

(* ---- Sums over the fills and the funding ----------------------------- *)

Fill == [trade : Nat, role : {"entry", "exit"}, signed : Int, reference : Int,
         price : Int, commission : Nat, liquidation : Nat]

Entry == [time : Int, amount : Int, trade : Nat]

\* The sums of the audit and of the analyzer, as tallies.
Paid(log) == Tally(log, [f \in Fill |-> -f.signed * f.reference])
Slipped(log) == Tally(log, [f \in Fill |-> f.signed * (f.price - f.reference)])
Commissioned(log) == Tally(log, [f \in Fill |-> f.commission])
Liquidated(log) == Tally(log, [f \in Fill |-> f.liquidation])
Funded(log) == Tally(log, [e \in Entry |-> e.amount])

CommissionOf(log, trade) ==
  Tally(log, [f \in Fill |-> IF f.trade = trade THEN f.commission ELSE 0])
LiquidationOf(log, trade) ==
  Tally(log, [f \in Fill |-> IF f.trade = trade THEN f.liquidation ELSE 0])
GainOf(log, trade, entry) ==
  Tally(log, [f \in Fill |-> IF f.trade = trade /\ f.role = "exit"
                             THEN -f.signed * (f.price - entry) ELSE 0])

\* The amounts of a fill are numbers.
LEMMA AmountsOfFill ==
  ASSUME NEW g \in Fill
  PROVE  /\ -g.signed * g.reference \in Int /\ g.commission \in Int /\ g.liquidation \in Int
         /\ \A entry \in Int : /\ g.signed * (g.price - entry) \in Int
                              /\ -g.signed * (g.price - entry) \in Int
         /\ g.reference \in Int
<1>1. /\ g.signed \in Int /\ g.reference \in Int /\ g.price \in Int
      /\ g.commission \in Int /\ g.liquidation \in Int
  BY DEF Fill
<1>2. ASSUME NEW x \in Int PROVE g.signed * x \in Int /\ -g.signed * x \in Int
  BY <1>1
<1>3. ASSUME NEW entry \in Int PROVE g.price - entry \in Int
  BY <1>1
<1> QED BY <1>1, <1>2, <1>3

\* The sums grow by what a new fill contributes.
LEMMA FillCounts ==
  ASSUME NEW log \in Seq(Fill), NEW f \in Fill
  PROVE  /\ Paid(log) \in Int /\ Paid(Append(log, f)) = Paid(log) + (-f.signed * f.reference)
         /\ Slipped(log) \in Int
         /\ Slipped(Append(log, f)) = Slipped(log) + f.signed * (f.price - f.reference)
         /\ Commissioned(log) \in Int
         /\ Commissioned(Append(log, f)) = Commissioned(log) + f.commission
         /\ Liquidated(log) \in Int
         /\ Liquidated(Append(log, f)) = Liquidated(log) + f.liquidation
<1> DEFINE paid == [g \in Fill |-> -g.signed * g.reference]
           slipped == [g \in Fill |-> g.signed * (g.price - g.reference)]
           commission == [g \in Fill |-> g.commission]
           liquidation == [g \in Fill |-> g.liquidation]
<1>1. /\ paid \in [Fill -> Int] /\ slipped \in [Fill -> Int]
      /\ commission \in [Fill -> Int] /\ liquidation \in [Fill -> Int]
  BY AmountsOfFill
<1>2. /\ paid[f] = -f.signed * f.reference
      /\ slipped[f] = f.signed * (f.price - f.reference)
      /\ commission[f] = f.commission /\ liquidation[f] = f.liquidation
  OBVIOUS
<1> HIDE DEF paid, slipped, commission, liquidation
<1>3. \A value \in [Fill -> Int] :
        Tally(log, value) \in Int /\ Tally(Append(log, f), value) = Tally(log, value) + value[f]
  BY TallyOfMore
<1> QED BY <1>1, <1>2, <1>3 DEF Paid, Slipped, Commissioned, Liquidated,
                          paid, slipped, commission, liquidation

\* So do those of one trade, if the fill is of that trade.
LEMMA FillCountsInTrade ==
  ASSUME NEW log \in Seq(Fill), NEW f \in Fill, NEW trade \in Nat, NEW entry \in Int
  PROVE  /\ CommissionOf(log, trade) \in Int
         /\ CommissionOf(Append(log, f), trade)
              = CommissionOf(log, trade) + (IF f.trade = trade THEN f.commission ELSE 0)
         /\ LiquidationOf(log, trade) \in Int
         /\ LiquidationOf(Append(log, f), trade)
              = LiquidationOf(log, trade) + (IF f.trade = trade THEN f.liquidation ELSE 0)
         /\ GainOf(log, trade, entry) \in Int
         /\ GainOf(Append(log, f), trade, entry)
              = GainOf(log, trade, entry)
                  + (IF f.trade = trade /\ f.role = "exit" THEN -f.signed * (f.price - entry) ELSE 0)
<1> DEFINE commission == [g \in Fill |-> IF g.trade = trade THEN g.commission ELSE 0]
           liquidation == [g \in Fill |-> IF g.trade = trade THEN g.liquidation ELSE 0]
           gain == [g \in Fill |-> IF g.trade = trade /\ g.role = "exit"
                                   THEN -g.signed * (g.price - entry) ELSE 0]
<1>1. commission \in [Fill -> Int] /\ liquidation \in [Fill -> Int] /\ gain \in [Fill -> Int]
  <2>1. \A g \in Fill : g.commission \in Int /\ g.liquidation \in Int
    BY AmountsOfFill
  <2>2. \A g \in Fill : -g.signed * (g.price - entry) \in Int
    BY AmountsOfFill
  <2>3. commission \in [Fill -> Int] /\ liquidation \in [Fill -> Int]
    BY <2>1
  <2>4. gain \in [Fill -> Int]
    BY <2>2
  <2> QED BY <2>3, <2>4
<1>2. /\ commission[f] = IF f.trade = trade THEN f.commission ELSE 0
      /\ liquidation[f] = IF f.trade = trade THEN f.liquidation ELSE 0
      /\ gain[f] = IF f.trade = trade /\ f.role = "exit" THEN -f.signed * (f.price - entry) ELSE 0
  OBVIOUS
<1> HIDE DEF commission, liquidation, gain
<1>3. \A value \in [Fill -> Int] :
        Tally(log, value) \in Int /\ Tally(Append(log, f), value) = Tally(log, value) + value[f]
  BY TallyOfMore
<1> QED BY <1>1, <1>2, <1>3 DEF CommissionOf, LiquidationOf, GainOf, commission, liquidation, gain

\* A trade has no sums as long as it has no fills, and no gain before its exits.
LEMMA NothingInTrade ==
  ASSUME NEW log \in Seq(Fill), NEW trade \in Nat, NEW entry \in Int
  PROVE  /\ (\A i \in DOMAIN log : log[i].trade # trade) =>
              CommissionOf(log, trade) = 0 /\ LiquidationOf(log, trade) = 0
         /\ (\A i \in DOMAIN log : log[i].trade = trade => log[i].liquidation = 0) =>
              LiquidationOf(log, trade) = 0
         /\ (\A i \in DOMAIN log : log[i].trade = trade => log[i].role = "entry") =>
              GainOf(log, trade, entry) = 0
<1> DEFINE commission == [g \in Fill |-> IF g.trade = trade THEN g.commission ELSE 0]
           liquidation == [g \in Fill |-> IF g.trade = trade THEN g.liquidation ELSE 0]
           gain == [g \in Fill |-> IF g.trade = trade /\ g.role = "exit"
                                   THEN -g.signed * (g.price - entry) ELSE 0]
<1>1. commission \in [Fill -> Int] /\ liquidation \in [Fill -> Int] /\ gain \in [Fill -> Int]
  <2>1. \A g \in Fill : g.commission \in Int /\ g.liquidation \in Int
    BY AmountsOfFill
  <2>2. \A g \in Fill : -g.signed * (g.price - entry) \in Int
    BY AmountsOfFill
  <2>3. commission \in [Fill -> Int] /\ liquidation \in [Fill -> Int]
    BY <2>1
  <2>4. gain \in [Fill -> Int]
    BY <2>2
  <2> QED BY <2>3, <2>4
<1>2. \A i \in DOMAIN log : log[i] \in Fill
  OBVIOUS
<1>3. \A g \in Fill :
        /\ g.trade # trade => commission[g] = 0 /\ liquidation[g] = 0
        /\ g.liquidation = 0 => liquidation[g] = 0
        /\ g.trade # trade \/ g.role = "entry" => gain[g] = 0
  BY DEF Fill
<1> HIDE DEF commission, liquidation, gain
<1>4. ASSUME \A i \in DOMAIN log : log[i].trade # trade
      PROVE  Tally(log, commission) = 0 /\ Tally(log, liquidation) = 0
  BY <1>1, <1>2, <1>3, <1>4, TallyOfZeros
<1>5. ASSUME \A i \in DOMAIN log : log[i].trade = trade => log[i].liquidation = 0
      PROVE  Tally(log, liquidation) = 0
  BY <1>1, <1>2, <1>3, <1>5, TallyOfZeros
<1>6. ASSUME \A i \in DOMAIN log : log[i].trade = trade => log[i].role = "entry"
      PROVE  Tally(log, gain) = 0
  BY <1>1, <1>2, <1>3, <1>6, TallyOfZeros
<1> QED BY <1>4, <1>5, <1>6 DEF CommissionOf, LiquidationOf, GainOf,
                                commission, liquidation, gain

\* An entry of funding adds its amount.
LEMMA FundingCounts ==
  ASSUME NEW log \in Seq(Entry), NEW e \in Entry
  PROVE  Funded(log) \in Int /\ Funded(Append(log, e)) = Funded(log) + e.amount
<1> DEFINE amount == [d \in Entry |-> d.amount]
<1>1. amount \in [Entry -> Int] /\ amount[e] = e.amount
  BY DEF Entry
<1> HIDE DEF amount
<1>2. Tally(log, amount) \in Int /\ Tally(Append(log, e), amount) = Tally(log, amount) + amount[e]
  BY <1>1, TallyOfMore
<1> QED BY <1>1, <1>2 DEF Funded, amount

\* The model's sums over the fills are these tallies.
LEMMA SumsAreTallies ==
  ASSUME fills \in Seq(Fill), funding \in Seq(Entry), NEW trade \in Nat, NEW entry \in Int
  PROVE  /\ OverFills(LAMBDA f : -f.signed * f.reference) = Paid(fills)
         /\ OverFills(LAMBDA f : f.signed * (f.price - f.reference)) = Slipped(fills)
         /\ OverFills(LAMBDA f : f.commission) = Commissioned(fills)
         /\ OverFills(LAMBDA f : f.liquidation) = Liquidated(fills)
         /\ OverFunding = Funded(funding)
         /\ SumOver(fills, FillsOf(trade), LAMBDA f : f.commission) = CommissionOf(fills, trade)
         /\ SumOver(fills, FillsOf(trade), LAMBDA f : f.liquidation) = LiquidationOf(fills, trade)
         /\ SumOver(fills, {i \in FillsOf(trade) : fills[i].role = "exit"},
                    LAMBDA f : -f.signed * (f.price - entry)) = GainOf(fills, trade, entry)
<1>1. /\ \A i \in DOMAIN fills : fills[i] \in Fill
      /\ \A i \in DOMAIN funding : funding[i] \in Entry
  OBVIOUS
<1>2. OverFills(LAMBDA f : -f.signed * f.reference) = Paid(fills)
  BY <1>1 DEF OverFills, SumOver, Paid, Tally
<1>3. OverFills(LAMBDA f : f.signed * (f.price - f.reference)) = Slipped(fills)
  BY <1>1 DEF OverFills, SumOver, Slipped, Tally
<1>4. OverFills(LAMBDA f : f.commission) = Commissioned(fills)
  BY <1>1 DEF OverFills, SumOver, Commissioned, Tally
<1>5. OverFills(LAMBDA f : f.liquidation) = Liquidated(fills)
  BY <1>1 DEF OverFills, SumOver, Liquidated, Tally
<1>6. OverFunding = Funded(funding)
  BY <1>1 DEF OverFunding, SumOver, Funded, Tally
<1>7. SumOver(fills, FillsOf(trade), LAMBDA f : f.commission) = CommissionOf(fills, trade)
  BY <1>1 DEF FillsOf, SumOver, CommissionOf, Tally
<1>8. SumOver(fills, FillsOf(trade), LAMBDA f : f.liquidation) = LiquidationOf(fills, trade)
  BY <1>1 DEF FillsOf, SumOver, LiquidationOf, Tally
<1>9. SumOver(fills, {i \in FillsOf(trade) : fills[i].role = "exit"},
              LAMBDA f : -f.signed * (f.price - entry)) = GainOf(fills, trade, entry)
  BY <1>1 DEF FillsOf, SumOver, GainOf, Tally
<1> QED BY <1>2, <1>3, <1>4, <1>5, <1>6, <1>7, <1>8, <1>9

\* All these sums are amounts.
LEMMA SumTypes ==
  ASSUME NEW log \in Seq(Fill), NEW paid \in Seq(Entry), NEW trade \in Nat, NEW entry \in Int
  PROVE  /\ Paid(log) \in Int /\ Slipped(log) \in Int /\ Commissioned(log) \in Int
         /\ Liquidated(log) \in Int /\ Funded(paid) \in Int /\ CommissionOf(log, trade) \in Int
         /\ LiquidationOf(log, trade) \in Int /\ GainOf(log, trade, entry) \in Int
<1>1. [trade |-> 0, role |-> "entry", signed |-> 0, reference |-> 0, price |-> 0,
       commission |-> 0, liquidation |-> 0] \in Fill
  BY DEF Fill
<1>2. [time |-> 0, amount |-> 0, trade |-> 0] \in Entry
  BY DEF Entry
<1> QED BY <1>1, <1>2, FillCounts, FillCountsInTrade, FundingCounts

(* ---- Arithmetic of a position ----------------------------------------- *)

\* What lots at a unit are worth.
Worth(size, unit) == size * (Leverage * unit)

\* That worth is an integer.
LEMMA WorthType ==
  ASSUME NEW size \in Int, NEW unit \in Nat
  PROVE  Worth(size, unit) \in Int
<1>1. Leverage * unit \in Int
  BY BooksAssumption
<1> QED BY <1>1 DEF Worth

\* The cash tied up in a position that grows is what the new lots tie up more.
LEMMA TiedAdds ==
  ASSUME NEW size \in Int, NEW unit \in Nat, NEW lots \in Int, NEW u \in Nat,
         NEW q \in Averages(size, unit, lots, u),
         lots # 0, size = 0 \/ Sign(size) = Sign(lots)
  PROVE  /\ Tied(size + lots, q) = Tied(size, unit) + Tied(lots, u)
         /\ Worth(size + lots, q) = Worth(size, unit) + Worth(lots, u)
         /\ q \in Nat /\ size + lots # 0
<1>1. Leverage \in Int
  BY BooksAssumption
<1>0. q \in Nat /\ (size + lots) * q = size * unit + lots * u
  BY DEF Averages
<1>7. size + lots # 0
  BY DEF Sign
<1>2. \A a, b \in Int : a * Leverage * b = Leverage * (a * b) /\ a * (Leverage * b) = Leverage * (a * b)
  BY <1>1
<1>3. Leverage * ((size + lots) * q) = Leverage * (size * unit) + Leverage * (lots * u)
  BY <1>0, <1>1
<1>4. (size + lots) * (Leverage * q) = size * (Leverage * unit) + lots * (Leverage * u)
  BY <1>0, <1>2, <1>3
<1>5. ASSUME size + lots > 0 PROVE Tied(size + lots, q) = Tied(size, unit) + Tied(lots, u)
  <2>1. lots > 0 /\ (size > 0 \/ size = 0)
    BY <1>5 DEF Sign
  <2> QED BY <1>0, <2>1, <1>5, <1>1 DEF Tied
<1>6. ASSUME ~(size + lots > 0) PROVE Tied(size + lots, q) = Tied(size, unit) + Tied(lots, u)
  <2>1. lots < 0 /\ (size < 0 \/ size = 0)
    BY <1>6 DEF Sign
  <2> QED BY <1>0, <1>2, <1>4, <2>1, <1>6, <1>1 DEF Tied
<1>8. Worth(size + lots, q) = Worth(size, unit) + Worth(lots, u)
  BY <1>4 DEF Worth
<1> QED BY <1>0, <1>5, <1>6, <1>7, <1>8

\* Lots taken from a position set free what they tied up.
LEMMA TiedSplits ==
  ASSUME NEW size \in Int, NEW unit \in Nat, NEW lots \in 1..Abs(size)
  PROVE  LET out == Sign(size) * lots IN
         /\ out \in Int /\ size - out \in Int
         /\ Tied(size - out, unit) = Tied(size, unit) - Tied(out, unit)
         /\ Abs(size - out) = Abs(size) - lots
         /\ size - out = 0 <=> lots = Abs(size)
<1>1. Leverage \in Int
  BY BooksAssumption
<1>2. \A a, b \in Int : a * Leverage * b = Leverage * (a * b)
  BY <1>1
<1>3. CASE size < 0
  <2>1. Sign(size) * lots = -lots /\ Abs(size) = -size /\ lots \in 1..-size
    BY <1>3 DEF Sign, Abs
  <2>2. (size + lots) * unit = size * unit - (-lots) * unit
    OBVIOUS
  <2>3. (size + lots) * Leverage * unit = size * Leverage * unit - (-lots) * Leverage * unit
    BY <1>1, <1>2, <2>2
  <2> QED BY <1>3, <2>1, <2>3 DEF Tied, Abs
<1>4. CASE size = 0
  BY <1>4 DEF Abs
<1>5. CASE size > 0
  <2>1. Sign(size) * lots = lots /\ Abs(size) = size /\ lots \in 1..size
    BY <1>5 DEF Sign, Abs
  <2>2. (size - lots) * unit = size * unit - lots * unit
    OBVIOUS
  <2>3. 0 * Leverage * unit = 0
    BY <1>1
  <2> QED BY <1>5, <2>1, <2>2, <2>3 DEF Tied, Abs
<1> QED BY <1>3, <1>4, <1>5

(* ---- Types ------------------------------------------------------------ *)

OrderNotice == [kind : {"opened", "grown", "reduced", "completed"},
                lots : Nat, pnl : Int, commission : Nat]
Amounts == [pnl : Int, commission : Int]
LedgerTotals == [cash : Int, fees : Int, funding : Int, pnl : Int]

\* What the inputs of a run are.
LEMMA InputTypes ==
  ASSUME bars \in Feeds, evidence \in Evidences
  PROVE  /\ bars \in Seq(Int) /\ bars # <<>> /\ Len(bars) \in Nat
         /\ evidence.records \in Seq([time : Int, rate : Int]) /\ Len(evidence.records) \in Nat
<1>1. bars \in Seq(Int) \ {<<>>} /\ evidence \in EvidenceType
  BY BooksAssumption
<1> QED BY <1>1 DEF EvidenceType

\* What is drawn at the start is of the types.
LEMMA TypeInit == Init => TypeOK
<1> SUFFICES ASSUME Init PROVE TypeOK
  OBVIOUS
<1>1. bars \in Feeds /\ evidence \in Evidences
  BY DEF Init
<1>2. bar \in 0..Len(bars) /\ cursor \in 0..Len(evidence.records)
  BY <1>1, InputTypes DEF Init
<1>3. position \in [size : -MaxLots..MaxLots, unit : Nat] /\ cash \in Int
  BY BooksAssumption DEF Init, Flat
<1>4. ledger \in LedgerTotals /\ running \in Amounts /\ account \in [size : Int, entryCommission : Int]
  BY DEF Init, LedgerTotals, Amounts
<1>5. /\ funding \in Seq(Entry) /\ fills \in Seq(Fill) /\ orderNotices \in Seq(OrderNotice)
      /\ tradeNotices \in Seq(Amounts) /\ trades \in Seq(Int)
      /\ held \in Seq([time : Int, size : Int, trade : Nat])
  BY DEF Init
<1>6. phase = "admit" /\ lane \in Lanes /\ evaluation \in Evaluations
  BY DEF Init
<1>7. filled \in Nat /\ ended \in BOOLEAN /\ tradeId \in Nat \ {0} /\ reducing \in BOOLEAN
  <2>1. ended = FALSE /\ reducing = FALSE
    BY Zenon DEF Init
  <2>2. ended \in BOOLEAN /\ reducing \in BOOLEAN
    BY <2>1, Zenon
  <2> QED BY <2>2 DEF Init
<1> QED BY <1>1, <1>2, <1>3, <1>4, <1>5, <1>6, <1>7
        DEF TypeOK, LedgerTotals, Amounts, Entry, Fill, OrderNotice

\* The amounts a ledger's entry leaves.
LEMMA PostedType ==
  ASSUME NEW l \in LedgerTotals, NEW kind, NEW amount \in Int
  PROVE  Posted(l, kind, amount) \in LedgerTotals
  BY DEF Posted, LedgerTotals

\* An entry, taken apart.
LEMMA EnterDoes ==
  ASSUME TypeOK, NEW lots \in Int, NEW u \in Nat, NEW a \in Int, NEW c \in Nat,
         Enter(lots, u, a, c)
  PROVE  /\ phase = "pass" /\ tradeNotices = <<>>
         /\ \/ position.size = 0
            \/ lane = "realistic" /\ ~reducing /\ Sign(position.size) = Sign(lots)
         /\ Abs(position.size + lots) <= MaxLots
         /\ cash' = cash - Tied(lots, u) - c
         /\ \E q \in Averages(position.size, position.unit, lots, u) :
              position' = [size |-> position.size + lots, unit |-> q]
         /\ fills' = Append(fills,
              [trade |-> tradeId, role |-> "entry", signed |-> lots,
               reference |-> Leverage * u - Sign(lots) * a,
               price |-> Leverage * u, commission |-> c, liquidation |-> 0])
         /\ ledger' = IF OwnsLedger THEN ledger ELSE Posted(ledger, "commission", -c)
         /\ running' = [running EXCEPT !.commission = @ + c]
         /\ orderNotices' = Append(orderNotices,
              [kind |-> IF position.size = 0 THEN "opened" ELSE "grown",
               lots |-> Abs(lots), pnl |-> 0, commission |-> c])
         /\ filled' = filled + 1
         /\ UNCHANGED <<phase, inputs, bar, ended, settlement, tradeId, reducing,
                        tradeNotices, account, trades, held>>
  BY DEF Enter

\* The gain of lots that leave the position at a unit.
GainAt(lots, u) == Sign(position.size) * lots * Leverage * (u - position.unit)

\* An exit, taken apart.
LEMMA LeaveDoes ==
  ASSUME TypeOK, NEW lots \in Nat, NEW u \in Nat, NEW a \in Int, NEW c \in Nat, NEW fee \in Nat,
         Leave(lots, u, a, c, fee)
  PROVE  LET side == Sign(position.size)
             left == position.size - side * lots
             gain == GainAt(lots, u)
             total == [pnl |-> running.pnl + gain, commission |-> running.commission + c]
         IN
         /\ cash' = cash + Tied(side * lots, position.unit) + gain - c - fee
         /\ position' = IF left = 0 THEN Flat ELSE [position EXCEPT !.size = left]
         /\ fills' = Append(fills,
              [trade |-> tradeId, role |-> "exit", signed |-> -side * lots,
               reference |-> Leverage * u + side * a, price |-> Leverage * u,
               commission |-> c, liquidation |-> fee])
         /\ ledger' = IF OwnsLedger THEN ledger
                      ELSE Posted(Posted(Posted(ledger, "trade_pnl", gain), "commission", -c),
                                  "liquidation_fee", -fee)
         /\ orderNotices' = Append(orderNotices,
              [kind |-> IF left = 0 THEN "completed" ELSE "reduced",
               lots |-> lots, pnl |-> gain, commission |-> c])
         /\ left = 0 => /\ tradeNotices' = Append(tradeNotices, total)
                        /\ running' = [pnl |-> 0, commission |-> 0]
                        /\ tradeId' = tradeId + 1 /\ reducing' = FALSE
         /\ left # 0 => /\ running' = total /\ reducing' = TRUE
                        /\ UNCHANGED <<tradeNotices, tradeId>>
  BY DEF Leave, GainAt

\* An execution that opens or grows the position keeps the types.
LEMMA EnterTypes ==
  ASSUME TypeOK, NEW n \in 1..MaxLots, NEW sign \in {-1, 1}, NEW u \in Units,
         NEW a \in Adjustments, NEW c \in Commissions, Enter(sign * n, u, a, c)
  PROVE  TypeOK'
<1> DEFINE lots == sign * n
<1>1. /\ lots \in Int /\ u \in Nat /\ a \in Int /\ c \in Nat /\ Leverage \in Int
      /\ MaxLots \in Nat
  BY BooksAssumption
<1>2. Enter(lots, u, a, c)
  OBVIOUS
<1> HIDE DEF lots
<1>3. /\ ledger \in LedgerTotals /\ running \in Amounts /\ fills \in Seq(Fill)
      /\ orderNotices \in Seq(OrderNotice)
  BY DEF TypeOK, LedgerTotals, Amounts, Fill, OrderNotice
<1>11. /\ position.size \in Int /\ position.unit \in Nat /\ cash \in Int /\ tradeId \in Nat
       /\ filled \in Nat
  BY DEF TypeOK
<1>4. /\ Leverage * u - Sign(lots) * a \in Int /\ Leverage * u \in Int /\ Abs(lots) \in Nat
      /\ Tied(lots, u) \in Int
  BY <1>1 DEF Sign, Abs, Tied
<1>5. position' \in [size : -MaxLots..MaxLots, unit : Nat] /\ cash' \in Int
  <2>1. position.size + lots \in -MaxLots..MaxLots
    <3>1. Abs(position.size + lots) <= MaxLots
      BY <1>1, <1>2, EnterDoes
    <3>2. position.size + lots \in Int /\ MaxLots \in Int
      BY <1>1, <1>11
    <3> QED BY <3>1, <3>2 DEF Abs
  <2>2. \A q \in Averages(position.size, position.unit, lots, u) : q \in Nat
    BY <1>1, <1>11 DEF Averages
  <2>3. PICK q \in Averages(position.size, position.unit, lots, u) :
          position' = [size |-> position.size + lots, unit |-> q]
    BY <1>1, <1>2, EnterDoes
  <2>4. position' \in [size : -MaxLots..MaxLots, unit : Nat]
    BY <2>1, <2>2, <2>3
  <2>5. cash' = cash - Tied(lots, u) - c
    BY <1>1, <1>2, EnterDoes, ZenonT(30)
  <2>6. cash' \in Int
    BY <1>1, <1>4, <1>11, <2>5
  <2> QED BY <2>4, <2>6
<1>6. fills' \in Seq(Fill)
  <2> DEFINE f == [trade |-> tradeId, role |-> "entry", signed |-> lots,
                   reference |-> Leverage * u - Sign(lots) * a,
                   price |-> Leverage * u, commission |-> c, liquidation |-> 0]
  <2>1. f \in Fill
    BY <1>1, <1>4, <1>11 DEF Fill
  <2>2. fills' = Append(fills, f)
    BY <1>2, Zenon DEF Enter
  <2> HIDE DEF f
  <2> QED BY <1>3, <2>1, <2>2
<1>7. ledger' \in LedgerTotals
  <2>1. -c \in Int
    BY <1>1
  <2>2. ledger' = IF OwnsLedger THEN ledger ELSE Posted(ledger, "commission", -c)
    BY <1>1, <1>2, EnterDoes
  <2> QED BY <1>3, <2>1, <2>2, PostedType
<1>8. running' \in Amounts /\ filled' \in Nat
  <2>1. running' = [running EXCEPT !.commission = @ + c]
    BY <1>1, <1>2, EnterDoes
  <2>2. filled' = filled + 1
    BY <1>1, <1>2, EnterDoes
  <2>3. running.commission + c \in Int
    BY <1>1, <1>3 DEF Amounts
  <2>4. running \in Amounts /\ filled \in Nat
    BY <1>3, <1>11
  <2> QED BY <2>1, <2>2, <2>3, <2>4 DEF Amounts
<1>9. orderNotices' \in Seq(OrderNotice)
  <2> DEFINE n1 == [kind |-> IF position.size = 0 THEN "opened" ELSE "grown",
                    lots |-> Abs(lots), pnl |-> 0, commission |-> c]
  <2>1. n1 \in OrderNotice
    BY <1>1, <1>4 DEF OrderNotice
  <2>2. orderNotices' = Append(orderNotices, n1)
    BY <1>2, Zenon DEF Enter
  <2> HIDE DEF n1
  <2> QED BY <1>3, <2>1, <2>2
<1>10. UNCHANGED <<phase, inputs, bar, ended, settlement, tradeId, reducing,
                   tradeNotices, account, trades, held>>
  BY <1>1, <1>2, EnterDoes
<1> QED BY <1>5, <1>6, <1>7, <1>8, <1>9, <1>10
        DEF TypeOK, inputs, settlement, LedgerTotals, Amounts, Fill, OrderNotice

\* What Leave does to the types of the money.
LEMMA LeaveTypes ==
  ASSUME TypeOK, NEW lots \in 1..Abs(position.size), NEW u \in Nat, NEW a \in Int,
         NEW c \in Nat, NEW fee \in Nat, Leave(lots, u, a, c, fee)
  PROVE  /\ position' \in [size : -MaxLots..MaxLots, unit : Nat] /\ cash' \in Int
         /\ ledger' \in LedgerTotals /\ fills' \in Seq(Fill)
         /\ tradeId' \in Nat \ {0} /\ reducing' \in BOOLEAN
         /\ running' \in Amounts /\ orderNotices' \in Seq(OrderNotice)
         /\ tradeNotices' \in Seq(Amounts)
         /\ GainAt(lots, u) \in Int
<1> DEFINE side == Sign(position.size)
           out == side * lots
           left == position.size - out
           gain == GainAt(lots, u)
<1>1. /\ MaxLots \in Nat /\ Leverage \in Int /\ position.size \in -MaxLots..MaxLots
      /\ position.unit \in Nat /\ cash \in Int /\ tradeId \in Nat \ {0}
  BY BooksAssumption DEF TypeOK
<1>13. /\ ledger \in LedgerTotals /\ running \in Amounts /\ fills \in Seq(Fill)
       /\ orderNotices \in Seq(OrderNotice) /\ tradeNotices \in Seq(Amounts)
       /\ position \in [size : -MaxLots..MaxLots, unit : Nat]
  BY DEF TypeOK, LedgerTotals, Amounts, Fill, OrderNotice
<1>2. lots \in Nat \ {0} /\ side \in {-1, 1} /\ out \in {-lots, lots}
  <2>1. Abs(position.size) \in Nat
    BY <1>1 DEF Abs
  <2>2. lots \in Nat \ {0}
    BY <2>1
  <2>3. side \in {-1, 1}
    BY DEF Sign
  <2> QED BY <2>2, <2>3
<1>3. left \in -MaxLots..MaxLots
  BY <1>1 DEF Abs, Sign
<1>4. side * lots \in Int /\ -side * lots \in Int /\ Leverage * u \in Int
      /\ Leverage * u + side * a \in Int
  <2> HIDE DEF side
  <2>1. side * a \in {a, -a}
    BY <1>2
  <2>2. Leverage * u \in Int
    BY <1>1
  <2> QED BY <1>2, <2>1, <2>2
<1>5. gain \in Int
  <2> HIDE DEF side
  <2>1. side * lots * Leverage \in Int
    <3>1. Leverage \in Int
      BY <1>1
    <3> QED BY <1>4, <3>1
  <2>2. u - position.unit \in Int
    BY <1>1
  <2>3. side * lots * Leverage * (u - position.unit) \in Int
    BY <2>1, <2>2
  <2> QED BY <2>3 DEF GainAt, side
<1>6. Tied(out, position.unit) \in Int
  BY <1>1, <1>2 DEF Tied
<1> DEFINE f == [trade |-> tradeId, role |-> "exit", signed |-> -side * lots,
                 reference |-> Leverage * u + side * a, price |-> Leverage * u,
                 commission |-> c, liquidation |-> fee]
           total == [pnl |-> running.pnl + gain, commission |-> running.commission + c]
           n1 == [kind |-> IF left = 0 THEN "completed" ELSE "reduced",
                  lots |-> lots, pnl |-> gain, commission |-> c]
<1>7. f \in Fill /\ total \in Amounts /\ n1 \in OrderNotice
  <2> HIDE DEF gain, side, left
  <2>1. f \in Fill
    <3>1. tradeId \in Nat
      BY <1>1
    <3> QED BY <1>4, <3>1 DEF Fill
  <2>2. total \in Amounts
    <3>1. running.pnl \in Int /\ running.commission \in Int
      BY DEF TypeOK
    <3> QED BY <1>5, <3>1 DEF Amounts
  <2>3. n1 \in OrderNotice
    BY <1>2, <1>5 DEF OrderNotice
  <2> QED BY <2>1, <2>2, <2>3
<1>8. /\ cash' = cash + Tied(out, position.unit) + gain - c - fee
      /\ position' = IF left = 0 THEN Flat ELSE [position EXCEPT !.size = left]
      /\ fills' = Append(fills, f)
      /\ ledger' = IF OwnsLedger THEN ledger
                   ELSE Posted(Posted(Posted(ledger, "trade_pnl", gain), "commission", -c),
                               "liquidation_fee", -fee)
      /\ orderNotices' = Append(orderNotices, n1)
      /\ left = 0 => /\ tradeNotices' = Append(tradeNotices, total)
                     /\ running' = [pnl |-> 0, commission |-> 0]
                     /\ tradeId' = tradeId + 1 /\ reducing' = FALSE
      /\ left # 0 => /\ running' = total /\ reducing' = TRUE
                     /\ UNCHANGED <<tradeNotices, tradeId>>
  BY <1>2, LeaveDoes
<1> HIDE DEF side, out, left, gain, f, total, n1
<1>9. ledger' \in LedgerTotals
  <2>1. -c \in Int /\ -fee \in Int
    OBVIOUS
  <2>2. Posted(ledger, "trade_pnl", gain) \in LedgerTotals
    BY <1>5, <1>13, PostedType
  <2>3. Posted(Posted(ledger, "trade_pnl", gain), "commission", -c) \in LedgerTotals
    BY <2>1, <2>2, PostedType
  <2>4. Posted(Posted(Posted(ledger, "trade_pnl", gain), "commission", -c),
               "liquidation_fee", -fee) \in LedgerTotals
    BY <2>1, <2>3, PostedType
  <2>5. ledger' = ledger
        \/ ledger' = Posted(Posted(Posted(ledger, "trade_pnl", gain), "commission", -c),
                            "liquidation_fee", -fee)
    BY <1>8, Zenon
  <2> QED BY <1>13, <2>4, <2>5, Zenon
<1>10. position' \in [size : -MaxLots..MaxLots, unit : Nat] /\ cash' \in Int
  <2>1. cash' \in Int
    <3>1. cash' = cash + Tied(out, position.unit) + gain - c - fee
      BY <1>8
    <3> QED BY <1>1, <1>5, <1>6, <3>1
  <2>2. position' = Flat \/ position' = [position EXCEPT !.size = left]
    BY <1>8
  <2>3. [position EXCEPT !.size = left] \in [size : -MaxLots..MaxLots, unit : Nat]
    BY <1>3, <1>13
  <2>4. Flat \in [size : -MaxLots..MaxLots, unit : Nat]
    BY <1>1 DEF Flat
  <2> QED BY <2>1, <2>2, <2>3, <2>4
<1>11. fills' \in Seq(Fill) /\ orderNotices' \in Seq(OrderNotice)
  <2>1. fills' = Append(fills, f) /\ orderNotices' = Append(orderNotices, n1)
    BY <1>8
  <2> QED BY <1>7, <1>13, <2>1
<1>12. /\ tradeNotices' \in Seq(Amounts) /\ running' \in Amounts
       /\ tradeId' \in Nat \ {0} /\ reducing' \in BOOLEAN
  <2>1. \/ /\ tradeNotices' = Append(tradeNotices, total)
            /\ running' = [pnl |-> 0, commission |-> 0]
            /\ tradeId' = tradeId + 1 /\ reducing' = FALSE
        \/ /\ running' = total /\ reducing' = TRUE
            /\ tradeNotices' = tradeNotices /\ tradeId' = tradeId
    BY <1>8
  <2>2. [pnl |-> 0, commission |-> 0] \in Amounts
    BY DEF Amounts
  <2>3. reducing' \in BOOLEAN
    BY <2>1, Zenon
  <2>4. /\ tradeNotices' = tradeNotices \/ tradeNotices' = Append(tradeNotices, total)
        /\ running' = total \/ running' = [pnl |-> 0, commission |-> 0]
        /\ tradeId' = tradeId \/ tradeId' = tradeId + 1
    BY <2>1, Zenon
  <2>5. tradeNotices' \in Seq(Amounts)
    <3>1. Append(tradeNotices, total) \in Seq(Amounts)
      BY <1>7, <1>13, AppendProperties
    <3> QED BY <1>13, <2>4, <3>1, Zenon
  <2>6. running' \in Amounts
    BY <1>7, <2>2, <2>4, Zenon
  <2>7. tradeId' \in Nat \ {0}
    BY <1>1, <2>4
  <2> QED BY <2>3, <2>5, <2>6, <2>7
<1> QED BY <1>5, <1>9, <1>10, <1>11, <1>12 DEF gain

\* So a position that is left in whole or in part keeps all of them.
LEMMA ClosingTypes ==
  ASSUME TypeOK, NEW lots \in 1..Abs(position.size), NEW u \in Units,
         NEW a \in Int, NEW c \in Nat, NEW fee \in Nat, Leave(lots, u, a, c, fee),
         phase' \in {"pass", "notify"}, filled' \in Nat, ended' \in BOOLEAN,
         UNCHANGED <<inputs, bar, settlement, account, trades, held>>
  PROVE  TypeOK'
<1>1. u \in Nat
  BY BooksAssumption
<1>2. /\ position' \in [size : -MaxLots..MaxLots, unit : Nat] /\ cash' \in Int
      /\ ledger' \in LedgerTotals /\ fills' \in Seq(Fill)
      /\ tradeId' \in Nat \ {0} /\ reducing' \in BOOLEAN
      /\ running' \in Amounts /\ orderNotices' \in Seq(OrderNotice)
      /\ tradeNotices' \in Seq(Amounts)
  BY <1>1, LeaveTypes
<1> QED BY <1>2 DEF TypeOK, inputs, settlement, LedgerTotals, Amounts, Fill, OrderNotice

\* What the strategy's account books is an amount.
LEMMA OwnedType ==
  ASSUME NEW l \in LedgerTotals, NEW kind, NEW amount \in Int
  PROVE  Owned(l, kind, amount) \in LedgerTotals
  BY PostedType DEF Owned

\* A record settled is an entry of funding.
LEMMA SettleTypes ==
  ASSUME TypeOK, SettleRecord
  PROVE  TypeOK'
<1>1. /\ evidence.records \in Seq([time : Int, rate : Int]) /\ Len(evidence.records) \in Nat
  BY InputTypes DEF TypeOK
<1>2. cursor \in Nat /\ cursor < Len(evidence.records) /\ cursor' = cursor + 1
  BY <1>1 DEF SettleRecord, Due, TypeOK
<1> DEFINE record == evidence.records[cursor + 1]
           amount == -position.size * record.rate
           e == [time |-> record.time, amount |-> amount, trade |-> tradeId]
<1>3. record \in [time : Int, rate : Int]
  <2>1. cursor + 1 \in 1..Len(evidence.records)
    BY <1>1, <1>2
  <2> QED BY <1>1, <2>1, ElementOfSeq
<1>4. record.time \in Int /\ record.rate \in Int
  <2> HIDE DEF record
  <2> QED BY <1>3
<1>5. /\ position.size \in Int /\ cash \in Int /\ ledger \in LedgerTotals
      /\ funding \in Seq(Entry) /\ tradeId \in Nat
  BY DEF TypeOK, LedgerTotals, Entry
<1>6. -position.size \in Int
  BY <1>5
<1>7. amount \in Int
  <2> HIDE DEF record
  <2> QED BY <1>4, <1>5, <1>6
<1>8. e \in Entry
  <2> HIDE DEF record, amount
  <2> QED BY <1>4, <1>5, <1>7 DEF Entry
<1>9. \/ UNCHANGED <<ledger, funding, cash>>
      \/ /\ ledger' = Posted(ledger, "funding", amount)
         /\ funding' = Append(funding, e) /\ cash' = cash + amount
  BY Zenon DEF SettleRecord
<1> HIDE DEF record, amount, e
<1>10. ledger' \in LedgerTotals /\ funding' \in Seq(Entry) /\ cash' \in Int
  <2>1. ledger' = ledger \/ ledger' = Posted(ledger, "funding", amount)
    BY <1>9, Zenon
  <2>2. ledger' \in LedgerTotals
    BY <1>5, <1>7, <2>1, PostedType
  <2>3. funding' = funding \/ funding' = Append(funding, e)
    BY <1>9, Zenon
  <2>4. funding' \in Seq(Entry)
    BY <1>5, <1>8, <2>3
  <2>5. cash' = cash \/ cash' = cash + amount
    BY <1>9, Zenon
  <2>6. cash' \in Int
    BY <1>5, <1>7, <2>5
  <2> QED BY <2>2, <2>4, <2>6
<1>11. UNCHANGED <<phase, inputs, bar, filled, ended, position, fills, tradeId, reducing,
                  running, orderNotices, tradeNotices, account, trades, held>>
  BY DEF SettleRecord
<1>12. cursor' \in 0..Len(evidence.records)
  BY <1>1, <1>2
<1> QED BY <1>10, <1>11, <1>12 DEF TypeOK, inputs, LedgerTotals, Entry

\* A notice delivered is booked in amounts.
LEMMA NoticeTypes ==
  ASSUME TypeOK, NotifyOrder
  PROVE  TypeOK'
<1>1. orderNotices \in Seq(OrderNotice) /\ orderNotices # <<>> /\ ledger \in LedgerTotals
      /\ account \in [size : Int, entryCommission : Int]
  BY DEF NotifyOrder, TypeOK, OrderNotice, LedgerTotals
<1> DEFINE n == Head(orderNotices)
<1>2. n \in OrderNotice /\ Tail(orderNotices) \in Seq(OrderNotice)
  BY <1>1, HeadTailProperties
<1>3. \/ /\ account' = [size |-> n.lots, entryCommission |-> n.commission]
         /\ ledger' = Owned(ledger, "commission", -n.commission)
      \/ /\ account' = [size |-> account.size + n.lots,
                        entryCommission |-> account.entryCommission + n.commission]
         /\ ledger' = Owned(ledger, "commission", -n.commission)
      \/ /\ account' = [account EXCEPT !.size = @ - n.lots]
         /\ ledger' = Owned(Owned(ledger, "trade_pnl", n.pnl), "commission", -n.commission)
      \/ account' = account /\ ledger' = ledger
  BY Zenon DEF NotifyOrder
<1> HIDE DEF n
<1>4. n.lots \in Int /\ n.commission \in Int /\ n.pnl \in Int /\ -n.commission \in Int
  BY <1>2 DEF OrderNotice
<1>5. /\ Owned(ledger, "commission", -n.commission) \in LedgerTotals
      /\ Owned(Owned(ledger, "trade_pnl", n.pnl), "commission", -n.commission) \in LedgerTotals
  BY <1>1, <1>4, OwnedType
<1>6. ledger' \in LedgerTotals
  BY <1>1, <1>3, <1>5, Zenon
<1>7. account' \in [size : Int, entryCommission : Int]
  BY <1>1, <1>3, <1>4
<1>8. orderNotices' \in Seq(OrderNotice)
  BY <1>2 DEF NotifyOrder, n
<1>9. UNCHANGED <<phase, inputs, bar, filled, ended, position, cash, fills, tradeId,
                  reducing, running, tradeNotices, settlement, trades, held>>
  BY DEF NotifyOrder
<1> QED BY <1>6, <1>7, <1>8, <1>9 DEF TypeOK, inputs, settlement, LedgerTotals, OrderNotice

\* A closed trade is told of, taken apart.
LEMMA NotifyTradeDoes ==
  ASSUME TypeOK, NotifyTrade
  PROVE  /\ phase = "notify" /\ orderNotices = <<>> /\ tradeNotices # <<>>
         /\ LET n == Head(tradeNotices) IN
            /\ n \in Amounts /\ Tail(tradeNotices) \in Seq(Amounts)
            /\ tradeNotices' = Tail(tradeNotices)
            /\ account' = [size |-> 0, entryCommission |-> 0]
            /\ ledger' = Owned(Owned(ledger, "trade_pnl", n.pnl), "commission",
                               account.entryCommission - n.commission)
            /\ \/ /\ FillsOf(Len(trades) + 1) = {} /\ lane # "legacy"
                  /\ phase' = "unreconciled" /\ trades' = trades
               \/ /\ trades' = Append(trades, n.pnl - n.commission
                                                - LiquidationOf(fills, Len(trades) + 1))
                  /\ phase' = phase
         /\ UNCHANGED <<inputs, bar, filled, ended, position, cash, fills, tradeId, reducing,
                        running, orderNotices, settlement, held>>
<1>1. tradeNotices \in Seq(Amounts) /\ tradeNotices # <<>>
  BY DEF NotifyTrade, TypeOK, Amounts
<1>2. Head(tradeNotices) \in Amounts /\ Tail(tradeNotices) \in Seq(Amounts)
  BY <1>1, HeadTailProperties
<1>3. Len(trades) + 1 \in Nat /\ fills \in Seq(Fill) /\ funding \in Seq(Entry)
  BY DEF TypeOK, Fill, Entry
<1> DEFINE n == Head(tradeNotices)
           joined == FillsOf(Len(trades) + 1)
           liquidation == SumOver(fills, joined, LAMBDA f : f.liquidation)
<1>4. liquidation = LiquidationOf(fills, Len(trades) + 1)
  <2>1. \A i \in DOMAIN fills : fills[i] \in Fill
    BY <1>3
  <2> QED BY <2>1 DEF FillsOf, SumOver, LiquidationOf, Tally
<1>5. \/ joined = {} /\ lane # "legacy" /\ phase' = "unreconciled" /\ trades' = trades
      \/ /\ trades' = Append(trades, n.pnl - n.commission - liquidation)
         /\ phase' = phase
  BY Zenon DEF NotifyTrade
<1>6. /\ phase = "notify" /\ orderNotices = <<>>
      /\ tradeNotices' = Tail(tradeNotices)
      /\ account' = [size |-> 0, entryCommission |-> 0]
      /\ ledger' = Owned(Owned(ledger, "trade_pnl", n.pnl), "commission",
                         account.entryCommission - n.commission)
      /\ UNCHANGED <<inputs, bar, filled, ended, position, cash, fills, tradeId, reducing,
                     running, orderNotices, settlement, held>>
  BY Zenon DEF NotifyTrade
<1> QED BY <1>1, <1>2, <1>4, <1>5, <1>6, Zenon

\* Booking a closed trade keeps the types.
LEMMA NotifyTradeTypes ==
  ASSUME TypeOK, NotifyTrade
  PROVE  TypeOK'
<1> DEFINE n == Head(tradeNotices)
           liquidation == LiquidationOf(fills, Len(trades) + 1)
           total == n.pnl - n.commission - liquidation
<1>1. /\ ledger \in LedgerTotals /\ account.entryCommission \in Int /\ fills \in Seq(Fill)
      /\ trades \in Seq(Int) /\ Len(trades) + 1 \in Nat
  BY DEF TypeOK, LedgerTotals, Fill
<1>2. /\ n \in Amounts /\ tradeNotices' \in Seq(Amounts)
      /\ account' = [size |-> 0, entryCommission |-> 0]
      /\ ledger' = Owned(Owned(ledger, "trade_pnl", n.pnl), "commission",
                         account.entryCommission - n.commission)
      /\ \/ phase' = "unreconciled" /\ trades' = trades
         \/ trades' = Append(trades, total) /\ phase' = phase
  BY NotifyTradeDoes, Zenon
<1>3. UNCHANGED <<inputs, bar, filled, ended, position, cash, fills, tradeId, reducing,
                  running, orderNotices, settlement, held>>
  BY NotifyTradeDoes, Zenon
<1>4. liquidation \in Int
  BY <1>1, SumTypes, 0 \in Int DEF TypeOK, Entry
<1> HIDE DEF n, liquidation
<1>5. n.pnl \in Int /\ n.commission \in Int
  BY <1>2 DEF Amounts
<1>6. account.entryCommission - n.commission \in Int /\ total \in Int
  BY <1>1, <1>4, <1>5
<1> HIDE DEF total
<1>7. ledger' \in LedgerTotals
  BY <1>1, <1>2, <1>5, <1>6, OwnedType
<1>8. trades' \in Seq(Int)
  <2>1. Append(trades, total) \in Seq(Int)
    BY <1>1, <1>6
  <2> QED BY <1>1, <1>2, <2>1
<1>9. phase' \in {"notify", "unreconciled"} /\ account' \in [size : Int, entryCommission : Int]
  <2>1. phase = "notify"
    BY NotifyTradeDoes, Zenon
  <2> QED BY <1>2, <2>1
<1> QED BY <1>2, <1>3, <1>7, <1>8, <1>9 DEF TypeOK, inputs, settlement, LedgerTotals, Amounts

\* The lots held are a number, and all of them can be closed.
LEMMA HeldSize ==
  ASSUME TypeOK
  PROVE  /\ position.size \in Int /\ Abs(position.size) \in Nat
         /\ position.size # 0 => Abs(position.size) \in 1..Abs(position.size)
<1>1. position.size \in Int
  BY DEF TypeOK
<1> QED BY <1>1 DEF Abs

\* A bar is under way only when one has been delivered.
Started == phase \in {"settle", "pass"} => bar > 0

\* Every step keeps the types.
LEMMA TypeStep ==
  ASSUME TypeOK, Started, [Next]_vars
  PROVE  TypeOK' /\ Started'
<1>1. bars \in Feeds /\ bar \in 0..Len(bars) /\ filled \in Nat /\ bars \in Seq(Int)
      /\ bars # <<>> /\ Len(bars) \in Nat
  BY InputTypes DEF TypeOK
<1>2. ASSUME Admit \/ Survive \/ Rest \/ Audit PROVE TypeOK' /\ Started'
  <2>1. UNCHANGED <<inputs, bar, filled, ended, money, settlement, account, trades, held>>
    BY <1>2 DEF Admit, Survive, Rest, Audit
  <2>2. /\ phase' \in {"rest", "refused", "uncovered", "pass", "audit", "done", "unreconciled"}
        /\ phase' = "pass" => phase = "settle"
    BY <1>2, Zenon DEF Admit, Survive, Rest, Audit
  <2> QED BY <2>1, <2>2 DEF TypeOK, Started, inputs, money, settlement
<1>3. ASSUME OpenBar PROVE TypeOK' /\ Started'
  <2>1. UNCHANGED <<inputs, ended, money, settlement, account, trades, held>>
    BY <1>3 DEF OpenBar
  <2>2. phase' \in {"settle", "pass"} /\ bar' = bar + 1 /\ filled' = 0 /\ bar < Len(bars)
    BY <1>3, Zenon DEF OpenBar
  <2>3. bar' \in 0..Len(bars) /\ bar' > 0
    BY <1>1, <2>2
  <2> QED BY <2>1, <2>2, <2>3 DEF TypeOK, Started, inputs, money, settlement
<1>4. ASSUME EndPass PROVE TypeOK' /\ Started'
  <2>1. UNCHANGED <<inputs, bar, filled, ended, money, settlement, account, trades>>
    BY <1>4 DEF EndPass
  <2>2. phase' = "notify" /\ phase = "pass"
        /\ held' = Append(held, [time |-> Now, size |-> position.size, trade |-> tradeId])
    BY <1>4 DEF EndPass
  <2>3. held' \in Seq([time : Int, size : Int, trade : Nat])
    <3>1. position.size \in Int /\ tradeId \in Nat
          /\ held \in Seq([time : Int, size : Int, trade : Nat])
      BY DEF TypeOK
    <3>2. bar \in 1..Len(bars)
      BY <1>1, <2>2 DEF Started
    <3>3. Now \in Int
      BY <1>1, <3>2 DEF Now
    <3>4. [time |-> Now, size |-> position.size, trade |-> tradeId]
            \in [time : Int, size : Int, trade : Nat]
      BY <3>1, <3>3
    <3> QED BY <2>2, <3>1, <3>4
  <2> QED BY <2>1, <2>2, <2>3 DEF TypeOK, Started, inputs, money, settlement
<1>5. ASSUME SettleRecord PROVE TypeOK' /\ Started'
  <2>1. phase' = phase /\ bar' = bar
    BY <1>5 DEF SettleRecord
  <2> QED BY <1>5, <2>1, SettleTypes DEF Started
<1>6. ASSUME NEW u \in Units, Liquidate(u) PROVE TypeOK' /\ Started'
  <2>1. /\ Leave(Abs(position.size), u, 0, 0, LiquidationFee) /\ phase' = "pass"
        /\ phase = "settle" /\ position.size # 0
        /\ UNCHANGED <<inputs, bar, filled, ended, settlement, account, trades, held>>
    BY <1>6 DEF Liquidate, Settled
  <2>2. Abs(position.size) \in 1..Abs(position.size) /\ LiquidationFee \in Nat
    BY <2>1, HeldSize, BooksAssumption
  <2>3. filled' \in Nat /\ ended' \in BOOLEAN
    BY <2>1 DEF TypeOK
  <2>4. TypeOK'
    BY <2>1, <2>2, <2>3, ClosingTypes
  <2> QED BY <2>1, <2>4 DEF Started
<1>7. ASSUME NEW n \in 1..MaxLots, NEW s \in {-1, 1}, NEW u \in Units,
             NEW a \in Adjustments, NEW c \in Commissions, Enter(s * n, u, a, c)
      PROVE  TypeOK' /\ Started'
  <2>1. phase' = phase /\ bar' = bar
    BY <1>7 DEF Enter
  <2> QED BY <1>7, <2>1, EnterTypes DEF Started
<1>8. ASSUME NEW n \in 1..MaxLots, NEW u \in Units, NEW a \in Adjustments,
             NEW c \in Commissions, Exit(n, u, a, c)
      PROVE  TypeOK' /\ Started'
  <2>1. /\ Leave(n, u, a, c, 0) /\ phase = "pass" /\ n <= Abs(position.size)
        /\ filled' = filled + 1
        /\ UNCHANGED <<phase, inputs, bar, ended, settlement, account, trades, held>>
    BY <1>8 DEF Exit
  <2>2. n \in 1..Abs(position.size) /\ a \in Int /\ c \in Nat /\ 0 \in Nat
    BY <2>1, BooksAssumption DEF TypeOK, Abs
  <2>3. filled' \in Nat /\ ended' \in BOOLEAN /\ phase' = "pass"
    BY <1>1, <2>1 DEF TypeOK
  <2>4. TypeOK'
    BY <2>1, <2>2, <2>3, ClosingTypes
  <2> QED BY <2>1, <2>4 DEF Started
<1>9. ASSUME NotifyOrder \/ NotifyTrade PROVE TypeOK' /\ Started'
  <2>1. bar' = bar
    BY <1>9 DEF NotifyOrder, NotifyTrade
  <2>2. phase' \notin {"settle", "pass"}
    BY <1>9, Zenon DEF NotifyOrder, NotifyTrade
  <2> QED BY <1>9, <2>1, <2>2, NoticeTypes, NotifyTradeTypes DEF Started
<1>10. ASSUME Terminate PROVE TypeOK' /\ Started'
  <2>1. /\ ended' = TRUE /\ phase' = "notify" /\ bar = Len(bars)
        /\ UNCHANGED <<inputs, bar, filled, settlement, account, trades, held>>
    BY <1>10 DEF Terminate
  <2>2. ended' \in BOOLEAN
    BY <2>1, Zenon
  <2>3. CASE UNCHANGED money
    BY <2>1, <2>2, <2>3 DEF TypeOK, Started, inputs, money, settlement
  <2>4. ASSUME NEW u \in Units, NEW a \in Adjustments, NEW c \in Commissions,
               position.size # 0, Leave(Abs(position.size), u, a, c, 0)
        PROVE  TypeOK' /\ Started'
    <3>1. /\ Abs(position.size) \in 1..Abs(position.size)
          /\ a \in Int /\ c \in Nat /\ 0 \in Nat
      BY <2>4, HeldSize, BooksAssumption
    <3>2. filled' \in Nat
      BY <1>1, <2>1
    <3>3. TypeOK'
      BY <2>1, <2>2, <2>4, <3>1, <3>2, ClosingTypes
    <3> QED BY <2>1, <3>3 DEF Started
  <2> QED BY <1>10, <2>3, <2>4 DEF Terminate
<1>11. CASE UNCHANGED vars
  BY <1>11 DEF TypeOK, Started, vars, inputs, money, settlement
<1> QED BY <1>2, <1>3, <1>4, <1>5, <1>6, <1>7, <1>8, <1>9, <1>10, <1>11 DEF Next

\* The state of a run has its types, throughout every run (AccountBooks.tla's
\* variables stand for the attributes named in the map).
THEOREM TypeCorrect == Spec => []TypeOK
<1>1. Init => TypeOK /\ Started
  BY TypeInit DEF Init, Started
<1>2. TypeOK /\ Started /\ [Next]_vars => (TypeOK /\ Started)'
  BY TypeStep
<1> QED BY <1>1, <1>2, PTL DEF Spec

(* ---- The inductive invariant ------------------------------------------ *)

\* Where a run can be, and what waits to be delivered there.
Stages ==
  /\ Started
  /\ phase \notin {"admit", "refused"} => Admitted
  /\ phase = "settle" => lane = "realistic" /\ Evaluated(Now)
  /\ phase \notin {"pass", "notify"} => orderNotices = <<>> /\ tradeNotices = <<>>

\* At most one trade is closed and not yet told of, and the numbers of the
\* broker's trades and of the analyzer's run alike.
OneTrade ==
  /\ tradeNotices # <<>> => Len(tradeNotices) = 1 /\ position.size = 0
  /\ tradeId = Len(trades) + 1 + Len(tradeNotices)
  /\ position.size = 0 =>
       position.unit = 0 /\ ~reducing /\ running.pnl = 0 /\ running.commission = 0
  /\ ~reducing => running.pnl = 0
  /\ lane = "legacy" => ~reducing

\* Which fills the broker has under which trade.
FillsFit ==
  /\ \A i \in DOMAIN fills :
       /\ fills[i].trade <= tradeId
       /\ fills[i].trade = tradeId =>
            /\ position.size # 0 /\ fills[i].liquidation = 0
            /\ ~reducing => fills[i].role = "entry"
  /\ tradeNotices # <<>> => \E i \in DOMAIN fills : fills[i].trade = Len(trades) + 1

\* Cash and what of it is tied up in the position.
Equity == cash + Tied(position.size, position.unit)

\* The totals of the ledger add up to its balance, which a cost broker keeps
\* at the equity at every moment.
LedgerKept ==
  /\ ledger.cash = ledger.pnl - ledger.fees + ledger.funding
  /\ ~OwnsLedger => Balance = Equity

\* The equity as the fills tell it ...
FillsTell ==
  Equity = Capital + Paid(fills) - Slipped(fills) - Commissioned(fills) + Funded(funding)
             - Liquidated(fills) + Worth(position.size, position.unit)

\* What the analyzer is going to list of a trade it has not been told of.
Unlisted ==
  IF tradeNotices = <<>> THEN 0
  ELSE Head(tradeNotices).pnl - Head(tradeNotices).commission
         - LiquidationOf(fills, Len(trades) + 1)

\* ... and as the trades do, closed and open.
TradesTell ==
  Equity = Capital + Total(trades) + Unlisted + running.pnl - running.commission
             + Funded(funding)

\* What Backtrader has added up of the open trade is what its fills say.
RunningTold ==
  /\ running.commission = CommissionOf(fills, tradeId)
  /\ position.size # 0 => running.pnl = GainOf(fills, tradeId, Leverage * position.unit)

\* What the strategy knows, and has booked if the ledger is its own, before
\* and after an order notice.
Knowledge == [size : Int, entry : Int, booked : Int]

IsKnown(k) ==
  /\ k.size = account.size /\ k.entry = account.entryCommission
  /\ OwnsLedger => k.booked = ledger.cash

Knows(k, n) ==
  CASE n.kind = "opened"  -> [size |-> n.lots, entry |-> n.commission,
                              booked |-> k.booked - n.commission]
    [] n.kind = "grown"   -> [size |-> k.size + n.lots, entry |-> k.entry + n.commission,
                              booked |-> k.booked - n.commission]
    [] n.kind = "reduced" -> [size |-> k.size - n.lots, entry |-> k.entry,
                              booked |-> k.booked + n.pnl - n.commission]
    [] OTHER              -> k

\* What it has to know after the last of them: the lots held and, in a ledger
\* of its own, all but what the notice of the closed trade still brings.
Informed(k) ==
  IF tradeNotices = <<>>
  THEN /\ k.size = Abs(position.size)
       /\ OwnsLedger => k.entry = running.commission /\ Capital + k.booked = Equity
  ELSE OwnsLedger => Capital + k.booked + Head(tradeNotices).pnl + k.entry
                       - Head(tradeNotices).commission = Equity

\* The notices under way close the gap between what the strategy knows and
\* what the broker has done, one after the other.
NoticesInform ==
  \E told \in [0..Len(orderNotices) -> Knowledge] :
    /\ IsKnown(told[0])
    /\ \A i \in 1..Len(orderNotices) : told[i] = Knows(told[i - 1], orderNotices[i])
    /\ Informed(told[Len(orderNotices)])

\* What the money obeys at every step, and all of it.
Accounts ==
  /\ OneTrade /\ FillsFit /\ LedgerKept /\ FillsTell /\ TradesTell /\ RunningTold
  /\ NoticesInform

Books == TypeOK /\ Stages /\ Accounts /\ AdmittedRunsFinish

\* Initially nothing has happened.
LEMMA BooksInit == Init => Books
<1> SUFFICES ASSUME Init PROVE Books
  OBVIOUS
<1>1. TypeOK
  BY TypeInit
<1>2. Stages /\ AdmittedRunsFinish
  BY DEF Init, Stages, Started, AdmittedRunsFinish
<1>3. /\ fills = <<>> /\ funding = <<>> /\ trades = <<>> /\ tradeNotices = <<>>
      /\ orderNotices = <<>> /\ tradeId = 1 /\ position.size = 0 /\ position.unit = 0
      /\ cash = Capital /\ running.pnl = 0 /\ running.commission = 0
      /\ ledger = [cash |-> 0, fees |-> 0, funding |-> 0, pnl |-> 0]
      /\ account = [size |-> 0, entryCommission |-> 0]
  BY DEF Init, Flat
<1>4. ~reducing
  BY Zenon DEF Init
<1>5. Capital \in Int /\ Leverage \in Int
  BY BooksAssumption
<1>6. Equity = Capital /\ Balance = Capital
  BY <1>3, <1>5 DEF Equity, Tied, Balance
<1>7. /\ Paid(fills) = 0 /\ Slipped(fills) = 0 /\ Commissioned(fills) = 0
      /\ Liquidated(fills) = 0 /\ Funded(funding) = 0 /\ CommissionOf(fills, tradeId) = 0
  BY <1>3, TotalOfNone DEF Paid, Slipped, Commissioned, Liquidated, Funded, CommissionOf, Tally
<1>8. OneTrade /\ FillsFit
  BY <1>3, <1>4 DEF OneTrade, FillsFit
<1>9. LedgerKept
  BY <1>3, <1>6 DEF LedgerKept
<1>10. FillsTell
  <2>1. Worth(position.size, position.unit) = 0
    BY <1>3, <1>5 DEF Worth
  <2> QED BY <1>5, <1>6, <1>7, <2>1 DEF FillsTell
<1>11. TradesTell
  BY <1>3, <1>5, <1>6, <1>7, TotalOfNone DEF TradesTell, Unlisted
<1>12. RunningTold
  BY <1>3, <1>7 DEF RunningTold
<1>13. NoticesInform
  <2> DEFINE k == [size |-> 0, entry |-> 0, booked |-> 0]
             told == [i \in 0..0 |-> k]
  <2>1. IsKnown(k) /\ k \in Knowledge
    BY <1>3 DEF IsKnown, Knowledge
  <2>2. Informed(k)
    BY <1>3, <1>5, <1>6 DEF Informed, Abs
  <2>3. told \in [0..0 -> Knowledge] /\ told[0] = k
    BY <2>1
  <2> HIDE DEF told, k
  <2> QED BY <1>3, <2>1, <2>2, <2>3 DEF NoticesInform
<1> QED BY <1>1, <1>2, <1>8, <1>9, <1>10, <1>11, <1>12, <1>13 DEF Books, Accounts

(* ---- The notices under way -------------------------------------------- *)

\* What a notice adds to what the strategy knows is knowledge again.
LEMMA KnowsType ==
  ASSUME NEW k \in Knowledge, NEW n \in OrderNotice
  PROVE  Knows(k, n) \in Knowledge
<1>1. /\ k.size \in Int /\ k.entry \in Int /\ k.booked \in Int
      /\ n.lots \in Int /\ n.pnl \in Int /\ n.commission \in Int
  BY DEF Knowledge, OrderNotice
<1> QED BY <1>1 DEF Knows, Knowledge

\* An execution's notice is the last to be delivered: it tells the rest.
LEMMA NoticesGrow ==
  ASSUME orderNotices \in Seq(OrderNotice), NoticesInform, NEW n \in OrderNotice,
         orderNotices' = Append(orderNotices, n),
         \A k \in Knowledge : IsKnown(k) => IsKnown(k)',
         \A k, m \in Knowledge : Informed(k) /\ m = Knows(k, n) => Informed(m)'
  PROVE  NoticesInform'
<1>1. PICK len \in Nat : len = Len(orderNotices)
  OBVIOUS
<1>2. /\ Len(orderNotices') = len + 1 /\ orderNotices'[len + 1] = n
      /\ \A i \in 1..len : orderNotices'[i] = orderNotices[i]
  BY <1>1, AppendProperties
<1>3. PICK told \in [0..len -> Knowledge] :
        /\ IsKnown(told[0])
        /\ \A i \in 1..len : told[i] = Knows(told[i - 1], orderNotices[i])
        /\ Informed(told[len])
  BY <1>1 DEF NoticesInform
<1>4. PICK k \in Knowledge : k = told[len]
  BY <1>1, <1>3
<1>5. PICK m \in Knowledge : m = Knows(k, n)
  BY KnowsType
<1>6. Informed(m)'
  BY <1>3, <1>4, <1>5
<1>7. PICK more \in [0..(len + 1) -> Knowledge] :
        /\ \A i \in 0..len : more[i] = told[i]
        /\ more[len + 1] = m
  <2> DEFINE extended == [i \in 0..(len + 1) |-> IF i <= len THEN told[i] ELSE m]
  <2>1. /\ extended \in [0..(len + 1) -> Knowledge]
        /\ \A i \in 0..len : extended[i] = told[i]
        /\ extended[len + 1] = m
    BY <1>1, <1>3
  <2> HIDE DEF extended
  <2> QED BY <2>1
<1>8. IsKnown(more[0])'
  <2>1. PICK first \in Knowledge : first = told[0]
    BY <1>1, <1>3
  <2>2. IsKnown(first)'
    BY <1>3, <2>1
  <2>3. more[0] = first
    BY <1>1, <1>7, <2>1
  <2> QED BY <2>2, <2>3
<1>9. \A i \in 1..(len + 1) : more[i] = Knows(more[i - 1], orderNotices'[i])
  <2> TAKE i \in 1..(len + 1)
  <2>1. CASE i = len + 1
    <3>1. more[i - 1] = k
      BY <1>1, <1>4, <1>7, <2>1
    <3> QED BY <1>2, <1>5, <1>7, <2>1, <3>1
  <2>2. CASE i # len + 1
    <3>1. i \in 1..len /\ i - 1 \in 0..len /\ i \in 0..len
      BY <1>1, <2>2
    <3> QED BY <1>2, <1>3, <1>7, <3>1
  <2> QED BY <2>1, <2>2
<1>10. Informed(more[len + 1])'
  BY <1>6, <1>7
<1> QED BY <1>2, <1>7, <1>8, <1>9, <1>10 DEF NoticesInform

\* The first notice is delivered: the strategy knows what it says.
LEMMA NoticeDelivered ==
  ASSUME orderNotices \in Seq(OrderNotice), orderNotices # <<>>, NoticesInform,
         orderNotices' = Tail(orderNotices),
         \A k, m \in Knowledge :
           IsKnown(k) /\ m = Knows(k, Head(orderNotices)) => IsKnown(m)',
         \A k \in Knowledge : Informed(k) => Informed(k)'
  PROVE  NoticesInform'
<1>1. PICK len \in Nat : len = Len(orderNotices) /\ len > 0
  BY EmptySeq
<1>2. /\ Len(orderNotices') = len - 1 /\ Head(orderNotices) = orderNotices[1]
      /\ \A i \in 1..(len - 1) : orderNotices'[i] = orderNotices[i + 1]
  BY <1>1, HeadTailProperties
<1>3. PICK told \in [0..len -> Knowledge] :
        /\ IsKnown(told[0])
        /\ \A i \in 1..len : told[i] = Knows(told[i - 1], orderNotices[i])
        /\ Informed(told[len])
  BY <1>1 DEF NoticesInform
<1>4. PICK rest \in [0..(len - 1) -> Knowledge] :
        \A i \in 0..(len - 1) : rest[i] = told[i + 1]
  <2> DEFINE shifted == [i \in 0..(len - 1) |-> told[i + 1]]
  <2>1. /\ shifted \in [0..(len - 1) -> Knowledge]
        /\ \A i \in 0..(len - 1) : shifted[i] = told[i + 1]
    BY <1>1, <1>3
  <2> HIDE DEF shifted
  <2> QED BY <2>1
<1>5. IsKnown(rest[0])'
  <2>1. PICK first, next \in Knowledge : first = told[0] /\ next = told[1]
    BY <1>1, <1>3
  <2>2. next = Knows(first, Head(orderNotices))
    <3>1. told[1] = Knows(told[1 - 1], orderNotices[1])
      BY <1>1, <1>3
    <3> QED BY <1>2, <2>1, <3>1
  <2>3. IsKnown(first)
    BY <1>3, <2>1
  <2>4. IsKnown(next)'
    BY <2>2, <2>3
  <2>5. rest[0] = next
    BY <1>1, <1>4, <2>1
  <2> QED BY <2>4, <2>5
<1>6. \A i \in 1..(len - 1) : rest[i] = Knows(rest[i - 1], orderNotices'[i])
  <2> TAKE i \in 1..(len - 1)
  <2>1. i + 1 \in 1..len /\ i - 1 \in 0..(len - 1) /\ i \in 0..(len - 1)
        /\ (i + 1) - 1 = i /\ (i - 1) + 1 = i
    BY <1>1
  <2>2. told[i + 1] = Knows(told[i], orderNotices[i + 1])
    BY <1>3, <2>1
  <2> QED BY <1>2, <1>4, <2>1, <2>2
<1>7. Informed(rest[len - 1])'
  <2>1. PICK k \in Knowledge : k = told[len]
    BY <1>1, <1>3
  <2>2. Informed(k)'
    BY <1>3, <2>1
  <2>3. rest[len - 1] = k
    BY <1>1, <1>4, <2>1
  <2> QED BY <2>2, <2>3
<1> QED BY <1>1, <1>2, <1>4, <1>5, <1>6, <1>7 DEF NoticesInform

(* ---- An entry --------------------------------------------------------- *)

\* The types of the money, as the steps below need them.
LEMMA MoneyTypes ==
  ASSUME TypeOK
  PROVE  /\ position.size \in Int /\ position.unit \in Nat /\ cash \in Int
         /\ tradeId \in Nat /\ fills \in Seq(Fill) /\ funding \in Seq(Entry)
         /\ running.pnl \in Int /\ running.commission \in Int
         /\ ledger \in LedgerTotals /\ ledger.cash \in Int /\ ledger.pnl \in Int
         /\ ledger.fees \in Int /\ ledger.funding \in Int
         /\ orderNotices \in Seq(OrderNotice) /\ tradeNotices \in Seq(Amounts)
         /\ trades \in Seq(Int) /\ Capital \in Int /\ Leverage \in Int
         /\ account.size \in Int /\ account.entryCommission \in Int
         /\ Equity \in Int /\ Balance \in Int
<1>1. position.size \in Int /\ position.unit \in Nat /\ cash \in Int /\ ledger.cash \in Int
  BY DEF TypeOK
<1>2. Capital \in Int /\ Leverage \in Int
  BY BooksAssumption
<1>3. Equity \in Int /\ Balance \in Int
  BY <1>1, <1>2 DEF Equity, Tied, Balance
<1> QED BY <1>1, <1>2, <1>3 DEF TypeOK, Fill, Entry, LedgerTotals, OrderNotice, Amounts

\* An entry keeps the accounts.
LEMMA EnterKeeps ==
  ASSUME TypeOK, Accounts, NEW lots \in Int, NEW u \in Nat, NEW a \in Int, NEW c \in Nat,
         lots # 0, Enter(lots, u, a, c)
  PROVE  Accounts'
<1>1. /\ position.size \in Int /\ position.unit \in Nat /\ cash \in Int
      /\ running.pnl \in Int /\ running.commission \in Int
      /\ ledger.cash \in Int /\ ledger.pnl \in Int /\ ledger.fees \in Int
      /\ ledger.funding \in Int /\ Capital \in Int /\ Leverage \in Int
      /\ Equity \in Int /\ Balance \in Int
  BY MoneyTypes
<1>20. /\ tradeId \in Nat /\ fills \in Seq(Fill) /\ funding \in Seq(Entry)
      /\ ledger \in LedgerTotals /\ orderNotices \in Seq(OrderNotice)
  BY MoneyTypes
<1> DEFINE price == Leverage * u
           reference == price - Sign(lots) * a
           f == [trade |-> tradeId, role |-> "entry", signed |-> lots,
                 reference |-> reference, price |-> price, commission |-> c,
                 liquidation |-> 0]
           n1 == [kind |-> IF position.size = 0 THEN "opened" ELSE "grown",
                  lots |-> Abs(lots), pnl |-> 0, commission |-> c]
<1>2. /\ tradeNotices = <<>> /\ tradeNotices' = tradeNotices
      /\ (position.size = 0 \/ (~reducing /\ Sign(position.size) = Sign(lots)))
      /\ cash' = cash - Tied(lots, u) - c
      /\ \E q \in Averages(position.size, position.unit, lots, u) :
           position' = [size |-> position.size + lots, unit |-> q]
      /\ fills' = Append(fills, f)
      /\ ledger' = IF OwnsLedger THEN ledger ELSE Posted(ledger, "commission", -c)
      /\ running' = [running EXCEPT !.commission = @ + c]
      /\ orderNotices' = Append(orderNotices, n1)
      /\ tradeId' = tradeId /\ reducing' = reducing /\ lane' = lane
      /\ funding' = funding /\ trades' = trades /\ account' = account
  <2>1. /\ tradeNotices = <<>> /\ tradeNotices' = tradeNotices
        /\ tradeId' = tradeId /\ reducing' = reducing /\ lane' = lane
        /\ funding' = funding /\ trades' = trades /\ account' = account
    BY EnterDoes DEF inputs, settlement
  <2>2. position.size = 0 \/ (~reducing /\ Sign(position.size) = Sign(lots))
    BY Zenon DEF Enter
  <2>3. /\ cash' = cash - Tied(lots, u) - c
        /\ \E q \in Averages(position.size, position.unit, lots, u) :
             position' = [size |-> position.size + lots, unit |-> q]
        /\ ledger' = IF OwnsLedger THEN ledger ELSE Posted(ledger, "commission", -c)
        /\ running' = [running EXCEPT !.commission = @ + c]
    BY EnterDoes, Zenon
  <2>4. fills' = Append(fills, f) /\ orderNotices' = Append(orderNotices, n1)
    BY Zenon DEF Enter
  <2> QED BY <2>1, <2>2, <2>3, <2>4, Zenon
<1>3. PICK q \in Averages(position.size, position.unit, lots, u) :
        position'.size = position.size + lots /\ position'.unit = q
  BY <1>2
<1>4. /\ price \in Int /\ reference \in Int /\ Abs(lots) \in Nat /\ Tied(lots, u) \in Int
  BY <1>1 DEF Sign, Abs, Tied
<1>5. f \in Fill /\ n1 \in OrderNotice
  <2> HIDE DEF price, reference
  <2> QED BY <1>4, <1>20 DEF Fill, OrderNotice
<1>6. /\ f.trade = tradeId /\ f.role = "entry" /\ f.signed = lots /\ f.reference = reference
      /\ f.price = price /\ f.commission = c /\ f.liquidation = 0
      /\ n1.kind = (IF position.size = 0 THEN "opened" ELSE "grown")
      /\ n1.lots = Abs(lots) /\ n1.pnl = 0 /\ n1.commission = c
  OBVIOUS
<1>7. running'.pnl = running.pnl /\ running'.commission = running.commission + c
  <2>1. running \in Amounts
    BY DEF TypeOK, Amounts
  <2>2. running' = [running EXCEPT !.commission = @ + c]
    BY <1>2
  <2> QED BY <2>1, <2>2 DEF Amounts
<1> HIDE DEF f, n1, reference, price
<1>8. position.size = 0 => position.unit = 0 /\ ~reducing /\ running.pnl = 0
                           /\ running.commission = 0
  BY DEF Accounts, OneTrade
<1>9. position.size = 0 \/ Sign(position.size) = Sign(lots)
  BY <1>2
<1>19. ~reducing
  BY <1>2, <1>8, Zenon
<1>10. /\ Tied(position'.size, position'.unit)
            = Tied(position.size, position.unit) + Tied(lots, u)
       /\ Worth(position'.size, position'.unit)
            = Worth(position.size, position.unit) + Worth(lots, u)
       /\ position'.unit \in Nat /\ position'.size # 0
  <2>1. /\ Tied(position.size + lots, q) = Tied(position.size, position.unit) + Tied(lots, u)
        /\ Worth(position.size + lots, q) = Worth(position.size, position.unit) + Worth(lots, u)
        /\ q \in Nat /\ position.size + lots # 0
    <3>1. position.size \in Int /\ position.unit \in Nat
      BY <1>1
    <3>2. q \in Averages(position.size, position.unit, lots, u)
      BY <1>3
    <3> QED BY <1>9, <3>1, <3>2, TiedAdds
  <2> QED BY <1>3, <2>1, Zenon
<1>11. Equity' = Equity - c
  <2>1. Equity' = cash' + Tied(position'.size, position'.unit)
    BY DEF Equity
  <2>2. Equity = cash + Tied(position.size, position.unit)
    BY DEF Equity
  <2>3. cash' = cash - Tied(lots, u) - c
    BY <1>2
  <2>4. Tied(position.size, position.unit) \in Int
    BY <1>1 DEF Tied
  <2>5. cash \in Int /\ Tied(lots, u) \in Int
    BY <1>1, <1>4
  <2>6. Tied(position'.size, position'.unit) = Tied(position.size, position.unit) + Tied(lots, u)
    BY <1>10
  <2> QED BY <2>1, <2>2, <2>3, <2>4, <2>5, <2>6
<1>12. OneTrade'
  <2>1. tradeNotices' = tradeNotices
    BY <1>2
  <2> QED BY <1>2, <1>7, <1>10, <1>19, <2>1 DEF Accounts, OneTrade
<1>13. FillsFit'
  <2>1. \A i \in DOMAIN fills' : (i \in DOMAIN fills /\ fills'[i] = fills[i]) \/ fills'[i] = f
    <3>1. fills' = Append(fills, f)
      BY <1>2
    <3> QED BY <1>20, <1>5, <3>1, AppendProperties
  <2>2. \A i \in DOMAIN fills : /\ fills[i].trade <= tradeId
                                /\ fills[i].trade = tradeId =>
                                     fills[i].liquidation = 0 /\ fills[i].role = "entry"
    BY <1>19 DEF Accounts, FillsFit
  <2>3. tradeId' = tradeId /\ reducing' = reducing
    BY <1>2
  <2>4. tradeId <= tradeId
    BY <1>20
  <2> QED BY <1>2, <1>6, <1>10, <2>1, <2>2, <2>3, <2>4 DEF FillsFit
<1>14. LedgerKept'
  <2>1. \/ ledger' = ledger /\ OwnsLedger
        \/ ledger' = Posted(ledger, "commission", -c) /\ ~OwnsLedger
    BY <1>2, Zenon
  <2>2. OwnsLedger' <=> OwnsLedger
    BY <1>2 DEF OwnsLedger
  <2>3. CASE ledger' = ledger /\ OwnsLedger
    BY <2>2, <2>3 DEF Accounts, LedgerKept
  <2>4. CASE ledger' = Posted(ledger, "commission", -c) /\ ~OwnsLedger
    <3>1. /\ ledger'.cash = ledger.cash - c /\ ledger'.fees = ledger.fees + c
          /\ ledger'.pnl = ledger.pnl /\ ledger'.funding = ledger.funding
      <4>1. ledger.cash \in Int /\ ledger.fees \in Int
        BY <1>1
      <4> QED BY <2>4, <4>1 DEF Posted
    <3>2. Balance' = Balance - c
      BY <1>1, <3>1 DEF Balance
    <3>3. Balance' = Equity'
      BY <1>1, <1>11, <2>4, <3>2 DEF Accounts, LedgerKept
    <3>4. ledger'.cash = ledger'.pnl - ledger'.fees + ledger'.funding
      <4>1. ledger.cash = ledger.pnl - ledger.fees + ledger.funding
        BY DEF Accounts, LedgerKept
      <4>2. /\ ledger.cash \in Int /\ ledger.pnl \in Int /\ ledger.fees \in Int
            /\ ledger.funding \in Int
        BY <1>1
      <4> QED BY <3>1, <4>1, <4>2
    <3> QED BY <3>3, <3>4 DEF LedgerKept
  <2> QED BY <2>1, <2>3, <2>4
<1>15. /\ Paid(fills') = Paid(fills) + (-lots * reference) /\ Paid(fills) \in Int
       /\ Slipped(fills') = Slipped(fills) + lots * (price - reference) /\ Slipped(fills) \in Int
       /\ Commissioned(fills') = Commissioned(fills) + c /\ Commissioned(fills) \in Int
       /\ Liquidated(fills') = Liquidated(fills) + 0 /\ Liquidated(fills) \in Int
       /\ Funded(funding) \in Int /\ Funded(funding') = Funded(funding)
       /\ CommissionOf(fills', tradeId) = CommissionOf(fills, tradeId) + c
       /\ CommissionOf(fills, tradeId) \in Int
  <2>1. Funded(funding) \in Int
    BY <1>20, SumTypes, 0 \in Int
  <2>2. 0 \in Int
    OBVIOUS
  <2>3. fills' = Append(fills, f) /\ funding' = funding
    BY <1>2
  <2>4. /\ Paid(fills) \in Int /\ Paid(Append(fills, f)) = Paid(fills) + (-f.signed * f.reference)
        /\ Slipped(fills) \in Int
        /\ Slipped(Append(fills, f)) = Slipped(fills) + f.signed * (f.price - f.reference)
        /\ Commissioned(fills) \in Int
        /\ Commissioned(Append(fills, f)) = Commissioned(fills) + f.commission
        /\ Liquidated(fills) \in Int
        /\ Liquidated(Append(fills, f)) = Liquidated(fills) + f.liquidation
    BY <1>20, <1>5, FillCounts
  <2>5. /\ CommissionOf(fills, tradeId) \in Int
        /\ CommissionOf(Append(fills, f), tradeId) = CommissionOf(fills, tradeId)
              + (IF f.trade = tradeId THEN f.commission ELSE 0)
    BY <1>20, <1>5, <2>2, FillCountsInTrade
  <2> QED BY <1>6, <2>1, <2>3, <2>4, <2>5, Zenon
<1>16. FillsTell'
  <2>1. Paid(fills') - Slipped(fills') = Paid(fills) - Slipped(fills) - lots * price
    BY <1>4, <1>15
  <2>2. Equity = Capital + Paid(fills) - Slipped(fills) - Commissioned(fills) + Funded(funding)
                   - Liquidated(fills) + Worth(position.size, position.unit)
    BY DEF Accounts, FillsTell
  <2>3. /\ Worth(position.size, position.unit) \in Int /\ lots * price \in Int
        /\ Capital \in Int /\ Equity \in Int
    <3>1. position.size \in Int /\ position.unit \in Nat
      BY <1>1
    <3>2. Worth(position.size, position.unit) \in Int
      BY <3>1, WorthType
    <3>3. lots * price \in Int
      BY <1>4
    <3> QED BY <1>1, <3>2, <3>3
  <2>4. Worth(position'.size, position'.unit) = Worth(position.size, position.unit) + lots * price
    BY <1>10 DEF Worth, price
  <2>5. Equity' = Capital + Paid(fills') - Slipped(fills') - Commissioned(fills')
                   + Funded(funding')
                   - Liquidated(fills') + Worth(position'.size, position'.unit)
    BY <1>11, <1>15, <2>1, <2>2, <2>3, <2>4
  <2> QED BY <2>5 DEF FillsTell
<1>17. TradesTell'
  <2>1. Unlisted = 0 /\ Unlisted' = 0
    BY <1>2 DEF Unlisted
  <2>2. Total(trades) \in Int
    BY TotalType, MoneyTypes
  <2>3. Equity = Capital + Total(trades) + Unlisted + running.pnl - running.commission
                   + Funded(funding)
    BY DEF Accounts, TradesTell
  <2>4. trades' = trades
    BY <1>2
  <2>5. Equity' = Capital + Total(trades') + Unlisted' + running'.pnl - running'.commission
                   + Funded(funding')
    <3>1. Funded(funding) \in Int /\ Funded(funding') = Funded(funding)
      BY <1>15
    <3>2. Capital \in Int /\ running.pnl \in Int /\ running.commission \in Int
      BY <1>1
    <3>3. Total(trades') = Total(trades)
      BY <2>4
    <3> QED BY <1>7, <1>11, <2>1, <2>2, <2>3, <3>1, <3>2, <3>3
  <2> QED BY <2>5 DEF TradesTell
<1>18. RunningTold'
  <2>1. running'.commission = CommissionOf(fills', tradeId')
    <3>1. running.commission = CommissionOf(fills, tradeId)
      BY DEF Accounts, RunningTold
    <3> QED BY <1>2, <1>7, <1>15, <3>1, Zenon
  <2>2. running'.pnl = 0
    BY <1>7, <1>19 DEF Accounts, OneTrade
  <2>3. \A i \in DOMAIN fills' : fills'[i].trade = tradeId => fills'[i].role = "entry"
    BY <1>2, <1>13, <1>19 DEF FillsFit
  <2>4. fills' \in Seq(Fill) /\ Leverage * position'.unit \in Int
    <3>1. fills' = Append(fills, f)
      BY <1>2
    <3> QED BY <1>1, <1>5, <1>10, <1>20, <3>1
  <2>5. GainOf(fills', tradeId, Leverage * position'.unit) = 0
    BY <1>20, <2>3, <2>4, NothingInTrade
  <2> QED BY <1>2, <2>1, <2>2, <2>5 DEF RunningTold
<1>21. NoticesInform'
  <2>1. \A k \in Knowledge : IsKnown(k) => IsKnown(k)'
    <3>1. ledger' = ledger \/ ~OwnsLedger
      BY <1>2
    <3>2. (OwnsLedger' <=> OwnsLedger) /\ account' = account
      BY <1>2 DEF OwnsLedger
    <3> QED BY <3>1, <3>2 DEF IsKnown
  <2>2. PICK n \in OrderNotice : n = n1
    BY <1>5
  <2>3. ASSUME NEW k \in Knowledge, NEW m \in Knowledge, Informed(k), m = Knows(k, n)
        PROVE  Informed(m)'
    <3>1. /\ k.size = Abs(position.size)
          /\ OwnsLedger => k.entry = running.commission /\ Capital + k.booked = Equity
      BY <1>2, <2>3 DEF Informed
    <3>2. k.size \in Int /\ k.entry \in Int /\ k.booked \in Int
      BY DEF Knowledge
    <3>3. n.lots = Abs(lots) /\ n.commission = c
          /\ n.kind = (IF position.size = 0 THEN "opened" ELSE "grown")
      BY <1>6, <2>2
    <3>4. /\ m.size = Abs(position'.size)
          /\ OwnsLedger => m.entry = running'.commission /\ m.booked = k.booked - c
      <4>1. CASE position.size = 0
        <5>1. m = [size |-> n.lots, entry |-> n.commission, booked |-> k.booked - n.commission]
          BY <2>3, <3>3, <4>1 DEF Knows
        <5>2. position'.size = lots /\ running'.commission = c
          BY <1>1, <1>3, <1>7, <1>8, <4>1
        <5> QED BY <3>3, <5>1, <5>2
      <4>2. CASE position.size # 0
        <5>1. m = [size |-> k.size + n.lots, entry |-> k.entry + n.commission,
                   booked |-> k.booked - n.commission]
          BY <2>3, <3>3, <4>2 DEF Knows
        <5>2. Abs(position'.size) = Abs(position.size) + Abs(lots)
          BY <1>1, <1>3, <1>9, <4>2 DEF Sign, Abs
        <5> QED BY <1>7, <3>1, <3>3, <5>1, <5>2
      <4> QED BY <4>1, <4>2
    <3>5. OwnsLedger => Capital + m.booked = Equity'
      <4>1. Capital \in Int /\ Equity \in Int
        BY <1>1
      <4> QED BY <1>11, <3>1, <3>2, <3>4, <4>1
    <3>6. OwnsLedger' <=> OwnsLedger
      BY <1>2 DEF OwnsLedger
    <3> QED BY <1>2, <3>4, <3>5, <3>6 DEF Informed
  <2>4. orderNotices' = Append(orderNotices, n) /\ NoticesInform
    BY <1>2, <2>2 DEF Accounts
  <2> QED BY <1>20, <2>1, <2>3, <2>4, NoticesGrow
<1> QED BY <1>12, <1>13, <1>14, <1>16, <1>17, <1>18, <1>21 DEF Accounts

(* ---- Lots leave the position ------------------------------------------ *)

\* Lots of the position are closed: the accounts are kept.  Only the whole of
\* it is ever liquidated, and without a cost broker it goes as a whole.
LEMMA LeaveKeeps ==
  ASSUME TypeOK, Accounts, NEW lots \in 1..Abs(position.size), NEW u \in Nat, NEW a \in Int,
         NEW c \in Nat, NEW fee \in Nat, Leave(lots, u, a, c, fee),
         lots # Abs(position.size) => fee = 0 /\ lane # "legacy",
         lane = "legacy" => fee = 0,
         UNCHANGED <<inputs, settlement, account, trades>>
  PROVE  Accounts'
<1>1. /\ position.size \in Int /\ position.unit \in Nat /\ cash \in Int
      /\ running.pnl \in Int /\ running.commission \in Int
      /\ ledger.cash \in Int /\ ledger.pnl \in Int /\ ledger.fees \in Int
      /\ ledger.funding \in Int /\ Capital \in Int /\ Leverage \in Int
      /\ Equity \in Int /\ Balance \in Int
  BY MoneyTypes
<1>2. /\ tradeId \in Nat /\ fills \in Seq(Fill) /\ funding \in Seq(Entry)
      /\ ledger \in LedgerTotals /\ orderNotices \in Seq(OrderNotice) /\ trades \in Seq(Int)
      /\ tradeNotices \in Seq(Amounts)
  BY MoneyTypes
<1>3. lots \in Nat \ {0} /\ Abs(position.size) \in Nat /\ position.size # 0
  BY <1>1 DEF Abs
<1> DEFINE side == Sign(position.size)
           out == side * lots
           left == position.size - out
           gain == GainAt(lots, u)
           price == Leverage * u
           reference == price + side * a
           f == [trade |-> tradeId, role |-> "exit", signed |-> -side * lots,
                 reference |-> reference, price |-> price, commission |-> c,
                 liquidation |-> fee]
           total == [pnl |-> running.pnl + gain, commission |-> running.commission + c]
           n1 == [kind |-> IF left = 0 THEN "completed" ELSE "reduced",
                  lots |-> lots, pnl |-> gain, commission |-> c]
<1>4. /\ cash' = cash + Tied(out, position.unit) + gain - c - fee
      /\ position' = IF left = 0 THEN Flat ELSE [position EXCEPT !.size = left]
      /\ fills' = Append(fills, f)
      /\ ledger' = IF OwnsLedger THEN ledger
                   ELSE Posted(Posted(Posted(ledger, "trade_pnl", gain), "commission", -c),
                               "liquidation_fee", -fee)
      /\ orderNotices' = Append(orderNotices, n1)
      /\ left = 0 => /\ tradeNotices' = Append(tradeNotices, total)
                     /\ running' = [pnl |-> 0, commission |-> 0]
                     /\ tradeId' = tradeId + 1 /\ reducing' = FALSE
      /\ left # 0 => /\ running' = total /\ reducing' = TRUE
                     /\ tradeNotices' = tradeNotices /\ tradeId' = tradeId
  <2>1. lots \in Nat
    BY <1>3
  <2> QED BY <2>1, LeaveDoes
<1>5. side \in {-1, 1} /\ out \in Int /\ left \in Int
  BY <1>1, <1>3 DEF Sign
<1>6. /\ Tied(left, position.unit) = Tied(position.size, position.unit) - Tied(out, position.unit)
      /\ Abs(left) = Abs(position.size) - lots
      /\ (left = 0 <=> lots = Abs(position.size))
  <2>1. position.size \in Int /\ position.unit \in Nat
    BY <1>1
  <2> QED BY <2>1, TiedSplits
<1>7. price \in Int /\ reference \in Int /\ -side * lots \in Int /\ -side * lots = -out
  <2> HIDE DEF side
  <2>1. side * a \in {a, -a} /\ side * lots \in {lots, -lots} /\ -side * lots \in {lots, -lots}
    BY <1>5
  <2>2. price \in Int
    BY <1>1
  <2>3. -side * lots = -(side * lots)
    BY <1>5
  <2> QED BY <2>1, <2>2, <2>3
<1>8. gain = out * price - Worth(out, position.unit) /\ gain \in Int /\ out * price \in Int
      /\ Worth(out, position.unit) \in Int
  <2>1. position.unit \in Nat /\ Leverage \in Int
    BY <1>1
  <2>2. gain = out * Leverage * (u - position.unit)
    BY DEF GainAt
  <2>3. Worth(out, position.unit) = out * (Leverage * position.unit)
    BY DEF Worth
  <2> HIDE DEF out, gain
  <2>4. out * Leverage * (u - position.unit) = out * (Leverage * u) - out * (Leverage * position.unit)
    BY <1>5, <2>1
  <2>5. out * (Leverage * u) \in Int /\ out * (Leverage * position.unit) \in Int
    <3>1. Leverage * u \in Int /\ Leverage * position.unit \in Int
      BY <2>1
    <3> QED BY <1>5, <3>1
  <2> QED BY <2>2, <2>3, <2>4, <2>5
<1>9. f \in Fill /\ n1 \in OrderNotice /\ total \in Amounts
  <2> HIDE DEF side, left, gain, price, reference
  <2>1. f \in Fill
    <3>1. tradeId \in Nat
      BY <1>2
    <3> QED BY <1>7, <3>1 DEF Fill
  <2>2. n1 \in OrderNotice
    BY <1>3, <1>8 DEF OrderNotice
  <2>3. total \in Amounts
    <3>1. running.pnl \in Int /\ running.commission \in Int
      BY <1>1
    <3> QED BY <1>8, <3>1 DEF Amounts
  <2> QED BY <2>1, <2>2, <2>3
<1>10. /\ f.trade = tradeId /\ f.role = "exit" /\ f.signed = -out /\ f.reference = reference
       /\ f.price = price /\ f.commission = c /\ f.liquidation = fee
       /\ n1.kind = (IF left = 0 THEN "completed" ELSE "reduced")
       /\ n1.lots = lots /\ n1.pnl = gain /\ n1.commission = c
       /\ total.pnl = running.pnl + gain /\ total.commission = running.commission + c
  <2>1. f.signed = -side * lots
    OBVIOUS
  <2> HIDE DEF side, left, gain, price, reference, out
  <2> QED BY <1>7, <2>1
<1> HIDE DEF f, n1, total, reference, price, gain, left, out, side
<1>11. position'.size = left /\ (left # 0 => position'.unit = position.unit)
       /\ (left = 0 => position'.unit = 0)
  <2>1. position \in [size : -MaxLots..MaxLots, unit : Nat]
    BY DEF TypeOK
  <2>2. position' = IF left = 0 THEN Flat ELSE [position EXCEPT !.size = left]
    BY <1>4
  <2> QED BY <2>1, <2>2 DEF Flat
<1>12. Worth(position'.size, position'.unit)
         = Worth(position.size, position.unit) - Worth(out, position.unit)
       /\ Tied(position'.size, position'.unit)
            = Tied(position.size, position.unit) - Tied(out, position.unit)
  <2>1. left = position.size - out
    BY DEF left
  <2>2. Worth(left, position.unit) = Worth(position.size, position.unit) - Worth(out, position.unit)
    <3>1. Leverage * position.unit \in Int /\ position.size \in Int
      BY <1>1
    <3> QED BY <1>5, <2>1, <3>1 DEF Worth
  <2>3. CASE left # 0
    BY <1>6, <1>11, <2>2, <2>3, Zenon
  <2>4. CASE left = 0
    <3>1. /\ Worth(0, position.unit) = 0 /\ Worth(0, 0) = 0
          /\ Tied(0, position.unit) = 0 /\ Tied(0, 0) = 0
      BY <1>1 DEF Worth, Tied
    <3>2. Worth(position'.size, position'.unit) = 0 /\ Tied(position'.size, position'.unit) = 0
      BY <1>11, <2>4, <3>1, Zenon
    <3> QED BY <1>6, <2>2, <2>4, <3>1, <3>2, Zenon
  <2> QED BY <2>3, <2>4
<1>13. Equity' = Equity + gain - c - fee
  <2>1. Equity' = cash' + Tied(position'.size, position'.unit)
    BY DEF Equity
  <2>2. Equity = cash + Tied(position.size, position.unit)
    BY DEF Equity
  <2>3. cash' = cash + Tied(out, position.unit) + gain - c - fee
    BY <1>4
  <2>4. Tied(position.size, position.unit) \in Int /\ Tied(out, position.unit) \in Int
    BY <1>1, <1>5 DEF Tied
  <2>5. cash \in Int /\ gain \in Int
    BY <1>1, <1>8
  <2>6. Tied(position'.size, position'.unit)
          = Tied(position.size, position.unit) - Tied(out, position.unit)
    BY <1>12
  <2> QED BY <2>1, <2>2, <2>3, <2>4, <2>5, <2>6
<1>14. tradeNotices = <<>> /\ Len(trades) + 1 = tradeId
  <2>1. tradeNotices = <<>>
    BY <1>3 DEF Accounts, OneTrade
  <2>2. tradeId = Len(trades) + 1 + Len(tradeNotices)
    BY DEF Accounts, OneTrade
  <2> QED BY <1>2, <2>1, <2>2
<1>15. /\ trades' = trades /\ funding' = funding /\ account' = account
       /\ (OwnsLedger' <=> OwnsLedger) /\ lane' = lane
  BY DEF inputs, settlement, OwnsLedger
<1>16. left # 0 => fee = 0 /\ lane # "legacy"
  BY <1>6
<1>17. /\ Paid(fills') = Paid(fills) + out * reference /\ Paid(fills) \in Int
       /\ Slipped(fills') = Slipped(fills) - out * (price - reference) /\ Slipped(fills) \in Int
       /\ Commissioned(fills') = Commissioned(fills) + c /\ Commissioned(fills) \in Int
       /\ Liquidated(fills') = Liquidated(fills) + fee /\ Liquidated(fills) \in Int
       /\ Funded(funding) \in Int
  <2>1. Funded(funding) \in Int
    BY <1>2, SumTypes, 0 \in Int
  <2>2. fills' = Append(fills, f)
    BY <1>4
  <2>3. /\ Paid(fills) \in Int /\ Paid(Append(fills, f)) = Paid(fills) + (-f.signed * f.reference)
        /\ Slipped(fills) \in Int
        /\ Slipped(Append(fills, f)) = Slipped(fills) + f.signed * (f.price - f.reference)
        /\ Commissioned(fills) \in Int
        /\ Commissioned(Append(fills, f)) = Commissioned(fills) + f.commission
        /\ Liquidated(fills) \in Int
        /\ Liquidated(Append(fills, f)) = Liquidated(fills) + f.liquidation
    BY <1>2, <1>9, FillCounts
  <2>4. -f.signed * f.reference = out * reference
        /\ f.signed * (f.price - f.reference) = -(out * (price - reference))
        /\ out * (price - reference) \in Int
    <3>1. price - reference \in Int
      BY <1>7
    <3>2. -((-out) * reference) = out * reference
      BY <1>5, <1>7
    <3>3. (-out) * (price - reference) = -(out * (price - reference))
          /\ out * (price - reference) \in Int
      BY <1>5, <3>1
    <3> QED BY <1>10, <3>2, <3>3, Zenon
  <2>5. Slipped(fills') = Slipped(fills) - out * (price - reference)
    BY <2>2, <2>3, <2>4
  <2> QED BY <1>10, <2>1, <2>2, <2>3, <2>4, <2>5, Zenon
<1>18. /\ CommissionOf(fills', tradeId) = CommissionOf(fills, tradeId) + c
       /\ CommissionOf(fills, tradeId) \in Int
       /\ LiquidationOf(fills', tradeId) = fee
       /\ GainOf(fills', tradeId, Leverage * position.unit)
            = GainOf(fills, tradeId, Leverage * position.unit) + gain
       /\ GainOf(fills, tradeId, Leverage * position.unit) \in Int
  <2> DEFINE entry == Leverage * position.unit
  <2>1. entry \in Int
    BY <1>1
  <2>2. fills' = Append(fills, f)
    BY <1>4
  <2>3. -f.signed * (f.price - entry) = gain
    <3>1. out * (price - entry) = out * price - out * entry
      <4> HIDE DEF entry
      <4> QED BY <1>5, <1>7, <2>1
    <3>2. Worth(out, position.unit) = out * entry
      BY DEF Worth
    <3>3. -((-out) * (price - entry)) = out * (price - entry)
      <4>1. price - entry \in Int
        BY <1>7, <2>1
      <4> QED BY <1>5, <4>1
    <3>4. -f.signed * (f.price - entry) = out * (price - entry)
      BY <1>10, <3>3, Zenon
    <3> QED BY <1>8, <3>1, <3>2, <3>4, Zenon
  <2> HIDE DEF entry
  <2>4. /\ CommissionOf(fills, tradeId) \in Int
        /\ CommissionOf(Append(fills, f), tradeId) = CommissionOf(fills, tradeId)
              + (IF f.trade = tradeId THEN f.commission ELSE 0)
        /\ LiquidationOf(fills, tradeId) \in Int
        /\ LiquidationOf(Append(fills, f), tradeId) = LiquidationOf(fills, tradeId)
              + (IF f.trade = tradeId THEN f.liquidation ELSE 0)
        /\ GainOf(fills, tradeId, entry) \in Int
        /\ GainOf(Append(fills, f), tradeId, entry) = GainOf(fills, tradeId, entry)
              + (IF f.trade = tradeId /\ f.role = "exit" THEN -f.signed * (f.price - entry) ELSE 0)
    <3>1. /\ fills \in Seq(Fill)
          /\ tradeId \in Nat
          /\ f \in Fill
      BY <1>2, <1>9
    <3> HIDE DEF f
    <3>2. /\ CommissionOf(fills, tradeId) \in Int
          /\ CommissionOf(Append(fills, f), tradeId) = CommissionOf(fills, tradeId)
                + (IF f.trade = tradeId THEN f.commission ELSE 0)
      BY <2>1, <3>1, FillCountsInTrade, ZenonT(30)
    <3>3. /\ LiquidationOf(fills, tradeId) \in Int
          /\ LiquidationOf(Append(fills, f), tradeId) = LiquidationOf(fills, tradeId)
                + (IF f.trade = tradeId THEN f.liquidation ELSE 0)
      BY <2>1, <3>1, FillCountsInTrade, ZenonT(30)
    <3>4. /\ GainOf(fills, tradeId, entry) \in Int
          /\ GainOf(Append(fills, f), tradeId, entry) = GainOf(fills, tradeId, entry)
                + (IF f.trade = tradeId /\ f.role = "exit" THEN -f.signed * (f.price - entry) ELSE 0)
      BY <2>1, <3>1, FillCountsInTrade, ZenonT(30)
    <3> QED BY <3>2, <3>3, <3>4
  <2>5. LiquidationOf(fills, tradeId) = 0
    <3>1. \A i \in DOMAIN fills : fills[i].trade = tradeId => fills[i].liquidation = 0
      BY DEF Accounts, FillsFit
    <3> QED BY <1>2, <2>1, <3>1, NothingInTrade
  <2>6. LiquidationOf(fills', tradeId) = fee
    BY <1>10, <2>2, <2>4, <2>5
  <2> QED BY <1>10, <2>2, <2>3, <2>4, <2>6, Zenon DEF entry
<1>19. OneTrade'
  <2>1. CASE left = 0
    <3>1. /\ tradeNotices' = <<total>> /\ running' = [pnl |-> 0, commission |-> 0]
          /\ tradeId' = tradeId + 1
      BY <1>4, <1>14, <2>1
    <3>2. ~reducing'
      BY <1>4, <2>1, Zenon
    <3>3. Len(tradeNotices') = 1
      BY <3>1
    <3>4. tradeId' = Len(trades') + 1 + Len(tradeNotices')
      BY <1>2, <1>14, <1>15, <3>1, <3>3
    <3>5. position'.size = 0 /\ position'.unit = 0 /\ running'.pnl = 0 /\ running'.commission = 0
      BY <1>11, <2>1, <3>1
    <3> QED BY <3>2, <3>3, <3>4, <3>5 DEF OneTrade
  <2>2. CASE left # 0
    <3>1. tradeNotices' = tradeNotices /\ tradeId' = tradeId
      BY <1>4, <2>2
    <3>2. reducing'
      BY <1>4, <2>2, Zenon
    <3>3. tradeId' = Len(trades') + 1 + Len(tradeNotices')
      BY <1>15, <3>1 DEF Accounts, OneTrade
    <3>4. position'.size # 0 /\ lane' # "legacy" /\ tradeNotices' = <<>>
      BY <1>11, <1>14, <1>15, <1>16, <2>2, <3>1
    <3> QED BY <3>2, <3>3, <3>4 DEF OneTrade
  <2> QED BY <2>1, <2>2
<1>20. FillsFit'
  <2>1. \A i \in DOMAIN fills' : (i \in DOMAIN fills /\ fills'[i] = fills[i]) \/ fills'[i] = f
    <3>1. fills' = Append(fills, f)
      BY <1>4
    <3>2. fills \in Seq(Fill)
      BY <1>2
    <3> QED BY <1>9, <3>1, <3>2, AppendProperties
  <2>2. \A i \in DOMAIN fills : /\ fills[i].trade <= tradeId /\ fills[i].trade \in Nat
                                /\ fills[i].trade = tradeId => fills[i].liquidation = 0
    <3>1. \A i \in DOMAIN fills : /\ fills[i].trade <= tradeId
                                  /\ fills[i].trade = tradeId => fills[i].liquidation = 0
      BY DEF Accounts, FillsFit
    <3>2. \A i \in DOMAIN fills : fills[i] \in Fill
      BY <1>2
    <3>3. \A g \in Fill : g.trade \in Nat
      BY DEF Fill
    <3> QED BY <3>1, <3>2, <3>3
  <2>3. CASE left = 0
    <3>1. tradeId' = tradeId + 1
      BY <1>4, <2>3
    <3>2. \A i \in DOMAIN fills' : fills'[i].trade <= tradeId' /\ fills'[i].trade # tradeId'
      <4>1. tradeId \in Nat /\ f.trade = tradeId
        BY <1>2, <1>10
      <4>2. \A n \in Nat : n <= tradeId => n <= tradeId + 1 /\ n # tradeId + 1
        BY <4>1
      <4>3. tradeId <= tradeId
        BY <4>1
      <4> QED BY <2>1, <2>2, <3>1, <4>1, <4>2, <4>3
    <3>3. \E i \in DOMAIN fills' : fills'[i].trade = Len(trades') + 1
      <4>1. fills' = Append(fills, f)
        BY <1>4
      <4>2. Len(fills) + 1 \in DOMAIN fills' /\ fills'[Len(fills) + 1] = f
        BY <1>2, <1>9, <4>1, AppendProperties
      <4> QED BY <1>10, <1>14, <1>15, <4>2
    <3> QED BY <3>2, <3>3 DEF FillsFit
  <2>4. CASE left # 0
    <3>1. tradeId' = tradeId /\ tradeNotices' = <<>>
      BY <1>4, <1>14, <2>4
    <3>2. reducing'
      BY <1>4, <2>4, Zenon
    <3>3. tradeId <= tradeId /\ position'.size # 0 /\ f.liquidation = 0 /\ f.trade = tradeId
      BY <1>2, <1>10, <1>11, <1>16, <2>4
    <3>4. \A i \in DOMAIN fills' : fills'[i].trade <= tradeId /\
            (fills'[i].trade = tradeId => fills'[i].liquidation = 0)
      BY <2>1, <2>2, <3>3
    <3> QED BY <3>1, <3>2, <3>3, <3>4 DEF FillsFit
  <2> QED BY <2>3, <2>4
<1>21. LedgerKept'
  <2>1. \/ ledger' = ledger /\ OwnsLedger
        \/ /\ ledger' = Posted(Posted(Posted(ledger, "trade_pnl", gain), "commission", -c),
                               "liquidation_fee", -fee)
           /\ ~OwnsLedger
    BY <1>4, Zenon
  <2>2. CASE ledger' = ledger /\ OwnsLedger
    BY <1>15, <2>2 DEF Accounts, LedgerKept
  <2>3. CASE /\ ledger' = Posted(Posted(Posted(ledger, "trade_pnl", gain), "commission", -c),
                                 "liquidation_fee", -fee)
             /\ ~OwnsLedger
    <3>1. /\ ledger'.cash = ledger.cash + gain + -c + -fee
          /\ ledger'.fees = ledger.fees - -c - -fee
          /\ ledger'.pnl = ledger.pnl + gain /\ ledger'.funding = ledger.funding
      BY <2>3 DEF Posted
    <3>2. /\ ledger.cash \in Int /\ ledger.pnl \in Int /\ ledger.fees \in Int
          /\ ledger.funding \in Int /\ Capital \in Int /\ Equity \in Int /\ gain \in Int
      BY <1>1, <1>8
    <3>3. ledger.cash = ledger.pnl - ledger.fees + ledger.funding
      BY DEF Accounts, LedgerKept
    <3>4. Capital + ledger.cash = Equity
      BY <2>3 DEF Accounts, LedgerKept, Balance
    <3>5. ledger'.cash = ledger'.pnl - ledger'.fees + ledger'.funding
      BY <3>1, <3>2, <3>3
    <3>6. Capital + ledger'.cash = Equity'
      BY <1>13, <3>1, <3>2, <3>4
    <3> QED BY <3>5, <3>6 DEF LedgerKept, Balance
  <2> QED BY <2>1, <2>2, <2>3
<1>22. FillsTell'
  <2>1. out * (price - reference) = out * price - out * reference
        /\ out * price \in Int /\ out * reference \in Int
    BY <1>5, <1>7
  <2>2. Equity = Capital + Paid(fills) - Slipped(fills) - Commissioned(fills) + Funded(funding)
                   - Liquidated(fills) + Worth(position.size, position.unit)
    BY DEF Accounts, FillsTell
  <2>3. Capital \in Int /\ Worth(position.size, position.unit) \in Int
    <3>1. position.size \in Int /\ position.unit \in Nat
      BY <1>1
    <3> QED BY <1>1, <3>1, WorthType
  <2>4. Worth(position'.size, position'.unit)
          = Worth(position.size, position.unit) - Worth(out, position.unit)
    BY <1>12
  <2>5. Funded(funding') = Funded(funding)
    BY <1>15
  <2>6. Equity' = Capital + Paid(fills') - Slipped(fills') - Commissioned(fills')
                   + Funded(funding')
                   - Liquidated(fills') + Worth(position'.size, position'.unit)
    BY <1>8, <1>13, <1>17, <2>1, <2>2, <2>3, <2>4, <2>5
  <2> QED BY <2>6 DEF FillsTell
<1>23. TradesTell'
  <2>1. Unlisted = 0
    BY <1>14 DEF Unlisted
  <2>2. Equity = Capital + Total(trades) + Unlisted + running.pnl - running.commission
                   + Funded(funding)
    BY DEF Accounts, TradesTell
  <2>3. /\ Capital \in Int /\ running.pnl \in Int /\ running.commission \in Int
        /\ Total(trades) \in Int /\ Total(trades') = Total(trades)
        /\ Funded(funding) \in Int /\ Funded(funding') = Funded(funding) /\ gain \in Int
    BY <1>1, <1>2, <1>8, <1>15, <1>17, TotalType
  <2>4. Unlisted' + running'.pnl - running'.commission
          = running.pnl + gain - running.commission - c - fee
    <3>1. CASE left = 0
      <4>1. tradeNotices' = <<total>> /\ running'.pnl = 0 /\ running'.commission = 0
        BY <1>4, <1>14, <3>1
      <4>2. Head(tradeNotices') = total /\ tradeNotices' # <<>>
        BY <4>1
      <4>3. LiquidationOf(fills', Len(trades') + 1) = fee
        BY <1>14, <1>15, <1>18
      <4>4. Unlisted' = total.pnl - total.commission - fee
        BY <4>2, <4>3 DEF Unlisted
      <4> QED BY <1>10, <2>3, <4>1, <4>4
    <3>2. CASE left # 0
      <4>1. tradeNotices' = <<>> /\ running' = total
        BY <1>4, <1>14, <3>2
      <4>2. Unlisted' = 0
        BY <4>1 DEF Unlisted
      <4>3. fee = 0
        BY <1>16, <3>2
      <4>4. /\ running'.pnl = running.pnl + gain
            /\ running'.commission = running.commission + c
        BY <1>10, <4>1
      <4> QED BY <2>3, <4>2, <4>3, <4>4
    <3> QED BY <3>1, <3>2
  <2>5. Unlisted' \in Int /\ running'.pnl \in Int /\ running'.commission \in Int
    <3>1. CASE left = 0
      <4>1. tradeNotices' = <<total>> /\ running'.pnl = 0 /\ running'.commission = 0
        BY <1>4, <1>14, <3>1
      <4>2. Head(tradeNotices') = total /\ tradeNotices' # <<>>
        BY <4>1
      <4>3. LiquidationOf(fills', Len(trades') + 1) = fee
        BY <1>14, <1>15, <1>18
      <4>4. Unlisted' = total.pnl - total.commission - fee
        BY <4>2, <4>3 DEF Unlisted
      <4> QED BY <1>10, <2>3, <4>1, <4>4
    <3>2. CASE left # 0
      <4>1. tradeNotices' = <<>> /\ running' = total
        BY <1>4, <1>14, <3>2
      <4>2. Unlisted' = 0
        BY <4>1 DEF Unlisted
      <4>3. running'.pnl = running.pnl + gain /\ running'.commission = running.commission + c
        BY <1>10, <4>1
      <4> QED BY <2>3, <4>2, <4>3
    <3> QED BY <3>1, <3>2
  <2>6. Equity' = Capital + Total(trades') + Unlisted' + running'.pnl - running'.commission
                   + Funded(funding')
    <3>1. Equity' = Capital + Total(trades)
                      + (running.pnl + gain - running.commission - c - fee) + Funded(funding)
      BY <1>13, <2>1, <2>2, <2>3
    <3>2. Equity' = Capital + Total(trades')
                      + (Unlisted' + running'.pnl - running'.commission) + Funded(funding')
      BY <2>3, <2>4, <3>1, Zenon
    <3> QED BY <2>3, <2>5, <3>2
  <2> QED BY <2>6 DEF TradesTell
<1>24. RunningTold'
  <2>1. running.commission = CommissionOf(fills, tradeId)
        /\ running.pnl = GainOf(fills, tradeId, Leverage * position.unit)
    BY <1>3 DEF Accounts, RunningTold
  <2>2. CASE left = 0
    <3>1. tradeId' = tradeId + 1 /\ running'.commission = 0 /\ position'.size = 0
      BY <1>4, <1>11, <2>2
    <3>2. \A i \in DOMAIN fills' : fills'[i].trade # tradeId'
      BY <1>11, <1>20, <2>2 DEF FillsFit
    <3>3. fills' \in Seq(Fill) /\ tradeId' \in Nat /\ 0 \in Int
      <4>1. fills' = Append(fills, f)
        BY <1>4
      <4> QED BY <1>2, <1>9, <3>1, <4>1
    <3>4. CommissionOf(fills', tradeId') = 0
      BY <3>2, <3>3, NothingInTrade
    <3> QED BY <3>1, <3>4 DEF RunningTold
  <2>3. CASE left # 0
    <3>1. tradeId' = tradeId /\ running' = total /\ position'.unit = position.unit
      BY <1>4, <1>11, <2>3
    <3>2. /\ running'.commission = running.commission + c
          /\ running'.pnl = running.pnl + gain
      BY <1>10, <3>1
    <3>3. /\ running'.commission = CommissionOf(fills', tradeId')
          /\ running'.pnl = GainOf(fills', tradeId', Leverage * position'.unit)
      BY <1>18, <2>1, <3>1, <3>2, Zenon
    <3> QED BY <3>3 DEF RunningTold
  <2> QED BY <2>2, <2>3
<1>25. NoticesInform'
  <2>1. \A k \in Knowledge : IsKnown(k) => IsKnown(k)'
    <3>1. ledger' = ledger \/ ~OwnsLedger
      BY <1>4
    <3> QED BY <1>15, <3>1 DEF IsKnown
  <2>2. PICK n \in OrderNotice : n = n1
    BY <1>9
  <2>3. ASSUME NEW k \in Knowledge, NEW m \in Knowledge, Informed(k), m = Knows(k, n)
        PROVE  Informed(m)'
    <3>1. /\ k.size = Abs(position.size)
          /\ OwnsLedger => k.entry = running.commission /\ Capital + k.booked = Equity
      BY <1>14, <2>3 DEF Informed
    <3>2. k.size \in Int /\ k.entry \in Int /\ k.booked \in Int
      BY DEF Knowledge
    <3>3. n.lots = lots /\ n.commission = c /\ n.pnl = gain
          /\ n.kind = (IF left = 0 THEN "completed" ELSE "reduced")
      BY <1>10, <2>2
    <3>4. CASE left = 0
      <4>1. m = k
        BY <2>3, <3>3, <3>4 DEF Knows
      <4>2. tradeNotices' = <<total>>
        BY <1>4, <1>14, <3>4
      <4>3. Head(tradeNotices') = total /\ tradeNotices' # <<>>
        BY <4>2
      <4>4. ASSUME OwnsLedger
            PROVE  Capital + m.booked + total.pnl + m.entry - total.commission = Equity'
        <5>1. lane = "legacy"
          BY <4>4 DEF OwnsLedger
        <5>2. ~reducing
          BY <5>1, Zenon DEF Accounts, OneTrade
        <5>3. running.pnl = 0 /\ fee = 0
          BY <5>1, <5>2 DEF Accounts, OneTrade
        <5>4. k.entry = running.commission /\ Capital + k.booked = Equity
          BY <3>1, <4>4
        <5>5. Capital \in Int /\ running.commission \in Int /\ gain \in Int
          BY <1>1, <1>8
        <5> QED BY <1>10, <1>13, <3>2, <4>1, <5>3, <5>4, <5>5
      <4> QED BY <1>15, <4>3, <4>4 DEF Informed
    <3>5. CASE left # 0
      <4>1. m = [size |-> k.size - n.lots, entry |-> k.entry,
                 booked |-> k.booked + n.pnl - n.commission]
        BY <2>3, <3>3, <3>5 DEF Knows
      <4>2. m.size = Abs(position'.size)
        <5>1. Abs(left) = Abs(position.size) - lots
          BY <1>6
        <5> QED BY <1>11, <3>1, <3>3, <4>1, <5>1, Zenon
      <4>3. ~OwnsLedger' /\ tradeNotices' = <<>>
        <5>1. lane # "legacy" /\ tradeNotices' = tradeNotices
          BY <1>4, <1>16, <3>5
        <5> QED BY <1>14, <1>15, <5>1 DEF OwnsLedger
      <4> QED BY <4>2, <4>3 DEF Informed
    <3> QED BY <3>4, <3>5
  <2>4. orderNotices' = Append(orderNotices, n) /\ NoticesInform
    BY <1>4, <2>2 DEF Accounts
  <2> QED BY <1>2, <2>1, <2>3, <2>4, NoticesGrow
<1> QED BY <1>19, <1>20, <1>21, <1>22, <1>23, <1>24, <1>25 DEF Accounts

(* ---- Funding, notifications and the audit ------------------------------ *)

\* A step that leaves the money and the strategy alone leaves the accounts.
LEMMA QuietKeeps ==
  ASSUME Accounts, UNCHANGED <<inputs, money, funding, account, trades>>
  PROVE  Accounts'
<1>1. /\ lane' = lane /\ position' = position /\ cash' = cash /\ ledger' = ledger
      /\ fills' = fills /\ tradeId' = tradeId /\ reducing' = reducing /\ running' = running
      /\ orderNotices' = orderNotices /\ tradeNotices' = tradeNotices /\ funding' = funding
      /\ account' = account /\ trades' = trades
  BY DEF inputs, money
<1>2. OneTrade' /\ FillsFit' /\ LedgerKept' /\ RunningTold'
  BY <1>1 DEF Accounts, OneTrade, FillsFit, LedgerKept, RunningTold, OwnsLedger, Balance, Equity
<1>3. FillsTell' /\ TradesTell'
  BY <1>1 DEF Accounts, FillsTell, TradesTell, Unlisted, Equity
<1>4. NoticesInform'
  BY <1>1 DEF Accounts, NoticesInform, Informed, IsKnown, OwnsLedger, Equity
<1> QED BY <1>2, <1>3, <1>4 DEF Accounts

\* A funding record settled changes cash, ledger and funding by the same amount.
LEMMA SettleKeeps ==
  ASSUME TypeOK, Stages, Accounts, SettleRecord
  PROVE  Accounts'
<1>3. lane # "legacy" /\ tradeNotices = <<>>
  BY DEF SettleRecord, Stages
<1>1. CASE position.size = 0
  <2>1. UNCHANGED <<inputs, money, funding, account, trades>>
    BY <1>1 DEF SettleRecord, inputs, money
  <2> QED BY <2>1, QuietKeeps
<1>2. CASE position.size # 0
  <2>1. /\ evidence.records \in Seq([time : Int, rate : Int]) /\ Len(evidence.records) \in Nat
    BY InputTypes DEF TypeOK
  <2>2. cursor \in Nat /\ cursor < Len(evidence.records)
    BY <2>1 DEF SettleRecord, Due, TypeOK
  <2> DEFINE record == evidence.records[cursor + 1]
             amount == -position.size * record.rate
             e == [time |-> record.time, amount |-> amount, trade |-> tradeId]
  <2>3. record \in [time : Int, rate : Int]
    <3>1. cursor + 1 \in 1..Len(evidence.records)
      BY <2>1, <2>2
    <3> QED BY <2>1, <3>1, ElementOfSeq
  <2>4. record.time \in Int /\ record.rate \in Int
    <3> HIDE DEF record
    <3> QED BY <2>3
  <2>5. /\ position.size \in Int /\ cash \in Int /\ ledger.cash \in Int /\ ledger.pnl \in Int
        /\ ledger.fees \in Int /\ ledger.funding \in Int /\ Equity \in Int /\ Balance \in Int
        /\ Capital \in Int /\ running.pnl \in Int /\ running.commission \in Int
        /\ tradeId \in Nat
    BY MoneyTypes
  <2>6. amount \in Int
    <3> HIDE DEF record
    <3> QED BY <2>4, <2>5
  <2>7. e \in Entry
    <3> HIDE DEF record, amount
    <3> QED BY <2>4, <2>5, <2>6 DEF Entry
  <2>8. /\ ledger' = Posted(ledger, "funding", amount)
        /\ funding' = Append(funding, e) /\ cash' = cash + amount
    BY <1>2, Zenon DEF SettleRecord
  <2>9. e.amount = amount
    OBVIOUS
  <2> HIDE DEF record, amount, e
  <2>10. /\ lane' = lane /\ position' = position
         /\ fills' = fills /\ tradeId' = tradeId /\ reducing' = reducing /\ running' = running
         /\ orderNotices' = orderNotices /\ tradeNotices' = tradeNotices
         /\ account' = account /\ trades' = trades
    BY DEF SettleRecord, inputs
  <2>11. /\ Equity' = Equity + amount
    <3>1. Equity' = cash' + Tied(position.size, position.unit)
      BY <2>10 DEF Equity
    <3>2. Equity = cash + Tied(position.size, position.unit)
      BY DEF Equity
    <3>3. Tied(position.size, position.unit) \in Int
      <4>1. position.unit \in Nat /\ Leverage \in Int
        BY MoneyTypes
      <4> QED BY <2>5, <4>1 DEF Tied
    <3> QED BY <2>5, <2>6, <2>8, <3>1, <3>2, <3>3
  <2>12. /\ ledger'.cash = ledger.cash + amount /\ ledger'.fees = ledger.fees
         /\ ledger'.pnl = ledger.pnl /\ ledger'.funding = ledger.funding + amount
    BY <2>8 DEF Posted
  <2>13. Funded(funding) \in Int /\ Funded(funding') = Funded(funding) + amount
    <3>1. funding \in Seq(Entry)
      BY MoneyTypes
    <3> QED BY <2>7, <2>8, <2>9, <3>1, FundingCounts
  <2>14. OneTrade' /\ FillsFit' /\ RunningTold'
    BY <2>10 DEF Accounts, OneTrade, FillsFit, RunningTold
  <2>15. LedgerKept'
    <3>1. ledger.cash = ledger.pnl - ledger.fees + ledger.funding /\ Capital + ledger.cash = Equity
      BY <1>3 DEF Accounts, LedgerKept, OwnsLedger, Balance
    <3>2. /\ ledger'.cash = ledger'.pnl - ledger'.fees + ledger'.funding
          /\ Capital + ledger'.cash = Equity'
      BY <2>5, <2>6, <2>11, <2>12, <3>1
    <3> QED BY <3>2 DEF LedgerKept, Balance
  <2>16. /\ Paid(fills) \in Int /\ Slipped(fills) \in Int /\ Commissioned(fills) \in Int
         /\ Liquidated(fills) \in Int /\ Worth(position.size, position.unit) \in Int
         /\ Total(trades) \in Int
    <3>1. fills \in Seq(Fill) /\ funding \in Seq(Entry) /\ trades \in Seq(Int) /\ 0 \in Int
          /\ position.unit \in Nat
      BY MoneyTypes
    <3> QED BY <2>5, <3>1, SumTypes, WorthType, TotalType
  <2>17. FillsTell'
    <3>1. Equity = Capital + Paid(fills) - Slipped(fills) - Commissioned(fills) + Funded(funding)
                     - Liquidated(fills) + Worth(position.size, position.unit)
      BY DEF Accounts, FillsTell
    <3>2. Equity' = Capital + Paid(fills) - Slipped(fills) - Commissioned(fills)
                     + Funded(funding')
                     - Liquidated(fills) + Worth(position.size, position.unit)
      BY <2>5, <2>6, <2>11, <2>13, <2>16, <3>1
    <3> QED BY <2>10, <3>2, Zenon DEF FillsTell
  <2>18. TradesTell'
    <3>1. Unlisted = 0 /\ Unlisted' = 0
      BY <1>3, <2>10 DEF Unlisted
    <3>2. Equity = Capital + Total(trades) + 0 + running.pnl - running.commission
                     + Funded(funding)
      BY <3>1 DEF Accounts, TradesTell
    <3>3. Equity' = Capital + Total(trades) + 0 + running.pnl - running.commission
                      + Funded(funding')
      BY <2>5, <2>6, <2>11, <2>13, <2>16, <3>2
    <3> QED BY <2>10, <3>1, <3>3, Zenon DEF TradesTell
  <2>19. NoticesInform'
    <3>1. ~OwnsLedger /\ ~OwnsLedger'
      BY <1>3, <2>10 DEF OwnsLedger
    <3>2. \A k \in Knowledge : IsKnown(k) => IsKnown(k)'
      BY <2>10, <3>1 DEF IsKnown
    <3>3. \A k \in Knowledge : Informed(k) => Informed(k)'
      BY <1>3, <2>10, <3>1 DEF Informed
    <3>4. PICK told \in [0..Len(orderNotices) -> Knowledge] :
            /\ IsKnown(told[0])
            /\ \A i \in 1..Len(orderNotices) : told[i] = Knows(told[i - 1], orderNotices[i])
            /\ Informed(told[Len(orderNotices)])
      BY DEF Accounts, NoticesInform
    <3>5. PICK len \in Nat : len = Len(orderNotices)
      <4>1. orderNotices \in Seq(OrderNotice)
        BY MoneyTypes
      <4> QED BY <4>1
    <3>6. PICK k \in Knowledge : k = told[len]
      BY <3>4, <3>5
    <3>7. Informed(k)'
      BY <3>3, <3>4, <3>5, <3>6
    <3>8. Informed(told[Len(orderNotices)])'
      BY <2>10, <3>5, <3>6, <3>7 DEF Informed
    <3>9. IsKnown(told[0])'
      <4>1. PICK first \in Knowledge : first = told[0]
        BY <3>4, <3>5
      <4>2. IsKnown(first)'
        BY <3>2, <3>4, <4>1
      <4> QED BY <4>1, <4>2 DEF IsKnown
    <3> QED BY <2>10, <3>4, <3>8, <3>9 DEF NoticesInform, Informed, IsKnown
  <2> QED BY <2>14, <2>15, <2>17, <2>18, <2>19 DEF Accounts
<1> QED BY <1>1, <1>2

\* What the strategy's account books keeps the totals of its ledger together,
\* and changes it only if it is its own.
LEMMA OwnedKeeps ==
  ASSUME NEW l \in LedgerTotals, NEW pnl \in Int, NEW commission \in Int,
         l.cash = l.pnl - l.fees + l.funding
  PROVE  LET paid == Owned(l, "commission", commission)
             told == Owned(Owned(l, "trade_pnl", pnl), "commission", commission)
         IN /\ ~OwnsLedger => paid = l /\ told = l
            /\ OwnsLedger => paid.cash = l.cash + commission /\ told.cash = l.cash + pnl + commission
            /\ paid.cash = paid.pnl - paid.fees + paid.funding
            /\ told.cash = told.pnl - told.fees + told.funding
<1>1. l.cash \in Int /\ l.fees \in Int /\ l.pnl \in Int /\ l.funding \in Int
  BY DEF LedgerTotals
<1>2. CASE ~OwnsLedger
  BY <1>2 DEF Owned
<1>3. CASE OwnsLedger
  <2>1. LET paid == Posted(l, "commission", commission)
            told == Posted(Posted(l, "trade_pnl", pnl), "commission", commission)
        IN /\ paid.cash = l.cash + commission /\ told.cash = l.cash + pnl + commission
           /\ paid.cash = paid.pnl - paid.fees + paid.funding
           /\ told.cash = told.pnl - told.fees + told.funding
    BY <1>1 DEF Posted
  <2> QED BY <1>3, <2>1, Zenon DEF Owned
<1> QED BY <1>2, <1>3

\* A notice delivered leaves the broker's books alone.
LEMMA NotifyOrderKeeps ==
  ASSUME TypeOK, Accounts, NotifyOrder
  PROVE  Accounts'
<1> DEFINE n == Head(orderNotices)
<1>1. /\ orderNotices # <<>> /\ orderNotices' = Tail(orderNotices)
      /\ orderNotices \in Seq(OrderNotice) /\ ledger \in LedgerTotals
      /\ account.size \in Int /\ account.entryCommission \in Int
      /\ account \in [size : Int, entryCommission : Int]
  BY MoneyTypes DEF NotifyOrder, TypeOK
<1>2. n \in OrderNotice
  BY <1>1, HeadTailProperties
<1>3. /\ lane' = lane /\ position' = position /\ cash' = cash
      /\ fills' = fills /\ tradeId' = tradeId /\ reducing' = reducing /\ running' = running
      /\ tradeNotices' = tradeNotices /\ funding' = funding /\ trades' = trades
      /\ (OwnsLedger' <=> OwnsLedger) /\ Equity' = Equity
  BY DEF NotifyOrder, inputs, settlement, OwnsLedger, Equity
<1>4. \/ /\ n.kind = "opened"
         /\ account' = [size |-> n.lots, entryCommission |-> n.commission]
         /\ ledger' = Owned(ledger, "commission", -n.commission)
      \/ /\ n.kind = "grown"
         /\ account' = [size |-> account.size + n.lots,
                        entryCommission |-> account.entryCommission + n.commission]
         /\ ledger' = Owned(ledger, "commission", -n.commission)
      \/ /\ n.kind = "reduced"
         /\ account' = [account EXCEPT !.size = @ - n.lots]
         /\ ledger' = Owned(Owned(ledger, "trade_pnl", n.pnl), "commission", -n.commission)
      \/ n.kind = "completed" /\ account' = account /\ ledger' = ledger
  BY Zenon DEF NotifyOrder
<1> HIDE DEF n
<1>5. n.lots \in Int /\ n.commission \in Int /\ n.pnl \in Int /\ -n.commission \in Int
  BY <1>2 DEF OrderNotice
<1>6. ledger.cash = ledger.pnl - ledger.fees + ledger.funding
  BY DEF Accounts, LedgerKept
<1> DEFINE paid == Owned(ledger, "commission", -n.commission)
           told == Owned(Owned(ledger, "trade_pnl", n.pnl), "commission", -n.commission)
<1>7. /\ ~OwnsLedger => paid = ledger /\ told = ledger
      /\ OwnsLedger => /\ paid.cash = ledger.cash + -n.commission
                       /\ told.cash = ledger.cash + n.pnl + -n.commission
      /\ paid.cash = paid.pnl - paid.fees + paid.funding
      /\ told.cash = told.pnl - told.fees + told.funding
  <2>1. ledger \in LedgerTotals
    BY <1>1
  <2> QED BY <1>5, <1>6, <2>1, OwnedKeeps
<1> HIDE DEF paid, told
<1>8. ledger' = ledger \/ ledger' = paid \/ ledger' = told
  BY <1>4, Zenon DEF paid, told
<1>9. LedgerKept'
  <2>1. ledger'.cash = ledger'.pnl - ledger'.fees + ledger'.funding
    BY <1>6, <1>7, <1>8
  <2>2. ~OwnsLedger => ledger' = ledger
    BY <1>7, <1>8
  <2> QED BY <1>3, <2>1, <2>2 DEF Accounts, LedgerKept, Balance
<1>10. ASSUME NEW k \in Knowledge, NEW m \in Knowledge, IsKnown(k), m = Knows(k, n)
       PROVE  IsKnown(m)'
  <2>1. /\ k.size = account.size /\ k.entry = account.entryCommission
        /\ OwnsLedger => k.booked = ledger.cash
    BY <1>10 DEF IsKnown
  <2>2. k.booked \in Int
    BY DEF Knowledge
  <2>3. CASE /\ n.kind = "opened"
             /\ account' = [size |-> n.lots, entryCommission |-> n.commission]
             /\ ledger' = paid
    <3>1. m = [size |-> n.lots, entry |-> n.commission, booked |-> k.booked - n.commission]
      BY <1>10, <2>3 DEF Knows
    <3> QED BY <1>3, <1>5, <1>7, <2>1, <2>2, <2>3, <3>1 DEF IsKnown
  <2>4. CASE /\ n.kind = "grown"
             /\ account' = [size |-> account.size + n.lots,
                            entryCommission |-> account.entryCommission + n.commission]
             /\ ledger' = paid
    <3>1. m = [size |-> k.size + n.lots, entry |-> k.entry + n.commission,
               booked |-> k.booked - n.commission]
      BY <1>10, <2>4 DEF Knows
    <3> QED BY <1>3, <1>5, <1>7, <2>1, <2>2, <2>4, <3>1 DEF IsKnown
  <2>5. CASE /\ n.kind = "reduced"
             /\ account' = [account EXCEPT !.size = @ - n.lots]
             /\ ledger' = told
    <3>1. m = [size |-> k.size - n.lots, entry |-> k.entry,
               booked |-> k.booked + n.pnl - n.commission]
      BY <1>10, <2>5 DEF Knows
    <3>2. account'.size = account.size - n.lots
          /\ account'.entryCommission = account.entryCommission
      BY <1>1, <2>5
    <3> QED BY <1>3, <1>5, <1>7, <2>1, <2>2, <2>5, <3>1, <3>2 DEF IsKnown
  <2>6. CASE n.kind = "completed" /\ account' = account /\ ledger' = ledger
    <3>1. m = k
      BY <1>10, <2>6 DEF Knows
    <3> QED BY <1>3, <2>1, <2>6, <3>1 DEF IsKnown
  <2> QED BY <1>4, <2>3, <2>4, <2>5, <2>6 DEF paid, told
<1>11. \A k \in Knowledge : Informed(k) => Informed(k)'
  BY <1>3 DEF Informed
<1>12. NoticesInform'
  BY <1>1, <1>10, <1>11, NoticeDelivered DEF Accounts, n
<1>13. OneTrade' /\ FillsFit' /\ RunningTold'
  BY <1>3 DEF Accounts, OneTrade, FillsFit, RunningTold
<1>14. FillsTell' /\ TradesTell'
  BY <1>3 DEF Accounts, FillsTell, TradesTell, Unlisted
<1> QED BY <1>9, <1>12, <1>13, <1>14 DEF Accounts

\* Told of the closed trade, the analyzer lists what was missing and an account
\* with a ledger of its own has booked everything.
LEMMA NotifyTradeKeeps ==
  ASSUME TypeOK, Accounts, NotifyTrade
  PROVE  Accounts' /\ phase' = phase
<1> DEFINE n == Head(tradeNotices)
           liquidation == LiquidationOf(fills, Len(trades) + 1)
           listed == n.pnl - n.commission - liquidation
           told == Owned(Owned(ledger, "trade_pnl", n.pnl), "commission",
                         account.entryCommission - n.commission)
<1>1. /\ orderNotices = <<>> /\ tradeNotices # <<>>
      /\ n \in Amounts
      /\ tradeNotices' = Tail(tradeNotices)
      /\ account' = [size |-> 0, entryCommission |-> 0]
      /\ ledger' = told
      /\ \/ FillsOf(Len(trades) + 1) = {} /\ trades' = trades
         \/ trades' = Append(trades, listed) /\ phase' = phase
  BY NotifyTradeDoes, Zenon
<1>2. /\ lane' = lane /\ position' = position /\ cash' = cash
      /\ fills' = fills /\ tradeId' = tradeId /\ reducing' = reducing /\ running' = running
      /\ orderNotices' = orderNotices /\ funding' = funding
      /\ (OwnsLedger' <=> OwnsLedger) /\ Equity' = Equity
  BY DEF NotifyTrade, inputs, settlement, OwnsLedger, Equity
<1>3. Len(tradeNotices) = 1 /\ position.size = 0
  BY <1>1 DEF Accounts, OneTrade
<1>4. /\ position.unit = 0 /\ running.pnl = 0 /\ running.commission = 0
  BY <1>3 DEF Accounts, OneTrade
<1>5. ~reducing
  BY <1>3, Zenon DEF Accounts, OneTrade
<1>6. FillsOf(Len(trades) + 1) # {}
  BY <1>1 DEF Accounts, FillsFit, FillsOf
<1>7. trades' = Append(trades, listed) /\ phase' = phase
  BY <1>1, <1>6, Zenon
<1>8. tradeNotices' = <<>>
  <2>1. tradeNotices \in Seq(Amounts)
    BY MoneyTypes
  <2> QED BY <1>1, <1>3, <2>1
<1>9. /\ trades \in Seq(Int) /\ fills \in Seq(Fill) /\ funding \in Seq(Entry)
      /\ Len(trades) + 1 \in Nat
  BY MoneyTypes
<1>10. liquidation \in Int
  BY <1>9, SumTypes, 0 \in Int
<1> HIDE DEF liquidation, n
<1>11. n.pnl \in Int /\ n.commission \in Int /\ listed \in Int
  <2>1. n.pnl \in Int /\ n.commission \in Int
    BY <1>1 DEF Amounts
  <2> QED BY <1>10, <2>1
<1>12. tradeId = Len(trades) + 1 + Len(tradeNotices) /\ Len(trades') = Len(trades) + 1
  <2>1. tradeId = Len(trades) + 1 + Len(tradeNotices)
    BY DEF Accounts, OneTrade
  <2> HIDE DEF listed
  <2> QED BY <1>7, <1>9, <1>11, <2>1
<1>13. tradeId' = Len(trades') + 1 + Len(tradeNotices')
  BY <1>2, <1>3, <1>8, <1>12
<1>14. OneTrade'
  BY <1>2, <1>4, <1>5, <1>8, <1>13 DEF OneTrade
<1>15. FillsFit'
  BY <1>2, <1>8 DEF Accounts, FillsFit
<1>16. FillsTell' /\ RunningTold'
  BY <1>2 DEF Accounts, FillsTell, RunningTold
<1>17. TradesTell'
  <2>1. Unlisted = listed /\ Unlisted' = 0
    BY <1>1, <1>8 DEF Unlisted, n, liquidation
  <2> HIDE DEF listed
  <2>2. Total(trades') = Total(trades) + listed /\ Total(trades) \in Int
    BY <1>7, <1>9, <1>11, TotalOfMore
  <2>3. Equity = Capital + Total(trades) + Unlisted + running.pnl - running.commission
                   + Funded(funding)
    BY DEF Accounts, TradesTell
  <2>4. Capital \in Int /\ Funded(funding) \in Int
    <3>1. 0 \in Int
      OBVIOUS
    <3> QED BY <1>9, <3>1, MoneyTypes, SumTypes
  <2>5. Equity = Capital + Total(trades') + Unlisted' + running.pnl - running.commission
                   + Funded(funding)
    BY <1>4, <1>11, <2>1, <2>2, <2>3, <2>4
  <2> QED BY <1>2, <2>5, Zenon DEF TradesTell
<1>18. /\ account.entryCommission \in Int /\ account.size \in Int /\ ledger \in LedgerTotals
       /\ ledger.cash \in Int /\ Capital \in Int
  BY MoneyTypes
<1>19. /\ ledger.cash = ledger.pnl - ledger.fees + ledger.funding
       /\ account.entryCommission - n.commission \in Int
  BY <1>11, <1>18 DEF Accounts, LedgerKept
<1>20. /\ ~OwnsLedger => ledger' = ledger
       /\ OwnsLedger => ledger'.cash
                          = ledger.cash + n.pnl + (account.entryCommission - n.commission)
       /\ ledger'.cash = ledger'.pnl - ledger'.fees + ledger'.funding
  <2>1. /\ ~OwnsLedger => told = ledger
        /\ OwnsLedger => told.cash
                           = ledger.cash + n.pnl + (account.entryCommission - n.commission)
        /\ told.cash = told.pnl - told.fees + told.funding
    BY <1>11, <1>18, <1>19, OwnedKeeps
  <2>2. ledger' = told
    BY <1>1
  <2> HIDE DEF told
  <2> QED BY <2>1, <2>2
<1>21. LedgerKept'
  BY <1>2, <1>20 DEF Accounts, LedgerKept, Balance
<1>22. NoticesInform'
  <2>1. PICK told0 \in [0..0 -> Knowledge] : IsKnown(told0[0]) /\ Informed(told0[0])
    BY <1>1 DEF Accounts, NoticesInform
  <2>2. OwnsLedger => Capital + ledger.cash + n.pnl + account.entryCommission - n.commission
                        = Equity
    BY <1>1, <2>1 DEF IsKnown, Informed, n
  <2>3. OwnsLedger => Capital + ledger'.cash = Equity
    BY <1>11, <1>18, <1>20, <2>2
  <2>4. ledger'.cash \in Int
    <3>1. TypeOK'
      BY NotifyTradeTypes
    <3> QED BY <3>1 DEF TypeOK
  <2>5. PICK k \in Knowledge : k = [size |-> 0, entry |-> 0, booked |-> ledger'.cash]
    <3> DEFINE k == [size |-> 0, entry |-> 0, booked |-> ledger'.cash]
    <3>1. k \in Knowledge
      BY <2>4 DEF Knowledge
    <3> HIDE DEF k
    <3>2. \E m \in Knowledge : m = k
      BY <3>1
    <3> QED BY <3>2 DEF k
  <2>6. IsKnown(k)'
    BY <1>1, <2>5 DEF IsKnown
  <2>7. Informed(k)'
    <3>1. Abs(position'.size) = 0 /\ running'.commission = 0
      BY <1>2, <1>3, <1>4 DEF Abs
    <3> QED BY <1>2, <1>8, <2>3, <2>5, <3>1 DEF Informed
  <2>8. Len(orderNotices') = 0
    BY <1>1, <1>2
  <2> DEFINE now == [i \in 0..0 |-> k]
  <2>9. now \in [0..0 -> Knowledge] /\ now[0] = k
    OBVIOUS
  <2> HIDE DEF now
  <2> QED BY <2>6, <2>7, <2>8, <2>9 DEF NoticesInform
<1> QED BY <1>7, <1>14, <1>15, <1>16, <1>17, <1>21, <1>22 DEF Accounts

\* What the audit adds up is the broker's value, at every price.
LEMMA AuditReconciles ==
  ASSUME TypeOK, Stages, Accounts, phase = "audit", NEW close \in Int
  PROVE  Reconciles(close)
<1>1. /\ position.size \in Int /\ position.unit \in Nat /\ cash \in Int
      /\ running.pnl \in Int /\ running.commission \in Int
      /\ Capital \in Int /\ Leverage \in Int /\ Equity \in Int
  BY MoneyTypes
<1>2. fills \in Seq(Fill) /\ funding \in Seq(Entry) /\ trades \in Seq(Int) /\ tradeId \in Nat
  BY MoneyTypes
<1> DEFINE entry == Leverage * position.unit
           worth == Worth(position.size, position.unit)
<1>3. entry \in Int /\ worth \in Int /\ worth = position.size * entry
  BY <1>1, WorthType DEF Worth
<1>4. /\ Paid(fills) \in Int /\ Slipped(fills) \in Int /\ Commissioned(fills) \in Int
      /\ Liquidated(fills) \in Int /\ Funded(funding) \in Int /\ Total(trades) \in Int
  BY <1>2, <1>3, SumTypes, TotalType
<1>5. position.size * (close - entry) = position.size * close - worth
      /\ position.size * close \in Int
  <2> HIDE DEF entry, worth
  <2> QED BY <1>1, <1>3
<1>6. Value(close) = Equity + position.size * close - worth
  <2>1. CASE position.size > 0
    <3>1. Value(close) = cash + (Tied(position.size, position.unit) + position.size * (close - entry))
      BY <2>1 DEF Value
    <3>2. Equity = cash + Tied(position.size, position.unit)
      BY DEF Equity
    <3>3. Tied(position.size, position.unit) \in Int
      BY <1>1 DEF Tied
    <3> HIDE DEF entry, worth
    <3> QED BY <1>1, <1>3, <1>5, <3>1, <3>2, <3>3
  <2>2. CASE ~(position.size > 0)
    <3>1. Value(close) = cash + position.size * close
      BY <2>2 DEF Value
    <3>2. Tied(position.size, position.unit) = worth
      <4>1. Tied(position.size, position.unit) = position.size * Leverage * position.unit
        BY <2>2 DEF Tied
      <4> QED BY <1>1, <4>1 DEF Worth
    <3>3. Equity = cash + worth
      BY <3>2 DEF Equity
    <3> HIDE DEF entry, worth
    <3> QED BY <1>1, <1>3, <1>5, <3>1, <3>3
  <2> QED BY <2>1, <2>2
<1>7. Value(close) = FromFills(close)
  <2>1. FromFills(close) = Capital + Paid(fills) + position.size * close - Slipped(fills)
                             - Commissioned(fills) + Funded(funding) - Liquidated(fills)
    <3>1. OverFills(LAMBDA f : -f.signed * f.reference) = Paid(fills)
      BY <1>2, <1>3, SumsAreTallies
    <3> QED BY <1>2, <1>3, <3>1, SumsAreTallies DEF FromFills
  <2>2. Equity = Capital + Paid(fills) - Slipped(fills) - Commissioned(fills) + Funded(funding)
                   - Liquidated(fills) + worth
    BY DEF Accounts, FillsTell
  <2> HIDE DEF entry, worth
  <2> QED BY <1>1, <1>3, <1>4, <1>5, <1>6, <2>1, <2>2
<1>8. tradeId = Len(trades) + 1
  <2>1. tradeId = Len(trades) + 1 + Len(tradeNotices)
    BY DEF Accounts, OneTrade
  <2>2. tradeNotices = <<>>
    BY DEF Stages
  <2> QED BY <1>2, <2>1, <2>2
<1> DEFINE open == {i \in DOMAIN fills : fills[i].trade > Len(trades)}
           exits == {i \in open : fills[i].role = "exit"}
<1>9. open = FillsOf(tradeId)
  <2>1. \A i \in DOMAIN fills : fills[i].trade <= tradeId
    BY DEF Accounts, FillsFit
  <2>2. \A i \in DOMAIN fills : fills[i].trade \in Nat
    <3>1. \A i \in DOMAIN fills : fills[i] \in Fill
      BY <1>2
    <3> QED BY <3>1 DEF Fill
  <2>3. Len(trades) \in Nat
    BY <1>2
  <2>4. \A m \in Nat : m <= tradeId => (m > Len(trades) <=> m = tradeId)
    BY <1>8, <2>3
  <2> QED BY <2>1, <2>2, <2>4 DEF FillsOf
<1>10. /\ SumOver(fills, open, LAMBDA f : f.commission) = running.commission
       /\ position.size # 0 =>
            SumOver(fills, exits, LAMBDA f : -f.signed * (f.price - entry)) = running.pnl
       /\ position.size = 0 => running.pnl = 0
  <2>1. SumOver(fills, open, LAMBDA f : f.commission) = CommissionOf(fills, tradeId)
    BY <1>2, <1>3, <1>9, SumsAreTallies
  <2>2. SumOver(fills, exits, LAMBDA f : -f.signed * (f.price - entry))
          = GainOf(fills, tradeId, entry)
    BY <1>2, <1>3, <1>9, SumsAreTallies
  <2>3. /\ running.commission = CommissionOf(fills, tradeId)
        /\ position.size # 0 => running.pnl = GainOf(fills, tradeId, entry)
        /\ position.size = 0 => running.pnl = 0
    BY DEF Accounts, RunningTold, OneTrade
  <2> QED BY <2>1, <2>2, <2>3, Zenon
<1>11. FromTrades(close) = Capital + Total(trades) + running.pnl + position.size * (close - entry)
                             - running.commission + Funded(funding)
  <2> DEFINE realized == IF position.size = 0 THEN 0
                         ELSE SumOver(fills, exits, LAMBDA f : -f.signed * (f.price - entry))
  <2>1. OverFunding = Funded(funding)
    BY <1>2, <1>3, SumsAreTallies
  <2>2. FromTrades(close) = Capital + Total(trades) + realized + position.size * (close - entry)
                              - SumOver(fills, open, LAMBDA f : f.commission) + OverFunding
    BY DEF FromTrades
  <2>3. realized = running.pnl
    BY <1>10
  <2> QED BY <1>10, <2>1, <2>2, <2>3, Zenon
<1>12. Value(close) = FromTrades(close)
  <2>1. Unlisted = 0
    BY DEF Stages, Unlisted
  <2>2. Equity = Capital + Total(trades) + 0 + running.pnl - running.commission
                   + Funded(funding)
    BY <2>1 DEF Accounts, TradesTell
  <2> HIDE DEF entry, worth
  <2> QED BY <1>1, <1>3, <1>4, <1>5, <1>6, <1>11, <2>2
<1> QED BY <1>7, <1>12 DEF Reconciles

(* ---- The steps of a run ------------------------------------------------ *)

\* Admission is a matter of the inputs alone.
LEMMA AdmittedStays ==
  ASSUME UNCHANGED inputs
  PROVE  Admitted' <=> Admitted
<1>1. lane' = lane /\ bars' = bars /\ evaluation' = evaluation /\ evidence' = evidence
  BY DEF inputs
<1>2. Contiguous' <=> Contiguous
  BY <1>1 DEF Contiguous
<1>3. Covered' <=> Covered
  BY <1>1, Zenon DEF Covered, Evaluated
<1> QED BY <1>1, <1>2, <1>3 DEF Admitted, Evaluated

\* An admitted run that settles a bar has the evidence of it.
LEMMA SettlingIsCovered ==
  ASSUME TypeOK, Stages, phase = "settle"
  PROVE  ~Uncovered /\ ~NoMark
<1>1. lane = "realistic" /\ bar > 0 /\ Evaluated(Now) /\ Admitted
  BY DEF Stages, Started
<1>2. Covered
  BY <1>1 DEF Admitted
<1>3. bar \in DOMAIN bars
  <2>1. bars \in Seq(Int) /\ Len(bars) \in Nat /\ bar \in 0..Len(bars)
    BY InputTypes DEF TypeOK
  <2> QED BY <1>1, <2>1
<1> QED BY <1>1, <1>2, <1>3, Zenon DEF Covered, Uncovered, NoMark, Now

\* Every step keeps the books.
LEMMA BooksStep ==
  ASSUME Books, [Next]_vars
  PROVE  Books'
<1>1. TypeOK /\ Stages /\ Started /\ Accounts /\ AdmittedRunsFinish
  BY DEF Books, Stages
<1>2. TypeOK' /\ Started'
  BY <1>1, TypeStep
<1> SUFFICES Stages' /\ Accounts' /\ AdmittedRunsFinish'
  BY <1>2, Zenon DEF Books
<1>3. ASSUME Admit
      PROVE  Stages' /\ Accounts' /\ AdmittedRunsFinish'
  <2>1. /\ UNCHANGED <<inputs, bar, money, settlement, account, trades>>
        /\ phase = "admit" /\ phase' \in {"rest", "refused"} /\ (phase' = "rest" => Admitted)
    BY <1>3 DEF Admit
  <2>2. Accounts'
    BY <1>1, <2>1, QuietKeeps DEF settlement
  <2>3. Stages'
    BY <1>1, <1>2, <2>1, AdmittedStays DEF Stages, money
  <2> QED BY <2>1, <2>2, <2>3 DEF AdmittedRunsFinish
<1>4. ASSUME OpenBar
      PROVE  Stages' /\ Accounts' /\ AdmittedRunsFinish'
  <2>1. /\ UNCHANGED <<inputs, money, settlement, account, trades>>
        /\ phase = "rest" /\ bar' = bar + 1
        /\ phase' = IF lane = "realistic" /\ Evaluated(bars[bar + 1]) THEN "settle" ELSE "pass"
    BY <1>4 DEF OpenBar
  <2>2. Accounts'
    BY <1>1, <2>1, QuietKeeps DEF settlement
  <2>3. phase' = "settle" => lane' = "realistic" /\ Evaluated(Now)'
    BY <2>1 DEF Evaluated, Now, inputs
  <2>4. Stages'
    BY <1>1, <1>2, <2>1, <2>3, AdmittedStays DEF Stages, money
  <2> QED BY <2>1, <2>2, <2>4 DEF AdmittedRunsFinish
<1>5. ASSUME SettleRecord
      PROVE  Stages' /\ Accounts' /\ AdmittedRunsFinish'
  <2>1. /\ UNCHANGED <<inputs, bar, phase, orderNotices, tradeNotices>>
    BY <1>5 DEF SettleRecord
  <2>2. Accounts'
    BY <1>1, <1>5, SettleKeeps
  <2>3. Stages'
    BY <1>1, <1>2, <2>1, AdmittedStays DEF Stages, Evaluated, Now, inputs
  <2> QED BY <1>1, <2>1, <2>2, <2>3 DEF AdmittedRunsFinish
<1>6. ASSUME Survive
      PROVE  Stages' /\ Accounts' /\ AdmittedRunsFinish'
  <2>1. /\ UNCHANGED <<inputs, bar, money, settlement, account, trades>>
        /\ phase = "settle" /\ phase' = IF Uncovered \/ NoMark THEN "uncovered" ELSE "pass"
    BY <1>6 DEF Survive
  <2>2. Accounts'
    BY <1>1, <2>1, QuietKeeps DEF settlement
  <2>3. phase' = "pass"
    BY <1>1, <2>1, SettlingIsCovered
  <2>4. Stages'
    BY <1>1, <1>2, <2>1, <2>3, AdmittedStays DEF Stages
  <2> QED BY <2>2, <2>3, <2>4 DEF AdmittedRunsFinish
<1>7. ASSUME NEW u \in Units, Liquidate(u)
      PROVE  Stages' /\ Accounts' /\ AdmittedRunsFinish'
  <2>1. /\ phase = "settle" /\ phase' = "pass" /\ position.size # 0
        /\ Leave(Abs(position.size), u, 0, 0, LiquidationFee)
        /\ UNCHANGED <<inputs, bar, settlement, account, trades>>
    BY <1>7 DEF Liquidate, Settled
  <2>2. /\ Abs(position.size) \in 1..Abs(position.size) /\ LiquidationFee \in Nat /\ u \in Nat
        /\ 0 \in Int /\ 0 \in Nat
    BY <1>1, <2>1, HeldSize, BooksAssumption
  <2>3. lane # "legacy"
    BY <1>1, <2>1 DEF Stages
  <2>4. Accounts'
    BY <1>1, <2>1, <2>2, <2>3, LeaveKeeps
  <2>5. Stages'
    BY <1>1, <1>2, <2>1, AdmittedStays DEF Stages
  <2> QED BY <2>1, <2>4, <2>5 DEF AdmittedRunsFinish
<1>8. ASSUME NEW n \in 1..MaxLots, NEW s \in {-1, 1}, NEW u \in Units,
             NEW a \in Adjustments, NEW c \in Commissions, Enter(s * n, u, a, c)
      PROVE  Stages' /\ Accounts' /\ AdmittedRunsFinish'
  <2>1. phase = "pass" /\ UNCHANGED <<phase, inputs>>
    BY <1>8 DEF Enter
  <2>2. u \in Nat /\ a \in Int /\ c \in Nat /\ s * n \in Int /\ s * n # 0
    BY BooksAssumption
  <2>3. Accounts'
    BY <1>1, <1>8, <2>2, EnterKeeps
  <2>4. Stages'
    BY <1>1, <1>2, <2>1, AdmittedStays DEF Stages
  <2> QED BY <1>1, <2>1, <2>3, <2>4 DEF AdmittedRunsFinish
<1>9. ASSUME NEW n \in 1..MaxLots, NEW u \in Units, NEW a \in Adjustments,
             NEW c \in Commissions, Exit(n, u, a, c)
      PROVE  Stages' /\ Accounts' /\ AdmittedRunsFinish'
  <2>1. /\ phase = "pass" /\ n <= Abs(position.size)
        /\ lane # "realistic" => n = Abs(position.size)
        /\ Leave(n, u, a, c, 0)
        /\ UNCHANGED <<phase, inputs, settlement, account, trades>>
    BY <1>9 DEF Exit
  <2>2. u \in Nat /\ a \in Int /\ c \in Nat /\ 0 \in Nat /\ n \in 1..Abs(position.size)
    BY <1>1, <2>1, HeldSize, BooksAssumption
  <2>3. n # Abs(position.size) => 0 = 0 /\ lane # "legacy"
    BY <2>1
  <2>4. Accounts'
    BY <1>1, <2>1, <2>2, <2>3, LeaveKeeps
  <2>5. Stages'
    BY <1>1, <1>2, <2>1, AdmittedStays DEF Stages
  <2> QED BY <1>1, <2>1, <2>4, <2>5 DEF AdmittedRunsFinish
<1>10. ASSUME EndPass \/ Rest
       PROVE  Stages' /\ Accounts' /\ AdmittedRunsFinish'
  <2>1. UNCHANGED <<inputs, bar, money, settlement, account, trades>>
    BY <1>10 DEF EndPass, Rest
  <2>2. /\ phase \in {"pass", "notify"}
        /\ \/ phase' = "notify"
           \/ phase' \in {"rest", "audit"} /\ orderNotices = <<>> /\ tradeNotices = <<>>
    BY <1>10 DEF EndPass, Rest
  <2>3. Accounts'
    BY <1>1, <2>1, QuietKeeps DEF settlement
  <2>4. Stages'
    BY <1>1, <1>2, <2>1, <2>2, AdmittedStays DEF Stages, money
  <2> QED BY <2>2, <2>3, <2>4 DEF AdmittedRunsFinish
<1>11. ASSUME NotifyOrder
       PROVE  Stages' /\ Accounts' /\ AdmittedRunsFinish'
  <2>1. phase = "notify" /\ UNCHANGED <<phase, inputs>>
    BY <1>11 DEF NotifyOrder
  <2>2. Accounts'
    BY <1>1, <1>11, NotifyOrderKeeps
  <2>3. Stages'
    BY <1>1, <1>2, <2>1, AdmittedStays DEF Stages
  <2> QED BY <1>1, <2>1, <2>2, <2>3 DEF AdmittedRunsFinish
<1>12. ASSUME NotifyTrade
       PROVE  Stages' /\ Accounts' /\ AdmittedRunsFinish'
  <2>1. Accounts' /\ phase' = phase
    BY <1>1, <1>12, NotifyTradeKeeps
  <2>2. phase = "notify" /\ UNCHANGED inputs
    BY <1>12 DEF NotifyTrade
  <2>3. Stages'
    BY <1>1, <1>2, <2>1, <2>2, AdmittedStays DEF Stages
  <2> QED BY <1>1, <2>1, <2>3 DEF AdmittedRunsFinish
<1>13. ASSUME Terminate
       PROVE  Stages' /\ Accounts' /\ AdmittedRunsFinish'
  <2>1. /\ phase = "rest" /\ phase' = "notify"
        /\ UNCHANGED <<inputs, settlement, account, trades>>
    BY <1>13 DEF Terminate
  <2>2. Stages' /\ AdmittedRunsFinish'
    BY <1>1, <1>2, <2>1, AdmittedStays DEF Stages, AdmittedRunsFinish
  <2>3. CASE UNCHANGED money
    BY <1>1, <2>1, <2>2, <2>3, QuietKeeps DEF settlement
  <2>4. ASSUME NEW u \in Units, NEW a \in Adjustments, NEW c \in Commissions,
               position.size # 0, Leave(Abs(position.size), u, a, c, 0)
        PROVE  Accounts'
    <3>1. /\ Abs(position.size) \in 1..Abs(position.size) /\ 0 \in Nat
          /\ u \in Nat /\ a \in Int /\ c \in Nat
      BY <1>1, <2>4, HeldSize, BooksAssumption
    <3> QED BY <1>1, <2>1, <2>4, <3>1, LeaveKeeps
  <2> QED BY <1>13, <2>2, <2>3, <2>4 DEF Terminate
<1>14. ASSUME Audit
       PROVE  Stages' /\ Accounts' /\ AdmittedRunsFinish'
  <2>1. /\ UNCHANGED <<inputs, bar, money, settlement, account, trades>> /\ phase = "audit"
    BY <1>14 DEF Audit
  <2>2. PICK u \in Units :
          phase' = IF lane = "legacy" \/ Reconciles(Leverage * u) THEN "done" ELSE "unreconciled"
    BY <1>14 DEF Audit
  <2>3. Leverage * u \in Int
    BY BooksAssumption
  <2>4. Reconciles(Leverage * u)
    BY <1>1, <2>1, <2>3, AuditReconciles
  <2>5. phase' = "done"
    BY <2>2, <2>4
  <2>6. Accounts'
    BY <1>1, <2>1, QuietKeeps DEF settlement
  <2>7. Stages'
    BY <1>1, <1>2, <2>1, <2>5, AdmittedStays DEF Stages, money
  <2> QED BY <2>5, <2>6, <2>7 DEF AdmittedRunsFinish
<1>15. CASE UNCHANGED vars
  <2>1. UNCHANGED <<phase, inputs, bar, money, settlement, account, trades>>
    BY <1>15 DEF vars
  <2>2. Accounts'
    BY <1>1, <2>1, QuietKeeps DEF settlement
  <2>3. Stages'
    BY <1>1, <1>2, <2>1, AdmittedStays DEF Stages, money, Evaluated, Now, inputs
  <2> QED BY <1>1, <2>1, <2>2, <2>3 DEF AdmittedRunsFinish
<1> QED BY <1>3, <1>4, <1>5, <1>6, <1>7, <1>8, <1>9, <1>10, <1>11, <1>12, <1>13, <1>14,
           <1>15 DEF Next

(* ---- Theorems ---------------------------------------------------------- *)

\* The invariant the other theorems follow from.
THEOREM BooksKept == Spec => []Books
<1>1. Init => Books
  BY BooksInit
<1>2. Books /\ [Next]_vars => Books'
  BY BooksStep
<1> QED BY <1>1, <1>2, PTL DEF Spec

\* What the books say when everything has been delivered.
LEMMA BooksAtRest == Books => LedgerIsCash
<1> SUFFICES ASSUME Books, phase \in {"rest", "audit", "done"}
             PROVE  /\ Balance = cash + Tied(position.size, position.unit)
                    /\ ledger.cash = ledger.pnl - ledger.fees + ledger.funding
                    /\ account.size = Abs(position.size)
  BY DEF LedgerIsCash
<1>1. TypeOK /\ Stages /\ Accounts
  BY DEF Books
<1>2. orderNotices = <<>> /\ tradeNotices = <<>>
  BY <1>1 DEF Stages
<1>3. PICK told \in [0..0 -> Knowledge] : IsKnown(told[0]) /\ Informed(told[0])
  BY <1>1, <1>2 DEF Accounts, NoticesInform
<1>4. /\ told[0].size = Abs(position.size)
      /\ OwnsLedger => Capital + told[0].booked = Equity
  BY <1>2, <1>3 DEF Informed
<1>5. /\ told[0].size = account.size
      /\ OwnsLedger => told[0].booked = ledger.cash
  BY <1>3 DEF IsKnown
<1>6. Balance = Equity
  BY <1>1, <1>4, <1>5 DEF Accounts, LedgerKept, Balance
<1> QED BY <1>1, <1>4, <1>5, <1>6 DEF Accounts, LedgerKept, Equity

\* At rest the ledger, whoever books it, holds the cash and what of it is tied
\* up in the position, its totals add up, and the strategy's account knows of
\* the lots held (execution_account.py:169-213, evidence_execution.py:76-94).
THEOREM LedgerAgrees == Spec => []LedgerIsCash
  BY BooksKept, BooksAtRest, PTL

\* An admitted run comes to its report: the evidence it needs is there, the
\* fills of every closed trade are found, and both sums of the audit meet the
\* broker's value (execution_evidence.py:207-224, bt_analyzers.py:96-98,
\* execution_audit.py:256-280).
THEOREM RunsFinish == Spec => []AdmittedRunsFinish
<1>1. Books => AdmittedRunsFinish
  BY DEF Books
<1> QED BY <1>1, BooksKept, PTL

(* ---- The settlement of funding ----------------------------------------- *)

Holding == [time : Int, size : Int, trade : Nat]

\* The holdings are those at the ends of the bars, none of the warm-up, and until the
\* next bar is over nothing but its orders changes them.
HistoryKept ==
  /\ phase = "admit" => bar = 0
  /\ phase = "settle" => ~ended
  /\ Len(held) = IF phase \in {"settle", "pass", "uncovered"} THEN bar - 1 ELSE bar
  /\ \A k \in DOMAIN held :
       held[k].time = bars[k] /\ (held[k].size # 0 => Evaluated(bars[k]))
  /\ position.size # 0 => bar > 0 /\ Evaluated(Now)
  /\ phase \in {"admit", "settle", "notify", "rest"} /\ ~ended =>
       IF held = <<>> THEN position.size = 0
       ELSE position.size = held[Len(held)].size /\ tradeId = held[Len(held)].trade

\* Funding applies to the current bar.
Funds == lane = "realistic" /\ evidence.hasFunding /\ bar > 0 /\ Evaluated(Now)

\* The cursor is at the first record to come, or on its way there from the first one
\* that came after the bar of before.
CursorKept ==
  /\ cursor # 0 => Funds
  /\ \A i \in 1..cursor : evidence.records[i].time <= Now
  /\ phase \in {"pass", "notify", "rest", "audit", "done"} /\ Funds =>
       \A i \in (cursor + 1)..Len(evidence.records) : evidence.records[i].time > Now
  /\ phase = "settle" /\ bar > 1 /\ Evaluated(bars[bar - 1]) /\ evidence.hasFunding =>
       \A i \in (cursor + 1)..Len(evidence.records) : evidence.records[i].time > bars[bar - 1]

\* What has been booked is what is owed for the records up to the cursor.
EntriesKept ==
  Lists(funding, {i \in 1..cursor : HeldAt(evidence.records[i].time).size # 0},
        [i \in DOMAIN evidence.records |-> Owed(evidence.records[i])])

Settlement == HistoryKept /\ CursorKept /\ EntriesKept

\* What the settlement reads, and that its records are in the order of time.
LEMMA SettlementTypes ==
  ASSUME TypeOK
  PROVE  /\ bars \in Seq(Int) /\ Len(bars) \in Nat /\ bar \in 0..Len(bars)
         /\ held \in Seq(Holding) /\ Len(held) \in Nat /\ DOMAIN held = 1..Len(held)
         /\ evidence.records \in Seq([time : Int, rate : Int])
         /\ Len(evidence.records) \in Nat
         /\ DOMAIN evidence.records = 1..Len(evidence.records)
         /\ cursor \in 0..Len(evidence.records)
         /\ \A i \in 1..Len(bars) - 1 : bars[i] < bars[i + 1]
         /\ \A i, j \in 1..Len(evidence.records) :
              i <= j => evidence.records[i].time <= evidence.records[j].time
<1>1. /\ bars \in Seq(Int) /\ Len(bars) \in Nat /\ bar \in 0..Len(bars)
      /\ evidence.records \in Seq([time : Int, rate : Int]) /\ Len(evidence.records) \in Nat
      /\ cursor \in 0..Len(evidence.records)
  BY InputTypes DEF TypeOK
<1>2. held \in Seq(Holding) /\ Len(held) \in Nat /\ DOMAIN held = 1..Len(held)
  BY DEF TypeOK, Holding
<1>3. \A i \in 1..Len(bars) - 1 : bars[i] < bars[i + 1]
  BY ChronologyAssumption DEF TypeOK
<1>4. PICK n \in Nat : n = Len(evidence.records)
  BY <1>1
<1> DEFINE time == [i \in 1..n |-> evidence.records[i].time]
<1>5. time \in [1..n -> Int]
  <2>1. \A i \in 1..n : evidence.records[i] \in [time : Int, rate : Int]
    BY <1>1, <1>4, ElementOfSeq
  <2>2. \A i \in 1..n : evidence.records[i].time \in Int
    BY <2>1
  <2> QED BY <2>2
<1>6. \A i \in 1..n - 1 : time[i] <= time[i + 1]
  <2>1. \A i \in 1..Len(evidence.records) - 1 :
          evidence.records[i].time <= evidence.records[i + 1].time
    BY ChronologyAssumption DEF TypeOK
  <2> QED BY <1>4, <2>1
<1>7. \A i, j \in 1..n : i <= j => time[i] <= time[j]
  <2> HIDE DEF time
  <2> QED BY <1>5, <1>6, NeverDecreases
<1>8. \A i, j \in 1..Len(evidence.records) :
        i <= j => evidence.records[i].time <= evidence.records[j].time
  BY <1>4, <1>7
<1> QED BY <1>1, <1>2, <1>3, <1>4, <1>8, Zenon, LenProperties

\* A record has a time and a rate.
LEMMA RecordTypes ==
  ASSUME TypeOK, NEW i \in 1..Len(evidence.records)
  PROVE  evidence.records[i].time \in Int /\ evidence.records[i].rate \in Int
<1>1. evidence.records[i] \in [time : Int, rate : Int]
  BY SettlementTypes, ElementOfSeq
<1> QED BY <1>1

\* The bars rise throughout.
LEMMA BarsRise ==
  ASSUME TypeOK, NEW i \in 1..Len(bars), NEW j \in 1..Len(bars), i <= j
  PROVE  bars[i] <= bars[j]
<1>1. PICK n \in Nat : n = Len(bars)
  BY SettlementTypes
<1>2. PICK f \in [1..n -> Int] : f = bars
  BY <1>1, SettlementTypes
<1>3. \A k \in 1..n - 1 : f[k] <= f[k + 1]
  <2>1. \A k \in 1..n - 1 : f[k] < f[k + 1] /\ f[k] \in Int /\ f[k + 1] \in Int
    BY <1>1, <1>2, SettlementTypes
  <2> QED BY <2>1
<1>4. f[i] <= f[j]
  BY <1>1, <1>3, NeverDecreases
<1> QED BY <1>2, <1>4

\* The last bar before a time, or none.
LEMMA HeldAtIs ==
  ASSUME TypeOK, NEW time
  PROVE  LET before == {k \in DOMAIN held : held[k].time < time} IN
         \/ before = {} /\ HeldAt(time) = [time |-> time, size |-> 0, trade |-> 1]
         \/ \E k \in before : HeldAt(time) = held[k] /\ k = Max(before)
                              /\ \A l \in before : l <= k
<1> DEFINE before == {k \in DOMAIN held : held[k].time < time}
<1>1. CASE before = {}
  BY <1>1 DEF HeldAt
<1>2. CASE before # {}
  <2>1. PICK n \in Nat : n = Len(held)
    BY SettlementTypes
  <2>2. before \in SUBSET (0..n)
    BY <2>1, SettlementTypes
  <2>3. \E k \in before : \A l \in before : l <= k
    <3> HIDE DEF before
    <3> QED BY <1>2, <2>2, GreatestElement
  <2>4. Max(before) \in before /\ \A l \in before : l <= Max(before)
    <3> HIDE DEF before
    <3> QED BY <2>2, <2>3 DEF Max
  <2>5. HeldAt(time) = held[Max(before)]
    BY <1>2 DEF HeldAt
  <2> QED BY <2>4, <2>5
<1> QED BY <1>1, <1>2

\* A bar that is no earlier than a time does not count for it.
LEMMA HeldAtStays ==
  ASSUME TypeOK, NEW e \in Holding, held' = Append(held, e)
  PROVE  \A time : ~(e.time < time) => HeldAt(time)' = HeldAt(time)
<1> TAKE time
<1> SUFFICES ASSUME ~(e.time < time) PROVE HeldAt(time)' = HeldAt(time)
  OBVIOUS
<1>1. PICK more : more = held'
  OBVIOUS
<1>2. /\ held \in Seq(Holding) /\ Len(held) \in Nat /\ DOMAIN held = 1..Len(held)
      /\ DOMAIN more = 1..(Len(held) + 1) /\ more[Len(held) + 1] = e
      /\ \A k \in 1..Len(held) : more[k] = held[k]
  BY <1>1, SettlementTypes
<1> DEFINE before == {k \in DOMAIN held : held[k].time < time}
           now == {k \in DOMAIN more : more[k].time < time}
<1>3. now = before
  BY <1>2
<1>4. HeldAt(time)' = IF now = {} THEN [time |-> time, size |-> 0, trade |-> 1]
                      ELSE more[Max(now)]
  BY <1>1 DEF HeldAt
<1>5. HeldAt(time) = IF before = {} THEN [time |-> time, size |-> 0, trade |-> 1]
                     ELSE held[Max(before)]
  BY DEF HeldAt
<1>6. before # {} => Max(before) \in 1..Len(held)
  BY <1>2, HeldAtIs
<1> HIDE DEF before, now
<1> QED BY <1>2, <1>3, <1>4, <1>5, <1>6

\* When the next record is not due, none of the later ones is.
LEMMA NotDue ==
  ASSUME TypeOK, ~Due, evidence.hasFunding, bar > 0
  PROVE  \A i \in (cursor + 1)..Len(evidence.records) : evidence.records[i].time > Now
<1> TAKE i \in (cursor + 1)..Len(evidence.records)
<1>1. /\ cursor + 1 \in 1..Len(evidence.records) /\ i \in 1..Len(evidence.records)
      /\ cursor + 1 <= i /\ cursor < Len(evidence.records)
  <2>1. PICK n \in Nat : n = Len(evidence.records)
    BY SettlementTypes
  <2>2. PICK c \in 0..n : c = cursor
    BY <2>1, SettlementTypes
  <2>3. i \in (c + 1)..n
    BY <2>1, <2>2
  <2>4. c + 1 \in 1..n /\ i \in 1..n /\ c + 1 <= i /\ c < n
    BY <2>3
  <2> QED BY <2>1, <2>2, <2>4, Zenon
<1>2. evidence.records[cursor + 1].time <= evidence.records[i].time
  BY <1>1, SettlementTypes
<1>3. ~(evidence.records[cursor + 1].time <= Now)
  BY <1>1 DEF Due
<1>4. PICK now \in Int : now = Now
  <2>1. bar \in 1..Len(bars) /\ bars \in Seq(Int)
    BY SettlementTypes
  <2> QED BY <2>1 DEF Now
<1>5. PICK a \in Int : a = evidence.records[cursor + 1].time
  BY <1>1, RecordTypes
<1>6. PICK b \in Int : b = evidence.records[i].time
  BY <1>1, RecordTypes
<1>7. a <= b /\ ~(a <= now)
  BY <1>2, <1>3, <1>4, <1>5, <1>6
<1>8. b > now
  BY <1>7
<1> QED BY <1>4, <1>6, <1>8

\* A log that gets the entry of the next number.
LEMMA ListsNext ==
  ASSUME NEW S, NEW log \in Seq(S), NEW e \in S, NEW n \in Nat, NEW numbers \in SUBSET (1..n),
         NEW entry, Lists(log, numbers, entry), entry[n + 1] = e
  PROVE  Lists(Append(log, e), numbers \cup {n + 1}, entry)
<1> DEFINE more == numbers \cup {n + 1}
           longer == Append(log, e)
<1>1. IsFiniteSet(numbers) /\ Cardinality(numbers) = Len(log) /\ Len(log) \in Nat
  <2>1. IsFiniteSet(1..n)
    BY FS_Interval
  <2>2. IsFiniteSet(numbers)
    BY <2>1, FS_Subset
  <2> QED BY <2>2 DEF Lists
<1>2. n + 1 \notin numbers
  OBVIOUS
<1>3. Cardinality(more) = Len(log) + 1
  BY <1>1, <1>2, FS_AddElement
<1>4. /\ Len(longer) = Len(log) + 1 /\ longer[Len(log) + 1] = e
      /\ \A k \in 1..Len(log) : longer[k] = log[k]
  OBVIOUS
<1> HIDE DEF longer
<1>5. ASSUME NEW i \in numbers
      PROVE  longer[Cardinality({j \in more : j <= i})] = entry[i]
  <2> DEFINE upto == {j \in numbers : j <= i}
  <2>1. {j \in more : j <= i} = upto
    BY <1>2
  <2>2. upto \in SUBSET numbers /\ upto # {}
    OBVIOUS
  <2>3. Cardinality(upto) \in 1..Len(log)
    <3> HIDE DEF upto
    <3>1. IsFiniteSet(upto) /\ Cardinality(upto) <= Cardinality(numbers)
      BY <1>1, <2>2, FS_Subset
    <3>2. Cardinality(upto) \in Nat /\ Cardinality(upto) # 0
      BY <2>2, <3>1, FS_CardinalityType, FS_EmptySet
    <3> QED BY <1>1, <3>1, <3>2
  <2>4. log[Cardinality(upto)] = entry[i]
    BY DEF Lists
  <2> HIDE DEF upto
  <2> QED BY <1>4, <2>1, <2>3, <2>4
<1>6. longer[Cardinality({j \in more : j <= n + 1})] = entry[n + 1]
  <2>1. {j \in more : j <= n + 1} = more
    <3>1. \A j \in more : j <= n + 1
      OBVIOUS
    <3> HIDE DEF more
    <3> QED BY <3>1
  <2> HIDE DEF more
  <2> QED BY <1>3, <1>4, <2>1
<1> QED BY <1>3, <1>4, <1>5, <1>6 DEF Lists, longer

\* Steps that leave the records, the holdings and the bar alone.
LEMMA QuietSettlement ==
  ASSUME TypeOK, Settlement, UNCHANGED <<inputs, bar, settlement, held>>,
         phase' \in {"settle", "pass", "uncovered"} <=> phase \in {"settle", "pass", "uncovered"},
         phase' = "admit" => phase = "admit",
         phase' = "settle" => phase = "settle" /\ ~ended',
         position'.size # 0 => position.size # 0 \/ (bar > 0 /\ Evaluated(Now)),
         phase' \in {"admit", "settle", "notify", "rest"} /\ ~ended' =>
           /\ phase \in {"admit", "settle", "notify", "rest"} /\ ~ended
           /\ position'.size = position.size /\ tradeId' = tradeId,
         phase' \in {"pass", "notify", "rest", "audit", "done"} =>
           \/ phase \in {"pass", "notify", "rest", "audit", "done"}
           \/ phase = "admit"
           \/ phase = "settle" /\ ~Due
  PROVE  Settlement'
<1>1. /\ bars' = bars /\ evidence' = evidence /\ lane' = lane /\ evaluation' = evaluation
      /\ bar' = bar /\ cursor' = cursor /\ funding' = funding /\ held' = held
  BY DEF inputs, settlement
<1>2. Now' = Now /\ Funds' = Funds /\ \A time : Evaluated(time)' = Evaluated(time)
  BY <1>1 DEF Now, Funds, Evaluated
<1>3. HistoryKept'
  <2>1. \A k \in DOMAIN held' :
          held'[k].time = bars'[k] /\ (held'[k].size # 0 => Evaluated(bars[k])')
    BY <1>1, <1>2 DEF Settlement, HistoryKept
  <2>2. position'.size # 0 => bar' > 0 /\ Evaluated(Now)'
    BY <1>1, <1>2 DEF Settlement, HistoryKept
  <2>3. Len(held') = IF phase' \in {"settle", "pass", "uncovered"} THEN bar' - 1 ELSE bar'
    BY <1>1 DEF Settlement, HistoryKept
  <2>4. phase' \in {"admit", "settle", "notify", "rest"} /\ ~ended' =>
          IF held' = <<>> THEN position'.size = 0
          ELSE position'.size = held'[Len(held')].size /\ tradeId' = held'[Len(held')].trade
    BY <1>1 DEF Settlement, HistoryKept
  <2>5. (phase' = "admit" => bar' = 0) /\ (phase' = "settle" => ~ended')
    BY <1>1 DEF Settlement, HistoryKept
  <2> QED BY <2>1, <2>2, <2>3, <2>4, <2>5 DEF HistoryKept
<1>4. CursorKept'
  <2>1. (cursor # 0 => Funds) /\ \A i \in 1..cursor : evidence.records[i].time <= Now
    BY DEF Settlement, CursorKept
  <2>2. phase' = "settle" => phase = "settle"
    OBVIOUS
  <2>3. phase = "settle" /\ bar > 1 /\ Evaluated(bars[bar - 1]) /\ evidence.hasFunding =>
          \A i \in (cursor + 1)..Len(evidence.records) : evidence.records[i].time > bars[bar - 1]
    BY DEF Settlement, CursorKept
  <2>4. ASSUME phase' \in {"pass", "notify", "rest", "audit", "done"}, Funds
        PROVE  \A i \in (cursor + 1)..Len(evidence.records) : evidence.records[i].time > Now
    <3>1. CASE phase \in {"pass", "notify", "rest", "audit", "done"}
      BY <2>4, <3>1 DEF Settlement, CursorKept
    <3>2. CASE phase = "admit"
      BY <2>4, <3>2 DEF Settlement, HistoryKept, Funds
    <3>3. CASE phase = "settle" /\ ~Due
      BY <2>4, <3>3, NotDue DEF Funds
    <3> QED BY <2>4, <3>1, <3>2, <3>3
  <2> QED BY <1>1, <1>2, <2>1, <2>2, <2>3, <2>4 DEF CursorKept
<1>5. EntriesKept'
  <2>1. \A time : HeldAt(time)' = HeldAt(time)
    BY <1>1 DEF HeldAt
  <2>2. \A i : Owed(evidence.records[i])' = Owed(evidence.records[i])
    BY <1>1, <2>1 DEF Owed
  <2> QED BY <1>1, <2>1, <2>2 DEF Settlement, EntriesKept
<1> QED BY <1>3, <1>4, <1>5 DEF Settlement

\* A bar begins.
LEMMA OpenSettlement ==
  ASSUME TypeOK, Settlement, OpenBar
  PROVE  Settlement'
<1>1. /\ bars' = bars /\ evidence' = evidence /\ lane' = lane /\ evaluation' = evaluation
      /\ cursor' = cursor /\ funding' = funding /\ held' = held
      /\ position' = position /\ tradeId' = tradeId /\ ended' = ended
  BY DEF OpenBar, inputs, settlement, money
<1>2. /\ phase = "rest" /\ ~ended /\ bar' = bar + 1
      /\ phase' = IF lane = "realistic" /\ Evaluated(bars[bar + 1]) THEN "settle" ELSE "pass"
  BY DEF OpenBar
<1>3. phase' \in {"settle", "pass"} /\ (phase' = "pass" => ~(lane = "realistic" /\ Evaluated(Now)'))
  BY <1>1, <1>2 DEF Evaluated, Now
<1>4. PICK n \in Nat : n = Len(bars)
  BY SettlementTypes
<1>5. PICK b \in Nat : b = bar /\ b + 1 \in 1..n
  <2>1. bar \in 0..n /\ bar < n
    BY <1>4, SettlementTypes DEF OpenBar
  <2> QED BY <2>1
<1>6. \A time : Evaluated(time)' = Evaluated(time)
  BY <1>1 DEF Evaluated
<1>7. bar > 0 => /\ bars[bar] \in Int /\ bars[bar + 1] \in Int /\ bars[bar] < bars[bar + 1]
                 /\ Now = bars[bar] /\ Now' = bars[bar + 1]
                 /\ (Evaluated(Now) => Evaluated(Now)')
  <2> SUFFICES ASSUME bar > 0
               PROVE  /\ bars[bar] \in Int /\ bars[bar + 1] \in Int /\ bars[bar] < bars[bar + 1]
                      /\ Now = bars[bar] /\ Now' = bars[bar + 1]
                      /\ (Evaluated(Now) => Evaluated(Now)')
    OBVIOUS
  <2>1. b \in 1..n - 1 /\ b \in 1..n
    BY <1>5
  <2>2. bars[bar] < bars[bar + 1]
    BY <1>4, <1>5, <2>1, SettlementTypes
  <2>3. bars[bar] \in Int /\ bars[bar + 1] \in Int
    BY <1>4, <1>5, <2>1, SettlementTypes
  <2>4. Now = bars[bar] /\ Now' = bars[bar + 1]
    BY <1>1, <1>2 DEF Now
  <2>5. evaluation \in Int
    BY BooksAssumption DEF TypeOK
  <2>6. Evaluated(Now) => Evaluated(Now)'
    <3>1. PICK x \in Int : x = bars[bar]
      BY <2>3
    <3>2. PICK y \in Int : y = bars[bar + 1]
      BY <2>3
    <3>3. x >= evaluation => y >= evaluation
      BY <2>2, <2>5, <3>1, <3>2
    <3> QED BY <1>1, <2>4, <3>1, <3>2, <3>3 DEF Evaluated
  <2> QED BY <2>2, <2>3, <2>4, <2>6
<1>8. bar' > 0 /\ bar' - 1 = bar
  BY <1>2, <1>5
<1>9. HistoryKept'
  <2>1. (phase' = "admit" => bar' = 0) /\ (phase' = "settle" => ~ended')
    BY <1>1, <1>2, <1>3
  <2>2. Len(held') = IF phase' \in {"settle", "pass", "uncovered"} THEN bar' - 1 ELSE bar'
    BY <1>1, <1>2, <1>3, <1>8 DEF Settlement, HistoryKept
  <2>3. \A k \in DOMAIN held' :
          held'[k].time = bars'[k] /\ (held'[k].size # 0 => Evaluated(bars[k])')
    BY <1>1, <1>6 DEF Settlement, HistoryKept
  <2>4. position'.size # 0 => bar' > 0 /\ Evaluated(Now)'
    BY <1>1, <1>7, <1>8 DEF Settlement, HistoryKept
  <2>5. IF held' = <<>> THEN position'.size = 0
        ELSE position'.size = held'[Len(held')].size /\ tradeId' = held'[Len(held')].trade
    BY <1>1, <1>2 DEF Settlement, HistoryKept
  <2> QED BY <2>1, <2>2, <2>3, <2>4, <2>5 DEF HistoryKept
<1>10. CursorKept'
  <2>1. cursor' # 0 => Funds'
    <3> SUFFICES ASSUME cursor # 0 PROVE Funds'
      BY <1>1
    <3>1. Funds
      BY DEF Settlement, CursorKept
    <3> QED BY <1>1, <1>7, <1>8, <3>1 DEF Funds
  <2>2. ASSUME NEW i \in 1..cursor' PROVE evidence'.records[i].time <= Now'
    <3>1. i \in 1..cursor /\ cursor # 0
      <4>1. cursor \in Nat
        BY SettlementTypes
      <4> QED BY <1>1, <4>1
    <3>2. bar > 0 /\ evidence.records[i].time <= Now
      BY <3>1 DEF Settlement, CursorKept, Funds
    <3>3. i \in 1..Len(evidence.records)
      BY <3>1, SettlementTypes
    <3>4. PICK x \in Int : x = evidence.records[i].time
      BY <3>3, RecordTypes
    <3>5. PICK y \in Int : y = bars[bar]
      BY <1>7, <3>2
    <3>6. PICK z \in Int : z = bars[bar + 1]
      BY <1>7, <3>2
    <3>7. x <= y /\ y < z
      BY <1>7, <3>2, <3>4, <3>5, <3>6
    <3>8. x <= z
      BY <3>7
    <3> QED BY <1>1, <1>7, <3>2, <3>4, <3>6, <3>8
  <2>3. ~(phase' \in {"pass", "notify", "rest", "audit", "done"} /\ Funds')
    BY <1>1, <1>3 DEF Funds
  <2>4. ASSUME bar' > 1, Evaluated(bars[bar - 1])', evidence'.hasFunding, phase' = "settle"
        PROVE  \A i \in (cursor' + 1)..Len(evidence'.records) :
                 evidence'.records[i].time > bars'[bar' - 1]
    <3>1. bar > 0 /\ bars'[bar' - 1] = Now /\ Evaluated(Now)
      <4>1. bar > 0
        BY <1>2, <1>5, <2>4
      <4>2. Evaluated(bars[bar - 1])' = Evaluated(Now) /\ bars'[bar' - 1] = Now
        BY <1>1, <1>7, <1>8, <4>1 DEF Evaluated
      <4> QED BY <2>4, <4>1, <4>2
    <3>2. lane = "realistic"
      BY <1>2, <2>4
    <3>3. Funds
      BY <1>1, <2>4, <3>1, <3>2 DEF Funds
    <3>4. \A i \in (cursor + 1)..Len(evidence.records) : evidence.records[i].time > Now
      BY <1>2, <3>3 DEF Settlement, CursorKept
    <3> QED BY <1>1, <3>1, <3>4
  <2> QED BY <2>1, <2>2, <2>3, <2>4 DEF CursorKept
<1>11. EntriesKept'
  <2>1. \A time : HeldAt(time)' = HeldAt(time)
    BY <1>1 DEF HeldAt
  <2>2. \A i : Owed(evidence.records[i])' = Owed(evidence.records[i])
    BY <1>1, <2>1 DEF Owed
  <2> QED BY <1>1, <2>1, <2>2 DEF Settlement, EntriesKept
<1> QED BY <1>9, <1>10, <1>11 DEF Settlement

\* Before the bar's orders, the position is that at the record's time.
LEMMA SettlesWhatWasHeld ==
  ASSUME TypeOK, Settlement, SettleRecord, bar > 0
  PROVE  LET at == HeldAt(evidence.records[cursor + 1].time) IN
         at.size = position.size /\ (position.size # 0 => at.trade = tradeId)
<1> DEFINE time == evidence.records[cursor + 1].time
<1>1. phase = "settle" /\ ~ended /\ evidence.hasFunding /\ cursor < Len(evidence.records)
  BY DEF SettleRecord, Due, Settlement, HistoryKept
<1>2. PICK L \in Nat : L = Len(held) /\ bar = L + 1
  <2>1. Len(held) = bar - 1 /\ Len(held) \in Nat /\ bar \in Nat
    BY <1>1, SettlementTypes DEF Settlement, HistoryKept
  <2> QED BY <2>1
<1>3. DOMAIN held = 1..L /\ L \in 0..Len(bars)
  <2>1. PICK n \in Nat : n = Len(bars)
    BY SettlementTypes
  <2>2. bar \in 0..n
    BY <2>1, SettlementTypes
  <2> QED BY <1>2, <2>1, <2>2, SettlementTypes
<1>4. IF held = <<>> THEN position.size = 0
      ELSE position.size = held[L].size /\ tradeId = held[L].trade
  BY <1>1, <1>2 DEF Settlement, HistoryKept
<1>5. CASE held = <<>>
  <2>1. HeldAt(time).size = 0
    <3>1. {k \in DOMAIN held : held[k].time < time} = {}
      BY <1>5
    <3> HIDE DEF time
    <3> QED BY <3>1 DEF HeldAt
  <2> QED BY <1>4, <1>5, <2>1
<1>6. CASE held # <<>>
  <2>1. L \in 1..L /\ bar > 1 /\ bar - 1 = L /\ L \in 1..Len(bars)
    <3>1. L # 0
      BY <1>2, <1>6, SettlementTypes, EmptySeq
    <3>2. PICK n \in Nat : n = Len(bars)
      BY SettlementTypes
    <3> QED BY <1>2, <1>3, <3>1, <3>2
  <2>2. held[L].time = bars[L] /\ position.size = held[L].size /\ tradeId = held[L].trade
    BY <1>3, <1>4, <1>6, <2>1 DEF Settlement, HistoryKept
  <2>3. CASE Evaluated(bars[L])
    <3>1. time > bars[L]
      <4>1. cursor + 1 \in (cursor + 1)..Len(evidence.records)
        <5>1. PICK m \in Nat : m = Len(evidence.records)
          BY SettlementTypes
        <5>2. PICK c \in 0..m : c = cursor
          BY <5>1, SettlementTypes
        <5> QED BY <1>1, <5>1, <5>2
      <4> QED BY <1>1, <2>1, <2>3, <4>1 DEF Settlement, CursorKept
    <3>2. held[L].time < time
      <4>1. bars[L] \in Int
        BY <2>1, SettlementTypes
      <4>2. time \in Int
        <5>1. cursor + 1 \in 1..Len(evidence.records)
          <6>1. PICK m \in Nat : m = Len(evidence.records)
            BY SettlementTypes
          <6>2. PICK c \in 0..m : c = cursor
            BY <6>1, SettlementTypes
          <6> QED BY <1>1, <6>1, <6>2
        <5> QED BY <5>1, RecordTypes
      <4> HIDE DEF time
      <4> QED BY <2>2, <3>1, <4>1, <4>2
    <3> HIDE DEF time
    <3>3. PICK k \in 1..L : HeldAt(time) = held[k] /\ L <= k
      BY <1>3, <2>1, <3>2, HeldAtIs
    <3>4. k = L
      BY <3>3
    <3> QED BY <2>2, <3>3, <3>4 DEF time
  <2>4. CASE ~Evaluated(bars[L])
    <3>1. ASSUME NEW k \in 1..L PROVE held[k].size = 0
      <4>1. k \in 1..Len(bars) /\ k <= L
        <5>1. PICK n \in Nat : n = Len(bars)
          BY SettlementTypes
        <5> QED BY <1>3, <5>1
      <4>2. bars[k] <= bars[L]
        BY <2>1, <4>1, BarsRise
      <4>3. PICK x \in Int : x = bars[k]
        BY <4>1, SettlementTypes
      <4>4. PICK y \in Int : y = bars[L]
        BY <2>1, SettlementTypes
      <4>5. evaluation \in Int
        BY BooksAssumption DEF TypeOK
      <4>6. ~(x >= evaluation)
        BY <2>4, <4>2, <4>3, <4>4, <4>5 DEF Evaluated
      <4>7. ~Evaluated(bars[k])
        BY <4>3, <4>6 DEF Evaluated
      <4> QED BY <1>3, <4>7 DEF Settlement, HistoryKept
    <3>2. position.size = 0
      BY <2>1, <2>2, <3>1
    <3> HIDE DEF time
    <3>3. HeldAt(time).size = 0
      <4>1. \/ HeldAt(time) = [time |-> time, size |-> 0, trade |-> 1]
            \/ \E k \in 1..L : HeldAt(time) = held[k]
        BY <1>3, HeldAtIs
      <4> QED BY <3>1, <4>1
    <3> QED BY <3>2, <3>3 DEF time
  <2> QED BY <2>3, <2>4
<1> QED BY <1>5, <1>6

\* A record is settled.
LEMMA RecordSettlement ==
  ASSUME TypeOK, Settlement, SettleRecord, Funds
  PROVE  Settlement'
<1> DEFINE record == evidence.records[cursor + 1]
           amount == -position.size * record.rate
           e == [time |-> record.time, amount |-> amount, trade |-> tradeId]
<1>1. /\ bars' = bars /\ evidence' = evidence /\ lane' = lane /\ evaluation' = evaluation
      /\ bar' = bar /\ held' = held /\ position' = position /\ tradeId' = tradeId
      /\ phase' = phase /\ ended' = ended
  BY DEF SettleRecord, inputs
<1>2. phase = "settle" /\ cursor' = cursor + 1 /\ record.time <= Now
  BY DEF SettleRecord, Due
<1>3. /\ position.size = 0 => funding' = funding
      /\ position.size # 0 => funding' = Append(funding, e)
  BY Zenon DEF SettleRecord
<1>4. PICK m \in Nat : m = Len(evidence.records)
  BY SettlementTypes
<1>5. PICK c \in 0..m : c = cursor /\ c + 1 \in 1..m
  <2>1. cursor \in 0..m /\ cursor < m
    BY <1>4, SettlementTypes DEF SettleRecord, Due
  <2> QED BY <2>1
<1>6. /\ \A time : Evaluated(time)' = Evaluated(time) /\ HeldAt(time)' = HeldAt(time)
      /\ Now' = Now /\ Funds' = Funds
      /\ \A r : Owed(r)' = Owed(r)
  BY <1>1 DEF Evaluated, HeldAt, Now, Funds, Owed
<1>7. HistoryKept'
  BY <1>1, <1>6 DEF Settlement, HistoryKept
<1>8. CursorKept'
  <2>1. ASSUME NEW i \in 1..(c + 1) PROVE evidence.records[i].time <= Now
    <3>1. CASE i = c + 1
      BY <1>2, <1>5, <3>1
    <3>2. CASE i # c + 1
      <4>1. i \in 1..cursor
        BY <1>5, <3>2
      <4> QED BY <4>1 DEF Settlement, CursorKept
    <3> QED BY <3>1, <3>2
  <2>2. ASSUME bar > 1, Evaluated(bars[bar - 1]), evidence.hasFunding,
               NEW i \in (c + 2)..m
        PROVE  evidence.records[i].time > bars[bar - 1]
    <3>1. i \in (cursor + 1)..Len(evidence.records)
      BY <1>4, <1>5
    <3> QED BY <1>2, <2>2, <3>1 DEF Settlement, CursorKept
  <2>3. cursor' = c + 1 /\ cursor' + 1 = c + 2
    BY <1>2, <1>5
  <2>4. phase' = "settle" /\ phase' \notin {"pass", "notify", "rest", "audit", "done"}
    BY <1>1, <1>2
  <2> QED BY <1>1, <1>4, <1>6, <2>1, <2>2, <2>3, <2>4 DEF CursorKept
<1>9. EntriesKept'
  <2> DEFINE numbers == {i \in 1..c : HeldAt(evidence.records[i].time).size # 0}
             next == {i \in 1..(c + 1) : HeldAt(evidence.records[i].time).size # 0}
             owed == [i \in DOMAIN evidence.records |-> Owed(evidence.records[i])]
  <2>1. Lists(funding, numbers, owed)
    BY <1>5 DEF Settlement, EntriesKept
  <2>2. EntriesKept' <=> Lists(funding', next, owed)
    <3>1. cursor' = c + 1
      BY <1>2, <1>5
    <3> QED BY <1>1, <1>6, <3>1 DEF EntriesKept, Lists
  <2>3. /\ HeldAt(record.time).size = position.size
        /\ position.size # 0 => HeldAt(record.time).trade = tradeId
    BY SettlesWhatWasHeld DEF Funds
  <2>4. evidence.records[c + 1] = record
    BY <1>5
  <2>5. next = IF position.size = 0 THEN numbers ELSE numbers \cup {c + 1}
    <3>1. \A i \in 1..(c + 1) : i \in 1..c \/ i = c + 1
      OBVIOUS
    <3>2. \A i \in 1..c : i \in 1..(c + 1)
      OBVIOUS
    <3>3. c + 1 \in 1..(c + 1) /\ c + 1 \notin 1..c
      OBVIOUS
    <3>4. HeldAt(evidence.records[c + 1].time).size = position.size
      BY <2>3, <2>4
    <3>5. ASSUME NEW i PROVE i \in next <=> i \in numbers \/ (i = c + 1 /\ position.size # 0)
      BY <3>1, <3>2, <3>3, <3>4, Zenon
    <3> HIDE DEF next, numbers
    <3> QED BY <3>5
  <2>6. CASE position.size = 0
    BY <1>3, <2>1, <2>2, <2>5, <2>6
  <2>7. CASE position.size # 0
    <3>1. e \in Entry
      <4>1. record.time \in Int /\ record.rate \in Int
        BY <1>4, <1>5, RecordTypes
      <4>2. position.size \in Int /\ tradeId \in Nat
        BY DEF TypeOK
      <4>3. amount \in Int
        <5>1. -position.size \in Int
          BY <4>2
        <5> HIDE DEF record
        <5> QED BY <4>1, <4>2, <5>1
      <4> HIDE DEF record, amount
      <4> QED BY <4>1, <4>2, <4>3 DEF Entry
    <3>2. owed[c + 1] = e
      <4>1. c + 1 \in DOMAIN evidence.records
        BY <1>4, <1>5, SettlementTypes
      <4>2. owed[c + 1] = Owed(record)
        BY <2>4, <4>1
      <4> HIDE DEF record
      <4> QED BY <2>3, <2>7, <4>2 DEF Owed
    <3>3. funding \in Seq(Entry) /\ numbers \in SUBSET (1..c) /\ c \in Nat
      BY DEF TypeOK, Entry
    <3> HIDE DEF numbers, owed, e
    <3>4. Lists(Append(funding, e), numbers \cup {c + 1}, owed)
      BY <2>1, <3>1, <3>2, <3>3, ListsNext, ZenonT(30)
    <3> QED BY <1>3, <2>2, <2>5, <2>7, <3>4
  <2> QED BY <2>6, <2>7
<1> QED BY <1>7, <1>8, <1>9 DEF Settlement

\* A bar ends, and is held.
LEMMA EndSettlement ==
  ASSUME TypeOK, Settlement, EndPass, bar > 0
  PROVE  Settlement'
<1> DEFINE e == [time |-> Now, size |-> position.size, trade |-> tradeId]
<1>1. /\ bars' = bars /\ evidence' = evidence /\ lane' = lane /\ evaluation' = evaluation
      /\ bar' = bar /\ cursor' = cursor /\ funding' = funding
      /\ position' = position /\ tradeId' = tradeId /\ ended' = ended
  BY DEF EndPass, inputs, settlement, money
<1>2. phase = "pass" /\ phase' = "notify" /\ held' = Append(held, e)
  BY DEF EndPass
<1>3. PICK L \in Nat : L = Len(held) /\ bar = L + 1
  <2>1. Len(held) = bar - 1 /\ Len(held) \in Nat /\ bar \in Nat
    BY <1>2, SettlementTypes DEF Settlement, HistoryKept
  <2> QED BY <2>1
<1>4. Now \in Int
  <2>1. bar \in 1..Len(bars) /\ bars \in Seq(Int)
    BY SettlementTypes
  <2> QED BY <2>1 DEF Now
<1>5. e \in Holding
  BY <1>4 DEF TypeOK, Holding
<1> HIDE DEF e
<1>6. PICK more : more = held'
  OBVIOUS
<1>7. /\ Len(more) = L + 1 /\ DOMAIN more = 1..(L + 1) /\ more[L + 1] = e /\ more # <<>>
      /\ DOMAIN held = 1..L /\ \A k \in 1..L : more[k] = held[k]
  BY <1>2, <1>3, <1>5, <1>6, SettlementTypes
<1>8. /\ Now' = Now /\ Funds' = Funds
      /\ \A time : Evaluated(time)' = Evaluated(time)
  BY <1>1 DEF Evaluated, Now, Funds
<1>9. e.time = Now /\ e.size = position.size /\ e.trade = tradeId
  BY DEF e
<1>10. HistoryKept'
  <2>1. ASSUME NEW k \in 1..(L + 1)
        PROVE  more[k].time = bars[k] /\ (more[k].size # 0 => Evaluated(bars[k]))
    <3>1. CASE k = L + 1
      <4>1. bars[k] = Now
        BY <1>3, <3>1 DEF Now
      <4>2. position.size # 0 => Evaluated(Now)
        BY DEF Settlement, HistoryKept
      <4> QED BY <1>7, <1>9, <3>1, <4>1, <4>2
    <3>2. CASE k # L + 1
      <4>1. k \in DOMAIN held /\ more[k] = held[k]
        BY <1>7, <3>2
      <4> QED BY <4>1 DEF Settlement, HistoryKept
    <3> QED BY <3>1, <3>2
  <2>2. \A k \in DOMAIN held' :
          held'[k].time = bars'[k] /\ (held'[k].size # 0 => Evaluated(bars[k])')
    BY <1>1, <1>6, <1>7, <1>8, <2>1
  <2>3. Len(held') = bar'
    BY <1>1, <1>3, <1>6, <1>7
  <2>4. held' # <<>> /\ position'.size = held'[Len(held')].size
        /\ tradeId' = held'[Len(held')].trade
    BY <1>1, <1>6, <1>7, <1>9
  <2>5. position'.size # 0 => bar' > 0 /\ Evaluated(Now)'
    BY <1>1, <1>8 DEF Settlement, HistoryKept
  <2> QED BY <1>2, <2>2, <2>3, <2>4, <2>5 DEF HistoryKept
<1>11. CursorKept'
  <2>1. /\ cursor # 0 => Funds
        /\ \A i \in 1..cursor : evidence.records[i].time <= Now
        /\ Funds => \A i \in (cursor + 1)..Len(evidence.records) : evidence.records[i].time > Now
    BY <1>2 DEF Settlement, CursorKept
  <2>2. phase' # "settle"
    BY <1>2
  <2> QED BY <1>1, <1>8, <2>1, <2>2 DEF CursorKept
<1>12. EntriesKept'
  <2> DEFINE numbers == {i \in 1..cursor : HeldAt(evidence.records[i].time).size # 0}
             owed == [i \in DOMAIN evidence.records |-> Owed(evidence.records[i])]
             numbersNow == {i \in 1..cursor : HeldAt(evidence.records[i].time)'.size # 0}
             owedNow == [i \in DOMAIN evidence.records |-> Owed(evidence.records[i])']
  <2>1. Lists(funding, numbers, owed)
    BY DEF Settlement, EntriesKept
  <2>2. ASSUME NEW i \in 1..cursor
        PROVE  /\ HeldAt(evidence.records[i].time)' = HeldAt(evidence.records[i].time)
               /\ Owed(evidence.records[i])' = Owed(evidence.records[i])
               /\ i \in DOMAIN evidence.records
    <3>1. i \in DOMAIN evidence.records /\ i \in 1..Len(evidence.records)
      <4>1. PICK m \in Nat : m = Len(evidence.records)
        BY SettlementTypes
      <4>2. PICK c \in 0..m : c = cursor
        BY <4>1, SettlementTypes
      <4>3. i \in 1..m
        BY <4>2
      <4> QED BY <4>1, <4>3, SettlementTypes
    <3>2. evidence.records[i].time <= Now
      BY DEF Settlement, CursorKept
    <3>3. PICK x \in Int : x = evidence.records[i].time
      BY <3>1, RecordTypes
    <3>4. ~(Now < x)
      BY <1>4, <3>2, <3>3
    <3>5. ~(e.time < evidence.records[i].time)
      BY <1>9, <3>3, <3>4
    <3>6. \A time : ~(e.time < time) => HeldAt(time)' = HeldAt(time)
      BY <1>2, <1>5, HeldAtStays
    <3>7. HeldAt(evidence.records[i].time)' = HeldAt(evidence.records[i].time)
      BY <1>1, <3>5, <3>6
    <3> QED BY <1>1, <3>1, <3>7 DEF Owed
  <2>3. EntriesKept' <=> Lists(funding, numbersNow, owedNow)
    BY <1>1 DEF EntriesKept, Lists
  <2>4. numbersNow = numbers
    BY <2>2
  <2>5. ASSUME NEW i \in numbers PROVE owedNow[i] = owed[i]
    BY <2>2
  <2> HIDE DEF numbers, numbersNow, owed, owedNow
  <2>6. Lists(funding, numbers, owedNow)
    BY <2>1, <2>5 DEF Lists
  <2> QED BY <2>3, <2>4, <2>6
<1> QED BY <1>10, <1>11, <1>12 DEF Settlement

\* Initially nothing is held and nothing settled.
LEMMA SettlementInit == Init => Settlement
<1> SUFFICES ASSUME Init PROVE Settlement
  OBVIOUS
<1>1. /\ phase = "admit" /\ bar = 0 /\ held = <<>> /\ position.size = 0 /\ ended = FALSE
      /\ cursor = 0 /\ funding = <<>>
  BY DEF Init, Flat
<1>2. DOMAIN held = {} /\ Len(held) = 0 /\ Len(funding) = 0
  BY <1>1
<1>3. HistoryKept
  BY <1>1, <1>2 DEF HistoryKept
<1>4. CursorKept
  BY <1>1 DEF CursorKept
<1>5. EntriesKept
  <2>1. {i \in 1..cursor : HeldAt(evidence.records[i].time).size # 0} = {}
    BY <1>1
  <2> QED BY <1>2, <2>1, FS_EmptySet DEF EntriesKept, Lists
<1> QED BY <1>3, <1>4, <1>5 DEF Settlement

\* Every step settles as it should.
LEMMA SettlementStep ==
  ASSUME Books, Books', Settlement, [Next]_vars
  PROVE  Settlement'
<1>1. TypeOK /\ Stages /\ Started /\ AdmittedRunsFinish'
  BY DEF Books, Stages
<1>2. phase \in {"settle", "pass"} => bar > 0
  BY <1>1 DEF Started
<1>3. phase = "settle" => lane = "realistic" /\ Evaluated(Now)
  BY <1>1 DEF Stages
<1>4. ASSUME Admit \/ Rest \/ Audit PROVE Settlement'
  <2>1. UNCHANGED <<inputs, bar, settlement, held>> /\ position' = position
        /\ tradeId' = tradeId /\ ended' = ended
    BY <1>4 DEF Admit, Rest, Audit, money
  <2>2. \/ phase = "admit" /\ phase' \in {"rest", "refused"}
        \/ phase = "notify" /\ phase' \in {"rest", "audit"}
        \/ phase = "audit" /\ phase' \in {"done", "unreconciled"}
    BY <1>4 DEF Admit, Rest, Audit
  <2> QED BY <1>1, <2>1, <2>2, QuietSettlement
<1>5. CASE OpenBar
  BY <1>1, <1>5, OpenSettlement
<1>6. CASE SettleRecord
  BY <1>1, <1>2, <1>3, <1>6, RecordSettlement DEF SettleRecord, Due, Funds
<1>7. CASE Survive
  <2>1. UNCHANGED <<inputs, bar, settlement, held>> /\ position' = position
        /\ tradeId' = tradeId /\ ended' = ended
    BY <1>7 DEF Survive, money
  <2>2. phase = "settle" /\ phase' = "pass" /\ ~Due
    BY <1>1, <1>7, SettlingIsCovered DEF Survive
  <2> QED BY <1>1, <2>1, <2>2, QuietSettlement
<1>8. ASSUME NEW u \in Units, Liquidate(u) PROVE Settlement'
  <2>1. UNCHANGED <<inputs, bar, settlement, held>> /\ ended' = ended
    BY <1>8 DEF Liquidate
  <2>2. phase = "settle" /\ phase' = "pass" /\ ~Due /\ position.size # 0
    BY <1>8 DEF Liquidate, Settled
  <2> QED BY <1>1, <2>1, <2>2, QuietSettlement
<1>9. ASSUME NEW n \in 1..MaxLots, NEW s \in {-1, 1}, NEW u \in Units,
             NEW a \in Adjustments, NEW c \in Commissions, Enter(s * n, u, a, c)
      PROVE  Settlement'
  <2>1. /\ UNCHANGED <<inputs, bar, settlement, held>> /\ ended' = ended
        /\ phase = "pass" /\ phase' = "pass" /\ bar > 1 /\ Evaluated(bars[bar - 1])
    BY <1>9 DEF Enter
  <2>2. bar > 0 /\ Evaluated(Now)
    <3>1. bar \in 1..Len(bars) /\ bar - 1 \in 1..Len(bars) /\ bar - 1 <= bar
      <4>1. PICK m \in Nat : m = Len(bars)
        BY SettlementTypes, <1>1
      <4>2. PICK b \in 0..m : b = bar
        BY <1>1, <4>1, SettlementTypes
      <4> QED BY <2>1, <4>1, <4>2
    <3>2. bars[bar - 1] <= bars[bar]
      BY <1>1, <3>1, BarsRise
    <3>3. PICK x \in Int : x = bars[bar - 1]
      BY <1>1, <3>1, SettlementTypes
    <3>4. PICK y \in Int : y = bars[bar]
      BY <1>1, <3>1, SettlementTypes
    <3>5. evaluation \in Int
      BY <1>1, BooksAssumption DEF TypeOK
    <3>6. y >= evaluation
      BY <2>1, <3>2, <3>3, <3>4, <3>5 DEF Evaluated
    <3> QED BY <1>2, <2>1, <3>4, <3>6 DEF Evaluated, Now
  <2> QED BY <1>1, <2>1, <2>2, QuietSettlement
<1>10. ASSUME NEW n \in 1..MaxLots, NEW u \in Units, NEW a \in Adjustments,
              NEW c \in Commissions, Exit(n, u, a, c)
       PROVE  Settlement'
  <2>1. /\ UNCHANGED <<inputs, bar, settlement, held>> /\ ended' = ended
        /\ phase = "pass" /\ phase' = "pass" /\ n <= Abs(position.size)
    BY <1>10 DEF Exit
  <2>2. position.size # 0
    BY <2>1 DEF Abs
  <2> QED BY <1>1, <2>1, <2>2, QuietSettlement
<1>11. CASE EndPass
  BY <1>1, <1>2, <1>11, EndSettlement DEF EndPass
<1>12. ASSUME NotifyOrder \/ NotifyTrade PROVE Settlement'
  <2>1. /\ UNCHANGED <<inputs, bar, settlement, held>> /\ position' = position
        /\ tradeId' = tradeId /\ ended' = ended
    BY <1>12, Zenon DEF NotifyOrder, NotifyTrade
  <2>2. phase = "notify" /\ phase' \in {"notify", "unreconciled"}
    BY <1>12, Zenon DEF NotifyOrder, NotifyTrade
  <2> QED BY <1>1, <2>1, <2>2, QuietSettlement
<1>13. CASE Terminate
  <2>1. /\ UNCHANGED <<inputs, bar, settlement, held>> /\ ended' = TRUE
        /\ phase = "rest" /\ phase' = "notify"
    BY <1>13 DEF Terminate
  <2>2. position'.size # 0 => position.size # 0
    BY <1>13 DEF Terminate, money
  <2> QED BY <1>1, <2>1, <2>2, QuietSettlement
<1>14. CASE UNCHANGED vars
  <2>1. UNCHANGED <<inputs, bar, settlement, held>> /\ position' = position
        /\ tradeId' = tradeId /\ ended' = ended /\ phase' = phase
    BY <1>14 DEF vars, money
  <2>2. phase = "settle" => ~ended
    BY DEF Settlement, HistoryKept
  <2> QED BY <1>1, <2>1, <2>2, QuietSettlement
<1> QED BY <1>4, <1>5, <1>6, <1>7, <1>8, <1>9, <1>10, <1>11, <1>12, <1>13, <1>14 DEF Next

\* What the settlement says once the records of the bar are settled.
LEMMA RecordsSettled == TypeOK /\ Settlement => FundingMatchesHoldings
<1> SUFFICES ASSUME TypeOK, Settlement, phase \in {"pass", "notify", "rest", "audit", "done"}
             PROVE  LET records == evidence.records
                        come == {i \in DOMAIN records :
                                   /\ lane = "realistic" /\ evidence.hasFunding /\ bar > 0
                                   /\ Evaluated(Now) /\ records[i].time <= Now}
                    IN /\ cursor = Cardinality(come)
                       /\ Lists(funding, {i \in come : HeldAt(records[i].time).size # 0},
                                [i \in DOMAIN records |-> Owed(records[i])])
  BY DEF FundingMatchesHoldings
<1> DEFINE come == {i \in DOMAIN evidence.records :
                      /\ lane = "realistic" /\ evidence.hasFunding /\ bar > 0
                      /\ Evaluated(Now) /\ evidence.records[i].time <= Now}
<1>1. PICK m \in Nat : m = Len(evidence.records) /\ DOMAIN evidence.records = 1..m
  BY SettlementTypes
<1>2. PICK c \in 0..m : c = cursor
  BY <1>1, SettlementTypes
<1>3. come = 1..c
  <2>1. CASE Funds
    <3>1. \A i \in 1..c : i \in 1..m /\ evidence.records[i].time <= Now
      BY <1>2 DEF Settlement, CursorKept
    <3>2. ASSUME NEW i \in 1..m, evidence.records[i].time <= Now PROVE i \in 1..c
      <4>1. SUFFICES ASSUME i \notin 1..c PROVE FALSE
        OBVIOUS
      <4>2. i \in (cursor + 1)..Len(evidence.records)
        BY <1>1, <1>2, <4>1
      <4>3. evidence.records[i].time > Now
        BY <2>1, <4>2 DEF Settlement, CursorKept
      <4>4. PICK x \in Int : x = evidence.records[i].time
        BY <1>1, RecordTypes
      <4>5. PICK y \in Int : y = Now
        <5>1. bar \in 1..Len(bars) /\ bars \in Seq(Int)
          BY <2>1, SettlementTypes DEF Funds
        <5> QED BY <5>1 DEF Now
      <4> QED BY <3>2, <4>3, <4>4, <4>5
    <3> QED BY <1>1, <2>1, <3>1, <3>2 DEF Funds
  <2>2. CASE ~Funds
    <3>1. c = 0
      BY <1>2, <2>2 DEF Settlement, CursorKept
    <3> QED BY <2>2, <3>1 DEF Funds
  <2> QED BY <2>1, <2>2
<1>4. cursor = Cardinality(come)
  <2>1. c \in Int /\ c >= 0 /\ 1 \in Int
    BY <1>2
  <2>2. Cardinality(1..c) = IF 1 > c THEN 0 ELSE c - 1 + 1
    BY <2>1, FS_Interval
  <2>3. Cardinality(1..c) = c
    BY <2>1, <2>2
  <2> HIDE DEF come
  <2> QED BY <1>2, <1>3, <2>3
<1>5. {i \in come : HeldAt(evidence.records[i].time).size # 0}
        = {i \in 1..cursor : HeldAt(evidence.records[i].time).size # 0}
  BY <1>2, <1>3
<1> HIDE DEF come
<1>6. Lists(funding, {i \in come : HeldAt(evidence.records[i].time).size # 0},
            [i \in DOMAIN evidence.records |-> Owed(evidence.records[i])])
  BY <1>5 DEF Settlement, EntriesKept
<1> QED BY <1>4, <1>6 DEF come

\* The funding entries are those of the records whose time has come, each once and for
\* the position held when the bar of that time began, whatever the orders and the
\* liquidation of that bar do to it (evidence_execution.py:36-74).
THEOREM FundingSettled == Spec => []FundingMatchesHoldings
<1>1. Init => Settlement
  BY SettlementInit
<1>2. Books /\ Books' /\ Settlement /\ [Next]_vars => Settlement'
  BY SettlementStep
<1>3. Books /\ Settlement => FundingMatchesHoldings
  BY RecordsSettled DEF Books
<1> QED BY <1>1, <1>2, <1>3, BooksKept, PTL DEF Spec
=============================================================================
