----------------------------- MODULE FeedClock -----------------------------
(***************************************************************************)
(* The clock of a run with a primary and a higher-timeframe feed.          *)
(* Backtrader advances to the next moment any feed has a bar for, calls    *)
(* the broker, then the strategy, then the analyzers.  A moment that only  *)
(* the higher timeframe has makes the same calls again on the primary bar  *)
(* of before: who does not check that the bar is new acts on it twice.     *)
(*                                                                         *)
(* Bars are numbered by their place in the feed and carry the time they    *)
(* open at.  An account is the value the broker reports, and the orders of *)
(* the strategy are one entry, at the market or at a price: BtAdapter has  *)
(* the others.                                                             *)
(***************************************************************************)
EXTENDS Integers, SequencesExt, FiniteSetsExt

CONSTANTS
  Lanes,          \* brokers of a run: "fixed", "realistic"
  Step,           \* duration of a primary bar
  HigherStep,     \* duration of a higher-timeframe bar
  HistoryBars,    \* bars of history the strategy is shown
  PrimaryFeeds,   \* opening times of the primary bars a run may be given
  HigherFeeds,    \* those of the higher timeframe, <<>> for a single feed
  Contracts,      \* runtime contracts, NoContract for a run without one
  NoContract,
  Levels,         \* prices of orders, and lows of bars
  Values          \* values of the account

Rising(feed) == \A i \in 1..Len(feed) - 1 : feed[i] < feed[i + 1]

ASSUME ClockAssumption ==
  /\ Lanes \subseteq {"fixed", "realistic"}
  /\ Step \in Nat \ {0} /\ HistoryBars \in Nat \ {0}
  /\ HigherStep \in Nat \ {0} /\ HigherStep % Step = 0 /\ HigherStep > Step
  /\ PrimaryFeeds \subseteq Seq(Nat) \ {<<>>} /\ \A f \in PrimaryFeeds : Rising(f)
  /\ HigherFeeds \subseteq Seq(Nat) /\ \A f \in HigherFeeds : Rising(f)
  /\ NoContract \notin [warmup : Nat, evaluation : Nat, end : Nat]
  /\ Contracts \subseteq {NoContract} \cup
                         [warmup : Nat, evaluation : Nat, end : Nat]
  /\ Levels \subseteq Nat /\ Values \subseteq Int

VARIABLES
  phase,      \* what Backtrader does next
  lane, contract, \* broker and boundaries of the run
  primary,    \* opening times of the bars the run consumes
  higher,
  twoFeeds,   \* whether the run was given a higher timeframe
  p, h,       \* bars delivered so far
  low,        \* low of the current primary bar
  value,      \* broker.getvalue()
  order,      \* the resting entry, and the bar it was decided on
  ddLimitHit, \* the strategy reached its drawdown limit
  lastPrimaryTimestamp, lastDecisionBar, lastPrimaryBar, \* of broker, strategy
                                                         \* and analyzer
  matched,    \* bars the broker matched orders on
  decisions,  \* bars decided on, with the window of higher bars shown
  fills,      \* executions: the bar of the decision and of the match
  equity,     \* the equity curve
  report      \* what the metrics say of it

inputs == <<lane, contract, primary, higher, twoFeeds>>
books == <<value, order, matched, fills>>
guards == <<lastPrimaryTimestamp, lastDecisionBar, lastPrimaryBar>>
vars == <<phase, inputs, p, h, low, books, ddLimitHit, guards, decisions,
          equity, report>>

NoOrder == [bar |-> 0, type |-> "none", level |-> 0]
AtMarket(b) == [bar |-> b, type |-> "market", level |-> 0]
AtPrice(b, l) == [bar |-> b, type |-> "limit", level |-> l]
NoWindow == <<>>
NoReport == [bars |-> 0, under |-> 0, longest |-> 0,
             drawdown |-> [loss |-> 0, peak |-> 1]]

(* ---- What the run consumes ------------------------------------------- *)

\* The bars of a feed that open before a time: as a feed rises, its first ones.
Before(feed, end) == SubSeq(feed, 1, Cardinality({i \in DOMAIN feed : feed[i] < end}))

\* prepare_runtime admits a contract whose interval the primary feed covers
\* without a gap.
Covers(feed, c) ==
  LET consumed == Before(feed, c.end)
  IN /\ consumed # <<>>
     /\ Len(consumed) = (c.end - c.warmup) \div Step
     /\ Head(consumed) = c.warmup
     /\ \A i \in 1..Len(consumed) - 1 : consumed[i + 1] - consumed[i] = Step

Consumed(feed) == IF contract = NoContract THEN feed ELSE Before(feed, contract.end)

\* ohlcv_realistic_v2 takes aligned streams without a gap only.
Contiguous(feed, step) ==
  /\ \A i \in DOMAIN feed : feed[i] % step = 0
  /\ \A i \in 1..Len(feed) - 1 : feed[i + 1] - feed[i] = step

Admitted ==
  /\ contract # NoContract => Covers(primary, contract)
  /\ lane = "realistic" => /\ Contiguous(Consumed(primary), Step)
                           /\ Contiguous(Consumed(higher), HigherStep)

\* The run cuts the higher timeframe at the opening of the last primary bar,
\* and refuses to start if nothing is left of it.
Prepare ==
  /\ phase = "prepare"
  /\ LET bars == Consumed(primary)
         within == Before(Consumed(higher), Last(bars) + 1)
     IN IF ~Admitted \/ (twoFeeds /\ within = <<>>)
        THEN phase' = "refused" /\ UNCHANGED <<primary, higher>>
        ELSE phase' = "clock" /\ primary' = bars /\ higher' = within
  /\ UNCHANGED <<lane, contract, twoFeeds, p, h, low, books, ddLimitHit, guards,
                 decisions, equity, report>>

(* ---- The clock ------------------------------------------------------- *)

Upcoming == {primary[i] : i \in {p + 1} \cap DOMAIN primary} \cup
            {higher[i] : i \in {h + 1} \cap DOMAIN higher}

\* Every feed whose next bar is due at the next moment advances by it.
Delivered(feed, n, now) ==
  IF n + 1 \in DOMAIN feed /\ feed[n + 1] <= now THEN n + 1 ELSE n

\* A drawdown limit that was reached stops the clock.
Ended == Upcoming = {} \/ ddLimitHit

Advance ==
  /\ phase = "clock" /\ ~Ended
  /\ LET now == Min(Upcoming)
     IN /\ p' = Delivered(primary, p, now)
        /\ h' = Delivered(higher, h, now)
  /\ IF p' = p THEN low' = low ELSE low' \in Levels
  /\ phase' = "broker"
  /\ UNCHANGED <<inputs, books, ddLimitHit, guards, decisions, equity, report>>

(* ---- The broker ------------------------------------------------------ *)

Evaluates(time) == contract = NoContract \/ time >= contract.evaluation

\* Backtrader executes a limit entry when the bar reaches its price, and an
\* entry at the market on a bar later than its own.
Reached == CASE order.type = "none" -> FALSE
             [] order.type = "market" -> p > order.bar
             [] order.type = "limit" -> low <= order.level

\* A pass over the queue, on whatever bar is the current one.
Match ==
  /\ matched' = Append(matched, p)
  /\ IF Reached
     THEN /\ fills' = Append(fills, [decided |-> order.bar, bar |-> p])
          /\ order' = NoOrder
     ELSE UNCHANGED <<fills, order>>

\* ohlcv_fixed_v1 runs the pass at every moment.
FixedNext ==
  /\ lane = "fixed"
  /\ IF p = 0 THEN UNCHANGED <<matched, fills, order>> ELSE Match
  /\ UNCHANGED lastPrimaryTimestamp

\* ohlcv_realistic_v2 passes over a bar once, and over none of the warm-up.
RealisticNext ==
  /\ lane = "realistic"
  /\ IF p = 0 \/ primary[p] = lastPrimaryTimestamp
     THEN UNCHANGED <<lastPrimaryTimestamp, matched, fills, order>>
     ELSE /\ lastPrimaryTimestamp' = primary[p]
          /\ IF Evaluates(primary[p]) THEN Match
                                      ELSE UNCHANGED <<matched, fills, order>>

\* Once something was bought the account is worth something else after a bar or an
\* execution, and a closed trade may take the strategy to its drawdown limit.
BrokerNext ==
  /\ phase = "broker"
  /\ FixedNext \/ RealisticNext
  /\ IF matched' = matched \/ fills' = <<>> THEN UNCHANGED <<value, ddLimitHit>>
     ELSE value' \in Values /\ ddLimitHit' \in BOOLEAN
  /\ phase' = "strategy"
  /\ UNCHANGED <<inputs, p, h, low, lastDecisionBar, lastPrimaryBar, decisions,
                 equity, report>>

(* ---- The strategy ---------------------------------------------------- *)

InEvaluation == Evaluates(primary[p])

Smaller(a, b) == IF a < b THEN a ELSE b

\* Mutant of Skip: takes a bar that closes at the decision for a forming one.
SkipClosing ==
  Min({k \in 0..h : k = h \/ higher[h - k] + HigherStep < primary[p] + Step})

\* How many of the newest higher bars are skipped: those that may still be forming
\* at the decision, up to the first closed one.
Skip == Min({k \in 0..h : k = h \/ higher[h - k] + HigherStep <= primary[p] + Step})

\* Under a contract the window ends where the window of primary bars does: bars are
\* dropped from its far end until one lies inside.
Trimmed(shown, skip) ==
  LET start == primary[p - Smaller(HistoryBars, p) + 1]
  IN IF contract = NoContract THEN shown
     ELSE Max({m \in 0..shown : m = 0 \/ higher[h - (skip + m - 1)] >= start})

\* _inject_state: the first and the last higher bar the strategy sees.
Window ==
  LET skip == Skip
      m == Trimmed(Smaller(HistoryBars, h - skip), skip)
  IN IF h > 0 /\ m > 0 THEN <<h - skip - m + 1, h - skip>> ELSE NoWindow

\* The entry gate of _try_enter.
Available == contract = NoContract \/ ~twoFeeds \/ Window # NoWindow

Place ==
  \/ UNCHANGED order
  \/ order = NoOrder /\ Available
       /\ order' \in {AtMarket(p)} \cup {AtPrice(p, l) : l \in Levels}
  \/ order # NoOrder /\ order' = NoOrder

\* Mutant of Decide: does not remember the bar it has decided on.
DecideEveryMoment ==
  /\ phase = "strategy"
  /\ lastDecisionBar' = p
  /\ IF p # 0 /\ InEvaluation /\ ~ddLimitHit
     THEN decisions' = Append(decisions, [bar |-> p, window |-> Window]) /\ Place
     ELSE UNCHANGED <<decisions, order>>
  /\ phase' = "analyzers"
  /\ UNCHANGED <<inputs, p, h, low, value, matched, fills, ddLimitHit,
                 lastPrimaryTimestamp, lastPrimaryBar, equity, report>>

Decide ==
  /\ phase = "strategy"
  /\ IF p = 0 \/ lastDecisionBar = p
     THEN UNCHANGED <<lastDecisionBar, decisions, order>>
     ELSE /\ lastDecisionBar' = p
          /\ IF InEvaluation /\ ~ddLimitHit
             THEN /\ decisions' = Append(decisions, [bar |-> p, window |-> Window])
                  /\ Place
             ELSE UNCHANGED <<decisions, order>>
  /\ phase' = "analyzers"
  /\ UNCHANGED <<inputs, p, h, low, value, matched, fills, ddLimitHit,
                 lastPrimaryTimestamp, lastPrimaryBar, equity, report>>

(* ---- The analyzers and the report ------------------------------------ *)

Sample ==
  /\ phase = "analyzers"
  /\ IF p = 0 \/ ~InEvaluation \/ lastPrimaryBar = p
     THEN UNCHANGED <<lastPrimaryBar, equity>>
     ELSE /\ lastPrimaryBar' = p
          /\ equity' = Append(equity, [bar |-> p, value |-> value])
  /\ phase' = "clock"
  /\ UNCHANGED <<inputs, p, h, low, books, ddLimitHit, lastPrimaryTimestamp,
                 lastDecisionBar, decisions, report>>

\* The end of the data may close the position; the analyzer then writes the
\* last point of the curve again.
Stop ==
  /\ phase = "clock" /\ Ended
  /\ value' \in IF contract = NoContract THEN {value} ELSE Values
  /\ equity' = IF equity = <<>> THEN equity
               ELSE [equity EXCEPT ![Len(equity)].value = value']
  /\ order' = IF contract = NoContract THEN order ELSE NoOrder
  /\ phase' = "report"
  /\ UNCHANGED <<inputs, p, h, low, matched, fills, ddLimitHit, guards,
                 decisions, report>>

\* Mutant of UnderWater: a recovery to the very peak does not end the stretch.
UnderWaterAtPeak(curve) ==
  LET scan[i \in 0..Len(curve)] ==
        IF i = 0 THEN [peak |-> Head(curve).value, under |-> 0, longest |-> 0, current |-> 0]
        ELSE LET s == scan[i - 1]
                 point == curve[i].value
                 stretch == s.current + 1
             IN IF point > s.peak THEN [s EXCEPT !.peak = point, !.current = 0]
                ELSE [s EXCEPT !.under = @ + 1, !.current = stretch,
                               !.longest = IF stretch > @ THEN stretch ELSE @]
  IN scan[Len(curve)]

\* time_under_water, one point after the other.
UnderWater(curve) ==
  LET scan[i \in 0..Len(curve)] ==
        IF i = 0 THEN [peak |-> Head(curve).value, under |-> 0, longest |-> 0, current |-> 0]
        ELSE LET s == scan[i - 1]
                 point == curve[i].value
                 stretch == s.current + 1
             IN IF point >= s.peak THEN [s EXCEPT !.peak = point, !.current = 0]
                ELSE [s EXCEPT !.under = @ + 1, !.current = stretch,
                               !.longest = IF stretch > @ THEN stretch ELSE @]
  IN scan[Len(curve)]

\* A decline as a fraction of its peak: a is deeper than b.
Deeper(a, b) == a.loss * b.peak > b.loss * a.peak

\* _max_drawdown.
MaxDrawdown(curve) ==
  LET scan[i \in 0..Len(curve)] ==
        IF i = 0 THEN [peak |-> 0, worst |-> NoReport.drawdown]
        ELSE LET s == scan[i - 1]
                 peak == IF curve[i].value > s.peak THEN curve[i].value ELSE s.peak
                 decline == [loss |-> peak - curve[i].value, peak |-> peak]
             IN [peak |-> peak,
                 worst |-> IF peak > 0 /\ Deeper(decline, s.worst)
                           THEN decline ELSE s.worst]
  IN scan[Len(curve)].worst

Report ==
  /\ phase = "report"
  /\ report' = IF equity = <<>> THEN NoReport
               ELSE [bars |-> Len(equity), under |-> UnderWater(equity).under,
                     longest |-> UnderWater(equity).longest,
                     drawdown |-> MaxDrawdown(equity)]
  /\ phase' = "done"
  /\ UNCHANGED <<inputs, p, h, low, books, ddLimitHit, guards, decisions, equity>>

(* ---- The run --------------------------------------------------------- *)

Init ==
  /\ phase = "prepare"
  /\ lane \in Lanes /\ contract \in Contracts
  /\ primary \in PrimaryFeeds /\ higher \in HigherFeeds
  /\ twoFeeds = (higher # <<>>)
  /\ p = 0 /\ h = 0 /\ low \in Levels /\ value \in Values
  /\ order = NoOrder /\ ddLimitHit = FALSE
  /\ lastPrimaryTimestamp = -1 /\ lastDecisionBar = 0 /\ lastPrimaryBar = 0
  /\ matched = <<>> /\ decisions = <<>> /\ fills = <<>> /\ equity = <<>>
  /\ report = NoReport

Next == Prepare \/ Advance \/ BrokerNext \/ Decide \/ Sample \/ Stop \/ Report

Spec == Init /\ [][Next]_vars

Points == [bar : Nat, value : Values]

TypeOK ==
  /\ phase \in {"prepare", "refused", "clock", "broker", "strategy",
                "analyzers", "report", "done"}
  /\ lane \in Lanes /\ contract \in Contracts /\ twoFeeds \in BOOLEAN
  /\ primary \in Seq(Nat) /\ higher \in Seq(Nat)
  /\ p \in 0..Len(primary) /\ h \in 0..Len(higher)
  /\ low \in Levels /\ value \in Values /\ ddLimitHit \in BOOLEAN
  /\ order \in {NoOrder} \cup [bar : Nat \ {0}, type : {"market", "limit"}, level : Levels \cup {0}]
  /\ lastPrimaryTimestamp \in Nat \cup {-1}
  /\ lastDecisionBar \in 0..p /\ lastPrimaryBar \in 0..p
  /\ matched \in Seq(Nat) /\ fills \in Seq([decided : Nat, bar : Nat])
  /\ decisions \in Seq([bar : Nat, window : Seq(Int)])
  /\ equity \in Seq(Points)

(* ---- Properties ------------------------------------------------------ *)

\* The primary bars delivered so far that are part of the evaluation.
Due == {b \in 1..p : Evaluates(primary[b])}

\* A log names these bars, each once and in order.
Lists(log, due) ==
  /\ \A i \in DOMAIN log : log[i] \in due
  /\ \A b \in due : \E i \in DOMAIN log : log[i] = b
  /\ \A i, j \in DOMAIN log : i < j => log[i] < log[j]

BarsOf(log) == [i \in DOMAIN log |-> log[i].bar]

\* Between two moments the equity curve has a point for every primary bar of the
\* evaluation, once and in order; the strategy has decided on each, but for the one
\* that reached its drawdown limit, and the realistic broker has matched orders on
\* each.  Moments of the higher timeframe, gaps in either feed, late or early starts
\* of the second feed and the warm-up change none of this (bt_adapter.py:279, 377,
\* bt_analyzers.py:114; docs/execution-model.md:245, "Equity and decisions are
\* recorded once per primary bar").
OncePerPrimaryBar ==
  phase \in {"clock", "report", "done"} =>
    /\ Lists(BarsOf(equity), Due)
    /\ Lists(BarsOf(decisions), Due) \/ (ddLimitHit /\ Lists(BarsOf(decisions), Due \ {p}))
    /\ lane = "realistic" => Lists(matched, Due)

\* An entry executes on a bar that comes after the one it was decided on: a
\* decision is made at the close of its bar, whose range is then known
\* (docs/execution-model.md:244, "New strategy entries become eligible on a
\* later primary bar").
OrdersFillLater == \A i \in DOMAIN fills : fills[i].bar > fills[i].decided

Closed(b) == {i \in DOMAIN higher : higher[i] + HigherStep <= primary[b] + Step}

\* What a decision on bar b may be shown, of the whole feed, whether or not
\* the clock has delivered it: the newest closed bars, under a contract those
\* that lie inside the window of primary bars.
Visible(b) ==
  {i \in Closed(b) :
     /\ Cardinality({j \in Closed(b) : j > i}) < HistoryBars
     /\ \/ contract = NoContract
        \/ \E first \in {1, b - HistoryBars + 1} \cap 1..b :
             /\ first = 1 => b <= HistoryBars
             /\ higher[i] >= primary[first]}

\* Every decision saw exactly these higher-timeframe bars: none that was still
\* forming, none too few, none from before the window (bt_adapter.py:229-274).
WindowIsClosed ==
  \A i \in DOMAIN decisions :
    LET d == decisions[i]
    IN Visible(d.bar) = IF d.window = NoWindow THEN {}
                        ELSE d.window[1]..d.window[2]

\* The points of the curve that lie below an earlier one.
Below == {j \in DOMAIN equity : \E i \in 1..j : equity[i].value > equity[j].value}

Decline(i, j) == [loss |-> equity[i].value - equity[j].value, peak |-> equity[i].value]

\* The report of a finished run says of the curve what its words mean, however
\* the one pass over the points comes to it: how many points lie below an
\* earlier one, the longest run of such points, the deepest decline from a
\* point to a later one.  The curve ends at the value the run ends with
\* (research_metrics.py:40-61, backtest_runner.py:141-150,
\* bt_analyzers.py:128-131).
ReportDescribesCurve ==
  phase = "done" /\ equity # <<>> =>
    /\ Last(equity).value = value
    /\ report.bars = Cardinality(Due)
    /\ report.under = Cardinality(Below)
    /\ report.longest = Max({0} \cup {n \in 1..Len(equity) :
          \E a \in DOMAIN equity : a..a + n - 1 \subseteq Below})
    /\ \A j \in DOMAIN equity, i \in 1..Len(equity) :
         i <= j /\ equity[i].value > 0 => ~Deeper(Decline(i, j), report.drawdown)
    /\ \/ report.drawdown.loss = 0
       \/ \E j \in DOMAIN equity : \E i \in 1..j : Decline(i, j) = report.drawdown

=============================================================================
