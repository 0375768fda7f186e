# Verification of koval-backtrader

TLA+ specifications of the backtest engine plugin in `src/koval_backtrader`, the
TLC runs that check them on small instances, and theorems checked by TLAPS.
Paths below are relative to the repository root.

The program is single-threaded. What makes it hard to test is not parallelism but
**re-entrancy and queues**: a broker, a strategy adapter and a durable journal each
keep their own idea of the same position, and learn of each other through
notifications, callbacks and records that arrive later, in between, or after a
restart. The properties are about those disagreements.

## 1. Inventory

| component | files | state | operations | hard behaviour |
|---|---|---|---|---|
| Native Spot session | `spot_session.py`, `spot_candles.py`, `spot_matching.py` | engine state, latch, freshness, stop reference, debited volume | candle, command, finish, export, restore | write-ahead journal; raising sink; crash between two records; nested walk of a candle |
| Spot runner | `spot_runner.py`, `spot_identity.py` | cursor over candles and commands | first pass, clock step, replay step, closing call | two sources for one list of candles; candles supplied again after a failure |
| Strategy adapter | `bt_adapter.py` | references to entry, stop, target, signal; pending setup; trade map; exit intent; drawdown flag; last bar decided on | `next`, `prenext`, `notify_order`, `notify_trade` | learns of fills only afterwards; replaces brackets; cancels that fail; called at moments of either feed |
| OCO patch | `oco_patch.py` | groups done in this bar, queue order | `next`, `cancel`, `_ococheck` | both legs executable in one bar; queue changed while iterated |
| Cost broker | `execution_broker.py` | fills, trade number | `_execute`, `_record_fill` | refusal without funds; trade number ahead of the adapter's |
| Realistic broker | `realistic_broker.py` | bar volume, exit bar, protection activation | `next`, `_execute`, `_match_protection`, `_liquidate` | partial fills, entry contained in its own bar, signals against protection |
| End of data | `terminal_execution.py` | – | `finalize_runtime` | executes and notifies outside a bar |
| Funding, ledger, account | `evidence_execution.py`, `execution_account.py`, `strategy_account.py` | funding cursor, ledger, account of the position | settle, record, follow a notification | one booking per settlement and per fill, by whichever party |
| Audit, trace, metrics, analyzers | `execution_audit.py`, `execution_trace.py`, `research_metrics.py`, `bt_analyzers.py` | closed trades, equity curve | sample, close, audit, report | reconciliation of several parties' books; one pass over the curve |
| Orchestration, validation | `backtest_runner.py`, `runtime_boundaries.py`, `execution_evidence.py` | boundaries of the run | admit, cut the feeds, run, report | what is validated must be what is used |
| Identities, configuration, values | `run_identity.py`, `market_identity.py`, `execution_config.py`, `numeric_values.py`, `position_exit.py`, `time_conversion.py` | none | parse, hash, convert | – |

Interaction. `backtest_runner.run` builds one of three Backtrader lanes:
`legacy_v1` (patched `BackBroker`), `ohlcv_fixed_v1` (`ExecutionCostBroker`) and
`ohlcv_realistic_v2` (`RealisticBroker`). In each bar the broker matches its
queue, then Backtrader delivers order notifications, then trade notifications,
then calls the strategy's `next`, then the analyzers; the adapter submits and
cancels through the same queue. With two feeds the same calls are made at every
moment either feed has a bar for. The native Spot lane does not use that broker at all: a clock feeds
candles and commands to a session, which asks `koval-engine`'s reducer for every
state change and writes each one to a host-supplied sink before it counts.
`koval-engine` and Backtrader are not in the repository; they are modelled from
how the code uses them and marked external.

What makes each part correct is listed in section 4 next to the run that checks
it, and the hazards behind it, with their lines, in `PROJECT.json`.

## 2. Modules and the code

**`SpotJournal`** is the abstract specification of the journal: `_persist`,
`_observe`, `export_state`, `restore_state`, with everything the engine decides
abstracted to the two flags that `restore_state` looks at (a candle in progress,
a pending observation). `store` is the durable store; it survives crashes and is
shared by all incarnations. A record's SHA-256 is its position in the store, so
equal contents have equal hashes and no two contents share one. A sink that
raises may or may not have stored its record. `Crash` builds a new session.

**`SpotSession`** is the session itself. Calls nest in the code (`on_candle` →
`_walk` → `_leg` → `_point` → `_match` → `_execution` → `_drain` …); in the model
the calls still to be made form the stack `todo`, each action takes its head, and
no action persists more than one record, so a failure can fall between any two.
`Reduce` stands for `advance_spot`: a recipe of entries, a replaceable target, a
stop and a closing order, enough to make every kind of order the session treats
differently. With `MayHalt` the engine may require reconciliation after any event.
The mapping onto `SpotJournal` (`Journal == INSTANCE ...`) drops everything but
position and flags.

**`BtAdapter`** holds what all Backtrader lanes share: queue and OCO groups
(`oco_patch.py`), recorded fills, the adapter's bracket, notifications and
decisions, and `finalize_runtime`. All of it is the record `s`; its fields name
the Python attributes (`_entry_order` is `entry`, `_execution_trade_id` is
`fillTrade`, `_next_trade_id` is `tradeId`). `phase` says how far the bar is.

**`OcoBroker`** adds the matching of `legacy_v1` and `ohlcv_fixed_v1`: the submit
check, whole fills, the guard against a second leg, the priority of legs that the
open has crossed. **`RealisticBroker`** adds `ohlcv_realistic_v2`: shared volume,
partial fills, protection in the bar of the entry, signals, delays, liquidation.
A turn of `_patched_next` is one action (`Turn`), a notification another.

**`PositionLife`** is the abstract specification of a position: it grows until its
first exit, then only shrinks, keeps its side until closed, and trades are numbered
one by one. `BtAdapter` has the mapping; `RealisticBroker` is checked, and `OcoBroker`
proved, to implement it.

**`SpotRunner`** is `run_spot`: a run starts from a checkpoint and journal suffix
(`StartRun`), looks at all candles before it writes (`Validate`), is driven by
Cerebro through the two loops of `Clock.next` (`Deliver`, `Leading`, `Trailing`) or
takes the steps of an explicit replay, closes the session and reports. A call of
the session is the list of states it makes durable; `Raise` ends the run at any of
them, and the host may start the next one.

**`FeedClock`** is the clock of a Backtrader run with one or two feeds: how
`prepare_runtime` and `run` cut the feeds, which moments there are, and what
broker, strategy and analyzers do at each. It has the guards against acting twice
on a bar, the window of higher-timeframe bars of `_inject_state`, the equity curve
and the metrics computed from it. Its broker is a single entry order on a bar's
low, enough to tell on which bar an order was matched; `BtAdapter` has the rest.

**`AccountBooks`** is the money: Backtrader's cash and position, the fills and
ledger of the cost brokers, `ExecutionAccount` following the notifications,
the trades of `TradeListAnalyzer`, `settle_funding`, `_liquidate` and
`build_execution_audit`. Its executions are any that `PositionLife` allows, in the
sizes each broker allows; when they happen is not its matter.

**`Totals`** is Python's `sum()` as a recursive function, used by the books and by the
volumes of a bar. The theorems and their proofs are in modules of their own, each
extending the module it is about: **`SpotJournalProofs`**;
**`SpotSessionInvariants`** (types, the stack of calls, terminal actions, rest
between calls) and **`SpotSessionProofs`** (refinement, volume, new lots) of `SpotSession`;
**`OcoBrokerProofs`** of `OcoBroker` and what it has of `BtAdapter`;
**`SpotRunnerProofs`** of `SpotRunner`; **`AccountBooksProofs`** of `AccountBooks`;
**`FeedClockProofs`** of `FeedClock`.
**`Induction`** has the lemmas on natural numbers and totals they share. The `MC*`
modules define instances.

Names of mutated definitions (`…Only`, `…Late`, `…Not` and so on) stand directly
before the definition they vary; each says which plausible mistake it makes. They
are not part of a specification.

## 3. Abstractions

- Prices are small integers, quantities lots. In the brokers' modules costs, ticks
  and margin arithmetic are left out; what depends on them is a choice: a funded or
  unfunded entry, the quantity a risk budget leaves (`RiskCaps`), a liquidation, the
  drawdown limit. `AccountBooks` has costs, margins and cash, in whole numbers: only
  prices whose average is whole occur. Rounding of floats
  (`realistic_broker.py:498-509`) is not covered anywhere.
- The strategy is a choice at every decision: any of the instance's setups, cancel,
  any acceptable replacement of stop and target, an exit signal. Filters and sizing
  only remove choices.
- Inputs are valid: candles in order, setups with the stop on the right side. The
  refusals of bad input keep no state.
- Instances respect what the configuration allows together: signal exits and
  setups without target exist for unlevered long Spot only, liquidation and shorts
  for perpetuals with a bracket.
- Notifications of Submitted and Accepted, and of cancelled exits, only feed the
  trace, and are not queued in the model.
- For the Spot session: the price band, costs and the report are left out. What
  `_validate_candle` refuses is in `SpotRunner`, as far as it depends on the session.
- In `FeedClock` the value of the account is any of a few after each match, since
  the curve's meaning does not depend on where the values come from. In
  `AccountBooks` whether the margin is exhausted is the engine's answer and a choice.
- Without runtime boundaries (`legacy_v1`) the end of the data does nothing; the
  endings are those of the lanes that have them.

## 4. Runs

| run | asks | bounds | distinct states |
|---|---|---|---|
| `spot_journal` | is every restored history one real history, is nothing ever ahead of the store | 4 records, any number of crashes | 103 k |
| `spot_walk` | do fills follow the bar's path, at their levels, with inventory that existed; does every call return | 3 bars of 5 candles, 2 entries, 2 target generations | 177 k |
| `spot_commands` | do terminal commands end trading, is every call left settled, does the final flatten use all the volume | 3 bars of 3 candles, market base order, minimum size 2, 1 host command, graph requests, halts | 2.0 M |
| `spot_recovery` | does the session implement the journal, is a bar's volume never overspent | 2 bars, 1 crash at any step, every checkpoint and suffix | 166 k |
| `spot_finish_recovery` | the first finding of section 6 | as above | violation |
| `spot_runs` | are candles taken once over runs that fail, are all steps executed, does a run return | 2 runs, every list of up to 4 steps, every prefix of the journal | 358 k |
| `oco` | is a bracket filled once, in the conservative order, and nothing left over | 4 bars, long, limit and short setups, refusals, stop, both policies | 285 k |
| `broker` | is inventory always protected under partial fills, replacements and signals; does a position keep its promises | 5 bars of 5 shapes, 2 setups of 3 lots | 719 k |
| `broker_endings` | the same with delays, risk cuts, liquidation, drawdown stop and the end anywhere; is every bar decided | 5 bars of 5 shapes, 3 setups, long and short, delays of 1 bar | 767 k |
| `clock` | is every primary bar sampled, decided on and matched once, on closed higher bars only; do the metrics describe the curve | 4 primary and 6 higher feeds, 3 contracts, 3 account values | 620 k |
| `clock_replay` | the second finding of section 6 | 3 primary bars with a gap, 3 higher ones | violation |
| `books` | do ledger, cash, account, trades and fills agree, is each settlement booked once, does every admitted run pass its audit | 3 bars, 2 lots, 2 executions a bar, 3 brokers, 5 sets of evidence | 1.6 M |

Why the bounds are enough for the cases meant: a trade takes three bars (decision,
fill, exit), so four or five bars hold a trade, its replacement and the start of
the next one, which is what stale setups, orphaned exits and trade numbers need.
Three lots are the fewest that allow an entry in parts, a partial exit and a
remainder. The candle shapes are one for each relation of open and range to the
two levels, and one without volume. Two entries and two target generations are the
fewest in which a fill of one order changes what another may do. One crash at any
step, with every choice of checkpoint and suffix, reaches every cut between two
records; `SpotJournal` takes any number of them. A higher bar of two primary ones
is the shortest that can be forming at a decision; the feeds of `clock` begin
before, with and after each other, have gaps in either, and run on past each
other's end, and five points are enough for two stretches under water. In `books`
two lots allow one partial entry and one partial exit, two executions a bar allow a
trade to open and close in it, and the evidence has a settlement before the first
bar, several due at the first one after the warm-up, and gaps at either end. Two
runs are what a failure and its recovery take.

What the properties say, by hazard:

- *Journal and runs*: `StoreIsChained`, `WriteAhead`, `RestoreDescends`,
  `NeverRewinds`, `FailedIsFrozen`, and `ImplementsJournal`, which carries the first
  three to the session; `CandlesOnce`, `RunsFollowTheirSteps`, `EveryRunReturns`.
- *Walk*: `FillsFollowThePath`, `NewLotsWait`, `LiquidityShared`,
  `FinalFlattenUsesUnusedVolume`, `TerminalFreezes`, `RestIsSettled`, `CallsReturn`.
- *Two parties' books*: `InventoryIsProtected` (what is held is covered by exactly
  one stop of its size, what is not held has no exit), `BooksAgree`,
  `TargetModeIsKept`, `ClosingAdmitsNoEntry`, `KeepsPositionLife`; in money
  `LedgerIsCash`, `FundingMatchesHoldings`, `AdmittedRunsFinish`.
- *Order within a bar*: `ExitsNeverOpen`, `OpenDecidesFirst`, `StopFirst`,
  `SignalBeforeRange`, `LiquidityShared`.
- *Two clocks*: `OncePerPrimaryBar`, `OrdersFillLater`, `WindowIsClosed`,
  `ReportDescribesCurve`.
- *Queues and endings*: `QueueHoldsTheLive`, `EveryBarIsDecided`, `NeverRaises`,
  `EndsByPolicy`.

`TypeOK` is checked by a run for `SpotJournal` only; for `SpotSession`, `OcoBroker` and
`AccountBooks` it is proved, and the other modules state one for the reader and for
proofs to come. `RecordBound` only matters to `ImplementsJournal`: it is the bound
`SpotJournal` puts on its store, and no run comes near the value it has there.

`CHECK_DEADLOCK FALSE` stands in the runs of the brokers, the clock and the books,
because a backtest ends, and in `spot_runs`, because the host may stop.
The Spot runs that check for deadlock show that a call in progress always has a
next step.

### Fairness

`SpotSession.FairSpec` says that a call in progress is continued, and
`RealisticBroker.FairSpec` that a bar that has begun is worked through: both are
plain sequential code that nothing can suspend. Neither obliges the host to call
or the feed to go on. As a step is enabled throughout, `[]<>~Running \/
[]<><<...>>_vars` is the weak fairness of the step, without the ENABLED that makes
TLC slow. `SpotRunner.FairSpec` is `WF_vars(Work)`, where `Work` is what `run_spot`
does by itself: neither starting a run nor raising is in it.

## 5. Theorems

Every theorem is proved by TLAPS for all values of the constants that satisfy the
named assumptions of its module; TLC evaluates those assumptions in every run.

### The journal (`SpotJournalProofs`)

From `RecordsAssumption` (the bound is a natural number) and `NoneAssumption`
(`None` is not a state):

- `TypeCorrect`: `Spec => []TypeOK`.
- `ChainCorrect`, `WriteAheadCorrect`: `Inv == StoreIsChained /\ WriteAhead` is
  inductive relative to `TypeOK`. The two need each other: a record continues the
  chain because the running state it was built from is in the store (`WriteAhead`),
  and a stored state stays what it was because records are only appended
  (`JournaledIsStable`).
- `RestoreCorrect`: `RestoreDescends` is not inductive: that the restored state
  descends from the checkpoint's says nothing of the record that comes next unless
  the checkpoint and the state loaded are themselves in the store. `RestoreInv ==
  LoadingInv /\ RestoreDescends` adds that a checkpoint exists while loading.
  Descent is stated by closed sets rather than by recursion, which the provers
  could not unfold.
- `NeverRewindsCorrect`, `FailedIsFrozenCorrect`: action properties of every step,
  from the type invariant.

`PersistStep` and `StoresStep` describe once what any step through `_persist` does;
every invariant step cites them.

### The session (`SpotSessionInvariants`, `SpotSessionProofs`)

From `RecipeAssumption` (finite sets of distinct order ids, amounts and prices are
natural numbers), `HostAssumption` (candles are records of natural numbers, not even
well formed ones; any policy, requests and bounds) and `NoneAssumption`:

- `Invariant`, `TypeCorrect`: `Inv == TypeOK /\ Control` is inductive. The types alone
  are not: `Advance` reduces the pending observation, which exists because the call
  `advance` is on the stack exactly while one is pending, and only as its head
  (`Nested`); and a latched session, or one that is loading, has no calls. The
  seventeen actions of a call come down to a few shapes (`StepShapes`): continue,
  persist, observe.
- `Refinement`: `Spec /\ [](Len(store) <= RecordBound) => ImplementsJournal`. Initial
  states map to initial states and every step to a step of `SpotJournal` or a stutter.
  The invariant it takes beyond `Inv` is `BodiesAreComplete`: a record keeps the
  contents of a session only where the journal would let a restore end, so what
  `StateOf` rebuilds is what the journal rebuilds. The hypothesis is needed because
  the abstract journal is bounded and the session is not; it is satisfied by every
  behaviour with that few records, for any `RecordBound`. With it the journal's
  theorems hold of the session through the mapping. That last step is by logic, not
  by a further proof here.
- `VolumeShared`: `Spec => []LiquidityShared`. Not inductive by itself: between the
  debit and the fill the volume debited exceeds the volume filled, and the fill is
  then made by a call that does not look again. `Budget` adds what is owed: the fill
  pending as an observation or waiting as a call on the stack is already debited
  (`Waiting`, `Due`), at most one is, and it is the next call (`FillsFirst`); and
  whatever a restore can find, in a checkpoint or a record, is within its allowance
  with nothing owed. The finding of section 6 is visible here: in the record of the
  debit nothing is owed any more.
- `LotsWait`: `Spec => []NewLotsWait`. A target is as large as the inventory it was
  placed for, and waits for the next bar; so what targets can still sell in this bar
  was there when it began. To say that of every moment, `Free` counts what the bar
  began with and no target has sold yet, and `Stocked` bounds by it what an active
  target asks for, and by the inventory what any exit asks for. That takes two things
  from elsewhere: that there is one exit at a time, since a replacement waits for its
  predecessor's reconciliation and the close for that of all, and that between the
  match and the fill nothing else can take what was promised (`Ready`: the event on its
  way is of an order still open and of no more than it has left), for which `Gates`
  below says that it is the next call. An entry filled within the bar adds to the
  inventory and not to `Free`; a close sells the inventory and takes nothing from it.
- `TerminalFrozen`: `Spec => TerminalFreezes`. A terminal action only requests
  cancels; they are acknowledged by calls still to come, and an order not yet
  acknowledged is still open. So the proof is about where these acknowledgements
  stand: `Gates` says that either no entry or target is open after a terminal action
  (`Settled`), or every call on the stack that can lead to a match has a `drain`
  before it (`Drained`), and that this holds however deep the point is at which the
  action was taken; that the call or observation that is next still fits the orders
  (`Fitting`); and that the close exists only to flatten, here and in every state a
  restore can find (`Sane`).
- `RestSettled`: `Spec => [](crashes = 0 => RestIsSettled)`. Every price, command,
  request, fill and expiry can leave orders to acknowledge, cancel or reconcile.
  `Settling` says that while some are left a `drain` is among the calls to come, and
  that one follows every call that can upset an order (`Answered`); a `drain` only
  returns when it has nothing left to do. The hypothesis is needed: `restore_state`
  accepts states between a command and its acknowledgement. Within one process it
  follows that a restore can only begin from the state a session starts with.

### The runner (`SpotRunnerProofs`)

From `StepsAssumption`: the clock is given candles and commands and at least one
candle, whose times rise (`_candle_run` refuses other kinds, `_validate_fixed_inputs`
an empty or unordered frame), and an explicit replay has no candles, which it has no
call for. The lists may have any length, and nothing is assumed of how a list of one
run relates to that of another.

- `CandlesTakenOnce`: `Spec => []CandlesOnce`. `History` says it of every state a
  restore can find, too: of those in the journal and of those the call in progress has
  still to write, and with it that the last candle of a log is the one the session
  compares the next with (`KnowsLast`), without which no step preserves it.
- `StepsFollowed`: `Spec => []RunsFollowTheirSteps`. Two things are to be shown of the
  two loops of `next`, and they need each other. That no candle is lost or overtaken
  is a matter of counting: between two calls as many candles lie behind the cursor as
  Cerebro has delivered, one less while the first loop looks for the current one, and
  at rest the cursor stands at the next one (`Clockwork`); so the first loop never
  meets the end of the list, and at the last delivery nothing is left. That no candle
  is refused where `on_candle` validates it again is because the first pass compared it
  with the candle which is the session's last one by then; for that the log is what the
  steps so far make of it (`Performed`), and a candle is seen before exactly if the run
  was restored to it (`SeenBefore`).

### The OCO lane (`OcoBrokerProofs`)

From `AdapterAssumption` (setups are records of their kind and finitely many, a quantity
is positive, a candle is made of integers, prices, levels and bars are otherwise
anything) and `OcoAssumption` (signal exits belong to the realistic broker). Nothing is
assumed of where the levels of a setup lie, or of the feed.

- `SituationsHold`: `Spec => []Inv`. What the runs ask of broker and adapter they ask at
  rest; in between, the two know different things, and what is true of one follows only
  from what the other has still to hear. `Inv` therefore names the *situations* the two
  can be in together: there is neither position nor order (`Flat`); an entry waits
  (`Entering`); it ended without a fill, which the adapter has not heard of (`GivenUp`);
  it filled, which the adapter has not heard of, so that there is a position without a
  bracket (`Bought`); the position has its bracket (`Protected`); an exit closed it,
  which the adapter has not heard of (`Sold`). Each says which orders wait, what
  notification is under way and what is booked. `Phases` and `AtEnd` say which of them a
  phase of the bar can meet, and `Queues` ties status, queue and group of every order
  together. Each operation of the broker (submit, cancel, fill, the end of a group) is
  a lemma; each action leads from situations to situations.
- `ExitsReduce`: `Spec => []ExitsNeverOpen`. It is what the guard is for, and not
  inductive: that the leg which fills second finds its group done needs that a leg
  waits only in an open group (`Whole`) and that the two are each other's siblings
  (`IsLeg`).
- `InventoryStaysProtected`, `BooksFollowBroker`, `TargetModeStays`,
  `QueuesHoldTheLive`, `PolicyEndsTheRun`, `TypeCorrect`: what the situations say of the
  moments these properties are about: nothing is under way when the adapter has heard
  everything (`SettledSituation`). TLC checks the second to fourth of them on
  `RealisticBroker`, which shares their definitions.
- `OpenComesFirst`: `Spec => []OpenDecidesFirst`. The property looks back at the fills
  of the bar, while the situations speak of the orders that wait now. `Remembered`
  therefore adds what the broker has recorded: `Recorded`, that fills and groups name
  orders placed before and that the bracket's group is its two legs; `OpenFirst`, the
  property of the fills so far; and `PassInOrder`, that the order whose turn it is has
  the least priority of all in the queue. `PassInOrder` holds because `Prioritized`
  sorts a bracket by `OpeningPriority` (`LeadsByPriority`) and a leg that the open has
  crossed is filled in its turn and never goes round (`LateAtTheOpen`). So when a leg is
  filled inside the bar, its sibling, still in the queue, was not crossed either.
- `KeepsLife`: `Spec => KeepsPositionLife`. `NextRemembers` shows of each step besides
  that it leaves the position alone (`Quiet`), fills an entry into no position
  (`Grown`) or closes it with one exit (`Emptied`); `StepOfLife` maps these to
  stuttering, `Grow` and `Close`. `Reduce` and `Contain` are for the fills in part of
  `RealisticBroker` and never happen here.

The queue is worked through by recursive functions over it and reordered by a `CHOOSE`
over ranks; the lemmas `WithoutLeaves`, `WithoutKeeps` and `PrioritizedBracket` say what
they leave.

### The books (`AccountBooksProofs`)

From `BooksAssumption` (capital, lots, fees and prices are whole numbers of the signs
the code's validation gives them):

- `TypeCorrect`: `Spec => []TypeOK`.
- `BooksKept`: the invariant `Books` is inductive. That the books agree whenever the
  run rests is not: within a bar each party knows something else. `Books` therefore
  states the sum for every moment, counting what is under way: the equity is what the
  fills tell (`FillsTell`), what the trades listed, the notice not yet delivered and
  the running trade tell (`TradesTell`), and what the ledger has (`LedgerKept`); the
  order notices not yet delivered make up the difference between position and account
  (`NoticesInform`); and `Stages` says what can be under way at which phase.
- `LedgerAgrees`: `Spec => []LedgerIsCash`; `RunsFinish`: `Spec =>
  []AdmittedRunsFinish`. The second says that the audit, which raises on any
  difference, never ends a run that was admitted.
- `FundingSettled`: `Spec => []FundingMatchesHoldings`. It needs `ChronologyAssumption`
  as well (`backtest_runner.py:103` and the check of the funding records), and the
  invariant `Settlement`. What was held at a record's time is not state of the code, so
  the model keeps the holdings at the end of every bar, and `HistoryKept` says that from
  there to the settlement of the next bar only notices are delivered. `CursorKept`
  says where the cursor is: no record before it is later than the bar, and, once the
  bar is settled, none behind it is not; at the first bar of the evaluation it catches
  up on the warm-up, when nothing was held. `EntriesKept` counts the entries up to the
  cursor in the middle of the loop, too.

### The clock (`FeedClockProofs`)

From `ClockAssumption`: the feeds rise, the primary one has a bar, a higher bar lasts
longer than a primary one, the strategy is shown at least one bar of history. Nothing
is assumed of gaps, of where the feeds start and end, or of how their bars align.

- `Invariant`: `Spec => []Clock`. *Once per bar* is true between two moments only.
  At the others the guard of each actor (`lastDecisionBar`, `lastPrimaryBar`, the
  time the realistic broker remembers) must say whether its turn on the current bar
  is over: either it names the bar and the log has it, or it does not and the log
  has all but this bar (`Decided`, `Sampled`, `Matched`). The clock moves only when
  all three are done, so that a new bar starts with its guards open and a moment of the
  higher timeframe with its guards closed.
- A decision is made when no bar later than its own has been delivered, and every
  higher bar up to it has (`InStep`). Hence the bars delivered but for those skipped
  are the closed ones of the whole feed (lemma `ClosedBars`), and what `Window` cuts
  from them is what a decision may be shown (`WindowIsVisible`).
- `OnceEach`: `Spec => []OncePerPrimaryBar`; `WindowsClosed`: `Spec =>
  []WindowIsClosed`; `RealisticFillsLate`: `Spec => []RealisticFillsLater`, which is
  `OrdersFillLater` for `ohlcv_realistic_v2`. That broker remembers the time of the
  bar it matched on: it matches once on a bar, before the strategy decides on it
  (`Resting`, `Matched`). For `ohlcv_fixed_v1` it is false (section 6).

### Lemmas used by several proofs

`Induction` gets induction over the natural numbers from the library's theorem that
their order is well founded. The library's own induction theorems take a predicate as
a parameter, which no installed prover can instantiate; these take a set instead. With
it the recursive function `Total` can be reasoned about: it is an integer
(`TotalType`), and appending adds the last amount. `GreatestElement` and
`NeverDecreases` are what the proofs about time need: the last of some moments, and
order over many steps from the order of each.

### Only model-checked

- Liveness (`CallsReturn`, `EveryBarIsDecided`, `EveryRunReturns`): needs fairness and
  ENABLED.
- Of `SpotSession`: `FillsFollowThePath`. `FinalFlattenUsesUnusedVolume` is false
  after a crash (section 6).
- Of `FeedClock`: `ReportDescribesCurve`. What the scans of the metrics compute for
  every curve would be an induction over each of them.
- Everything about `RealisticBroker`, its refinement of `PositionLife` included: a trade of
  several fills has many more situations than the six of `OcoBroker`. What the two
  share, the theorems about `OcoBroker` show for whole fills only.

## 6. Findings

**A debit without its fill.** `finish()` runs between candles, so the record of the
final volume debit (`spot_session.py:136`) already satisfies `restore_state`'s test
for a complete state (`:236`). If the process dies, or the sink raises, between that
record and the execution's, the session restored from the complete committed suffix
has the final bar's volume debited without a fill, and its own `finish()` then
closes less than it could, or nothing. `docs/spot-multi-order.md:107` describes the
final flatten in terms of unused volume, and a test
(`tests/test_spot_multi_order.py:200`) has recovery match the uninterrupted session;
the run `spot_commands` shows that an uninterrupted finish keeps the property,
`spot_finish_recovery` that a recovered one need not. `LiquidityShared` still holds:
volume is lost, never spent twice.

**A bar matched again.** `run` cuts the higher timeframe at the last primary bar, so
that it cannot "replay its last candle as fresh liquidity"
(`backtest_runner.py:319`). A higher bar that opens inside a gap of the primary feed
has the same effect in the middle of the run: the legacy and `ohlcv_fixed_v1`
brokers make a pass on the primary bar of before, and a limit or stop entry decided
at its close executes within its range, against `docs/execution-model.md:244` ("New
strategy entries become eligible on a later primary bar"). `ohlcv_realistic_v2`
refuses gaps and has a guard besides (`realistic_broker.py:60`). The run
`clock_replay` has the shortest case; `clock` shows, and `OnceEach` proves, that
decisions and equity keep to once per bar even then, and that the realistic broker
does.

Observations that are not findings: the guard on `_exit_bar` for entries
(`realistic_broker.py:395`) repeats, wherever an exit took the bar's volume, what
the shared volume already says; with volume 0 and both levels touched, `_match_protection` is
called for both legs and appends the same ambiguity twice in one bar.

## 7. Not modelled, and the plan

Modelled, in the order of what a defect would cost: `SpotJournal`, `SpotSession`;
`BtAdapter`, `RealisticBroker`, `PositionLife`; `OcoBroker`; `AccountBooks`;
`FeedClock`; `SpotRunner`.

What is left of the modelled components is arithmetic over floats (risk, margin,
sizing, ticks, excursions), the payloads of events and of the trace, and the
document a run returns. Without state of their own, and not modelled: parsing,
hashing and conversion (`run_identity.py`, `market_identity.py`,
`execution_config.py`, `numeric_values.py`, `position_exit.py`,
`time_conversion.py`), scripts and packaging. Two hazards have no property: the
bound of 512 turns of the acknowledgement loop, which no small instance reaches, and
the rounding of quantities.

The next theorem worth having: of `RealisticBroker`, `LiquidityShared`.

## 8. Running

`tlc -config Broker.cfg MCRealisticBroker`, and likewise with each `.cfg` and the
module named in `PROJECT.json`; `tlapm M.tla` for each of the modules of section 5 whose name
is `Induction` or ends in `Proofs` or `Invariants`.
