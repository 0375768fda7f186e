----------------------------- MODULE SpotRunner -----------------------------
(***************************************************************************)
(* run_spot: one run feeds a list of steps to a session and may fail on    *)
(* the way; the host then starts another run, from a checkpoint and what   *)
(* the journal holds beyond it, and supplies candles again that the        *)
(* session may have seen already.                                          *)
(*                                                                         *)
(* Cerebro is the clock: it calls next once for every candle of the feed,  *)
(* and next has to find the step of that candle among the commands.  What  *)
(* a candle or a command does inside the session is SpotSession; here a    *)
(* call is the sequence of states it makes durable.                        *)
(***************************************************************************)
EXTENDS Integers, Sequences, SequencesExt, FiniteSets, FiniteSetsExt

CONSTANTS
  StepLists,   \* step lists of a host that drives the session by candles
  Replays,     \* step lists of an explicit replay
  End,         \* the evaluation ends before this time
  MaxRuns,
  NoCandle

\* The command finish gives to the session.
EndOfData == [kind |-> "command", name |-> "end-of-data"]

Candles == [time : Nat, content : Nat]   \* content: the other five values
Steps == [kind : {"candle"}, candle : Candles]
         \cup [kind : {"command", "restore", "request", "observation"}, name : STRING]
         \cup {EndOfData}

IsCandle(step) == step.kind = "candle"

\* The places of the candles in a list, and of those before a place.
Rows(list) == {i \in DOMAIN list : IsCandle(list[i])}
Before(list, i) == {j \in Rows(list) : j < i}

\* The clock takes candles and commands, and a feed has candles, whose times rise
\* (_candle_run, _validate_fixed_inputs).  Candles reach a session through on_candle,
\* which an explicit replay does not call.
ASSUME StepsAssumption ==
  /\ StepLists \subseteq Seq(Steps) /\ Replays \subseteq Seq(Steps)
  /\ \A list \in StepLists :
        /\ Rows(list) # {}
        /\ \A i \in DOMAIN list : list[i].kind \in {"candle", "command"}
        /\ \A i, j \in Rows(list) : i < j => list[i].candle.time < list[j].candle.time
  /\ \A list \in Replays : Rows(list) = {}
  /\ End \in Nat /\ MaxRuns \in Nat /\ NoCandle \notin Candles

VARIABLES
  phase,     \* of the run
  steps, replay,  \* what the run is given, and whether it is a replay
  finishing, \* whether the run closes the session at the end of the data
  cursor,    \* steps taken by the clock
  row,       \* candles Cerebro has delivered
  loop,      \* where next is in its loops
  state,     \* of the session: flags, last candle, and what it has executed
  todo,      \* states the call in progress has still to make durable
  journal,   \* the durable states this session descends from
  runs, since \* history: runs begun, and the records the run began with

inputs == <<steps, replay, finishing>>
clock == <<cursor, row, loop>>
vars == <<phase, inputs, clock, state, todo, journal, runs, since>>

Genesis == [inBar |-> FALSE, pending |-> FALSE, finished |-> FALSE,
            candle |-> NoCandle, log |-> <<>>]

Complete(s) == ~s.inBar /\ ~s.pending

(* ---- Calls of the session -------------------------------------------- *)

\* Mutant of Verdict: takes a candle that is supplied again for a new one.
VerdictAgain(candle, previous) ==
  IF state.finished \/ state.inBar THEN "refused"
  ELSE IF \/ previous # NoCandle /\ candle.time \notin previous.time..previous.time + 1
          \/ candle.time >= End
       THEN "refused" ELSE "new"

\* What _validate_candle makes of a candle, given the one before it.
Verdict(candle, previous) ==
  IF state.finished \/ state.inBar THEN "refused"
  ELSE IF previous # NoCandle /\ candle.time = previous.time
       THEN IF candle = previous THEN "seen" ELSE "refused"
  ELSE IF \/ previous # NoCandle /\ candle.time # previous.time + 1
          \/ candle.time >= End
       THEN "refused" ELSE "new"

\* The states a call makes durable.
Observed(s, entry) ==
  <<[s EXCEPT !.pending = TRUE], [s EXCEPT !.log = Append(@, entry)]>>

OnCandle(step) ==
  LET received == [state EXCEPT !.inBar = TRUE, !.candle = step.candle,
                                !.log = Append(@, step)]
  IN <<received, [received EXCEPT !.pending = TRUE], received,
       [received EXCEPT !.inBar = FALSE]>>

FinishCall ==
  LET told == Observed(state, EndOfData)
  IN told \o <<[Last(told) EXCEPT !.finished = TRUE]>>

(* ---- The journal ----------------------------------------------------- *)

Persist ==
  /\ todo # <<>>
  /\ state' = Head(todo) /\ todo' = Tail(todo)
  /\ journal' = Append(journal, Head(todo))
  /\ UNCHANGED <<phase, inputs, clock, runs, since>>

\* The sink or the engine raises: the exception leaves the run, with the record
\* durable or not.
Raise ==
  /\ todo # <<>>
  /\ phase' = "failed" /\ todo' = <<>>
  /\ journal' \in {journal, Append(journal, Head(todo))}
  /\ UNCHANGED <<inputs, clock, state, runs, since>>

(* ---- A run ----------------------------------------------------------- *)

\* restore_state from the checkpoint and as much of the journal as the host
\* adds to it: without any of it, a session that has seen nothing.
Restored(n) == IF n = 0 THEN Genesis ELSE journal[n]

StartRun ==
  /\ phase \in {"none", "over", "failed", "refused"} /\ runs < MaxRuns
  /\ runs' = runs + 1
  /\ \/ replay' = FALSE /\ steps' \in StepLists
     \/ replay' = TRUE /\ steps' \in Replays
  /\ finishing' \in BOOLEAN
  /\ \E n \in 0..Len(journal) :
       /\ journal' = SubSeq(journal, 1, n) /\ since' = n
       /\ state' = IF Complete(Restored(n)) THEN Restored(n) ELSE Genesis
       /\ phase' = IF ~Complete(Restored(n)) THEN "refused"
                   ELSE IF replay' THEN "replay" ELSE "validate"
  /\ cursor' = 0 /\ row' = 0 /\ loop' = "idle" /\ todo' = <<>>

\* The candle before a place in the list, as the first pass finds it: a candle the
\* session has seen leaves the previous one as it is.
Previous(list, i, seen) ==
  IF Before(list, i) = {} THEN seen ELSE list[Max(Before(list, i))].candle

\* _candle_run looks at all candles before it writes anything.
Validate ==
  /\ phase = "validate"
  /\ phase' = IF \A i \in Rows(steps) :
                   Verdict(steps[i].candle, Previous(steps, i, state.candle)) # "refused"
              THEN "clock" ELSE "refused"
  /\ UNCHANGED <<inputs, clock, state, todo, journal, runs, since>>

Deliver ==
  /\ phase = "clock" /\ todo = <<>> /\ loop = "idle"
  /\ row < Cardinality(Rows(steps))
  /\ row' = row + 1 /\ loop' = "leading"
  /\ UNCHANGED <<phase, inputs, cursor, state, todo, journal, runs, since>>

\* The first loop of next ends behind a candle.
Leading ==
  /\ phase = "clock" /\ todo = <<>> /\ loop = "leading"
  /\ IF cursor = Len(steps)
     THEN loop' = "trailing" /\ UNCHANGED <<phase, cursor, todo>>
     ELSE LET step == steps[cursor + 1] IN
       /\ cursor' = cursor + 1
       /\ IF ~IsCandle(step)
          THEN todo' = Observed(state, step) /\ UNCHANGED <<phase, loop>>
          ELSE /\ loop' = "trailing"
               /\ CASE Verdict(step.candle, state.candle) = "new" ->
                         todo' = OnCandle(step) /\ UNCHANGED phase
                    [] Verdict(step.candle, state.candle) = "seen" ->
                         UNCHANGED <<phase, todo>>
                    [] Verdict(step.candle, state.candle) = "refused" ->
                         phase' = "broken" /\ UNCHANGED todo
  /\ UNCHANGED <<inputs, row, state, journal, runs, since>>

\* Mutant of Trailing: leaves the commands to the next candle.
TrailingNothing ==
  /\ phase = "clock" /\ todo = <<>> /\ loop = "trailing"
  /\ loop' = "idle"
  /\ UNCHANGED <<phase, inputs, cursor, row, state, todo, journal, runs, since>>

\* Mutant of Trailing: looks for commands up to the end of the list, and does not
\* get past the next candle.
TrailingToTheEnd ==
  /\ phase = "clock" /\ todo = <<>> /\ loop = "trailing"
  /\ IF cursor < Len(steps)
     THEN /\ steps[cursor + 1].kind = "command"
          /\ todo' = Observed(state, steps[cursor + 1]) /\ cursor' = cursor + 1
          /\ UNCHANGED loop
     ELSE loop' = "idle" /\ UNCHANGED <<cursor, todo>>
  /\ UNCHANGED <<phase, inputs, row, state, journal, runs, since>>

\* The second one takes the commands up to the next candle.
Trailing ==
  /\ phase = "clock" /\ todo = <<>> /\ loop = "trailing"
  /\ IF cursor < Len(steps) /\ steps[cursor + 1].kind = "command"
     THEN /\ todo' = Observed(state, steps[cursor + 1]) /\ cursor' = cursor + 1
          /\ UNCHANGED loop
     ELSE loop' = "idle" /\ UNCHANGED <<cursor, todo>>
  /\ UNCHANGED <<phase, inputs, row, state, journal, runs, since>>

ClockEnds ==
  /\ phase = "clock" /\ todo = <<>> /\ loop = "idle"
  /\ row = Cardinality(Rows(steps))
  /\ phase' = "finish"
  /\ UNCHANGED <<inputs, clock, state, todo, journal, runs, since>>

\* An explicit replay takes its steps one by one.  A restore goes through the
\* document of the session into a new one, which has written nothing.
Replay ==
  /\ phase = "replay" /\ todo = <<>>
  /\ IF cursor = Len(steps) THEN phase' = "finish" /\ UNCHANGED <<cursor, todo>>
     ELSE LET step == steps[cursor + 1] IN
       /\ cursor' = cursor + 1
       /\ CASE step.kind = "restore" ->
                 /\ phase' = IF Complete(state) THEN phase ELSE "failed"
                 /\ UNCHANGED todo
            [] step.kind = "request" ->
                 /\ todo' = <<[state EXCEPT !.log = Append(@, step)]>>
                 /\ UNCHANGED phase
            [] OTHER -> todo' = Observed(state, step) /\ UNCHANGED phase
  /\ UNCHANGED <<inputs, row, loop, state, journal, runs, since>>

Finish ==
  /\ phase = "finish" /\ todo = <<>>
  /\ todo' = IF finishing /\ ~state.finished THEN FinishCall ELSE <<>>
  /\ phase' = "report"
  /\ UNCHANGED <<inputs, clock, state, journal, runs, since>>

Report ==
  /\ phase = "report" /\ todo = <<>> /\ phase' = "over"
  /\ UNCHANGED <<inputs, clock, state, todo, journal, runs, since>>

Init ==
  /\ phase = "none" /\ steps = <<>> /\ replay = FALSE /\ finishing = FALSE
  /\ cursor = 0 /\ row = 0 /\ loop = "idle"
  /\ state = Genesis /\ todo = <<>> /\ journal = <<>>
  /\ runs = 0 /\ since = 0

\* What a run does by itself; the host need not start one, and nothing need raise.
Work ==
  \/ Validate \/ Deliver \/ Leading \/ Trailing \/ ClockEnds
  \/ Replay \/ Finish \/ Report \/ Persist

Next == StartRun \/ Work \/ Raise

Spec == Init /\ [][Next]_vars

\* run_spot is one call of sequential code: it goes on until it returns or raises.
FairSpec == Spec /\ WF_vars(Work)

(* ---- Properties ------------------------------------------------------ *)

\* The next candle of a log behind a place.
Follows(log, i, j) ==
  /\ i < j /\ IsCandle(log[i]) /\ IsCandle(log[j])
  /\ \A k \in DOMAIN log : i < k /\ k < j => ~IsCandle(log[k])

\* Over all runs of a session every candle is processed once and the one after
\* it next, wherever a run failed, whatever prefix of the journal the host
\* restores from and whatever candles it supplies again.
CandlesOnce ==
  \A i, j \in DOMAIN state.log :
     Follows(state.log, i, j) => state.log[j].candle.time = state.log[i].candle.time + 1

\* What the first steps of a list add to the log of a session: all of them but the
\* candle it had seen, and restores.
Ran(list, seen) ==
  LET upTo[i \in 0..Len(list)] ==
        IF i = 0 THEN <<>>
        ELSE IF list[i].kind = "restore" \/ (IsCandle(list[i]) /\ list[i].candle = seen)
             THEN upTo[i - 1]
             ELSE Append(upTo[i - 1], list[i])
  IN upTo

\* A run that reports has executed all its steps, in their order, commands before
\* and behind their candles, and the end of the data last; and a run whose
\* candles are refused is refused before it has written a record
\* (spot_runner.py:103, "before the first emitted write").
RunsFollowTheirSteps ==
  LET base == Restored(since) IN
  /\ phase = "over" =>
       state.log = base.log \o Ran(steps, base.candle)[Len(steps)]
                     \o (IF state.finished /\ ~base.finished THEN <<EndOfData>> ELSE <<>>)
  /\ phase = "refused" => Len(journal) = since
  /\ phase # "broken"

\* A run returns or raises: the two loops of next, its feed and the replay come to
\* an end, whatever list of steps they are given and whatever state the session was
\* restored to (spot_runner.py:121-156).
EveryRunReturns ==
  (phase = "validate") \/ (phase = "replay") ~> phase \in {"over", "failed", "refused"}
=============================================================================
