-------------------------- MODULE SpotRunnerProofs --------------------------
(***************************************************************************)
(* What holds of run_spot whatever steps it is given, wherever its runs end *)
(* or raise and whatever prefix of the journal the next one starts from:    *)
(* the session takes every candle once and in order, and a run that reports *)
(* has executed its steps, one that is refused has written nothing.         *)
(***************************************************************************)
EXTENDS SpotRunner, Induction, SequenceTheorems, FiniteSetTheorems

-----------------------------------------------------------------------------
(* Types. *)

States ==
  [inBar : BOOLEAN, pending : BOOLEAN, finished : BOOLEAN,
   candle : Candles \cup {NoCandle}, log : Seq(Steps)]

TypeOK ==
  /\ phase \in {"none", "validate", "clock", "replay", "finish", "report",
                "over", "failed", "refused", "broken"}
  /\ steps \in Seq(Steps) /\ replay \in BOOLEAN /\ finishing \in BOOLEAN
  /\ cursor \in 0..Len(steps) /\ row \in Nat /\ loop \in {"idle", "leading", "trailing"}
  /\ state \in States /\ todo \in Seq(States) /\ journal \in Seq(States)
  /\ runs \in Nat /\ since \in 0..Len(journal)

\* The parts of a step.
LEMMA StepParts ==
  /\ \A step \in Steps : IsCandle(step) => step.candle \in Candles /\ step.candle.time \in Nat
  /\ EndOfData \in Steps /\ ~IsCandle(EndOfData)
  /\ NoCandle \notin Candles
<1>1. \A step \in Steps : IsCandle(step) => step.candle \in Candles
  BY DEF Steps, IsCandle, EndOfData
<1>2. \A c \in Candles : c.time \in Nat
  BY DEF Candles
<1>3. EndOfData \in Steps /\ ~IsCandle(EndOfData)
  BY DEF Steps, IsCandle, EndOfData
<1> QED BY <1>1, <1>2, <1>3, StepsAssumption

\* Sequences of sessions written out.
LEMMA Listed ==
  ASSUME NEW S, NEW a \in S, NEW b \in S, NEW c \in S, NEW d \in S
  PROVE  /\ <<a, b>> \in Seq(S) /\ Len(<<a, b>>) = 2
         /\ <<a, b>>[1] = a /\ <<a, b>>[2] = b
         /\ <<a, b>> \o <<c>> = <<a, b, c>>
         /\ <<a, b, c>> \in Seq(S) /\ Len(<<a, b, c>>) = 3
         /\ <<a, b, c>>[1] = a /\ <<a, b, c>>[2] = b /\ <<a, b, c>>[3] = c
         /\ <<a, b, c, d>> \in Seq(S) /\ Len(<<a, b, c, d>>) = 4
         /\ <<a, b, c, d>>[1] = a /\ <<a, b, c, d>>[2] = b
         /\ <<a, b, c, d>>[3] = c /\ <<a, b, c, d>>[4] = d
<1>1. /\ <<a, b>> \in Seq(S) /\ Len(<<a, b>>) = 2
      /\ <<a, b>>[1] = a /\ <<a, b>>[2] = b
  OBVIOUS
<1>2. /\ <<a, b, c>> \in Seq(S) /\ Len(<<a, b, c>>) = 3
      /\ <<a, b, c>>[1] = a /\ <<a, b, c>>[2] = b /\ <<a, b, c>>[3] = c
  OBVIOUS
<1>3. /\ <<a, b, c, d>> \in Seq(S) /\ Len(<<a, b, c, d>>) = 4
      /\ <<a, b, c, d>>[1] = a /\ <<a, b, c, d>>[2] = b
      /\ <<a, b, c, d>>[3] = c /\ <<a, b, c, d>>[4] = d
  OBVIOUS
<1>4. <<a, b>> \o <<c>> = <<a, b, c>>
  <2> DEFINE t == <<a, b>> \o <<c>>
             u == <<a, b, c>>
  <2>1. t \in Seq(S) /\ Len(t) = 3 /\ t[1] = a /\ t[2] = b /\ t[3] = c
    OBVIOUS
  <2>2. u \in Seq(S) /\ Len(u) = 3 /\ u[1] = a /\ u[2] = b /\ u[3] = c
    OBVIOUS
  <2>3. t = u
    <3> HIDE DEF t, u
    <3>1. \A i \in 1..Len(t) : t[i] = u[i]
      BY <2>1, <2>2
    <3> QED BY <2>1, <2>2, <3>1, SeqEqual
  <2> QED BY <2>3
<1> QED BY <1>1, <1>2, <1>3, <1>4

\* A session that has seen nothing.
LEMMA GenesisType == Genesis \in States /\ Complete(Genesis)
BY DEF Genesis, States, Complete

\* What a restore finds is a session.
LEMMA RestoredType ==
  ASSUME TypeOK, NEW n \in 0..Len(journal)
  PROVE  Restored(n) \in States
BY GenesisType DEF Restored, TypeOK

\* An observation is made durable when it is sent and when it is applied.
LEMMA ObservedType ==
  ASSUME NEW s \in States, NEW entry \in Steps
  PROVE  /\ Observed(s, entry) \in Seq(States) /\ Len(Observed(s, entry)) = 2
         /\ Observed(s, entry)[1].log = s.log /\ Observed(s, entry)[1].candle = s.candle
         /\ Observed(s, entry)[2] = [s EXCEPT !.log = Append(s.log, entry)]
         /\ Observed(s, entry)[2] \in States
<1>1. [s EXCEPT !.pending = TRUE] \in States
  BY DEF States
<1>2. Append(s.log, entry) \in Seq(Steps)
  BY DEF States
<1>3. [s EXCEPT !.log = Append(s.log, entry)] \in States
  BY <1>2 DEF States
<1>4. s.log = [s EXCEPT !.pending = TRUE].log /\ s.candle = [s EXCEPT !.pending = TRUE].candle
  BY DEF States
<1> DEFINE a == [s EXCEPT !.pending = TRUE]
           b == [s EXCEPT !.log = Append(s.log, entry)]
<1>5. Observed(s, entry) = <<a, b>>
  BY DEF Observed
<1> HIDE DEF a, b
<1>6. /\ <<a, b>> \in Seq(States) /\ Len(<<a, b>>) = 2
      /\ <<a, b>>[1] = a /\ <<a, b>>[2] = b
  BY <1>1, <1>3, Listed DEF a, b
<1> QED BY <1>3, <1>4, <1>5, <1>6 DEF a, b

\* What a candle makes durable.
Received(step) ==
  [state EXCEPT !.inBar = TRUE, !.candle = step.candle, !.log = Append(@, step)]

LEMMA OnCandleType ==
  ASSUME state \in States, NEW step \in Steps, IsCandle(step)
  PROVE  /\ Received(step) \in States
         /\ OnCandle(step) \in Seq(States) /\ Len(OnCandle(step)) = 4
         /\ \A i \in 1..4 : /\ OnCandle(step)[i].log = Append(state.log, step)
                            /\ OnCandle(step)[i].candle = step.candle
         /\ OnCandle(step)[4] = [Received(step) EXCEPT !.inBar = FALSE]
<1> DEFINE r == Received(step)
<1>1. Append(state.log, step) \in Seq(Steps) /\ step.candle \in Candles
  BY StepParts DEF States
<1>2. /\ r \in States /\ r.log = Append(state.log, step) /\ r.candle = step.candle
  BY <1>1 DEF States, Received
<1> HIDE DEF r
<1>3. /\ [r EXCEPT !.pending = TRUE] \in States
      /\ [r EXCEPT !.pending = TRUE].log = r.log
      /\ [r EXCEPT !.pending = TRUE].candle = r.candle
      /\ [r EXCEPT !.inBar = FALSE] \in States
      /\ [r EXCEPT !.inBar = FALSE].log = r.log
      /\ [r EXCEPT !.inBar = FALSE].candle = r.candle
  BY <1>2 DEF States
<1> DEFINE p == [r EXCEPT !.pending = TRUE]
           d == [r EXCEPT !.inBar = FALSE]
<1>4. OnCandle(step) = <<r, p, r, d>>
  BY DEF OnCandle, r, Received
<1>5. p \in States /\ d \in States /\ r \in States
  BY <1>2, <1>3
<1>6. /\ p.log = Append(state.log, step) /\ p.candle = step.candle
      /\ d.log = Append(state.log, step) /\ d.candle = step.candle
  BY <1>2, <1>3
<1>7. d = [Received(step) EXCEPT !.inBar = FALSE]
  BY DEF r
<1> HIDE DEF p, d
<1>8. /\ <<r, p, r, d>> \in Seq(States) /\ Len(<<r, p, r, d>>) = 4
      /\ <<r, p, r, d>>[1] = r /\ <<r, p, r, d>>[2] = p
      /\ <<r, p, r, d>>[3] = r /\ <<r, p, r, d>>[4] = d
  BY <1>5, Listed
<1>9. \A i \in 1..4 : i = 1 \/ i = 2 \/ i = 3 \/ i = 4
  OBVIOUS
<1>10. \A i \in 1..4 : /\ OnCandle(step)[i].log = Append(state.log, step)
                        /\ OnCandle(step)[i].candle = step.candle
  BY <1>2, <1>4, <1>6, <1>8, <1>9
<1>11. Received(step) \in States
  BY <1>2 DEF r
<1> QED BY <1>4, <1>7, <1>8, <1>10, <1>11

\* What the end of the data makes durable.
LEMMA FinishType ==
  ASSUME state \in States
  PROVE  /\ FinishCall \in Seq(States) /\ Len(FinishCall) = 3
         /\ FinishCall[1].log = state.log
         /\ \A i \in 1..3 : FinishCall[i].candle = state.candle
         /\ \A i \in 2..3 : FinishCall[i].log = Append(state.log, EndOfData)
         /\ FinishCall[3].finished
<1> DEFINE o == Observed(state, EndOfData)
           t == [state EXCEPT !.log = Append(state.log, EndOfData)]
<1>1. /\ o \in Seq(States) /\ Len(o) = 2
      /\ o[1].log = state.log /\ o[1].candle = state.candle
      /\ o[2] = t /\ t \in States
  BY ObservedType, StepParts
<1>2. t.log = Append(state.log, EndOfData) /\ t.candle = state.candle
  BY DEF States
<1>3. Last(o) = t
  BY <1>1 DEF Last
<1>4. FinishCall = o \o <<[t EXCEPT !.finished = TRUE]>>
  BY <1>3 DEF FinishCall
<1> HIDE DEF o, t
<1>5. /\ [t EXCEPT !.finished = TRUE] \in States
      /\ [t EXCEPT !.finished = TRUE].log = t.log
      /\ [t EXCEPT !.finished = TRUE].candle = t.candle
      /\ [t EXCEPT !.finished = TRUE].finished
  BY <1>1 DEF States
<1> DEFINE f == [t EXCEPT !.finished = TRUE]
<1> HIDE DEF f
<1>6. /\ o = <<o[1], t>> /\ o[1] \in States
  BY <1>1
<1>7. FinishCall = <<o[1], t, f>> /\ f \in States
  <2>1. f \in States
    BY <1>5 DEF f
  <2>2. FinishCall = <<o[1], t>> \o <<f>>
    BY <1>4, <1>6 DEF f
  <2>3. <<o[1], t>> \o <<f>> = <<o[1], t, f>>
    BY <1>1, <1>6, <2>1, Listed
  <2> QED BY <2>1, <2>2, <2>3
<1>8. /\ <<o[1], t, f>> \in Seq(States) /\ Len(<<o[1], t, f>>) = 3
      /\ <<o[1], t, f>>[1] = o[1] /\ <<o[1], t, f>>[2] = t /\ <<o[1], t, f>>[3] = f
  BY <1>1, <1>6, <1>7, Listed
<1>9. /\ f.log = t.log /\ f.candle = t.candle /\ f.finished
  BY <1>5 DEF f
<1>10. \A i \in 1..3 : i = 1 \/ i = 2 \/ i = 3
  OBVIOUS
<1>11. \A i \in 2..3 : i = 2 \/ i = 3
  OBVIOUS
<1>12. /\ FinishCall[1].log = state.log
       /\ FinishCall[2].log = Append(state.log, EndOfData)
       /\ FinishCall[3].log = Append(state.log, EndOfData)
       /\ FinishCall[1].candle = state.candle /\ FinishCall[2].candle = state.candle
       /\ FinishCall[3].candle = state.candle
       /\ FinishCall[3].finished
  BY <1>1, <1>2, <1>7, <1>8, <1>9
<1> QED BY <1>7, <1>8, <1>10, <1>11, <1>12


LEMMA InitType == Init => TypeOK
<1>1. <<>> \in Seq(Steps) /\ <<>> \in Seq(States) /\ Len(<<>>) = 0 /\ 0 \in 0..0 /\ 0 \in Nat
  OBVIOUS
<1> QED BY <1>1, GenesisType DEF Init, TypeOK

LEMMA PersistType ==
  ASSUME TypeOK, Persist
  PROVE  TypeOK'
<1>1. /\ todo' \in Seq(States) /\ state' \in States
      /\ journal' \in Seq(States) /\ Len(journal') = Len(journal) + 1
  BY DEF TypeOK, Persist
<1> QED BY <1>1 DEF TypeOK, Persist, inputs, clock

LEMMA RaiseType ==
  ASSUME TypeOK, Raise
  PROVE  TypeOK'
<1>1. journal' \in Seq(States) /\ Len(journal') >= Len(journal)
  <2>1. Head(todo) \in States /\ journal \in Seq(States)
    BY DEF TypeOK, Raise
  <2>2. /\ Append(journal, Head(todo)) \in Seq(States)
        /\ Len(Append(journal, Head(todo))) = Len(journal) + 1 /\ Len(journal) \in Nat
    BY <2>1
  <2> QED BY <2>1, <2>2 DEF Raise
<1>2. since \in 0..Len(journal')
  BY <1>1 DEF TypeOK
<1>3. todo' = <<>> /\ <<>> \in Seq(States)
  BY DEF Raise
<1> QED BY <1>1, <1>2, <1>3 DEF TypeOK, Raise, inputs, clock

LEMMA StartRunType ==
  ASSUME TypeOK, StartRun
  PROVE  TypeOK'
<1>1. PICK n \in 0..Len(journal) :
        /\ journal' = SubSeq(journal, 1, n) /\ since' = n
        /\ state' = IF Complete(Restored(n)) THEN Restored(n) ELSE Genesis
        /\ phase' = IF ~Complete(Restored(n)) THEN "refused"
                    ELSE IF replay' THEN "replay" ELSE "validate"
  BY DEF StartRun
<1>2. journal' \in Seq(States) /\ Len(journal') = n
  BY <1>1 DEF TypeOK
<1>3. state' \in States
  BY <1>1, GenesisType, RestoredType
<1>4. steps' \in Seq(Steps) /\ replay' \in BOOLEAN /\ finishing' \in BOOLEAN
  BY StepsAssumption DEF StartRun
<1>5. cursor' \in 0..Len(steps') /\ row' \in Nat /\ loop' = "idle"
  BY <1>4 DEF StartRun
<1>6. since' \in 0..Len(journal') /\ runs' \in Nat
  BY <1>1, <1>2 DEF StartRun, TypeOK
<1>7. todo' \in Seq(States)
  BY DEF StartRun
<1>8. phase' \in {"refused", "replay", "validate"}
  BY <1>1
<1> QED BY <1>2, <1>3, <1>4, <1>5, <1>6, <1>7, <1>8 DEF TypeOK

\* The next step of the list.
LEMMA NextStep ==
  ASSUME TypeOK, cursor # Len(steps)
  PROVE  /\ cursor + 1 \in 1..Len(steps) /\ cursor + 1 \in 0..Len(steps)
         /\ cursor + 1 \in DOMAIN steps /\ steps[cursor + 1] \in Steps
BY DEF TypeOK

LEMMA LeadingType ==
  ASSUME TypeOK, Leading
  PROVE  TypeOK'
<1>1. CASE cursor = Len(steps)
  BY <1>1 DEF Leading, TypeOK, inputs
<1>2. CASE cursor # Len(steps)
  <2> DEFINE step == steps[cursor + 1]
  <2>1. step \in Steps /\ cursor' \in 0..Len(steps)
    BY <1>2, NextStep DEF Leading
  <2>2. todo' \in Seq(States) /\ loop' \in {"leading", "trailing"} /\ phase' \in {phase, "broken"}
    <3>1. CASE ~IsCandle(step)
      BY <1>2, <2>1, <3>1, ObservedType DEF Leading, TypeOK
    <3>2. CASE IsCandle(step)
      <4>1. Verdict(step.candle, state.candle) \in {"new", "seen", "refused"}
        BY DEF Verdict
      <4>2. OnCandle(step) \in Seq(States)
        BY <2>1, <3>2, OnCandleType DEF TypeOK
      <4> HIDE DEF step
      <4>3. /\ loop' = "trailing"
            /\ CASE Verdict(step.candle, state.candle) = "new" ->
                         todo' = OnCandle(step) /\ UNCHANGED phase
                    [] Verdict(step.candle, state.candle) = "seen" ->
                         UNCHANGED <<phase, todo>>
                    [] Verdict(step.candle, state.candle) = "refused" ->
                         phase' = "broken" /\ UNCHANGED todo
        BY <1>2, <3>2 DEF Leading, step
      <4> QED BY <4>1, <4>2, <4>3 DEF TypeOK
    <3> QED BY <3>1, <3>2
  <2> HIDE DEF step
  <2> QED BY <2>1, <2>2 DEF Leading, TypeOK, inputs
<1> QED BY <1>1, <1>2

LEMMA TrailingType ==
  ASSUME TypeOK, Trailing
  PROVE  TypeOK'
<1>1. CASE cursor < Len(steps) /\ steps[cursor + 1].kind = "command"
  <2>1. steps[cursor + 1] \in Steps /\ cursor' \in 0..Len(steps)
    BY <1>1, NextStep DEF Trailing
  <2>2. todo' \in Seq(States)
    BY <1>1, <2>1, ObservedType DEF Trailing, TypeOK
  <2> QED BY <1>1, <2>1, <2>2 DEF Trailing, TypeOK, inputs
<1>2. CASE ~(cursor < Len(steps) /\ steps[cursor + 1].kind = "command")
  BY <1>2 DEF Trailing, TypeOK, inputs
<1> QED BY <1>1, <1>2

\* A request makes durable what it adds to the log.
LEMMA RequestedType ==
  ASSUME state \in States, NEW step \in Steps
  PROVE  /\ [state EXCEPT !.log = Append(@, step)] \in States
         /\ <<[state EXCEPT !.log = Append(@, step)]>> \in Seq(States)
<1>1. Append(state.log, step) \in Seq(Steps)
  BY DEF States
<1>2. [state EXCEPT !.log = Append(@, step)] \in States
  BY <1>1 DEF States
<1> QED BY <1>2

LEMMA ReplayType ==
  ASSUME TypeOK, Replay
  PROVE  TypeOK'
<1>1. CASE cursor = Len(steps)
  BY <1>1 DEF Replay, TypeOK, inputs
<1>2. CASE cursor # Len(steps)
  <2> DEFINE step == steps[cursor + 1]
  <2>1. step \in Steps /\ cursor' \in 0..Len(steps)
    BY <1>2, NextStep DEF Replay
  <2>2. /\ Observed(state, step) \in Seq(States)
        /\ <<[state EXCEPT !.log = Append(@, step)]>> \in Seq(States)
    BY <2>1, ObservedType, RequestedType DEF TypeOK
  <2>3. todo' \in Seq(States) /\ phase' \in {phase, "failed"}
    <3>1. CASE step.kind = "restore"
      BY <1>2, <3>1 DEF Replay, TypeOK
    <3>2. CASE step.kind = "request"
      BY <1>2, <2>2, <3>2 DEF Replay
    <3>3. CASE step.kind \notin {"restore", "request"}
      BY <1>2, <2>2, <3>3 DEF Replay
    <3> QED BY <3>1, <3>2, <3>3
  <2> HIDE DEF step
  <2> QED BY <2>1, <2>3 DEF Replay, TypeOK, inputs
<1> QED BY <1>1, <1>2

LEMMA OtherType ==
  ASSUME TypeOK, Validate \/ Deliver \/ ClockEnds \/ Finish \/ Report
  PROVE  TypeOK'
<1>1. CASE Validate
  BY <1>1 DEF TypeOK, Validate, inputs, clock
<1>2. CASE Deliver
  BY <1>2 DEF TypeOK, Deliver, inputs
<1>3. CASE ClockEnds
  BY <1>3 DEF TypeOK, ClockEnds, inputs, clock
<1>4. CASE Finish
  BY <1>4, FinishType DEF TypeOK, Finish, inputs, clock
<1>5. CASE Report
  BY <1>5 DEF TypeOK, Report, inputs, clock
<1> QED BY <1>1, <1>2, <1>3, <1>4, <1>5

LEMMA NextType == TypeOK /\ [Next]_vars => TypeOK'
<1> SUFFICES ASSUME TypeOK, [Next]_vars PROVE TypeOK'
  OBVIOUS
<1>1. CASE UNCHANGED vars
  BY <1>1 DEF TypeOK, vars, inputs, clock
<1> QED BY <1>1, PersistType, RaiseType, StartRunType, LeadingType, TrailingType, ReplayType,
           OtherType DEF Next, Work

\* The runner is type correct, whatever it is given and wherever it raises.
THEOREM TypeCorrect == Spec => []TypeOK
BY InitType, NextType, PTL DEF Spec

-----------------------------------------------------------------------------
(* Candles once. *)

\* The candles of a log follow one another, and the session knows the last one.
Linked(log) ==
  \A i, j \in DOMAIN log : Follows(log, i, j) => log[j].candle.time = log[i].candle.time + 1

KnowsLast(s) ==
  IF s.candle = NoCandle THEN Rows(s.log) = {}
  ELSE \E i \in Rows(s.log) : s.log[i].candle = s.candle /\ \A j \in Rows(s.log) : j <= i

Chained(s) == Linked(s.log) /\ KnowsLast(s)

\* Whatever a run could be restored to, and whatever the call in progress still
\* makes durable.
History ==
  /\ Chained(state)
  /\ \A i \in DOMAIN todo : Chained(todo[i])
  /\ \A i \in DOMAIN journal : Chained(journal[i])

LEMMA ChainedSame ==
  ASSUME NEW s, NEW t, Chained(s), t.log = s.log, t.candle = s.candle
  PROVE  Chained(t)
BY DEF Chained, KnowsLast

\* A command leaves the candles as they are.
LEMMA ChainedCommand ==
  ASSUME NEW s \in States, Chained(s), NEW entry \in Steps, ~IsCandle(entry),
         NEW t, t.log = Append(s.log, entry), t.candle = s.candle
  PROVE  Chained(t)
<1> DEFINE log == s.log
           more == Append(log, entry)
<1>1. /\ log \in Seq(Steps) /\ Len(log) \in Nat /\ DOMAIN log = 1..Len(log)
      /\ DOMAIN more = 1..(Len(log) + 1) /\ more[Len(log) + 1] = entry
      /\ \A i \in 1..Len(log) : more[i] = log[i]
  BY DEF States
<1> HIDE DEF log, more
<1>2. Rows(more) = Rows(log)
  <2>1. \A i \in DOMAIN more : i \in DOMAIN log \/ more[i] = entry
    BY <1>1
  <2>2. \A i \in DOMAIN log : i \in DOMAIN more /\ more[i] = log[i]
    BY <1>1
  <2> QED BY <2>1, <2>2 DEF Rows
<1>3. \A i, j \in DOMAIN more : Follows(more, i, j) => i \in DOMAIN log /\ j \in DOMAIN log
  BY <1>1 DEF Follows
<1>4. \A i, j \in DOMAIN log : Follows(more, i, j) => Follows(log, i, j)
  BY <1>1 DEF Follows
<1>5. Linked(more)
  <2> SUFFICES ASSUME NEW i \in DOMAIN more, NEW j \in DOMAIN more, Follows(more, i, j)
               PROVE  more[j].candle.time = more[i].candle.time + 1
    BY DEF Linked
  <2>1. i \in DOMAIN log /\ j \in DOMAIN log /\ Follows(log, i, j)
    BY <1>3, <1>4
  <2>2. more[i] = log[i] /\ more[j] = log[j]
    BY <1>1, <2>1
  <2> QED BY <2>1, <2>2 DEF Chained, Linked, log
<1>6. \A i \in Rows(log) : more[i] = log[i]
  BY <1>1 DEF Rows
<1>7. KnowsLast(t)
  <2>1. t.log = more /\ s.log = log
    BY DEF more, log
  <2> QED BY <1>2, <1>6, <2>1 DEF Chained, KnowsLast
<1> QED BY <1>5, <1>7 DEF Chained, more, log

\* So does a candle that is the next one.
LEMMA ChainedCandle ==
  ASSUME NEW s \in States, Chained(s), NEW entry \in Steps, IsCandle(entry),
         s.candle = NoCandle \/ entry.candle.time = s.candle.time + 1,
         NEW t, t.log = Append(s.log, entry), t.candle = entry.candle
  PROVE  Chained(t)
<1> DEFINE log == s.log
           n == Len(log) + 1
           more == Append(log, entry)
<1>1. /\ log \in Seq(Steps) /\ n \in Nat \ {0} /\ DOMAIN log = 1..(n - 1) /\ n \notin DOMAIN log
      /\ DOMAIN more = 1..n /\ more[n] = entry
      /\ \A i \in DOMAIN log : more[i] = log[i] /\ i \in DOMAIN more /\ i < n /\ i \in Int
      /\ \A i \in DOMAIN more : i = n \/ i \in DOMAIN log
  BY DEF States
<1>2. t.log = more /\ s.log = log
  OBVIOUS
<1> HIDE DEF log, more, n
<1>3. Rows(more) = Rows(log) \cup {n}
  <2>1. n \in DOMAIN more /\ IsCandle(more[n])
    BY <1>1
  <2>2. \A i \in DOMAIN more : i # n => i \in DOMAIN log /\ more[i] = log[i]
    BY <1>1
  <2>3. \A i \in DOMAIN log : i \in DOMAIN more /\ more[i] = log[i]
    BY <1>1
  <2> QED BY <2>1, <2>2, <2>3 DEF Rows
<1>4. KnowsLast(t)
  <2>1. t.candle # NoCandle
    BY StepParts
  <2>2. n \in Rows(more) /\ \A j \in Rows(more) : j <= n
    BY <1>1, <1>3 DEF Rows
  <2> QED BY <1>1, <1>2, <2>1, <2>2 DEF KnowsLast
<1>5. Linked(more)
  <2> SUFFICES ASSUME NEW i \in DOMAIN more, NEW j \in DOMAIN more, Follows(more, i, j)
               PROVE  more[j].candle.time = more[i].candle.time + 1
    BY DEF Linked
  <2>1. i \in DOMAIN log /\ more[i] = log[i] /\ IsCandle(log[i])
    BY <1>1 DEF Follows
  <2>2. CASE j = n
    <3>1. s.candle # NoCandle
      BY <1>2, <2>1 DEF Chained, KnowsLast, Rows
    <3>2. PICK k \in Rows(log) : log[k].candle = s.candle /\ \A l \in Rows(log) : l <= k
      BY <1>2, <3>1 DEF Chained, KnowsLast
    <3>3. i <= k /\ k \in DOMAIN log /\ IsCandle(log[k]) /\ more[k] = log[k]
      BY <1>1, <2>1, <3>2 DEF Rows
    <3>4. ~(i < k /\ k < n)
      BY <1>1, <2>2, <3>3 DEF Follows
    <3>5. i = k
      BY <1>1, <2>1, <3>3, <3>4
    <3> QED BY <1>1, <2>1, <2>2, <3>1, <3>2, <3>5
  <2>3. CASE j # n
    <3>1. j \in DOMAIN log /\ more[j] = log[j]
      BY <1>1, <2>3
    <3>2. Follows(log, i, j)
      BY <1>1, <2>1, <3>1 DEF Follows
    <3> QED BY <1>2, <2>1, <3>1, <3>2 DEF Chained, Linked
  <2> QED BY <2>2, <2>3
<1> QED BY <1>2, <1>4, <1>5 DEF Chained

LEMMA ChainedGenesis == Chained(Genesis)
BY DEF Chained, KnowsLast, Linked, Genesis, Rows

LEMMA ChainedObserved ==
  ASSUME NEW s \in States, Chained(s), NEW entry \in Steps, ~IsCandle(entry)
  PROVE  \A i \in DOMAIN Observed(s, entry) : Chained(Observed(s, entry)[i])
<1> DEFINE o == Observed(s, entry)
<1>1. /\ DOMAIN o = {1, 2}
      /\ o[1].log = s.log /\ o[1].candle = s.candle
      /\ o[2] = [s EXCEPT !.log = Append(s.log, entry)]
  BY ObservedType
<1>2. o[2].log = Append(s.log, entry) /\ o[2].candle = s.candle
  BY <1>1 DEF States
<1> HIDE DEF o
<1>3. Chained(o[1])
  BY <1>1, ChainedSame
<1>4. Chained(o[2])
  BY <1>2, ChainedCommand
<1> QED BY <1>1, <1>3, <1>4 DEF o

\* What a call makes durable is chained.
LEMMA ChainedCalls ==
  ASSUME TypeOK, Chained(state)
  PROVE  /\ \A i \in DOMAIN FinishCall : Chained(FinishCall[i])
         /\ \A step \in Steps :
               IsCandle(step) /\ Verdict(step.candle, state.candle) = "new"
                 => \A i \in DOMAIN OnCandle(step) : Chained(OnCandle(step)[i])
<1>0. state \in States
  BY DEF TypeOK
<1>1. \A i \in DOMAIN FinishCall : Chained(FinishCall[i])
  <2>1. DOMAIN FinishCall = 1..3
    BY <1>0, FinishType
  <2>2. Chained(FinishCall[1])
    <3>1. FinishCall[1].log = state.log /\ FinishCall[1].candle = state.candle
      BY <1>0, FinishType
    <3> QED BY <3>1, ChainedSame
  <2>3. \A i \in 2..3 : Chained(FinishCall[i])
    <3> TAKE i \in 2..3
    <3>1. FinishCall[i].log = Append(state.log, EndOfData) /\ FinishCall[i].candle = state.candle
      BY <1>0, FinishType
    <3> QED BY <1>0, <3>1, StepParts, ChainedCommand
  <2> QED BY <2>1, <2>2, <2>3
<1>2. ASSUME NEW step \in Steps, IsCandle(step), Verdict(step.candle, state.candle) = "new",
             NEW i \in DOMAIN OnCandle(step)
      PROVE  Chained(OnCandle(step)[i])
  <2>1. i \in 1..4
    <3>1. OnCandle(step) \in Seq(States) /\ Len(OnCandle(step)) = 4
      BY <1>0, <1>2, OnCandleType
    <3> QED BY <3>1
  <2>2. OnCandle(step)[i].log = Append(state.log, step) /\ OnCandle(step)[i].candle = step.candle
    BY <1>0, <1>2, <2>1, OnCandleType
  <2>3. state.candle = NoCandle \/ step.candle.time = state.candle.time + 1
    BY <1>2 DEF Verdict
  <2> QED BY <1>0, <1>2, <2>2, <2>3, ChainedCandle
<1> QED BY <1>1, <1>2

LEMMA InitHistory == Init => History
BY ChainedGenesis DEF Init, History

\* A run has the steps of its kind.
Given ==
  /\ phase = "replay" => steps \in Replays
  /\ phase \in {"validate", "clock"} => steps \in StepLists

LEMMA InitGiven == Init => Given
BY DEF Init, Given

LEMMA NextGiven == Given /\ [Next]_vars => Given'
<1> SUFFICES ASSUME Given, [Next]_vars PROVE Given'
  OBVIOUS
<1>1. CASE StartRun
  <2>1. /\ \/ replay' = FALSE /\ steps' \in StepLists
           \/ replay' = TRUE /\ steps' \in Replays
        /\ phase' = "refused" \/ phase' = IF replay' THEN "replay" ELSE "validate"
    BY <1>1 DEF StartRun
  <2> QED BY <2>1 DEF Given
<1>2. CASE Leading
  <2>1. steps' = steps /\ phase = "clock"
    BY <1>2 DEF Leading, inputs
  <2>2. phase' \in {"clock", "broken"} \/ phase' = phase
    <3>1. CASE cursor = Len(steps)
      BY <1>2, <3>1 DEF Leading
    <3>2. CASE cursor # Len(steps) /\ ~IsCandle(steps[cursor + 1])
      BY <1>2, <3>2 DEF Leading
    <3>3. CASE cursor # Len(steps) /\ IsCandle(steps[cursor + 1])
      <4> DEFINE step == steps[cursor + 1]
                 v == Verdict(step.candle, state.candle)
      <4>1. v \in {"new", "seen", "refused"}
        BY DEF Verdict
      <4>2. /\ loop' = "trailing"
            /\ CASE v = "new"     -> todo' = OnCandle(step) /\ UNCHANGED phase
                 [] v = "seen"    -> UNCHANGED <<phase, todo>>
                 [] v = "refused" -> phase' = "broken" /\ UNCHANGED todo
        BY <1>2, <3>3 DEF Leading
      <4> HIDE DEF v
      <4> QED BY <4>1, <4>2
    <3> QED BY <3>1, <3>2, <3>3
  <2> QED BY <2>1, <2>2 DEF Given
<1>3. CASE Replay
  <2>1. steps' = steps /\ phase = "replay"
    BY <1>3 DEF Replay, inputs
  <2>2. phase' \in {"finish", "failed"} \/ phase' = phase
    <3>1. CASE cursor = Len(steps)
      BY <1>3, <3>1 DEF Replay
    <3>2. CASE cursor # Len(steps) /\ steps[cursor + 1].kind = "restore"
      BY <1>3, <3>2 DEF Replay
    <3>3. CASE cursor # Len(steps) /\ steps[cursor + 1].kind # "restore"
      BY <1>3, <3>3 DEF Replay
    <3> QED BY <3>1, <3>2, <3>3
  <2> QED BY <2>1, <2>2 DEF Given
<1>4. CASE Validate \/ Deliver \/ ClockEnds \/ Report \/ Finish \/ Trailing \/ Persist \/ Raise
  BY <1>4 DEF Given, Validate, Deliver, ClockEnds, Report, Finish, Trailing, Persist, Raise, inputs
<1>5. CASE UNCHANGED vars
  BY <1>5 DEF Given, vars, inputs
<1> QED BY <1>1, <1>2, <1>3, <1>4, <1>5 DEF Next, Work

LEMMA NextHistory == TypeOK /\ Given /\ History /\ [Next]_vars => History'
<1> SUFFICES ASSUME TypeOK, Given, History, [Next]_vars PROVE History'
  OBVIOUS
<1>0. state \in States /\ todo \in Seq(States) /\ journal \in Seq(States)
  BY DEF TypeOK
<1>1. CASE Persist
  <2>1. Chained(Head(todo)) /\ \A i \in DOMAIN Tail(todo) : Chained(Tail(todo)[i])
    <3>1. /\ Head(todo) = todo[1] /\ 1 \in DOMAIN todo
          /\ \A i \in DOMAIN Tail(todo) : Tail(todo)[i] = todo[i + 1] /\ i + 1 \in DOMAIN todo
      BY <1>0, <1>1 DEF Persist
    <3> QED BY <3>1 DEF History
  <2>2. /\ Head(todo) \in States
        /\ \A i \in DOMAIN Append(journal, Head(todo)) :
             Append(journal, Head(todo))[i] = IF i \in DOMAIN journal THEN journal[i] ELSE Head(todo)
    BY <1>0, <1>1 DEF Persist
  <2>3. \A i \in DOMAIN journal' : Chained(journal'[i])
    BY <1>1, <2>1, <2>2 DEF Persist, History
  <2> QED BY <1>1, <2>1, <2>3 DEF Persist, History
<1>2. CASE Raise
  <2>1. Chained(Head(todo)) /\ Head(todo) \in States
    BY <1>0, <1>2 DEF Raise, History
  <2>2. \A i \in DOMAIN Append(journal, Head(todo)) :
          Append(journal, Head(todo))[i] = IF i \in DOMAIN journal THEN journal[i] ELSE Head(todo)
    BY <1>0, <2>1
  <2>3. \A i \in DOMAIN journal' : Chained(journal'[i])
    BY <1>2, <2>1, <2>2 DEF Raise, History
  <2> QED BY <1>2, <2>3 DEF Raise, History
<1>3. CASE StartRun
  <2>1. PICK n \in 0..Len(journal) :
          /\ journal' = SubSeq(journal, 1, n)
          /\ state' = IF Complete(Restored(n)) THEN Restored(n) ELSE Genesis
    BY <1>3 DEF StartRun
  <2>2. \A i \in DOMAIN journal' : i \in DOMAIN journal /\ journal'[i] = journal[i]
    BY <1>0, <2>1
  <2>3. Chained(state')
    BY <1>0, <2>1, ChainedGenesis DEF Restored, History
  <2>4. todo' = <<>>
    BY <1>3 DEF StartRun
  <2> QED BY <2>2, <2>3, <2>4 DEF History
<1>4. CASE Leading
  <2>1. UNCHANGED <<state, journal>>
    BY <1>4 DEF Leading
  <2>2. \A i \in DOMAIN todo' : Chained(todo'[i])
    <3>1. CASE cursor = Len(steps)
      BY <1>4, <3>1 DEF Leading, History
    <3>2. CASE cursor # Len(steps)
      <4> DEFINE step == steps[cursor + 1]
      <4>1. step \in Steps
        BY <3>2, NextStep
      <4>2. CASE ~IsCandle(step)
        BY <1>0, <1>4, <3>2, <4>1, <4>2, ChainedObserved DEF Leading, History
      <4>3. CASE IsCandle(step)
        <5>1. Verdict(step.candle, state.candle) \in {"new", "seen", "refused"}
          BY DEF Verdict
        <5> HIDE DEF step
        <5>2. /\ loop' = "trailing"
              /\ CASE Verdict(step.candle, state.candle) = "new" ->
                           todo' = OnCandle(step) /\ UNCHANGED phase
                      [] Verdict(step.candle, state.candle) = "seen" ->
                           UNCHANGED <<phase, todo>>
                      [] Verdict(step.candle, state.candle) = "refused" ->
                           phase' = "broken" /\ UNCHANGED todo
          BY <1>4, <3>2, <4>3 DEF Leading, step
        <5>3. \/ Verdict(step.candle, state.candle) = "new" /\ todo' = OnCandle(step)
              \/ todo' = todo
          BY <5>1, <5>2
        <5> QED BY <4>1, <4>3, <5>3, ChainedCalls DEF History
      <4> QED BY <4>2, <4>3
    <3> QED BY <3>1, <3>2
  <2> QED BY <2>1, <2>2 DEF History
<1>5. CASE Trailing
  <2>1. UNCHANGED <<state, journal>>
    BY <1>5 DEF Trailing
  <2>2. CASE todo' = todo
    BY <2>1, <2>2 DEF History
  <2>3. CASE todo' # todo
    <3>1. /\ cursor # Len(steps) /\ ~IsCandle(steps[cursor + 1])
          /\ todo' = Observed(state, steps[cursor + 1])
      BY <1>5, <2>3 DEF Trailing, IsCandle, TypeOK
    <3>2. steps[cursor + 1] \in Steps
      BY <3>1, NextStep
    <3>3. \A i \in DOMAIN todo' : Chained(todo'[i])
      BY <1>0, <3>1, <3>2, ChainedObserved DEF History
    <3> QED BY <2>1, <3>3 DEF History
  <2> QED BY <2>2, <2>3
<1>6. CASE Replay
  <2>1. UNCHANGED <<state, journal>>
    BY <1>6 DEF Replay
  <2>2. CASE todo' = todo
    BY <2>1, <2>2 DEF History
  <2>3. CASE todo' # todo
    <3> DEFINE step == steps[cursor + 1]
    <3>1. cursor # Len(steps) /\ step \in Steps /\ ~IsCandle(step)
      <4>1. cursor # Len(steps) /\ phase = "replay"
        BY <1>6, <2>3 DEF Replay
      <4>2. cursor + 1 \in DOMAIN steps /\ step \in Steps
        BY <4>1, NextStep
      <4> QED BY <4>1, <4>2, StepsAssumption DEF Given, Rows
    <3>2. CASE step.kind = "request"
      <4> DEFINE t == [state EXCEPT !.log = Append(@, step)]
      <4>1. todo' = <<t>>
        BY <1>6, <3>1, <3>2 DEF Replay
      <4>2. t.log = Append(state.log, step) /\ t.candle = state.candle
        BY <1>0 DEF States
      <4> HIDE DEF t, step
      <4>3. Chained(t)
        BY <1>0, <3>1, <4>2, ChainedCommand DEF History
      <4> QED BY <2>1, <4>1, <4>3 DEF History
    <3>3. CASE step.kind # "request"
      <4>1. todo' = Observed(state, step)
        BY <1>6, <2>3, <3>1, <3>3 DEF Replay
      <4>2. \A i \in DOMAIN todo' : Chained(todo'[i])
        BY <1>0, <3>1, <4>1, ChainedObserved DEF History
      <4> QED BY <2>1, <4>2 DEF History
    <3> QED BY <3>2, <3>3
  <2> QED BY <2>2, <2>3
<1>7. CASE Validate \/ Deliver \/ ClockEnds \/ Report
  BY <1>7 DEF Validate, Deliver, ClockEnds, Report, History
<1>8. CASE Finish
  <2>1. UNCHANGED <<state, journal>> /\ todo' \in {FinishCall, <<>>}
    BY <1>8 DEF Finish
  <2>2. \A i \in DOMAIN todo' : Chained(todo'[i])
    BY <2>1, ChainedCalls DEF History
  <2> QED BY <2>1, <2>2 DEF History
<1>9. CASE UNCHANGED vars
  BY <1>9 DEF vars, History
<1> QED BY <1>1, <1>2, <1>3, <1>4, <1>5, <1>6, <1>7, <1>8, <1>9 DEF Next, Work

\* Over all runs of a session every candle is processed once and the one after it
\* next, wherever a run raised and whatever prefix of the journal it was restored to.
THEOREM CandlesTakenOnce == Spec => []CandlesOnce
<1>1. Init => TypeOK /\ Given /\ History
  BY InitType, InitGiven, InitHistory
<1>2. (TypeOK /\ Given /\ History) /\ [Next]_vars => (TypeOK /\ Given /\ History)'
  BY NextType, NextGiven, NextHistory
<1>3. History => CandlesOnce
  BY DEF History, Chained, Linked, CandlesOnce
<1> QED BY <1>1, <1>2, <1>3, PTL DEF Spec

-----------------------------------------------------------------------------
(* What the steps of a list make of a session. *)

\* Functions that obey the recursion of Ran.
Follow(f, list, seen) ==
  \A i \in DOMAIN f :
     f[i] = IF i = 0 THEN <<>>
            ELSE IF list[i].kind = "restore" \/ (IsCandle(list[i]) /\ list[i].candle = seen)
                 THEN f[i - 1]
                 ELSE Append(f[i - 1], list[i])

\* The recursion defines a sequence for every place of the list.
LEMMA RanRecursion ==
  ASSUME NEW list \in Seq(Steps), NEW seen
  PROVE  /\ Ran(list, seen) \in [0..Len(list) -> Seq(Steps)]
         /\ Follow(Ran(list, seen), list, seen)
<1> DEFINE S == {n \in Nat : n <= Len(list) =>
                   \E f \in [0..n -> Seq(Steps)] : Follow(f, list, seen)}
<1>0. Len(list) \in Nat /\ \A i \in 1..Len(list) : list[i] \in Steps
  OBVIOUS
<1>1. 0 \in S
  <2>1. [i \in 0..0 |-> <<>>] \in [0..0 -> Seq(Steps)] /\ Follow([i \in 0..0 |-> <<>>], list, seen)
    BY DEF Follow
  <2> QED BY <2>1
<1>2. ASSUME NEW n \in S PROVE n + 1 \in S
  <2> SUFFICES ASSUME n + 1 <= Len(list)
               PROVE  \E f \in [0..(n + 1) -> Seq(Steps)] : Follow(f, list, seen)
    OBVIOUS
  <2>1. PICK f \in [0..n -> Seq(Steps)] : Follow(f, list, seen)
    BY <1>0
  <2> DEFINE step == list[n + 1]
             more == IF step.kind = "restore" \/ (IsCandle(step) /\ step.candle = seen)
                     THEN f[n] ELSE Append(f[n], step)
             g == [i \in 0..(n + 1) |-> IF i <= n THEN f[i] ELSE more]
  <2>2. more \in Seq(Steps)
    <3>1. step \in Steps /\ f[n] \in Seq(Steps)
      BY <1>0
    <3> QED BY <3>1
  <2>3. g \in [0..(n + 1) -> Seq(Steps)]
    <3> HIDE DEF more
    <3> QED BY <2>2
  <2>4. Follow(g, list, seen)
    <3> SUFFICES ASSUME NEW i \in 0..(n + 1)
                 PROVE  g[i] = IF i = 0 THEN <<>>
                        ELSE IF list[i].kind = "restore" \/ (IsCandle(list[i]) /\ list[i].candle = seen)
                             THEN g[i - 1]
                             ELSE Append(g[i - 1], list[i])
      BY DEF Follow
    <3>1. CASE i <= n
      <4>1. g[i] = f[i] /\ (i # 0 => g[i - 1] = f[i - 1]) /\ i \in DOMAIN f
        BY <3>1
      <4> HIDE DEF g
      <4> QED BY <2>1, <4>1 DEF Follow
    <3>2. CASE i = n + 1
      <4>1. g[i] = more /\ g[i - 1] = f[n] /\ i # 0 /\ list[i] = step
        BY <3>2
      <4> HIDE DEF g
      <4> QED BY <4>1
    <3> QED BY <3>1, <3>2
  <2> HIDE DEF g
  <2> QED BY <2>3, <2>4
<1>3. S = Nat
  <2> HIDE DEF S
  <2>1. S \in SUBSET Nat BY DEF S
  <2> QED BY <1>1, <1>2, <2>1, SetInduction
<1>4. PICK f \in [0..Len(list) -> Seq(Steps)] : Follow(f, list, seen)
  <2>1. Len(list) \in S
    BY <1>0, <1>3
  <2> QED BY <2>1
<1> DEFINE h == CHOOSE u : u =
              [i \in 0..Len(list) |->
                 IF i = 0 THEN <<>>
                 ELSE IF list[i].kind = "restore" \/ (IsCandle(list[i]) /\ list[i].candle = seen)
                      THEN u[i - 1]
                      ELSE Append(u[i - 1], list[i])]
<1>5. f = [i \in 0..Len(list) |->
             IF i = 0 THEN <<>>
             ELSE IF list[i].kind = "restore" \/ (IsCandle(list[i]) /\ list[i].candle = seen)
                  THEN f[i - 1]
                  ELSE Append(f[i - 1], list[i])]
  BY <1>4 DEF Follow
<1>6. h = [i \in 0..Len(list) |->
             IF i = 0 THEN <<>>
             ELSE IF list[i].kind = "restore" \/ (IsCandle(list[i]) /\ list[i].candle = seen)
                  THEN h[i - 1]
                  ELSE Append(h[i - 1], list[i])]
  BY <1>5
<1>7. Ran(list, seen) = h
  BY DEF Ran
<1> HIDE DEF h
<1>8. DOMAIN h = 0..Len(list)
  BY <1>6
<1>9. Follow(h, list, seen)
  <2> SUFFICES ASSUME NEW i \in DOMAIN h
               PROVE  h[i] = IF i = 0 THEN <<>>
                        ELSE IF list[i].kind = "restore" \/ (IsCandle(list[i]) /\ list[i].candle = seen)
                             THEN h[i - 1]
                             ELSE Append(h[i - 1], list[i])
    BY DEF Follow
  <2>1. i \in 0..Len(list)
    BY <1>8
  <2> QED BY <1>6, <2>1
<1>10. h = f
  <2> DEFINE T == {n \in Nat : n <= Len(list) => h[n] = f[n]}
  <2>1. 0 \in T
    BY <1>0, <1>4, <1>8, <1>9 DEF Follow
  <2>2. ASSUME NEW n \in T PROVE n + 1 \in T
    <3> SUFFICES ASSUME n + 1 <= Len(list) PROVE h[n + 1] = f[n + 1]
      OBVIOUS
    <3>1. n + 1 \in DOMAIN h /\ n + 1 \in DOMAIN f /\ n + 1 # 0 /\ (n + 1) - 1 = n /\ h[n] = f[n]
      BY <1>0, <1>4, <1>8
    <3> DEFINE k == n + 1
    <3> HIDE DEF k
    <3>2. k \in DOMAIN h /\ k \in DOMAIN f /\ k # 0 /\ k - 1 = n
      BY <3>1 DEF k
    <3>3. h[k] = f[k]
      BY <1>4, <1>9, <3>1, <3>2 DEF Follow
    <3> QED BY <3>3 DEF k
  <2>3. T = Nat
    <3> HIDE DEF T
    <3>1. T \in SUBSET Nat BY DEF T
    <3> QED BY <2>1, <2>2, <3>1, SetInduction
  <2>4. \A n \in 0..Len(list) : h[n] = f[n]
    <3> TAKE n \in 0..Len(list)
    <3>1. n \in T
      BY <2>3
    <3> QED BY <3>1
  <2> QED BY <1>6, <1>8, <2>4
<1> QED BY <1>4, <1>7, <1>10

\* One step further.
LEMMA RanNext ==
  ASSUME NEW list \in Seq(Steps), NEW seen, NEW n \in 0..Len(list), n # Len(list)
  PROVE  /\ Ran(list, seen)[n] \in Seq(Steps)
         /\ Ran(list, seen)[n + 1] =
              IF list[n + 1].kind = "restore" \/ (IsCandle(list[n + 1]) /\ list[n + 1].candle = seen)
              THEN Ran(list, seen)[n]
              ELSE Append(Ran(list, seen)[n], list[n + 1])
<1> DEFINE k == n + 1
<1>1. k \in 0..Len(list) /\ k # 0 /\ k - 1 = n
  OBVIOUS
<1> HIDE DEF k
<1>2. Ran(list, seen)[k] =
              IF list[k].kind = "restore" \/ (IsCandle(list[k]) /\ list[k].candle = seen)
              THEN Ran(list, seen)[n]
              ELSE Append(Ran(list, seen)[n], list[k])
  <2> DEFINE f == Ran(list, seen)
  <2>1. f \in [0..Len(list) -> Seq(Steps)] /\ Follow(f, list, seen)
    BY RanRecursion
  <2> HIDE DEF f
  <2>2. f[k] = IF list[k].kind = "restore" \/ (IsCandle(list[k]) /\ list[k].candle = seen)
               THEN f[n] ELSE Append(f[n], list[k])
    BY <1>1, <2>1 DEF Follow
  <2> QED BY <2>2 DEF f
<1>3. Ran(list, seen)[n] \in Seq(Steps)
  BY RanRecursion
<1> QED BY <1>2, <1>3 DEF k

-----------------------------------------------------------------------------
(* The course of a run. *)

\* What the run was restored to, and what the session will be when the call in
\* progress is done.
Base == Restored(since)
Target == IF todo = <<>> THEN state ELSE todo[Len(todo)]

\* The feed goes on from the candle before.
Continues(candle, previous) ==
  \/ candle = previous
  \/ (previous = NoCandle \/ candle.time = previous.time + 1) /\ candle.time < End

\* What the first pass over the steps has found.
Admitted ==
  /\ ~Base.finished
  /\ \A i \in Rows(steps) : Continues(steps[i].candle, Previous(steps, i, Base.candle))

\* The candles behind the cursor are those Cerebro has delivered, and at rest the
\* cursor stands at the next one.
Clockwork ==
  LET passed == Cardinality(Before(steps, cursor + 1)) IN
  /\ Admitted
  /\ Target.candle = Previous(steps, cursor + 1, Base.candle)
  /\ row <= Cardinality(Rows(steps))
  /\ loop = "leading" => passed + 1 = row
  /\ loop \in {"idle", "trailing"} => passed = row
  /\ loop = "idle" => row = 0 \/ cursor = Len(steps) \/ IsCandle(steps[cursor + 1])

\* What the steps so far have made of the session.
Performed ==
  /\ Complete(Target) /\ Target.finished = Base.finished
  /\ Target.log = Base.log \o Ran(steps, Base.candle)[cursor]

Course ==
  /\ phase # "broken"
  /\ phase \in {"validate", "refused"} => todo = <<>> /\ Len(journal) = since
  /\ phase = "validate" => /\ state = Base /\ Complete(Base)
                           /\ cursor = 0 /\ row = 0 /\ loop = "idle"
  /\ phase \in {"clock", "replay", "finish"} => Performed
  /\ phase = "clock" => Clockwork
  /\ phase = "finish" => todo = <<>> /\ cursor = Len(steps)
  /\ phase \in {"report", "over"} =>
       Target.log = Base.log \o Ran(steps, Base.candle)[Len(steps)]
                      \o (IF Target.finished /\ ~Base.finished THEN <<EndOfData>> ELSE <<>>)
  /\ phase = "over" => todo = <<>>

\* Candles before a place: finitely many, and one more behind a candle.
LEMMA BeforeFacts ==
  ASSUME NEW list \in Seq(Steps), NEW m \in 1..Len(list)
  PROVE  /\ IsFiniteSet(Rows(list)) /\ Cardinality(Rows(list)) \in Nat
         /\ Before(list, m) \subseteq Rows(list)
         /\ Cardinality(Before(list, m)) \in Nat
         /\ Before(list, m + 1) = IF IsCandle(list[m]) THEN Before(list, m) \cup {m}
                                                       ELSE Before(list, m)
         /\ Cardinality(Before(list, m + 1)) =
              IF IsCandle(list[m]) THEN Cardinality(Before(list, m)) + 1
                                   ELSE Cardinality(Before(list, m))
<1>1. /\ Len(list) \in Nat /\ DOMAIN list = 1..Len(list) /\ m \in Int
      /\ Rows(list) \subseteq 1..Len(list)
  BY DEF Rows
<1>2. IsFiniteSet(1..Len(list))
  BY <1>1, FS_Interval
<1>3. IsFiniteSet(Rows(list)) /\ Before(list, m) \subseteq Rows(list)
  BY <1>1, <1>2, FS_Subset DEF Before
<1>4. IsFiniteSet(Before(list, m))
  BY <1>3, FS_Subset
<1>5. Cardinality(Rows(list)) \in Nat /\ Cardinality(Before(list, m)) \in Nat
  BY <1>3, <1>4, FS_CardinalityType
<1>6. m \notin Before(list, m)
  BY <1>1 DEF Before
<1>7. Before(list, m + 1) = IF IsCandle(list[m]) THEN Before(list, m) \cup {m}
                                                 ELSE Before(list, m)
  <2>1. \A j \in Rows(list) : j < m + 1 <=> j < m \/ j = m
    BY <1>1
  <2>2. m \in Rows(list) <=> IsCandle(list[m])
    BY <1>1 DEF Rows
  <2> QED BY <2>1, <2>2 DEF Before
<1>8. Cardinality(Before(list, m) \cup {m}) = Cardinality(Before(list, m)) + 1
  BY <1>4, <1>6, FS_AddElement
<1> QED BY <1>3, <1>5, <1>7, <1>8

\* No candle is before the first place, and all are before the one past the end.
LEMMA BeforeEnds ==
  ASSUME NEW list \in Seq(Steps)
  PROVE  /\ Before(list, 1) = {} /\ Cardinality(Before(list, 1)) = 0
         /\ Before(list, Len(list) + 1) = Rows(list)
<1>1. DOMAIN list = 1..Len(list) /\ Len(list) \in Nat
  OBVIOUS
<1>2. Before(list, 1) = {} /\ Before(list, Len(list) + 1) = Rows(list)
  BY <1>1 DEF Before, Rows
<1> QED BY <1>2, FS_EmptySet

\* The greatest place of a set of places.
LEMMA MaxPlace ==
  ASSUME NEW n \in Nat, NEW S \in SUBSET (1..n), S # {}
  PROVE  Max(S) \in S /\ \A k \in S : k <= Max(S)
<1>1. S \in SUBSET (0..n)
  OBVIOUS
<1>2. PICK g \in S : \A k \in S : k <= g
  BY <1>1, GreatestElement
<1>3. \A k \in S : g >= k
  BY <1>2
<1>4. Max(S) \in S /\ \A k \in S : Max(S) >= k
  BY <1>2, <1>3 DEF Max
<1>5. \A k \in S : k \in Int
  OBVIOUS
<1> QED BY <1>4, <1>5

\* The candle before the next place.
LEMMA PreviousNext ==
  ASSUME NEW list \in Seq(Steps), NEW m \in 1..Len(list), NEW seen
  PROVE  Previous(list, m + 1, seen) = IF IsCandle(list[m]) THEN list[m].candle
                                       ELSE Previous(list, m, seen)
<1>1. CASE ~IsCandle(list[m])
  BY <1>1, BeforeFacts DEF Previous
<1>2. CASE IsCandle(list[m])
  <2> DEFINE B == Before(list, m + 1)
  <2>1. m \in B /\ B \subseteq 1..Len(list) /\ \A j \in B : j <= m
    <3>1. B = Before(list, m) \cup {m}
      BY <1>2, BeforeFacts
    <3>2. \A j \in Before(list, m) : j < m /\ j \in 1..Len(list)
      BY DEF Before, Rows
    <3> HIDE DEF B
    <3> QED BY <3>1, <3>2
  <2> HIDE DEF B
  <2>2. Max(B) \in B /\ m <= Max(B)
    <3>1. Len(list) \in Nat /\ B # {} /\ B \in SUBSET (1..Len(list))
      BY <2>1
    <3> QED BY <2>1, <3>1, MaxPlace
  <2>3. Max(B) = m
    <3> DEFINE x == Max(B)
    <3>1. x \in B /\ m <= x
      BY <2>2
    <3> HIDE DEF x
    <3>2. x <= m /\ x \in Int /\ m \in Int
      BY <2>1, <3>1
    <3> QED BY <3>1, <3>2 DEF x
  <2> QED BY <1>2, <2>1, <2>3 DEF Previous, B
<1> QED BY <1>1, <1>2

\* In a feed that goes on from what the session has seen, a candle is the one before it
\* exactly if the session has seen it.
LEMMA SeenBefore ==
  ASSUME NEW list \in StepLists, NEW seen \in Candles \cup {NoCandle}, NEW m \in Rows(list),
         \A i \in Rows(list) : Continues(list[i].candle, Previous(list, i, seen))
  PROVE  list[m].candle = Previous(list, m, seen) <=> list[m].candle = seen
<1>1. /\ list \in Seq(Steps)
      /\ \A i, j \in Rows(list) : i < j => list[i].candle.time < list[j].candle.time
  BY StepsAssumption
<1>2. /\ \A i \in Rows(list) : i \in 1..Len(list) /\ list[i].candle.time \in Nat
      /\ \A i \in Rows(list) : list[i].candle \in Candles
  BY <1>1, StepParts DEF Rows
<1> DEFINE B == Before(list, m)
<1>3. CASE B = {}
  BY <1>3 DEF Previous
<1>4. CASE B # {}
  <2>1. B \subseteq 1..Len(list) /\ \A j \in B : j \in Rows(list) /\ j < m
    BY <1>2 DEF Before
  <2>2. Max(B) \in B
    <3>1. Len(list) \in Nat
      BY <1>1
    <3> HIDE DEF B
    <3> QED BY <1>4, <2>1, <3>1, MaxPlace
  <2>3. list[Max(B)].candle.time < list[m].candle.time
    BY <1>1, <2>1, <2>2
  <2>4. Previous(list, m, seen) = list[Max(B)].candle
    BY <1>4 DEF Previous
  <2>5. list[m].candle # Previous(list, m, seen)
    BY <1>2, <2>1, <2>2, <2>3, <2>4
  <2>6. PICK f \in B : \A j \in B : f <= j
    <3>1. B \in SUBSET Nat
      BY <2>1
    <3> HIDE DEF B
    <3> QED BY <1>4, <3>1, SmallestElement
  <2>7. Before(list, f) = {}
    <3>1. \A j \in Before(list, f) : j \in B /\ j < f
      <4>1. \A j \in Before(list, f) : j \in Rows(list) /\ j < f
        BY DEF Before
      <4>2. f < m /\ f \in 1..Len(list) /\ m \in 1..Len(list)
        BY <1>2, <2>1
      <4>3. \A j \in Rows(list) : j < f => j < m
        BY <1>2, <4>2
      <4> QED BY <4>1, <4>3 DEF Before
    <3> QED BY <2>1, <2>6, <3>1
  <2>8. f \in Rows(list) /\ Continues(list[f].candle, seen)
    BY <2>1, <2>7 DEF Previous
  <2>9. list[f].candle.time < list[m].candle.time
    BY <1>1, <2>1
  <2>10. list[m].candle # seen
    <3>1. CASE seen = NoCandle
      BY <1>2, <3>1, StepParts
    <3>2. CASE seen # NoCandle
      <4>1. seen.time \in Nat
        BY <3>2 DEF Candles
      <4>2. seen.time <= list[f].candle.time
        BY <1>2, <2>8, <3>2, <4>1 DEF Continues
      <4> QED BY <1>2, <2>8, <2>9, <4>1, <4>2
    <3> QED BY <3>1, <3>2
  <2> QED BY <2>5, <2>10
<1> QED BY <1>3, <1>4

\* What a run was restored to stays what it is.
LEMMA BaseKept ==
  ASSUME TypeOK, since' = since, journal' = journal \/ \E e : journal' = Append(journal, e)
  PROVE  Base' = Base /\ Base \in States
<1>1. since \in 0..Len(journal) /\ journal \in Seq(States)
  BY DEF TypeOK
<1>2. since # 0 => journal'[since] = journal[since]
  BY <1>1
<1>3. Restored(since) \in States
  BY <1>1, RestoredType
<1> QED BY <1>2, <1>3 DEF Base, Restored

\* The call's last state is what the session will be.
LEMMA TargetKept ==
  ASSUME TypeOK, Persist
  PROVE  Target' = Target
<1>1. todo \in Seq(States) /\ todo # <<>> /\ state' = Head(todo) /\ todo' = Tail(todo)
  BY DEF TypeOK, Persist
<1>2. CASE Len(todo) = 1
  <2>1. Tail(todo) = <<>> /\ Head(todo) = todo[1]
    BY <1>1, <1>2
  <2> QED BY <1>1, <1>2, <2>1 DEF Target
<1>3. CASE Len(todo) # 1
  <2> DEFINE n == Len(todo) - 1
             rest == Tail(todo)
  <2>1. Len(todo) \in Nat /\ Len(todo) # 0
    BY <1>1, EmptySeq
  <2>2. rest \in Seq(States) /\ Len(rest) = n /\ \A i \in 1..Len(rest) : rest[i] = todo[i + 1]
    BY <1>1, HeadTailProperties
  <2>3. n \in 1..n /\ n + 1 = Len(todo)
    <3> DEFINE l == Len(todo)
    <3>1. l \in Nat /\ l # 0 /\ l # 1
      BY <1>3, <2>1
    <3> HIDE DEF l
    <3>2. l - 1 \in 1..(l - 1) /\ (l - 1) + 1 = l
      BY <3>1
    <3> QED BY <3>2 DEF l
  <2> HIDE DEF n, rest
  <2>4. rest # <<>> /\ rest[n] = todo[Len(todo)]
    BY <2>2, <2>3
  <2> QED BY <1>1, <2>2, <2>4 DEF Target, rest
<1> QED BY <1>2, <1>3

LEMMA TargetType ==
  ASSUME TypeOK
  PROVE  Target \in States
BY DEF TypeOK, Target

LEMMA InitCourse == Init => Course
BY DEF Init, Course

LEMMA PersistCourse ==
  ASSUME TypeOK, Course, Persist
  PROVE  Course'
<1>1. Target' = Target /\ Base' = Base
  <2>1. since' = since /\ journal' = Append(journal, Head(todo))
    BY DEF Persist
  <2> QED BY <2>1, TargetKept, BaseKept
<1>2. todo # <<>> /\ UNCHANGED <<phase, steps, cursor, row, loop>>
  BY DEF Persist, inputs, clock
<1>3. Performed => Performed'
  BY <1>1, <1>2 DEF Performed
<1>4. Clockwork => Clockwork'
  BY <1>1, <1>2 DEF Clockwork, Admitted
<1> QED BY <1>1, <1>2, <1>3, <1>4 DEF Course

LEMMA RaiseCourse ==
  ASSUME TypeOK, Raise
  PROVE  Course'
BY DEF Raise, Course

\* A run starts with what it was restored to.
LEMMA StartRunCourse ==
  ASSUME TypeOK, StartRun
  PROVE  Course'
<1>1. PICK n \in 0..Len(journal) :
        /\ journal' = SubSeq(journal, 1, n) /\ since' = n
        /\ state' = IF Complete(Restored(n)) THEN Restored(n) ELSE Genesis
        /\ phase' = IF ~Complete(Restored(n)) THEN "refused"
                    ELSE IF replay' THEN "replay" ELSE "validate"
  BY DEF StartRun
<1>2. cursor' = 0 /\ row' = 0 /\ loop' = "idle" /\ todo' = <<>>
  BY DEF StartRun
<1>3. Base' = Restored(n) /\ Restored(n) \in States /\ Len(journal') = n
  <2>1. journal \in Seq(States)
    BY DEF TypeOK
  <2>2. Len(journal') = n /\ (n # 0 => journal'[n] = journal[n])
    BY <1>1, <2>1
  <2> QED BY <1>1, <2>2, RestoredType DEF Base, Restored
<1>4. CASE ~Complete(Restored(n))
  BY <1>1, <1>2, <1>3, <1>4 DEF Course
<1>5. CASE Complete(Restored(n))
  <2>1. state' = Base' /\ Target' = Base' /\ Complete(Base')
    BY <1>1, <1>2, <1>3, <1>5 DEF Target
  <2>2. steps' \in Seq(Steps)
    BY StepsAssumption DEF StartRun
  <2>3. Ran(steps', Base'.candle)[0] = <<>>
    <3> DEFINE f == Ran(steps', Base'.candle)
    <3>1. f \in [0..Len(steps') -> Seq(Steps)] /\ Follow(f, steps', Base'.candle)
      BY <2>2, RanRecursion
    <3> HIDE DEF f
    <3>2. 0 \in DOMAIN f
      BY <2>2, <3>1
    <3> QED BY <3>1, <3>2 DEF Follow, f
  <2>4. Base'.log \o <<>> = Base'.log
    BY <1>3 DEF States
  <2>5. Performed'
    BY <1>2, <2>1, <2>3, <2>4 DEF Performed, Complete
  <2>6. phase' \in {"replay", "validate"}
    BY <1>1, <1>5
  <2>7. Complete(Base)' /\ (state = Base)'
    BY <2>1 DEF Complete
  <2> QED BY <1>1, <1>2, <1>3, <2>5, <2>6, <2>7 DEF Course
<1> QED BY <1>4, <1>5

\* The first pass lets on what goes on, from a session that is not finished.
LEMMA VerdictContinues ==
  ASSUME NEW candle \in Candles, NEW previous \in Candles \cup {NoCandle}
  PROVE  /\ Verdict(candle, previous) # "refused"
              => ~state.finished /\ Continues(candle, previous)
         /\ ~state.finished /\ ~state.inBar /\ Continues(candle, previous)
              => Verdict(candle, previous) = IF candle = previous THEN "seen" ELSE "new"
<1>1. candle # NoCandle
  BY StepParts
<1>2. candle.time \in Nat /\ (previous # NoCandle => previous.time \in Nat)
  BY DEF Candles
<1>3. Verdict(candle, previous) # "refused" => ~state.finished /\ Continues(candle, previous)
  BY <1>1, <1>2, StepsAssumption DEF Verdict, Continues
<1>4. ~state.finished /\ ~state.inBar /\ Continues(candle, previous)
        => Verdict(candle, previous) = IF candle = previous THEN "seen" ELSE "new"
  BY <1>1, <1>2, StepsAssumption DEF Verdict, Continues
<1> QED BY <1>3, <1>4

\* The candle before a place is a candle, or none.
LEMMA PreviousType ==
  ASSUME NEW list \in Seq(Steps), NEW m \in 1..Len(list), NEW seen \in Candles \cup {NoCandle}
  PROVE  Previous(list, m, seen) \in Candles \cup {NoCandle}
<1> DEFINE B == Before(list, m)
<1>1. CASE B = {}
  BY <1>1 DEF Previous
<1>2. CASE B # {}
  <2>1. B \in SUBSET (1..Len(list)) /\ Len(list) \in Nat /\ B \subseteq Rows(list)
    BY DEF Before, Rows
  <2>2. Max(B) \in Rows(list)
    <3> HIDE DEF B
    <3> QED BY <1>2, <2>1, MaxPlace
  <2>3. list[Max(B)].candle \in Candles
    BY <2>2, StepParts DEF Rows
  <2> QED BY <1>2, <2>3 DEF Previous
<1> QED BY <1>1, <1>2

LEMMA ValidateCourse ==
  ASSUME TypeOK, Given, Course, Validate
  PROVE  Course'
<1>0. /\ phase = "validate" /\ UNCHANGED <<steps, cursor, row, loop, state, todo, journal, since>>
      /\ todo = <<>> /\ Len(journal) = since
      /\ state = Base /\ Complete(Base) /\ cursor = 0 /\ row = 0 /\ loop = "idle"
      /\ steps \in Seq(Steps)
  BY DEF Validate, Course, inputs, clock, TypeOK
<1>1. Base' = Base /\ Base \in States /\ Target' = Base /\ Target = Base
  <2>1. Base' = Base /\ Base \in States
    BY <1>0, BaseKept
  <2> QED BY <1>0, <2>1 DEF Target
<1>2. CASE phase' = "refused"
  BY <1>0, <1>1, <1>2 DEF Course
<1>3. CASE phase' # "refused"
  <2>1. /\ phase' = "clock"
        /\ \A i \in Rows(steps) : Verdict(steps[i].candle, Previous(steps, i, state.candle)) # "refused"
    BY <1>3 DEF Validate
  <2>2. Rows(steps) # {} /\ \A i \in Rows(steps) : i \in 1..Len(steps) /\ steps[i].candle \in Candles
    <3>1. steps \in StepLists
      BY <1>0 DEF Given
    <3>2. \A i \in Rows(steps) : i \in 1..Len(steps) /\ steps[i].candle \in Candles
      BY <1>0, StepParts DEF Rows
    <3> QED BY <3>1, <3>2, StepsAssumption
  <2>3. Admitted
    <3>1. Base.candle \in Candles \cup {NoCandle}
      BY <1>1 DEF States
    <3>2. ASSUME NEW i \in Rows(steps)
          PROVE  ~Base.finished /\ Continues(steps[i].candle, Previous(steps, i, Base.candle))
      <4>1. Previous(steps, i, Base.candle) \in Candles \cup {NoCandle}
        BY <1>0, <2>2, <3>1, PreviousType
      <4>2. Verdict(steps[i].candle, Previous(steps, i, Base.candle)) # "refused"
        BY <1>0, <2>1
      <4> QED BY <1>0, <2>2, <4>1, <4>2, VerdictContinues
    <3> QED BY <2>2, <3>2 DEF Admitted
  <2>4. Ran(steps, Base.candle)[0] = <<>> /\ Base.log \o <<>> = Base.log
    <3> DEFINE f == Ran(steps, Base.candle)
    <3>1. f \in [0..Len(steps) -> Seq(Steps)] /\ Follow(f, steps, Base.candle)
      BY <1>0, RanRecursion
    <3> HIDE DEF f
    <3>2. 0 \in DOMAIN f
      BY <1>0, <3>1
    <3> QED BY <1>1, <3>1, <3>2 DEF Follow, f, States
  <2>5. Performed'
    BY <1>0, <1>1, <2>4 DEF Performed
  <2>6. Clockwork'
    <3>1. Before(steps, 1) = {} /\ Cardinality(Before(steps, 1)) = 0
      BY <1>0, BeforeEnds
    <3>2. 0 <= Cardinality(Rows(steps))
      <4>1. PICK i \in 1..Len(steps) : TRUE
        BY <2>2
      <4>2. Cardinality(Rows(steps)) \in Nat
        BY <1>0, <4>1, BeforeFacts
      <4> QED BY <4>2
    <3>3. Previous(steps, 1, Base.candle) = Base.candle
      BY <3>1 DEF Previous
    <3>4. cursor' + 1 = 1
      BY <1>0
    <3>5. Admitted'
      BY <1>0, <1>1, <2>3 DEF Admitted
    <3> QED BY <1>0, <1>1, <3>1, <3>2, <3>3, <3>4, <3>5 DEF Clockwork
  <2> QED BY <1>0, <2>1, <2>5, <2>6 DEF Course
<1> QED BY <1>2, <1>3

LEMMA DeliverCourse ==
  ASSUME TypeOK, Course, Deliver
  PROVE  Course'
<1>1. /\ phase = "clock" /\ todo = <<>> /\ loop = "idle" /\ row < Cardinality(Rows(steps))
      /\ row' = row + 1 /\ loop' = "leading"
      /\ UNCHANGED <<phase, steps, cursor, state, todo, journal, since>>
  BY DEF Deliver, inputs
<1>2. Base' = Base /\ Target' = Target
  BY <1>1, BaseKept DEF Target
<1>3. Performed' /\ Performed
  BY <1>1, <1>2 DEF Course, Performed
<1>4. Clockwork'
  <2>1. Clockwork
    BY <1>1 DEF Course
  <2>2. row \in Nat /\ steps \in Seq(Steps) /\ cursor \in 0..Len(steps)
    BY DEF TypeOK
  <2>3. Cardinality(Rows(steps)) \in Nat
    <3>1. CASE Len(steps) = 0
      <4>1. Rows(steps) = {}
        BY <2>2, <3>1 DEF Rows
      <4> QED BY <4>1, FS_EmptySet
    <3>2. CASE Len(steps) # 0
      <4>1. 1 \in 1..Len(steps)
        BY <2>2, <3>2
      <4> QED BY <2>2, <4>1, BeforeFacts
    <3> QED BY <3>1, <3>2
  <2> QED BY <1>1, <1>2, <2>1, <2>2, <2>3 DEF Clockwork, Admitted
<1> QED BY <1>1, <1>3, <1>4 DEF Course

\* To append to a sequence is to append to its second part.
LEMMA AppendBehind ==
  \A a, b \in Seq(Steps) : \A e \in Steps : Append(a \o b, e) = a \o Append(b, e)
<1> SUFFICES ASSUME NEW a \in Seq(Steps), NEW b \in Seq(Steps), NEW e \in Steps
             PROVE  Append(a \o b, e) = a \o Append(b, e)
  OBVIOUS
<1> DEFINE u == Append(a \o b, e)
           v == a \o Append(b, e)
<1>1. /\ a \o b \in Seq(Steps) /\ Append(b, e) \in Seq(Steps)
      /\ Len(a) \in Nat /\ Len(b) \in Nat /\ Len(a \o b) = Len(a) + Len(b)
      /\ Len(Append(b, e)) = Len(b) + 1
  OBVIOUS
<1>2. u \in Seq(Steps) /\ Len(u) = Len(a) + Len(b) + 1
  BY <1>1
<1>3. v \in Seq(Steps) /\ Len(v) = Len(a) + Len(b) + 1
  BY <1>1
<1>4. \A i \in 1..Len(u) : u[i] = v[i]
  <2> TAKE i \in 1..Len(u)
  <2>1. i \in Int /\ 1 <= i /\ i <= Len(a) + Len(b) + 1
    BY <1>1, <1>2
  <2> HIDE DEF u, v
  <2>2. CASE i <= Len(a)
    BY <1>1, <2>1, <2>2 DEF u, v
  <2>3. CASE Len(a) < i /\ i <= Len(a) + Len(b)
    BY <1>1, <2>1, <2>3 DEF u, v
  <2>4. CASE i = Len(a) + Len(b) + 1
    BY <1>1, <2>1, <2>4 DEF u, v
  <2> QED BY <1>1, <2>1, <2>2, <2>3, <2>4
<1>5. u = v
  <2> HIDE DEF u, v
  <2> QED BY <1>2, <1>3, <1>4, SeqEqual
<1> QED BY <1>5

\* What a command adds.
LEMMA CommandPerformed ==
  ASSUME TypeOK, Performed, todo = <<>>, cursor # Len(steps), ~IsCandle(steps[cursor + 1]),
         steps[cursor + 1].kind # "restore",
         UNCHANGED <<steps, state, journal, since>>, cursor' = cursor + 1,
         todo' = Observed(state, steps[cursor + 1])
           \/ todo' = <<[state EXCEPT !.log = Append(@, steps[cursor + 1])]>>
  PROVE  /\ Performed' /\ Base' = Base
         /\ Target.candle = Target'.candle
<1> DEFINE step == steps[cursor + 1]
<1>1. /\ step \in Steps /\ state \in States /\ steps \in Seq(Steps) /\ cursor \in 0..Len(steps)
      /\ cursor + 1 \in 0..Len(steps)
  BY NextStep DEF TypeOK
<1>2. Base' = Base /\ Base \in States
  BY BaseKept
<1>3. Target = state
  BY DEF Target
<1>4. Target' = [state EXCEPT !.log = Append(state.log, step)]
  <2>1. CASE todo' = Observed(state, step)
    <3>1. /\ Observed(state, step) \in Seq(States) /\ Len(Observed(state, step)) = 2
          /\ Observed(state, step)[2] = [state EXCEPT !.log = Append(state.log, step)]
      BY <1>1, ObservedType
    <3>2. todo' # <<>>
      BY <2>1, <3>1
    <3> QED BY <2>1, <3>1, <3>2 DEF Target
  <2>2. CASE todo' = <<[state EXCEPT !.log = Append(@, step)]>>
    BY <2>2 DEF Target
  <2> QED BY <2>1, <2>2
<1>5. /\ Target'.log = Append(state.log, step) /\ Target'.candle = state.candle
      /\ Target'.finished = state.finished /\ (Complete(state) => Complete(Target'))
  BY <1>1, <1>4 DEF States, Complete
<1>6. /\ Ran(steps, Base.candle)[cursor + 1] = Append(Ran(steps, Base.candle)[cursor], step)
      /\ Ran(steps, Base.candle)[cursor] \in Seq(Steps)
  BY <1>1, RanNext
<1>7. Append(Base.log \o Ran(steps, Base.candle)[cursor], step)
        = Base.log \o Append(Ran(steps, Base.candle)[cursor], step)
  <2>1. Base.log \in Seq(Steps)
    BY <1>2 DEF States
  <2> DEFINE a == Base.log
             b == Ran(steps, Base.candle)[cursor]
  <2>2. a \in Seq(Steps) /\ b \in Seq(Steps) /\ step \in Steps
    BY <1>1, <1>6, <2>1
  <2> HIDE DEF a, b, step
  <2>3. Append(a \o b, step) = a \o Append(b, step)
    BY <2>2, AppendBehind
  <2> QED BY <2>3 DEF a, b
<1>8. Performed'
  <2>1. Complete(Target')
    BY <1>3, <1>5 DEF Performed
  <2>2. Complete(Target)'
    BY <2>1 DEF Complete
  <2> QED BY <1>2, <1>3, <1>5, <1>6, <1>7, <2>2 DEF Performed
<1> QED BY <1>2, <1>3, <1>5, <1>8

\* The clock at rest between two calls.
LEMMA AtRest ==
  ASSUME TypeOK, Given, Course, phase = "clock", todo = <<>>
  PROVE  /\ steps \in StepLists /\ steps \in Seq(Steps) /\ state \in States
         /\ cursor \in 0..Len(steps) /\ Performed /\ Clockwork /\ Target = state
         /\ \A i \in DOMAIN steps : IsCandle(steps[i]) \/ steps[i].kind = "command"
BY StepsAssumption DEF TypeOK, Given, Course, Target, IsCandle

\* A command leaves the candles where they are.
LEMMA CommandCourse ==
  ASSUME TypeOK, Given, Course, phase = "clock", todo = <<>>, loop \in {"leading", "trailing"},
         cursor # Len(steps), ~IsCandle(steps[cursor + 1]),
         UNCHANGED <<phase, steps, loop, row, state, journal, since>>, cursor' = cursor + 1,
         todo' = Observed(state, steps[cursor + 1])
  PROVE  Course'
<1>1. /\ steps \in Seq(Steps) /\ Performed /\ Clockwork
      /\ steps[cursor + 1].kind # "restore" /\ cursor + 1 \in 1..Len(steps)
  <2>1. cursor + 1 \in DOMAIN steps /\ cursor + 1 \in 1..Len(steps)
    BY NextStep
  <2> QED BY <2>1, AtRest
<1>2. Performed' /\ Base' = Base /\ Target'.candle = Target.candle
  BY <1>1, CommandPerformed
<1>3. /\ Before(steps, (cursor + 1) + 1) = Before(steps, cursor + 1)
      /\ Previous(steps, (cursor + 1) + 1, Base.candle) = Previous(steps, cursor + 1, Base.candle)
  BY <1>1, BeforeFacts, PreviousNext
<1>4. Admitted'
  BY <1>1, <1>2 DEF Clockwork, Admitted
<1>5. Clockwork'
  BY <1>1, <1>2, <1>3, <1>4 DEF Clockwork
<1> QED BY <1>2, <1>5 DEF Course

\* The candle Cerebro has delivered is ahead of the cursor.
LEMMA CandleAhead ==
  ASSUME TypeOK, Given, Course, phase = "clock", todo = <<>>, loop = "leading"
  PROVE  cursor # Len(steps)
<1>1. steps \in StepLists /\ steps \in Seq(Steps) /\ Clockwork
  BY AtRest
<1>2. SUFFICES ASSUME cursor = Len(steps) PROVE FALSE
  OBVIOUS
<1>3. Before(steps, cursor + 1) = Rows(steps)
  BY <1>1, <1>2, BeforeEnds
<1>4. Cardinality(Rows(steps)) \in Nat
  <2>1. PICK i \in Rows(steps) : TRUE
    BY <1>1, StepsAssumption
  <2>2. i \in 1..Len(steps)
    BY <1>1 DEF Rows
  <2> QED BY <1>1, <2>2, BeforeFacts
<1> QED BY <1>1, <1>3, <1>4 DEF Clockwork

LEMMA LeadingCourse ==
  ASSUME TypeOK, Given, Course, Leading
  PROVE  Course'
<1> DEFINE step == steps[cursor + 1]
<1>0. /\ phase = "clock" /\ todo = <<>> /\ loop = "leading"
      /\ UNCHANGED <<steps, row, state, journal, since>>
  BY DEF Leading, inputs
<1>1. cursor # Len(steps)
  BY <1>0, CandleAhead
<1>2. /\ steps \in StepLists /\ steps \in Seq(Steps) /\ state \in States
      /\ cursor \in 0..Len(steps) /\ Performed /\ Clockwork /\ Target = state
  BY <1>0, AtRest
<1>3. Base' = Base /\ Base \in States
  BY <1>0, BaseKept
<1>4. cursor + 1 \in 1..Len(steps) /\ cursor + 1 \in DOMAIN steps /\ step \in Steps
  BY <1>1, NextStep
<1>5. CASE ~IsCandle(step)
  <2>1. cursor' = cursor + 1 /\ todo' = Observed(state, step) /\ UNCHANGED <<phase, loop>>
    BY <1>1, <1>5 DEF Leading
  <2> QED BY <1>0, <1>1, <1>5, <2>1, CommandCourse
<1>6. CASE IsCandle(step)
  <2> DEFINE v == Verdict(step.candle, state.candle)
             run == Ran(steps, Base.candle)
  <2>1. cursor + 1 \in Rows(steps)
    BY <1>4, <1>6 DEF Rows
  <2>2. step.candle \in Candles /\ state.candle \in Candles \cup {NoCandle}
        /\ Base.candle \in Candles \cup {NoCandle}
    BY <1>2, <1>3, <1>4, <1>6, StepParts DEF States
  <2>3. state.candle = Previous(steps, cursor + 1, Base.candle)
    BY <1>2 DEF Clockwork
  <2>4. \A i \in Rows(steps) : Continues(steps[i].candle, Previous(steps, i, Base.candle))
    BY <1>2 DEF Clockwork, Admitted
  <2>5. v = IF step.candle = state.candle THEN "seen" ELSE "new"
    <3>1. ~state.finished /\ ~state.inBar
      BY <1>2 DEF Performed, Clockwork, Admitted, Complete
    <3>2. Continues(step.candle, state.candle)
      BY <2>1, <2>3, <2>4
    <3> QED BY <2>2, <3>1, <3>2, VerdictContinues
  <2>6. step.candle = state.candle <=> step.candle = Base.candle
    BY <1>2, <2>1, <2>2, <2>3, <2>4, SeenBefore
  <2>7. /\ loop' = "trailing" /\ cursor' = cursor + 1
        /\ CASE v = "new"     -> todo' = OnCandle(step) /\ UNCHANGED phase
             [] v = "seen"    -> UNCHANGED <<phase, todo>>
             [] v = "refused" -> phase' = "broken" /\ UNCHANGED todo
    BY <1>1, <1>6 DEF Leading
  <2>8. /\ run[cursor] \in Seq(Steps)
        /\ run[cursor + 1] = IF step.candle = Base.candle THEN run[cursor]
                                                          ELSE Append(run[cursor], step)
    <3>1. step.kind # "restore"
      BY <1>6 DEF IsCandle
    <3> QED BY <1>1, <1>2, <1>6, <3>1, RanNext
  <2>9. /\ phase' = "clock" /\ Complete(Target') /\ Target'.finished = state.finished
        /\ Target'.candle = step.candle
        /\ Target'.log = Base.log \o run[cursor + 1]
    <3>0. Complete(state) /\ state.log = Base.log \o run[cursor]
      BY <1>2 DEF Performed
    <3>1. CASE v = "seen"
      <4>1. step.candle = state.candle /\ step.candle = Base.candle
        BY <2>5, <2>6, <3>1
      <4>2. Target' = state /\ phase' = "clock"
        <5> HIDE DEF v
        <5> QED BY <1>0, <2>7, <3>1 DEF Target
      <4> QED BY <2>8, <3>0, <4>1, <4>2
    <3>2. CASE v = "new"
      <4>1. step.candle # Base.candle
        BY <2>5, <2>6, <3>2
      <4>2. todo' = OnCandle(step) /\ phase' = "clock"
        <5> HIDE DEF v
        <5> QED BY <1>0, <2>7, <3>2
      <4>3. /\ Len(OnCandle(step)) = 4 /\ OnCandle(step) \in Seq(States)
            /\ OnCandle(step)[4] = [Received(step) EXCEPT !.inBar = FALSE]
            /\ OnCandle(step)[4].log = Append(state.log, step)
            /\ OnCandle(step)[4].candle = step.candle
        BY <1>2, <1>4, <1>6, OnCandleType
      <4>4. Target' = OnCandle(step)[4]
        <5>1. OnCandle(step) # <<>>
          BY <4>3
        <5> QED BY <4>2, <4>3, <5>1 DEF Target
      <4>5. Complete([Received(step) EXCEPT !.inBar = FALSE])
            /\ [Received(step) EXCEPT !.inBar = FALSE].finished = state.finished
        BY <1>2, <3>0 DEF Complete, Received, States
      <4>6. Append(state.log, step) = Base.log \o run[cursor + 1]
        <5>1. Base.log \in Seq(Steps)
          BY <1>3 DEF States
        <5> DEFINE a == Base.log
                   b == run[cursor]
        <5>2. a \in Seq(Steps) /\ b \in Seq(Steps) /\ step \in Steps
          BY <1>4, <2>8, <5>1
        <5>3. Append(a \o b, step) = a \o Append(b, step)
          <6> HIDE DEF a, b, step
          <6> QED BY <5>2, AppendBehind
        <5> QED BY <2>8, <3>0, <4>1, <5>3
      <4> QED BY <4>2, <4>3, <4>4, <4>5, <4>6
    <3> QED BY <2>5, <3>1, <3>2
  <2>10. Performed'
    <3>1. Complete(Target)'
      BY <2>9 DEF Complete
    <3> QED BY <1>2, <1>3, <2>7, <2>9, <1>0, <3>1 DEF Performed
  <2>11. Clockwork'
    <3>1. Admitted'
      BY <1>0, <1>2, <1>3 DEF Clockwork, Admitted
    <3>2. /\ Previous(steps, (cursor + 1) + 1, Base.candle) = step.candle
          /\ Cardinality(Before(steps, (cursor + 1) + 1)) = Cardinality(Before(steps, cursor + 1)) + 1
      BY <1>2, <1>4, <1>6, BeforeFacts, PreviousNext
    <3> QED BY <1>0, <1>2, <1>3, <2>7, <2>9, <3>1, <3>2 DEF Clockwork
  <2> QED BY <2>9, <2>10, <2>11 DEF Course
<1> QED BY <1>5, <1>6

LEMMA TrailingCourse ==
  ASSUME TypeOK, Given, Course, Trailing
  PROVE  Course'
<1>0. /\ phase = "clock" /\ todo = <<>> /\ loop = "trailing"
      /\ UNCHANGED <<phase, steps, row, state, journal, since>>
  BY DEF Trailing, inputs
<1>1. CASE cursor < Len(steps) /\ steps[cursor + 1].kind = "command"
  <2>1. cursor' = cursor + 1 /\ todo' = Observed(state, steps[cursor + 1]) /\ loop' = loop
    BY <1>1 DEF Trailing
  <2>2. cursor # Len(steps) /\ ~IsCandle(steps[cursor + 1])
    BY <1>1 DEF IsCandle, TypeOK
  <2> QED BY <1>0, <2>1, <2>2, CommandCourse
<1>2. CASE ~(cursor < Len(steps) /\ steps[cursor + 1].kind = "command")
  <2>1. loop' = "idle" /\ UNCHANGED <<cursor, todo>>
    BY <1>2 DEF Trailing
  <2>2. Performed /\ Clockwork /\ Base' = Base /\ Target' = Target
    BY <1>0, <2>1, AtRest, BaseKept DEF Target
  <2>3. cursor = Len(steps) \/ IsCandle(steps[cursor + 1])
    <3>1. CASE cursor # Len(steps)
      <4>1. cursor < Len(steps) /\ cursor + 1 \in DOMAIN steps
        BY <3>1, NextStep DEF TypeOK
      <4> QED BY <1>0, <1>2, <4>1, AtRest
    <3> QED BY <3>1
  <2>4. Performed'
    BY <1>0, <2>1, <2>2 DEF Performed
  <2>5. Clockwork'
    BY <1>0, <2>1, <2>2, <2>3 DEF Clockwork, Admitted
  <2> QED BY <1>0, <2>4, <2>5 DEF Course
<1> QED BY <1>1, <1>2

\* The clock ends when all steps have been taken.
LEMMA ClockEndsCourse ==
  ASSUME TypeOK, Given, Course, ClockEnds
  PROVE  Course'
<1>0. /\ phase = "clock" /\ todo = <<>> /\ loop = "idle" /\ row = Cardinality(Rows(steps))
      /\ phase' = "finish" /\ UNCHANGED <<steps, cursor, state, todo, journal, since>>
  BY DEF ClockEnds, inputs, clock
<1>1. /\ steps \in StepLists /\ steps \in Seq(Steps) /\ Performed /\ Clockwork
  BY <1>0, AtRest
<1>2. cursor = Len(steps)
  <2> SUFFICES ASSUME cursor # Len(steps) PROVE FALSE
    OBVIOUS
  <2>1. cursor + 1 \in 1..Len(steps) /\ cursor + 1 \in DOMAIN steps /\ cursor + 1 \in Int
    BY NextStep DEF TypeOK
  <2>2. /\ IsFiniteSet(Rows(steps)) /\ Cardinality(Rows(steps)) \in Nat
        /\ Before(steps, cursor + 1) \subseteq Rows(steps)
    BY <1>1, <2>1, BeforeFacts
  <2>3. Cardinality(Rows(steps)) # 0
    <3>1. Rows(steps) # {}
      BY <1>1, StepsAssumption
    <3> QED BY <2>2, <3>1, FS_EmptySet
  <2>4. IsCandle(steps[cursor + 1]) /\ Cardinality(Before(steps, cursor + 1)) = Cardinality(Rows(steps))
    BY <1>0, <1>1, <2>3 DEF Clockwork
  <2>5. Before(steps, cursor + 1) = Rows(steps)
    BY <2>2, <2>4, FS_Subset
  <2>6. cursor + 1 \in Rows(steps) /\ cursor + 1 \notin Before(steps, cursor + 1)
    BY <2>1, <2>4 DEF Rows, Before
  <2> QED BY <2>5, <2>6
<1>3. Base' = Base /\ Target' = Target
  BY <1>0, BaseKept DEF Target
<1>4. Performed'
  BY <1>0, <1>1, <1>3 DEF Performed
<1> QED BY <1>0, <1>2, <1>4 DEF Course

LEMMA ReplayCourse ==
  ASSUME TypeOK, Given, Course, Replay
  PROVE  Course'
<1> DEFINE step == steps[cursor + 1]
<1>0. /\ phase = "replay" /\ todo = <<>> /\ UNCHANGED <<steps, state, journal, since>>
      /\ Performed /\ steps \in Replays /\ steps \in Seq(Steps) /\ cursor \in 0..Len(steps)
  BY DEF Replay, inputs, Course, Given, TypeOK
<1>1. Base' = Base /\ Base \in States /\ Target = state
  BY <1>0, BaseKept DEF Target
<1>2. CASE cursor = Len(steps)
  <2>1. phase' = "finish" /\ UNCHANGED <<cursor, todo>>
    BY <1>2 DEF Replay
  <2>2. Target' = Target
    BY <1>0, <2>1 DEF Target
  <2>3. Performed'
    BY <1>0, <1>1, <2>1, <2>2 DEF Performed
  <2> QED BY <1>0, <1>2, <2>1, <2>3 DEF Course
<1>3. CASE cursor # Len(steps)
  <2>1. cursor + 1 \in DOMAIN steps /\ step \in Steps /\ cursor' = cursor + 1 /\ ~IsCandle(step)
    <3>1. cursor + 1 \in DOMAIN steps /\ step \in Steps
      BY <1>3, NextStep
    <3> QED BY <1>0, <1>3, <3>1, StepsAssumption DEF Replay, Rows
  <2>2. CASE step.kind = "restore"
    <3>1. phase' = phase /\ todo' = todo
      BY <1>0, <1>1, <1>3, <2>2 DEF Replay, Performed
    <3>2. Target' = state
      BY <1>0, <3>1 DEF Target
    <3>3. Ran(steps, Base.candle)[cursor + 1] = Ran(steps, Base.candle)[cursor]
      BY <1>0, <1>3, <2>2, RanNext
    <3>4. Performed'
      BY <1>0, <1>1, <2>1, <3>2, <3>3 DEF Performed
    <3> QED BY <1>0, <3>1, <3>4 DEF Course
  <2>3. CASE step.kind # "restore"
    <3>1. /\ phase' = phase
          /\ todo' = Observed(state, step) \/ todo' = <<[state EXCEPT !.log = Append(@, step)]>>
      BY <1>3, <2>3 DEF Replay
    <3>2. Performed'
      BY <1>0, <1>3, <2>1, <2>3, <3>1, CommandPerformed
    <3> QED BY <1>0, <3>1, <3>2 DEF Course
  <2> QED BY <2>2, <2>3
<1> QED BY <1>2, <1>3

LEMMA FinishCourse ==
  ASSUME TypeOK, Course, Finish
  PROVE  Course'
<1> DEFINE ran == Base.log \o Ran(steps, Base.candle)[Len(steps)]
<1>0. /\ phase = "finish" /\ todo = <<>> /\ phase' = "report" /\ cursor = Len(steps)
      /\ UNCHANGED <<steps, state, journal, since>> /\ Performed
      /\ state \in States /\ steps \in Seq(Steps)
  BY DEF Finish, inputs, Course, TypeOK
<1>1. Base' = Base /\ Base \in States /\ Target = state
  BY <1>0, BaseKept DEF Target
<1>2. state.log = ran /\ state.finished = Base.finished /\ ran \in Seq(Steps)
  BY <1>0, <1>1 DEF Performed, States
<1>3. Target'.log = ran \o (IF Target'.finished /\ ~Base.finished THEN <<EndOfData>> ELSE <<>>)
  <2>1. CASE finishing /\ ~state.finished
    <3>1. todo' = FinishCall
      BY <2>1 DEF Finish
    <3>2. /\ FinishCall \in Seq(States) /\ Len(FinishCall) = 3
          /\ FinishCall[3].log = Append(state.log, EndOfData) /\ FinishCall[3].finished
      <4>1. 3 \in 2..3
        OBVIOUS
      <4> QED BY <1>0, <4>1, FinishType
    <3>3. Target' = FinishCall[3]
      <4>1. Len(FinishCall) = 3 /\ Len(<<>>) = 0
        BY <3>2
      <4>2. FinishCall # <<>>
        BY <4>1
      <4> QED BY <3>1, <3>2, <4>2 DEF Target
    <3>4. Append(ran, EndOfData) = ran \o <<EndOfData>>
      <4> HIDE DEF ran
      <4> QED BY <1>2, StepParts, AppendIsConcat
    <3> HIDE DEF ran
    <3> QED BY <1>2, <2>1, <3>2, <3>3, <3>4
  <2>2. CASE ~(finishing /\ ~state.finished)
    <3>1. todo' = <<>>
      BY <2>2 DEF Finish
    <3>2. Target' = state
      BY <1>0, <3>1 DEF Target
    <3>3. ran \o <<>> = ran
      <4> HIDE DEF ran
      <4> QED BY <1>2, ConcatEmptySeq
    <3> HIDE DEF ran
    <3> QED BY <1>2, <3>2, <3>3
  <2> QED BY <2>1, <2>2
<1> QED BY <1>0, <1>1, <1>3 DEF Course

LEMMA ReportCourse ==
  ASSUME TypeOK, Course, Report
  PROVE  Course'
<1>1. /\ phase = "report" /\ todo = <<>> /\ phase' = "over"
      /\ UNCHANGED <<steps, state, todo, journal, since>>
  BY DEF Report, inputs
<1>2. Base' = Base /\ Target' = Target
  BY <1>1, BaseKept DEF Target
<1> QED BY <1>1, <1>2 DEF Course

LEMMA NextCourse == TypeOK /\ Given /\ Course /\ [Next]_vars => Course'
<1> SUFFICES ASSUME TypeOK, Given, Course, [Next]_vars PROVE Course'
  OBVIOUS
<1>1. CASE UNCHANGED vars
  <2>1. UNCHANGED <<phase, steps, cursor, row, loop, state, todo, journal, since>>
    BY <1>1 DEF vars, inputs, clock
  <2>2. Base' = Base /\ Target' = Target
    BY <2>1, BaseKept DEF Target
  <2>3. Performed' = Performed /\ Clockwork' = Clockwork /\ Complete(Base)' = Complete(Base)
    BY <2>1, <2>2 DEF Performed, Clockwork, Admitted, Complete
  <2> QED BY <2>1, <2>2, <2>3 DEF Course
<1> QED BY <1>1, PersistCourse, RaiseCourse, StartRunCourse, ValidateCourse, DeliverCourse,
           LeadingCourse, TrailingCourse, ClockEndsCourse, ReplayCourse, FinishCourse,
           ReportCourse DEF Next, Work

\* A run that reports has executed all its steps, in their order, and the end of the
\* data last; one that is refused has written nothing; and no candle that the first pass
\* has let on is refused behind it.
THEOREM StepsFollowed == Spec => []RunsFollowTheirSteps
<1>1. Init => TypeOK /\ Given /\ Course
  BY InitType, InitGiven, InitCourse
<1>2. (TypeOK /\ Given /\ Course) /\ [Next]_vars => (TypeOK /\ Given /\ Course)'
  BY NextType, NextGiven, NextCourse
<1>3. TypeOK /\ Course => RunsFollowTheirSteps
  BY DEF Course, RunsFollowTheirSteps, Target, Base
<1> QED BY <1>1, <1>2, <1>3, PTL DEF Spec

=============================================================================
