-------------------------- MODULE SpotSessionProofs --------------------------
(***************************************************************************)
(* Three theorems about SpotSession: it implements SpotJournal              *)
(* (Refinement), the orders of a bar share its volume (VolumeShared), and   *)
(* what its targets sell is inventory the bar began with (LotsWait).        *)
(***************************************************************************)
EXTENDS SpotSessionInvariants

(* ---- The journal -------------------------------------------------------- *)

\* The store as the journal sees it.
Log == [h \in DOMAIN store |-> Written(store[h])]

\* The journal's store has the records of the session's, one for one.
LEMMA LogLength ==
  ASSUME store \in Seq(StoredRecords)
  PROVE  /\ Len(store) \in Nat /\ DOMAIN Log = DOMAIN store /\ DOMAIN store = 1..Len(store)
         /\ Len(Log) = Len(store)
         /\ \A h \in DOMAIN store : Log[h] = Written(store[h])
         /\ \E S : Log \in Seq(S)
<1>1. Len(store) \in Nat /\ DOMAIN store = 1..Len(store)
  BY LenProperties
<1>2. PICK n \in Nat : n = Len(store)
  BY <1>1
<1>3. DOMAIN Log = 1..n /\ \A h \in 1..n : Log[h] = Written(store[h])
  BY <1>1, <1>2 DEF Log
<1>4. Log \in [1..n -> {Written(store[h]) : h \in 1..n}]
  BY <1>1, <1>2, <1>3 DEF Log
<1>5. Len(Log) = n /\ Log \in Seq({Written(store[h]) : h \in 1..n})
  BY <1>4, IsSequence
<1> QED BY <1>1, <1>2, <1>3, <1>5

\* A record stored by the session is stored as the journal does it (Stores).
LEMMA StoresMaps ==
  ASSUME store \in Seq(StoredRecords), NEW r \in StoredRecords, Stores(r),
         Len(store') <= RecordBound
  PROVE  /\ HashOf(r) \in 1..(Len(store) + 1)
         /\ Journal!Stores(Written(r), HashOf(r))
<1>1. /\ store' \in Seq(StoredRecords)
      /\ \/ HashOf(r) \in DOMAIN store /\ store[HashOf(r)] = r /\ store' = store
         \/ HashOf(r) = Len(store) + 1 /\ store' = Append(store, r)
  BY StoresType
<1>2. /\ Len(store) \in Nat /\ DOMAIN Log = DOMAIN store /\ DOMAIN store = 1..Len(store)
      /\ Len(Log) = Len(store)
      /\ \A h \in DOMAIN store : Log[h] = Written(store[h])
  BY LogLength
<1>3. PICK k : k = HashOf(r)
  OBVIOUS
<1>4. CASE k \in DOMAIN store /\ store[k] = r /\ store' = store
  <2>1. Log' = Log
    BY <1>4 DEF Log
  <2>2. Journal!Stores(Written(r), k)
    BY <1>2, <1>4, <2>1 DEF Journal!Stores, Log
  <2> QED BY <1>2, <1>3, <1>4, <2>2
<1>5. CASE k = Len(store) + 1 /\ store' = Append(store, r)
  <2>1. /\ Len(store') = Len(store) + 1 /\ DOMAIN store' = 1..(Len(store) + 1)
        /\ \A h \in 1..Len(store) : store'[h] = store[h]
        /\ store'[Len(store) + 1] = r
    BY <1>2, <1>5, AppendProperties
  <2>2. DOMAIN Log' = 1..(Len(store) + 1) /\ \A h \in 1..(Len(store) + 1) : Log'[h] = Written(store'[h])
    BY <2>1 DEF Log
  <2>3. Log' = Append(Log, Written(r))
    <3>1. Append(Log, Written(r)) =
            [h \in 1..(Len(Log) + 1) |-> IF h = Len(Log) + 1 THEN Written(r) ELSE Log[h]]
      <4>1. PICK S, f, w : f = Log /\ w = Written(r) /\ f \in Seq(S)
        BY LogLength
      <4>2. PICK T : f \in Seq(T) /\ w \in T
        <5>1. f \in Seq(S \cup {w})
          BY <4>1, SeqMonotonic
        <5> QED BY <5>1
      <4>3. /\ Append(f, w) \in Seq(T) /\ Len(Append(f, w)) = Len(f) + 1
            /\ DOMAIN Append(f, w) = 1..(Len(f) + 1)
            /\ \A h \in 1..Len(f) : Append(f, w)[h] = f[h]
            /\ Append(f, w)[Len(f) + 1] = w
        BY <4>2, AppendProperties, LenProperties
      <4>4. Append(f, w) = [h \in 1..(Len(f) + 1) |-> Append(f, w)[h]]
        <5>1. PICK g \in Seq(T) : g = Append(f, w)
          BY <4>3
        <5>2. g = [h \in DOMAIN g |-> g[h]]
          OBVIOUS
        <5> QED BY <4>3, <5>1, <5>2
      <4>5. Len(f) \in Nat
        BY <4>1
      <4> QED BY <4>1, <4>3, <4>4, <4>5
    <3>2. \A h \in 1..(Len(store) + 1) :
            Log'[h] = IF h = Len(store) + 1 THEN Written(r) ELSE Log[h]
      BY <1>2, <2>1, <2>2
    <3>3. Log' = [h \in 1..(Len(store) + 1) |-> Log'[h]]
      BY <2>2 DEF Log
    <3> QED BY <1>2, <3>1, <3>2, <3>3
  <2>4. k <= RecordBound
    BY <1>5, <2>1
  <2>5. Journal!Stores(Written(r), k)
    BY <1>2, <1>5, <2>3, <2>4 DEF Journal!Stores, Log
  <2> QED BY <1>2, <1>3, <1>5, <2>5
<1> QED BY <1>1, <1>3, <1>4, <1>5

\* Persisting a candidate is the journal's acknowledgement or its raising sink (Persist).
LEMMA PersistMaps ==
  ASSUME TypeOK, NEW candidate \in Sessions, NEW kind \in Kinds, NEW rest,
         Persist(candidate, kind, rest), Len(store') <= RecordBound
  PROVE  Journal!Persist(candidate.inBar, candidate.pending # None)
<1>1. PICK r \in StoredRecords : r = Record(candidate, kind)
  BY RecordType DEF TypeOK
<1>2. /\ r.seq = state.seq + 1 /\ r.prev = state.sha /\ r.inBar = candidate.inBar
      /\ r.pending = candidate.pending
  BY <1>1, RecordType DEF TypeOK
<1>3. Written(r) = Journal!Record(candidate.inBar, candidate.pending # None)
  BY <1>2 DEF Journal!Record, Written, Noted
<1>4. /\ ~failed /\ loading = None /\ loading' = loading /\ checkpoint' = checkpoint
      /\ store \in Seq(StoredRecords) /\ Len(Log) = Len(store)
  BY LogLength DEF Persist, TypeOK
<1> DEFINE Same == /\ (IF checkpoint' = None THEN None ELSE Noted(checkpoint')) =
                      (IF checkpoint = None THEN None ELSE Noted(checkpoint))
                   /\ (IF loading' = None THEN None ELSE Noted(loading')) =
                      (IF loading = None THEN None ELSE Noted(loading))
<1>7. Same
  BY <1>4
<1>8. ASSUME Journal!Acknowledge(Written(r)) \/ Journal!SinkRaises(Written(r))
      PROVE  Journal!Persist(candidate.inBar, candidate.pending # None)
  BY <1>3, <1>4, <1>7, <1>8, Zenon DEF Journal!Persist
<1>5. CASE /\ Stores(r) /\ fresh' = FALSE /\ UNCHANGED failed
           /\ state' = [candidate EXCEPT !.seq = r.seq, !.sha = HashOf(r)]
  <2>1. HashOf(r) \in 1..(Len(store) + 1) /\ Journal!Stores(Written(r), HashOf(r))
    BY <1>4, <1>5, StoresMaps
  <2>2. Noted(state') = [seq |-> Written(r).seq, sha |-> HashOf(r),
                         inBar |-> Written(r).inBar, pending |-> Written(r).pending]
    BY <1>2, <1>5 DEF Noted, Written, Sessions
  <2>3. Journal!Acknowledge(Written(r))
    BY <1>4, <1>5, <2>1, <2>2 DEF Journal!Acknowledge, Log
  <2> QED BY <1>8, <2>3
<1>6. CASE /\ Stores(r) \/ UNCHANGED store
           /\ failed' = TRUE /\ UNCHANGED <<state, fresh>>
  <2>1. UNCHANGED Log \/ \E h \in 1..(Len(Log) + 1) : Journal!Stores(Written(r), h)
    <3>1. CASE Stores(r)
      BY <1>4, <3>1, StoresMaps
    <3>2. CASE UNCHANGED store
      BY <3>2 DEF Log
    <3> QED BY <1>6, <3>1, <3>2
  <2>2. Noted(state') = Noted(state) /\ failed' = TRUE /\ fresh' = fresh
    BY <1>6
  <2>3. Journal!SinkRaises(Written(r))
    BY <2>1, <2>2, Zenon DEF Journal!SinkRaises, Log
  <2> QED BY <1>8, <2>3
<1> QED BY <1>1, <1>5, <1>6 DEF Persist

\* The steps that write a record.
Writing == \E candidate \in Sessions, kind \in Kinds : \E rest : Persist(candidate, kind, rest)

\* Where every state and record that is complete comes from.
BodiesAreComplete ==
  \A h \in DOMAIN store : LET r == store[h]
                          IN  r.body # None => ~r.inBar /\ r.pending = None
                                               /\ ~r.body.inBar /\ r.body.pending = None

\* Only complete states are kept by records.
LEMMA BodiesStep ==
  ASSUME TypeOK, BodiesAreComplete, UNCHANGED store \/ Writing
  PROVE  BodiesAreComplete'
<1>1. CASE UNCHANGED store
  BY <1>1 DEF BodiesAreComplete
<1>2. ASSUME NEW candidate \in Sessions, NEW kind \in Kinds, NEW rest, Persist(candidate, kind, rest)
      PROVE  BodiesAreComplete'
  <2>1. PICK r \in StoredRecords : r = Record(candidate, kind)
    BY RecordType DEF TypeOK
  <2>2. r.body # None => ~r.inBar /\ r.pending = None /\ ~r.body.inBar /\ r.body.pending = None
    <3>1. /\ r.inBar = candidate.inBar /\ r.pending = candidate.pending
          /\ r.body = IF Complete(candidate) THEN [candidate EXCEPT !.seq = 0, !.sha = 0] ELSE None
      BY <2>1 DEF Record
    <3>2. [candidate EXCEPT !.seq = 0, !.sha = 0].inBar = candidate.inBar
      BY DEF Sessions
    <3>3. [candidate EXCEPT !.seq = 0, !.sha = 0].pending = candidate.pending
      BY DEF Sessions
    <3> QED BY <3>1, <3>2, <3>3 DEF Complete
  <2>3. Stores(r) \/ UNCHANGED store
    BY <1>2, <2>1 DEF Persist
  <2>4. CASE Stores(r)
    <3>1. \A h \in DOMAIN store' : (h \in DOMAIN store /\ store'[h] = store[h]) \/ store'[h] = r
      BY <2>4, StoreGrows DEF TypeOK
    <3> QED BY <2>2, <3>1 DEF BodiesAreComplete
  <2> QED BY <1>1, <2>3, <2>4
<1> QED BY <1>1, <1>2 DEF Writing

\* A record restores, as far as the journal knows, to what the journal restores it to.
LEMMA StateOfMaps ==
  ASSUME TypeOK, BodiesAreComplete, NEW h \in DOMAIN store
  PROVE  /\ h \in DOMAIN Log
         /\ Noted(StateOf(h)) = [seq |-> Log[h].seq, sha |-> h,
                                 inBar |-> Log[h].inBar, pending |-> Log[h].pending]
<1>1. store[h] \in StoredRecords /\ Log[h] = Written(store[h]) /\ h \in DOMAIN Log
  BY DEF TypeOK, Log
<1>2. PICK r \in StoredRecords : r = store[h]
  BY <1>1
<1>3. PICK s \in Sessions :
        /\ s = IF r.body # None THEN r.body ELSE [Genesis EXCEPT !.inBar = r.inBar, !.pending = r.pending]
        /\ s.inBar = r.inBar /\ s.pending = r.pending
  <2>1. CASE r.body # None
    <3>1. r.body \in Sessions
      BY <2>1 DEF StoredRecords
    <3>2. r.body.inBar = r.inBar /\ r.body.pending = r.pending
      <4>1. /\ r.inBar \in BOOLEAN /\ r.body.inBar \in BOOLEAN
        BY <3>1 DEF StoredRecords, Sessions
      <4> QED BY <1>2, <2>1, <4>1 DEF BodiesAreComplete
    <3> QED BY <2>1, <3>1, <3>2
  <2>2. CASE r.body = None
    <3>1. [Genesis EXCEPT !.inBar = r.inBar, !.pending = r.pending] \in Sessions
      BY GenesisType DEF StoredRecords, Sessions
    <3>2. /\ [Genesis EXCEPT !.inBar = r.inBar, !.pending = r.pending].inBar = r.inBar
          /\ [Genesis EXCEPT !.inBar = r.inBar, !.pending = r.pending].pending = r.pending
      BY GenesisType DEF Sessions
    <3> QED BY <2>2, <3>1, <3>2
  <2> QED BY <2>1, <2>2
<1>4. StateOf(h) = [s EXCEPT !.seq = r.seq, !.sha = h]
  BY <1>2, <1>3 DEF StateOf
<1>5. /\ StateOf(h).seq = r.seq /\ StateOf(h).sha = h
      /\ StateOf(h).inBar = r.inBar /\ StateOf(h).pending = r.pending
  BY <1>3, <1>4 DEF Sessions
<1> QED BY <1>1, <1>2, <1>5 DEF Noted, Written

\* What a record may change of the two flags: an observation is noted, reduced,
\* or a candle begins or ends.
Links(candidate) ==
  \/ state.pending = None /\ candidate.pending # None /\ candidate.inBar = state.inBar
  \/ candidate.pending = None /\ candidate.inBar = state.inBar
  \/ state.pending = None /\ candidate.pending = None /\ candidate.inBar # state.inBar

\* The steps that write a record that links to the last one.
Linking == \E candidate \in Sessions, kind \in Kinds : \E rest :
             Links(candidate) /\ Persist(candidate, kind, rest)

\* The steps of the host that write nothing.
Keeping == \/ ExportState \/ Crash \/ RestoreBegin \/ RestoreEnd
           \/ \E h \in DOMAIN store : RestoreRecord(h)

\* The reducer raises before it returns a state.
Raising == /\ state.pending # None /\ ~failed /\ loading = None
           /\ failed' = TRUE
           /\ UNCHANGED <<store, state, fresh, checkpoint, loading>>

\* Noting an observation is a record that opens one (Observe) ...
LEMMA ObserveLinks ==
  ASSUME Inv, NEW ob \in Observations, NEW rest, Observe(ob, rest), state.pending = None
  PROVE  Linking
<1>1. PICK candidate \in Sessions :
        /\ candidate = [state EXCEPT !.pending = ob]
        /\ candidate.pending = ob /\ candidate.inBar = state.inBar
  <2>1. state \in Sessions
    BY DEF Inv, TypeOK
  <2>2. [state EXCEPT !.pending = ob] \in Sessions
    BY <2>1, NotingType
  <2>3. [state EXCEPT !.pending = ob].pending = ob /\ [state EXCEPT !.pending = ob].inBar = state.inBar
    BY <2>1 DEF Sessions
  <2> QED BY <2>2, <2>3
<1>2. Persist(candidate, "observation_received", <<[op |-> "advance"]>> \o rest)
  BY <1>1 DEF Observe
<1>3. "observation_received" \in Kinds
  BY DEF Kinds
<1>4. Links(candidate)
  BY <1>1, NoneAssumption DEF Links
<1> QED BY <1>2, <1>3, <1>4 DEF Linking

\* ... its reduction one that closes it, unless the reducer raises (Advance) ...
LEMMA AdvanceLinks ==
  ASSUME Inv, Advance
  PROVE  Linking \/ Raising
<1>1. /\ state \in Sessions /\ todo # <<>> /\ Call.op = "advance"
  BY DEF Inv, TypeOK, Advance, Doing
<1>2. state.pending # None /\ ~failed /\ loading = None
  BY <1>1, NestedRest DEF Inv
<1>3. ASSUME NEW halt \in BOOLEAN,
             Persist([Reduce(state) EXCEPT !.halted = @ \/ halt], state.pending.kind, Rest)
      PROVE  Linking
  <2>1. PICK reduced \in Sessions : reduced = Reduce(state)
    BY <1>1, <1>2, ReduceType
  <2>2. reduced.pending = None /\ reduced.inBar = state.inBar
    BY <1>1, <1>2, <2>1, ReduceKeeps
  <2>3. PICK candidate \in Sessions : candidate = [reduced EXCEPT !.halted = @ \/ halt]
    BY DEF Sessions
  <2>4. candidate.pending = None /\ candidate.inBar = state.inBar
    BY <2>2, <2>3 DEF Sessions
  <2>5. PICK kind \in Kinds : kind = state.pending.kind
    <3>1. state.pending \in Observations
      BY <1>1, <1>2 DEF Sessions
    <3>2. \A ob \in Observations : ob.kind \in Kinds
      BY DEF Observations, Kinds
    <3> QED BY <3>1, <3>2
  <2>6. Persist(candidate, kind, Rest)
    BY <1>3, <2>1, <2>3, <2>5
  <2> QED BY <2>4, <2>6 DEF Linking, Links
<1> QED BY <1>2, <1>3 DEF Advance, Raising

\* ... and no step of a call writes a record of another form.
LEMMA StepLinks ==
  ASSUME Inv, Step
  PROVE  UNCHANGED journalVars \/ Linking \/ Raising
<1>1. /\ state \in Sessions
      /\ todo # <<>> =>
           /\ Call \in Calls
           /\ state.pending # None <=> Call.op = "advance"
           /\ Call.op \in {"closedBar", "processed"} => state.inBar
  BY TopCall, NestedRest DEF Inv, TypeOK
<1>2. CASE Turning
  BY <1>2 DEF Turning, Continue
<1>3. CASE Observing
  <2>1. PICK ob \in Observations, calls \in Seq(Quiet) :
               todo # <<>> /\ Call \in Quiet /\ Observe(ob, calls \o Rest)
    BY <1>3 DEF Observing
  <2>2. state.pending = None
    BY <1>1, <2>1 DEF Quiet, Inner
  <2> QED BY <2>1, <2>2, ObserveLinks
<1>4. ASSUME NEW candidate \in Sessions, NEW kind \in Kinds, NEW rest, Persist(candidate, kind, rest),
             todo # <<>>, Call.op # "advance",
             candidate.pending = state.pending, candidate.inBar = state.inBar
      PROVE  Linking
  BY <1>1, <1>4 DEF Linking, Links
<1>5. CASE Debiting
  <2>1. PICK e \in Events :
              /\ todo # <<>> /\ Call.op = "match"
              /\ Persist([state EXCEPT !.used = @ + e.qty], "liquidity_allocation",
                         <<execution(e), drain>> \o Rest)
    BY <1>5 DEF Debiting, Doing
  <2>2. PICK used \in Nat : used = state.used + e.qty
    BY <1>1 DEF Sessions, Events
  <2>3. PICK candidate \in Sessions :
          /\ candidate = [state EXCEPT !.used = used]
          /\ candidate.pending = state.pending /\ candidate.inBar = state.inBar
    <3>1. [state EXCEPT !.used = used] \in Sessions
      BY <1>1 DEF Sessions
    <3>2. /\ [state EXCEPT !.used = used].pending = state.pending
          /\ [state EXCEPT !.used = used].inBar = state.inBar
      BY <1>1 DEF Sessions
    <3> QED BY <3>1, <3>2
  <2>4. "liquidity_allocation" \in Kinds
    BY DEF Kinds
  <2> QED BY <1>4, <2>1, <2>2, <2>3, <2>4
<1>6. CASE Execution
  <2>1. todo # <<>> /\ Call.op = "execution" /\ Call.event \in Events
    BY <1>1, <1>6, CallFields DEF Execution, Doing
  <2>2. PICK ob \in Observations : ob = [kind |-> "executions", event |-> Call.event]
    BY <2>1 DEF Observations
  <2>3. Observe(ob, Rest)
    BY <1>6, <2>2 DEF Execution
  <2> QED BY <1>1, <2>1, <2>3, ObserveLinks
<1>7. CASE ClosedBar
  <2>1. todo # <<>> /\ Call.op = "closedBar"
    BY <1>7 DEF ClosedBar, Doing
  <2>2. PICK request \in Requests \cup {None} :
          Observe([kind |-> "closed_bar", request |-> request],
                  <<drain, [op |-> "processed"]>> \o Rest)
    BY <1>7 DEF ClosedBar
  <2>3. PICK ob \in Observations : ob = [kind |-> "closed_bar", request |-> request]
    BY DEF Observations
  <2> QED BY <1>1, <2>1, <2>2, <2>3, ObserveLinks
<1>8. CASE Processed
  <2>1. todo # <<>> /\ Call.op = "processed" /\ state.inBar /\ state.pending = None
    BY <1>1, <1>8 DEF Processed, Doing
  <2>2. PICK candidate \in Sessions : candidate = [state EXCEPT !.inBar = FALSE]
    BY <1>1 DEF Sessions
  <2>3. candidate.pending = None /\ candidate.inBar = FALSE
    BY <1>1, <2>1, <2>2 DEF Sessions
  <2>4. Links(candidate)
    BY <2>1, <2>3 DEF Links
  <2>5. "candle_processed" \in Kinds
    BY DEF Kinds
  <2> QED BY <1>8, <2>2, <2>4, <2>5 DEF Processed, Linking
<1>9. CASE StopReference
  <2>1. PICK candidate \in Sessions : candidate = [state EXCEPT !.stopBar = state.bar]
    BY <1>1 DEF Sessions
  <2>2. candidate.pending = state.pending /\ candidate.inBar = state.inBar
    BY <1>1, <2>1 DEF Sessions
  <2>3. "stop_reference_consumed" \in Kinds /\ todo # <<>> /\ Call.op = "stopReference"
    BY <1>9 DEF Kinds, StopReference, Doing
  <2> QED BY <1>4, <1>9, <2>1, <2>2, <2>3 DEF StopReference
<1>10. CASE EndOfData
  <2>1. PICK candidate \in Sessions : candidate = [state EXCEPT !.finished = TRUE]
    BY <1>1 DEF Sessions
  <2>2. candidate.pending = state.pending /\ candidate.inBar = state.inBar
    BY <1>1, <2>1 DEF Sessions
  <2>3. "end_of_data" \in Kinds /\ todo # <<>> /\ Call.op = "endOfData"
    BY <1>10 DEF Kinds, EndOfData, Doing
  <2> QED BY <1>4, <1>10, <2>1, <2>2, <2>3 DEF EndOfData
<1> QED BY StepShapes, AdvanceLinks, <1>2, <1>3, <1>5, <1>6, <1>7, <1>8, <1>9, <1>10 DEF Inv

\* What the host calls writes a record of the journal's forms, or none.
LEMMA HostLinks ==
  ASSUME Inv, Host
  PROVE  Linking \/ Keeping
<1>1. ASSUME Idle, ~failed
      PROVE  state.pending = None
  BY <1>1 DEF Idle, Inv, Control, Nested
<1>2. ASSUME NEW c \in Candles, OnCandle(c)
      PROVE  Linking
  <2>1. /\ state \in Sessions /\ ~state.inBar /\ state.pending = None
    BY <1>1, <1>2 DEF OnCandle, Persist, Inv, TypeOK
  <2>2. PICK candidate \in Sessions :
          /\ candidate = [state EXCEPT !.bar = @ + 1, !.inBar = TRUE, !.candle = c,
                                       !.allowance = c.v, !.used = 0, !.tape = <<>>]
          /\ candidate.pending = None /\ candidate.inBar
    BY <2>1, StartedType
  <2>3. "candle_received" \in Kinds
    BY DEF Kinds
  <2>4. Links(candidate)
    <3>1. state.inBar \in BOOLEAN /\ candidate.inBar \in BOOLEAN
      BY <2>1 DEF Sessions
    <3> QED BY <2>1, <2>2, <3>1 DEF Links
  <2>5. \E rest : Persist(candidate, "candle_received", rest)
    BY <1>2, <2>2 DEF OnCandle
  <2> QED BY <2>3, <2>4, <2>5 DEF Linking
<1>3. ASSUME NEW action \in Actions, NEW rest, Observe([kind |-> "command", action |-> action], rest), Idle
      PROVE  Linking
  <2>1. PICK ob \in Observations : ob = [kind |-> "command", action |-> action]
    BY DEF Observations
  <2>2. state.pending = None
    BY <1>1, <1>3 DEF Observe, Persist
  <2> QED BY <1>3, <2>1, <2>2, ObserveLinks
<1>4. EndPolicy \in Actions
  BY HostAssumption
<1> QED BY <1>2, <1>3, <1>4 DEF Host, Command, Finish, Keeping

\* What a journal knows of a session is a state of SpotJournal, and never None.
LEMMA NotedType ==
  ASSUME NEW s \in Sessions
  PROVE  Noted(s) \in Journal!States /\ Noted(s) # None
<1>1. s.seq \in Nat /\ s.sha \in Nat /\ s.inBar \in BOOLEAN /\ (s.pending # None) \in BOOLEAN
  BY DEF Sessions
<1>2. Noted(s) \in Journal!States
  BY <1>1 DEF Noted, Journal!States
<1>3. None \notin Journal!States
  BY NoneAssumption DEF Journal!States
<1> QED BY <1>2, <1>3

\* Every step of the session is a step of the journal or none.
LEMMA JournalStep ==
  ASSUME Inv, BodiesAreComplete, [Next]_vars, Len(store') <= RecordBound
  PROVE  [Journal!Next]_(Journal!vars)
<1>1. /\ state \in Sessions /\ state.inBar \in BOOLEAN /\ TypeOK
      /\ checkpoint \in Sessions \cup {None} /\ loading \in Sessions \cup {None}
  BY DEF Inv, TypeOK, Sessions
<1>2. CASE UNCHANGED journalVars
  <2>1. /\ Log' = Log /\ Noted(state') = Noted(state) /\ failed' = failed /\ fresh' = fresh
        /\ checkpoint' = checkpoint /\ loading' = loading
    BY <1>2 DEF Log, journalVars
  <2> QED BY <2>1, Zenon DEF Journal!vars, Log
<1>3. CASE Linking
  <2>0. PICK candidate \in Sessions, kind \in Kinds :
          \E rest : Links(candidate) /\ Persist(candidate, kind, rest)
    BY <1>3 DEF Linking
  <2>1. PICK rest : Links(candidate) /\ Persist(candidate, kind, rest)
    BY <2>0
  <2>2. PICK a \in BOOLEAN, b \in BOOLEAN :
          a = candidate.inBar /\ b = (candidate.pending # None) /\ Journal!Persist(a, b)
    <3>1. candidate.inBar \in BOOLEAN /\ (candidate.pending # None) \in BOOLEAN
      BY DEF Sessions
    <3> QED BY <1>1, <2>1, <3>1, PersistMaps
  <2>3. Noted(state).inBar = state.inBar /\ Noted(state).pending = (state.pending # None)
    BY DEF Noted
  <2>4. CASE state.pending = None /\ candidate.pending # None /\ candidate.inBar = state.inBar
    <3>1. ~Noted(state).pending /\ Journal!Persist(Noted(state).inBar, TRUE)
      BY <2>2, <2>3, <2>4
    <3> QED BY <3>1 DEF Journal!Observe, Journal!Next
  <2>5. CASE candidate.pending = None /\ candidate.inBar = state.inBar
    <3>1. Journal!Persist(Noted(state).inBar, FALSE)
      BY <2>2, <2>3, <2>5
    <3> QED BY <2>3, <3>1 DEF Journal!Reduce, Journal!Annotate, Journal!Next
  <2>6. CASE state.pending = None /\ candidate.pending = None /\ candidate.inBar # state.inBar
    <3>1. ~Noted(state).pending /\ Journal!Persist(~Noted(state).inBar, FALSE)
      BY <1>1, <2>2, <2>3, <2>6
    <3>2. CASE Noted(state).inBar
      BY <3>1, <3>2 DEF Journal!EndCandle, Journal!Next
    <3>3. CASE ~Noted(state).inBar
      BY <3>1, <3>3 DEF Journal!BeginCandle, Journal!Next
    <3> QED BY <3>2, <3>3
  <2> QED BY <2>1, <2>4, <2>5, <2>6 DEF Links
<1>4. CASE Raising
  <2>1. /\ Log' = Log /\ Noted(state') = Noted(state) /\ Noted(state).pending
        /\ ~failed /\ failed' = TRUE /\ fresh' = fresh /\ loading = None
        /\ checkpoint' = checkpoint /\ loading' = loading
    BY <1>4 DEF Log, Raising, Noted
  <2>2. Journal!ReducerRaises
    BY <2>1, Zenon DEF Journal!ReducerRaises, Log
  <2> QED BY <2>2 DEF Journal!Next
<1>5. CASE ExportState
  <2>1. /\ Log' = Log /\ state' = state /\ failed' = failed /\ fresh' = fresh
        /\ loading = None /\ loading' = None /\ checkpoint' = state /\ checkpoint' # None
    BY <1>1, <1>5, NoneAssumption DEF Log, ExportState, Idle
  <2>2. Journal!ExportState
    BY <2>1, Zenon DEF Journal!ExportState, Log
  <2> QED BY <2>2 DEF Journal!Next
<1>6. CASE Crash
  <2>1. /\ Log' = Log /\ failed' = FALSE /\ fresh' = TRUE /\ loading' = None
        /\ checkpoint' = checkpoint /\ state' = Genesis
    BY <1>6 DEF Log, Crash
  <2>2. Noted(state') = Journal!Genesis
    BY <2>1 DEF Noted, Genesis, Journal!Genesis
  <2>3. Journal!Crash
    BY <2>1, <2>2, Zenon DEF Journal!Crash, Log
  <2> QED BY <2>3 DEF Journal!Next
<1>7. CASE RestoreBegin
  <2>1. /\ Log' = Log /\ state' = state /\ failed' = failed /\ fresh' = fresh
        /\ fresh /\ ~failed
        /\ loading = None /\ checkpoint # None /\ loading' = checkpoint /\ checkpoint' = checkpoint
    BY <1>7 DEF Log, RestoreBegin, Idle
  <2>2. Noted(checkpoint) # None
    BY <1>1, <2>1, NotedType
  <2>3. Journal!RestoreBegin
    BY <2>1, <2>2, Zenon DEF Journal!RestoreBegin, Log
  <2> QED BY <2>3 DEF Journal!Next
<1>8. ASSUME NEW h \in DOMAIN store, RestoreRecord(h)
      PROVE  Journal!Next
  <2>1. /\ Log' = Log /\ state' = state /\ failed' = failed /\ fresh' = fresh
        /\ loading # None /\ checkpoint' = checkpoint
        /\ loading' = IF Continues(h) THEN StateOf(h) ELSE None
    BY <1>8 DEF Log, RestoreRecord
  <2>2. h \in DOMAIN Log /\ Noted(StateOf(h)) = Journal!StateOf(h) /\ StateOf(h) # None
        /\ Noted(StateOf(h)) # None /\ Noted(loading) # None
    <3>1. StateOf(h) \in Sessions
      BY <1>1, StateOfType DEF TypeOK
    <3> QED BY <1>1, <2>1, <3>1, StateOfMaps, NotedType, NoneAssumption DEF Journal!StateOf, Log
  <2>3. Continues(h) <=> Journal!Continues(h)
    BY <2>1 DEF Continues, Journal!Continues, Noted, Written
  <2>4. Journal!RestoreRecord(h)
    BY <2>1, <2>2, <2>3, Zenon DEF Journal!RestoreRecord, Log
  <2> QED BY <2>2, <2>4 DEF Journal!Next, Log
<1>9. CASE RestoreEnd
  <2>1. /\ Log' = Log /\ failed' = failed
        /\ loading # None /\ loading' = None /\ checkpoint' = checkpoint
        /\ IF Complete(loading) THEN state' = loading /\ fresh' = FALSE
                                ELSE UNCHANGED <<state, fresh>>
    BY <1>9 DEF Log, RestoreEnd
  <2>2. Complete(loading) <=> Journal!Complete(Noted(loading))
    BY DEF Complete, Journal!Complete, Noted
  <2>4. Noted(loading) # None
    BY <1>1, <2>1, NotedType
  <2>3. Journal!RestoreEnd
    BY <2>1, <2>2, <2>4, Zenon DEF Journal!RestoreEnd, Log
  <2> QED BY <2>3 DEF Journal!Next
<1> QED BY <1>2, <1>3, <1>4, <1>5, <1>6, <1>7, <1>8, <1>9, StepLinks, HostLinks
        DEF Next, vars, Keeping

\* Only complete states are kept by records: an invariant.
LEMMA BodiesKept == Inv /\ BodiesAreComplete /\ [Next]_vars => BodiesAreComplete'
<1> SUFFICES ASSUME Inv, BodiesAreComplete, [Next]_vars PROVE BodiesAreComplete'
  OBVIOUS
<1>1. UNCHANGED store \/ Linking
  <2>1. CASE Step
    BY <2>1, StepLinks DEF journalVars, Raising
  <2>2. CASE Host
    BY <2>2, HostLinks DEF Keeping, ExportState, Crash, RestoreBegin, RestoreEnd, RestoreRecord
  <2> QED BY <2>1, <2>2 DEF Next, vars, journalVars
<1> QED BY <1>1, BodiesStep DEF Linking, Writing, Inv

\* A session begins as a journal does.
LEMMA JournalInit == Init => Journal!Init
<1> SUFFICES ASSUME Init PROVE Journal!Init
  OBVIOUS
<1>1. Log = <<>>
  <2>1. store = <<>> /\ DOMAIN store = {}
    BY DEF Init
  <2> QED BY <2>1 DEF Log
<1>2. Noted(state) = Journal!Genesis
  BY DEF Init, Noted, Genesis, Journal!Genesis
<1> QED BY <1>1, <1>2 DEF Init, Journal!Init, Log

\* As long as the store holds no more records than SpotJournal admits, the session
\* with its nested calls, its matching and its walk of the candle writes its records
\* only in the ways of SpotJournal: every step is a step of the journal or leaves
\* the journal alone.
THEOREM Refinement == Spec /\ [](Len(store) <= RecordBound) => ImplementsJournal
<1>1. Init => BodiesAreComplete
  BY DEF Init, BodiesAreComplete
<1>2. Spec => []BodiesAreComplete
  BY <1>1, BodiesKept, Invariant, PTL DEF Spec
<1>3. Inv /\ BodiesAreComplete /\ [Next]_vars /\ (Len(store) <= RecordBound)'
        => [Journal!Next]_(Journal!vars)
  BY JournalStep
<1> QED BY <1>2, <1>3, JournalInit, Invariant, PTL DEF Spec, ImplementsJournal, Journal!Spec

(* ---- The volume of a bar ------------------------------------------------ *)

Quantity == [e \in Events |-> e.qty]

\* What the fills on the tape took, what an observed fill will add, and what the
\* fill that is the next call will.
Taken(s)   == Tally(s.tape, Quantity)
Waiting(s) == IF s.pending # None /\ s.pending.kind = "executions" THEN s.pending.event.qty ELSE 0
Due(calls) == IF calls # <<>> /\ calls[1].op = "execution" THEN calls[1].event.qty ELSE 0

Within(s, extra) == Taken(s) + extra <= s.used /\ s.used <= s.allowance

\* Only the next call may carry a fill.
FillsFirst(calls) ==
  \A i \in DOMAIN calls : i > 1 /\ calls[i].op = "execution" => calls[i].event.qty = 0

\* Fills on the tape, observed or under way stay within the volume debited for
\* them, which stays within the allowance; so do the states a restore can end in.
Budget ==
  /\ Within(state, Waiting(state) + Due(todo))
  /\ FillsFirst(todo)
  /\ checkpoint # None => Within(checkpoint, 0)
  /\ loading # None => Within(loading, 0)
  /\ \A h \in DOMAIN store : store[h].body # None => Within(store[h].body, 0)

\* A total of integers is an integer.
LEMMA TallyType ==
  ASSUME NEW S, NEW log \in Seq(S), NEW value \in [S -> Int]
  PROVE  Tally(log, value) \in Int
<1> DEFINE amounts == [i \in DOMAIN log |-> value[log[i]]]
<1>1. amounts \in [1..Len(log) -> Int] /\ Len(log) \in Nat
  OBVIOUS
<1> HIDE DEF amounts
<1>2. Total(amounts) \in Int
  BY <1>1, IsSequence, TotalType
<1> QED BY <1>2 DEF Tally, amounts

\* The quantities of a session are numbers.
LEMMA VolumeTypes ==
  ASSUME NEW s \in Sessions
  PROVE  /\ Taken(s) \in Int /\ Waiting(s) \in Nat
         /\ s.used \in Nat /\ s.allowance \in Nat
<1>1. Quantity \in [Events -> Int]
  BY DEF Quantity, Events
<1>2. Taken(s) \in Int
  BY <1>1, TallyType DEF Taken, Sessions
<1>3. Waiting(s) \in Nat
  <2>1. s.pending \in Observations \cup {None}
    BY DEF Sessions
  <2>2. s.pending # None /\ s.pending.kind = "executions" => s.pending.event \in Events
    BY <2>1 DEF Observations
  <2>3. \A e \in Events : e.qty \in Nat
    BY DEF Events
  <2> QED BY <2>2, <2>3 DEF Waiting
<1> QED BY <1>2, <1>3 DEF Sessions

\* The fill that is the next call has a quantity.
LEMMA DueType ==
  ASSUME NEW calls \in Seq(Calls)
  PROVE  Due(calls) \in Nat
<1>1. calls # <<>> => calls[1] \in Calls
  BY EmptySeq, LenProperties
<1>2. \A e \in Events : e.qty \in Nat
  BY DEF Events
<1> QED BY <1>1, <1>2, CallFields DEF Due

\* Reducing an observed fill puts its quantity on the tape, and nothing else does
\* (Reduce).
LEMMA TakenOfReduced ==
  ASSUME NEW s \in Sessions, s.pending # None
  PROVE  Taken(Reduce(s)) = Taken(s) + Waiting(s)
<1>1. Reduce(s).tape = Taped(s)
  BY ReduceKeeps
<1>2. s.pending \in Observations /\ s.tape \in Seq(Events)
  BY DEF Sessions
<1>3. Quantity \in [Events -> Int]
  BY DEF Quantity, Events
<1>4. CASE s.pending.kind = "executions" /\ s.pending.event.qty > 0
  <2>1. PICK e \in Events : e = s.pending.event
    BY <1>2, <1>4 DEF Observations
  <2>2. Tally(Append(s.tape, e), Quantity) = Tally(s.tape, Quantity) + Quantity[e]
    BY <1>2, <1>3, TallyOfMore
  <2>3. Quantity[e] = e.qty
    BY DEF Quantity
  <2> QED BY <1>1, <1>4, <2>1, <2>2, <2>3 DEF Taken, Taped, Waiting
<1>5. CASE ~(s.pending.kind = "executions" /\ s.pending.event.qty > 0)
  <2>1. Waiting(s) = 0
    <3>1. s.pending.kind = "executions" => s.pending.event \in Events
      BY <1>2 DEF Observations
    <3>2. \A e \in Events : e.qty \in Nat
      BY DEF Events
    <3> QED BY <1>5, <3>1, <3>2 DEF Waiting
  <2>2. Taken(Reduce(s)) = Taken(s)
    BY <1>1, <1>5 DEF Taken, Taped
  <2> QED BY <2>1, <2>2, VolumeTypes
<1> QED BY <1>4, <1>5

\* A record whose candidate keeps to the budget keeps the invariant.
LEMMA BudgetPersists ==
  ASSUME Inv, Budget, NEW candidate \in Sessions, NEW kind \in Kinds, NEW rest \in Seq(Calls),
         Persist(candidate, kind, rest), FillsFirst(rest),
         Within(candidate, Waiting(candidate) + Due(rest))
  PROVE  Budget'
<1>1. PICK r \in StoredRecords :
        /\ r = Record(candidate, kind) /\ r.seq \in Nat
        /\ r.body # None => r.body = [candidate EXCEPT !.seq = 0, !.sha = 0]
  <2>1. PICK r \in StoredRecords : r = Record(candidate, kind)
    BY RecordType DEF Inv, TypeOK
  <2>2. r.body # None => r.body = [candidate EXCEPT !.seq = 0, !.sha = 0]
    BY <2>1 DEF Record
  <2> QED BY <2>1, <2>2 DEF StoredRecords
<1>2. ASSUME NEW n, NEW h
      PROVE  LET s == [candidate EXCEPT !.seq = n, !.sha = h]
             IN  /\ s.tape = candidate.tape /\ s.used = candidate.used
                 /\ s.allowance = candidate.allowance /\ s.pending = candidate.pending
  BY DEF Sessions
<1>3. Within(candidate, 0)
  <2>1. /\ Taken(candidate) \in Int /\ Waiting(candidate) \in Nat /\ Due(rest) \in Nat
        /\ candidate.used \in Nat
    BY VolumeTypes, DueType
  <2> QED BY <2>1 DEF Within
<1>4. r.body # None => Within(r.body, 0)
  <2>1. PICK s : s = [candidate EXCEPT !.seq = 0, !.sha = 0]
    OBVIOUS
  <2>2. s.tape = candidate.tape /\ s.used = candidate.used /\ s.allowance = candidate.allowance
    BY <1>2, <2>1
  <2>3. Within(s, 0)
    BY <1>3, <2>2 DEF Within, Taken
  <2> QED BY <1>1, <2>1, <2>3
<1>5. \A h \in DOMAIN store' : store'[h].body # None => Within(store'[h].body, 0)
  <2>1. Stores(r) \/ UNCHANGED store
    BY <1>1 DEF Persist
  <2>2. \A h \in DOMAIN store' : (h \in DOMAIN store /\ store'[h] = store[h]) \/ store'[h] = r
    BY <2>1, StoreGrows DEF Inv, TypeOK
  <2> QED BY <1>4, <2>2 DEF Budget
<1>6. checkpoint' = checkpoint /\ loading' = loading
  BY DEF Persist
<1>7. Within(state', Waiting(state') + Due(todo')) /\ FillsFirst(todo')
  <2>1. CASE state' = [candidate EXCEPT !.seq = r.seq, !.sha = HashOf(r)] /\ todo' = rest
    <3>1. /\ state'.tape = candidate.tape /\ state'.used = candidate.used
          /\ state'.allowance = candidate.allowance /\ state'.pending = candidate.pending
      BY <1>2, <2>1
    <3> QED BY <2>1, <3>1 DEF Within, Waiting, Taken
  <2>2. CASE state' = state /\ todo' = <<>>
    <3>1. Due(todo') = 0 /\ FillsFirst(todo')
      BY <2>2 DEF Due, FillsFirst
    <3>2. /\ Taken(state) \in Int /\ Waiting(state) \in Nat /\ Due(todo) \in Nat
          /\ state.used \in Nat
      BY VolumeTypes, DueType DEF Inv, TypeOK
    <3>3. Taken(state) + (Waiting(state) + Due(todo)) <= state.used /\ state.used <= state.allowance
      BY DEF Budget, Within
    <3>4. Taken(state) + (Waiting(state) + 0) <= state.used
      BY <3>2, <3>3
    <3> QED BY <2>2, <3>1, <3>3, <3>4 DEF Within
  <2> QED BY <1>1, <2>1, <2>2 DEF Persist
<1> QED BY <1>5, <1>6, <1>7 DEF Budget, Within, Taken, Waiting

\* No call carries a fill.
Fillless(calls) == \A i \in DOMAIN calls : calls[i].op = "execution" => calls[i].event.qty = 0

\* Calls without a fill have no fill due.
LEMMA FilllessCalls ==
  /\ \A calls \in Seq(Calls) : Fillless(calls) => FillsFirst(calls) /\ Due(calls) = 0
  /\ \A calls \in Seq(Quiet) : Fillless(calls) /\ calls \in Seq(Calls)
  /\ Fillless(<<>>)
<1>1. ASSUME NEW calls \in Seq(Calls), Fillless(calls)
      PROVE  FillsFirst(calls) /\ Due(calls) = 0
  <2>1. calls # <<>> => 1 \in DOMAIN calls
    BY EmptySeq, LenProperties
  <2> QED BY <1>1, <2>1 DEF Fillless, FillsFirst, Due
<1>2. ASSUME NEW calls \in Seq(Quiet)
      PROVE  Fillless(calls) /\ calls \in Seq(Calls)
  <2>1. \A i \in DOMAIN calls : calls[i] \in Quiet
    OBVIOUS
  <2>2. calls \in Seq(Calls)
    BY SeqMonotonic DEF Quiet, Inner
  <2> QED BY <2>1, <2>2 DEF Fillless, Quiet
<1>3. Fillless(<<>>)
  BY DEF Fillless
<1> QED BY <1>1, <1>2, <1>3

\* Calls without a fill, one after the other.
LEMMA FilllessConcat ==
  ASSUME NEW a \in Seq(Calls), NEW b \in Seq(Calls), Fillless(a), Fillless(b)
  PROVE  a \o b \in Seq(Calls) /\ Fillless(a \o b)
<1>1. PICK all \in Seq(Calls) :
        /\ all = a \o b /\ Len(all) = Len(a) + Len(b)
        /\ \A i \in 1..(Len(a) + Len(b)) : all[i] = IF i <= Len(a) THEN a[i] ELSE b[i - Len(a)]
  <2>1. /\ a \o b \in Seq(Calls) /\ Len(a \o b) = Len(a) + Len(b)
        /\ \A i \in 1..(Len(a) + Len(b)) : (a \o b)[i] = IF i <= Len(a) THEN a[i] ELSE b[i - Len(a)]
    BY ConcatProperties
  <2> QED BY <2>1, Zenon
<1>2. /\ Len(a) \in Nat /\ Len(b) \in Nat
      /\ DOMAIN a = 1..Len(a) /\ DOMAIN b = 1..Len(b) /\ DOMAIN all = 1..Len(all)
  BY LenProperties
<1>3. ASSUME NEW i \in DOMAIN all
      PROVE  \/ i \in DOMAIN a /\ all[i] = a[i]
             \/ i - Len(a) \in DOMAIN b /\ all[i] = b[i - Len(a)]
  BY <1>1, <1>2
<1>4. Fillless(all)
  BY <1>3 DEF Fillless
<1> QED BY <1>1, <1>4

\* The calls after the next one carry no fill.
LEMMA RestIsFillless ==
  ASSUME todo \in Seq(Calls), FillsFirst(todo), todo # <<>>
  PROVE  Rest \in Seq(Calls) /\ Fillless(Rest)
<1>1. /\ Rest \in Seq(Calls) /\ Len(todo) \in Nat \ {0} /\ Len(Rest) = Len(todo) - 1
      /\ \A i \in 1..Len(Rest) : Rest[i] = todo[i + 1]
      /\ DOMAIN todo = 1..Len(todo) /\ DOMAIN Rest = 1..Len(Rest)
  BY TopCall, LenProperties
<1>2. ASSUME NEW i \in DOMAIN Rest
      PROVE  Rest[i].op = "execution" => Rest[i].event.qty = 0
  <2>1. i + 1 \in DOMAIN todo /\ i + 1 > 1 /\ Rest[i] = todo[i + 1]
    BY <1>1
  <2> QED BY <2>1 DEF FillsFirst
<1> QED BY <1>1, <1>2 DEF Fillless

\* A call before calls without a fill is the only one that may carry one.
LEMMA FillOnTop ==
  ASSUME NEW c \in Calls, NEW rest \in Seq(Calls), Fillless(rest)
  PROVE  /\ <<c>> \o rest \in Seq(Calls) /\ FillsFirst(<<c>> \o rest)
         /\ Due(<<c>> \o rest) = IF c.op = "execution" THEN c.event.qty ELSE 0
<1>1. PICK all \in Seq(Calls) :
        /\ all = <<c>> \o rest /\ Len(all) = 1 + Len(rest)
        /\ \A i \in 1..(1 + Len(rest)) : all[i] = IF i <= 1 THEN c ELSE rest[i - 1]
  <2>1. <<c>> \in Seq(Calls) /\ Len(<<c>>) = 1 /\ <<c>>[1] = c
    BY SomeCalls
  <2>2. /\ <<c>> \o rest \in Seq(Calls) /\ Len(<<c>> \o rest) = Len(<<c>>) + Len(rest)
        /\ \A i \in 1..(Len(<<c>>) + Len(rest)) :
             (<<c>> \o rest)[i] = IF i <= Len(<<c>>) THEN <<c>>[i] ELSE rest[i - Len(<<c>>)]
    BY <2>1, ConcatProperties
  <2>3. PICK all \in Seq(Calls) : all = <<c>> \o rest
    BY <2>2
  <2>4. \A i \in 1..(1 + Len(rest)) : all[i] = IF i <= 1 THEN c ELSE rest[i - 1]
    BY <2>1, <2>2, <2>3
  <2> QED BY <2>1, <2>2, <2>3, <2>4
<1>2. Len(rest) \in Nat /\ DOMAIN rest = 1..Len(rest) /\ DOMAIN all = 1..Len(all)
  BY LenProperties
<1>3. all # <<>> /\ all[1] = c
  BY <1>1, <1>2, EmptySeq
<1>4. ASSUME NEW i \in DOMAIN all, i > 1
      PROVE  all[i].op = "execution" => all[i].event.qty = 0
  <2>1. i - 1 \in DOMAIN rest /\ all[i] = rest[i - 1]
    BY <1>1, <1>2, <1>4
  <2> QED BY <2>1 DEF Fillless
<1> QED BY <1>1, <1>3, <1>4 DEF FillsFirst, Due

\* An observation takes over the fill that was due.
LEMMA BudgetObserves ==
  ASSUME Inv, Budget, NEW ob \in Observations, NEW rest \in Seq(Calls), Fillless(rest),
         Observe(ob, rest), state.pending = None,
         ob.kind = "executions" => ob.event.qty <= Due(todo)
  PROVE  Budget'
<1>1. PICK candidate \in Sessions :
        /\ candidate = [state EXCEPT !.pending = ob]
        /\ candidate.pending = ob /\ candidate.tape = state.tape
        /\ candidate.used = state.used /\ candidate.allowance = state.allowance
  <2>1. state \in Sessions
    BY DEF Inv, TypeOK
  <2>2. [state EXCEPT !.pending = ob] \in Sessions
    BY <2>1, NotingType
  <2>3. /\ [state EXCEPT !.pending = ob].pending = ob /\ [state EXCEPT !.pending = ob].tape = state.tape
        /\ [state EXCEPT !.pending = ob].used = state.used
        /\ [state EXCEPT !.pending = ob].allowance = state.allowance
    BY <2>1 DEF Sessions
  <2> QED BY <2>2, <2>3
<1>2. PICK all \in Seq(Calls) : /\ all = <<[op |-> "advance"]>> \o rest
                                /\ FillsFirst(all) /\ Due(all) = 0
  <2>1. PICK c \in Calls : c = [op |-> "advance"]
    BY DEF Calls
  <2> QED BY <2>1, FillOnTop
<1>3. Persist(candidate, "observation_received", all)
  BY <1>1, <1>2 DEF Observe
<1>4. "observation_received" \in Kinds
  BY DEF Kinds
<1>5. Within(candidate, Waiting(candidate) + Due(all))
  <2>1. /\ Taken(state) \in Int /\ Waiting(state) = 0 /\ state.used \in Nat
        /\ Due(todo) \in Nat /\ Waiting(candidate) \in Nat
    BY VolumeTypes, DueType DEF Inv, TypeOK, Waiting
  <2>2. Waiting(candidate) <= Due(todo)
    BY <1>1, <2>1 DEF Waiting
  <2>3. Taken(state) + (Waiting(state) + Due(todo)) <= state.used /\ state.used <= state.allowance
    BY DEF Budget, Within
  <2>4. Taken(state) + (Waiting(candidate) + 0) <= state.used
    BY <2>1, <2>2, <2>3
  <2>5. Taken(candidate) = Taken(state)
    BY <1>1 DEF Taken
  <2> QED BY <1>1, <1>2, <2>3, <2>4, <2>5 DEF Within
<1> QED BY <1>2, <1>3, <1>4, <1>5, BudgetPersists

\* An empty tape took nothing.
LEMMA NothingTaken ==
  ASSUME NEW s \in Sessions, s.tape = <<>>
  PROVE  Taken(s) = 0
<1>1. Quantity \in [Events -> Int]
  BY DEF Quantity, Events
<1>2. <<>> \in Seq(Events) /\ \A i \in DOMAIN <<>> : Quantity[(<<>>)[i]] = 0
  BY EmptySeq
<1>3. Tally(<<>>, Quantity) = 0
  BY <1>1, <1>2, TallyOfZeros
<1> QED BY <1>3 DEF Taken

\* A reduction keeps the budget: what waited is on the tape now (Advance).
LEMMA BudgetAdvances ==
  ASSUME Inv, Budget, Advance
  PROVE  Budget'
<1>1. /\ state \in Sessions /\ todo \in Seq(Calls) /\ todo # <<>> /\ Call.op = "advance"
  BY DEF Inv, TypeOK, Advance, Doing
<1>2. state.pending # None
  BY <1>1, NestedRest DEF Inv
<1>3. Rest \in Seq(Calls) /\ Fillless(Rest)
  BY <1>1, RestIsFillless DEF Budget
<1>4. /\ Taken(state) \in Int /\ Waiting(state) \in Nat /\ state.used \in Nat /\ Due(todo) \in Nat
      /\ Taken(state) + (Waiting(state) + Due(todo)) <= state.used /\ state.used <= state.allowance
  BY <1>1, VolumeTypes, DueType DEF Budget, Within
<1>5. ASSUME failed' = TRUE, todo' = <<>>,
             UNCHANGED <<store, state, fresh, checkpoint, loading, crashes>>
      PROVE  Budget'
  <2>1. Due(todo') = 0 /\ FillsFirst(todo')
    BY <1>5 DEF Due, FillsFirst
  <2>2. Taken(state) + (Waiting(state) + 0) <= state.used
    BY <1>4
  <2>3. Within(state', Waiting(state') + Due(todo'))
    BY <1>4, <1>5, <2>1, <2>2 DEF Within
  <2> QED BY <1>5, <2>1, <2>3 DEF Budget, Within, Taken, Waiting
<1>6. ASSUME NEW halt \in BOOLEAN,
             Persist([Reduce(state) EXCEPT !.halted = @ \/ halt], state.pending.kind, Rest)
      PROVE  Budget'
  <2>1. PICK reduced \in Sessions : reduced = Reduce(state)
    BY <1>1, <1>2, ReduceType
  <2>2. /\ reduced.pending = None /\ reduced.used = state.used /\ reduced.allowance = state.allowance
        /\ Taken(reduced) = Taken(state) + Waiting(state)
    BY <1>1, <1>2, <2>1, ReduceKeeps, TakenOfReduced
  <2>3. PICK candidate \in Sessions : candidate = [reduced EXCEPT !.halted = @ \/ halt]
    BY DEF Sessions
  <2>4. /\ candidate.pending = None /\ candidate.used = state.used
        /\ candidate.allowance = state.allowance /\ candidate.tape = reduced.tape
    BY <2>2, <2>3 DEF Sessions
  <2>5. PICK kind \in Kinds : kind = state.pending.kind
    <3>1. state.pending \in Observations
      BY <1>1, <1>2 DEF Sessions
    <3>2. \A ob \in Observations : ob.kind \in Kinds
      BY DEF Observations, Kinds
    <3> QED BY <3>1, <3>2
  <2>6. Persist(candidate, kind, Rest)
    BY <1>6, <2>1, <2>3, <2>5
  <2>7. Waiting(candidate) = 0 /\ Due(Rest) = 0 /\ FillsFirst(Rest)
    BY <1>3, <2>4, FilllessCalls DEF Waiting
  <2>8. Taken(candidate) = Taken(state) + Waiting(state)
    BY <2>2, <2>4 DEF Taken
  <2>9. Within(candidate, Waiting(candidate) + Due(Rest))
    BY <1>4, <2>4, <2>7, <2>8 DEF Within
  <2> QED BY <1>3, <2>6, <2>7, <2>9, BudgetPersists
<1> QED BY <1>5, <1>6 DEF Advance

\* A fill is debited before it is due, and within the allowance.
LEMMA BudgetDebits ==
  ASSUME Inv, Budget, Debiting
  PROVE  Budget'
<1>1. PICK e \in Events :
        /\ todo # <<>> /\ Call.op = "match" /\ e = MatchEvent(Call) /\ e.qty # 0
        /\ Persist([state EXCEPT !.used = @ + e.qty], "liquidity_allocation",
                   <<execution(e), drain>> \o Rest)
  BY DEF Debiting, Doing
<1>2. /\ state \in Sessions /\ todo \in Seq(Calls) /\ Call \in Calls /\ e.qty \in Nat /\ e # None
  BY <1>1, TopCall, NoneAssumption DEF Inv, TypeOK, Events
<1>3. e.qty <= state.allowance - state.used
  BY <1>1, <1>2, MatchEventType
<1>4. Rest \in Seq(Calls) /\ Fillless(Rest) /\ state.pending = None
  BY <1>1, <1>2, RestIsFillless, NestedRest DEF Budget, Inv
<1>5. PICK all \in Seq(Calls) : /\ all = <<execution(e), drain>> \o Rest
                                /\ FillsFirst(all) /\ Due(all) = e.qty
  <2>1. PICK a \in Calls : a = execution(e) /\ a.op = "execution" /\ a.event = e
    <3>1. execution(e) \in Calls
      BY DEF Calls, execution
    <3>2. execution(e).op = "execution" /\ execution(e).event = e
      BY DEF execution
    <3> QED BY <3>1, <3>2
  <2>2. PICK b \in Seq(Calls) : b = <<drain>> /\ Fillless(b)
    BY CallsAreQuiet, SomeCalls, FilllessCalls DEF drain
  <2>3. PICK rest \in Seq(Calls) : rest = b \o Rest /\ Fillless(rest)
    BY <1>4, <2>2, FilllessConcat
  <2>4. <<a>> \o rest \in Seq(Calls) /\ FillsFirst(<<a>> \o rest) /\ Due(<<a>> \o rest) = e.qty
    BY <2>1, <2>3, FillOnTop
  <2>5. <<execution(e), drain>> \o Rest = <<a>> \o rest
    BY <1>4, <2>1, <2>2, <2>3
  <2> QED BY <2>4, <2>5
<1>6. PICK used \in Nat : used = state.used + e.qty
  BY <1>2 DEF Sessions
<1>7. PICK candidate \in Sessions :
        /\ candidate = [state EXCEPT !.used = @ + e.qty] /\ candidate.used = used
        /\ candidate.pending = state.pending /\ candidate.tape = state.tape
        /\ candidate.allowance = state.allowance
  <2>1. [state EXCEPT !.used = used] \in Sessions
    BY <1>2 DEF Sessions
  <2>2. /\ [state EXCEPT !.used = used].used = used
        /\ [state EXCEPT !.used = used].pending = state.pending
        /\ [state EXCEPT !.used = used].tape = state.tape
        /\ [state EXCEPT !.used = used].allowance = state.allowance
    BY <1>2 DEF Sessions
  <2> QED BY <1>6, <2>1, <2>2
<1>8. Within(candidate, Waiting(candidate) + Due(all))
  <2>1. /\ Taken(state) \in Int /\ Waiting(state) = 0 /\ state.used \in Nat /\ state.allowance \in Nat
        /\ Due(todo) \in Nat
    BY <1>2, <1>4, VolumeTypes, DueType DEF Waiting
  <2>2. Taken(state) + (Waiting(state) + Due(todo)) <= state.used
    BY DEF Budget, Within
  <2>3. Waiting(candidate) = 0 /\ Taken(candidate) = Taken(state)
    BY <1>4, <1>7 DEF Waiting, Taken
  <2>4. Taken(state) + (0 + e.qty) <= used /\ used <= state.allowance
    BY <1>2, <1>3, <1>6, <2>1, <2>2
  <2> QED BY <1>5, <1>7, <2>3, <2>4 DEF Within
<1>9. "liquidity_allocation" \in Kinds
  BY DEF Kinds
<1>10. Persist(candidate, "liquidity_allocation", all)
  BY <1>1, <1>5, <1>7
<1> QED BY <1>5, <1>8, <1>9, <1>10, BudgetPersists

\* A record that leaves tape and volume alone, with nothing due, keeps the budget.
LEMMA BudgetAnnotates ==
  ASSUME Inv, Budget, todo # <<>>, Call.op # "advance",
         NEW candidate \in Sessions, NEW kind \in Kinds, Persist(candidate, kind, Rest),
         candidate.pending = state.pending, candidate.tape = state.tape,
         candidate.used = state.used, candidate.allowance = state.allowance
  PROVE  Budget'
<1>1. /\ state \in Sessions /\ todo \in Seq(Calls)
  BY DEF Inv, TypeOK
<1>2. Rest \in Seq(Calls) /\ Fillless(Rest) /\ state.pending = None
  BY <1>1, RestIsFillless, NestedRest DEF Budget, Inv
<1>3. FillsFirst(Rest) /\ Due(Rest) = 0
  BY <1>2, FilllessCalls
<1>4. /\ Taken(state) \in Int /\ Waiting(state) = 0 /\ state.used \in Nat /\ Due(todo) \in Nat
      /\ Taken(state) + (Waiting(state) + Due(todo)) <= state.used /\ state.used <= state.allowance
  BY <1>1, <1>2, VolumeTypes, DueType DEF Budget, Within, Waiting
<1>5. Waiting(candidate) = 0 /\ Taken(candidate) = Taken(state)
  BY <1>2 DEF Waiting, Taken
<1>6. Within(candidate, Waiting(candidate) + Due(Rest))
  BY <1>3, <1>4, <1>5 DEF Within
<1> QED BY <1>2, <1>3, <1>6, BudgetPersists

\* Every step of a call keeps the budget.
LEMMA BudgetSteps ==
  ASSUME Inv, Budget, Step
  PROVE  Budget'
<1>1. /\ state \in Sessions /\ todo \in Seq(Calls) /\ FillsFirst(todo)
      /\ todo # <<>> =>
           /\ Call \in Calls /\ Call = todo[1] /\ Rest \in Seq(Calls) /\ Fillless(Rest)
           /\ state.pending # None <=> Call.op = "advance"
  BY TopCall, NestedRest, RestIsFillless DEF Inv, TypeOK, Budget
<1>2. CASE Turning
  <2>1. PICK calls \in Seq(Quiet) : todo # <<>> /\ Call \in Quiet /\ Continue(calls)
    BY <1>2 DEF Turning
  <2>2. todo' = calls \o Rest /\ UNCHANGED <<store, state, failed, fresh, checkpoint, loading>>
    BY <2>1 DEF Continue, journalVars
  <2>3. PICK all \in Seq(Calls) : all = calls \o Rest /\ FillsFirst(all) /\ Due(all) = 0
    BY <1>1, <2>1, FilllessCalls, FilllessConcat
  <2>4. Due(todo) = 0
    BY <1>1, <2>1 DEF Due, Quiet
  <2>5. Within(state', Waiting(state') + Due(todo'))
    BY <2>2, <2>3, <2>4 DEF Budget, Within, Taken, Waiting
  <2> QED BY <2>2, <2>3, <2>5 DEF Budget, Within, Taken
<1>3. CASE Observing
  <2>1. PICK ob \in Observations, calls \in Seq(Quiet) :
               /\ todo # <<>> /\ Call \in Quiet /\ Observe(ob, calls \o Rest)
               /\ ob.kind = "executions" => ob.event.qty = 0
    BY <1>3 DEF Observing
  <2>2. state.pending = None
    BY <1>1, <2>1 DEF Quiet, Inner
  <2>3. calls \o Rest \in Seq(Calls) /\ Fillless(calls \o Rest)
    BY <1>1, <2>1, FilllessCalls, FilllessConcat
  <2>4. ob.kind = "executions" => ob.event.qty <= Due(todo)
    BY <1>1, <2>1, DueType
  <2>5. Observe(ob, calls \o Rest)
    BY <2>1
  <2> QED BY <2>2, <2>3, <2>4, <2>5, BudgetObserves
<1>4. CASE Execution
  <2>1. todo # <<>> /\ Call.op = "execution" /\ Call.event \in Events
    BY <1>1, <1>4, CallFields DEF Execution, Doing
  <2>2. PICK ob \in Observations : ob = [kind |-> "executions", event |-> Call.event]
    BY <2>1 DEF Observations
  <2>3. Observe(ob, Rest) /\ state.pending = None
    BY <1>1, <1>4, <2>1, <2>2 DEF Execution
  <2>4. ob.event.qty <= Due(todo)
    <3>1. Call.event.qty \in Nat
      BY <2>1 DEF Events
    <3>2. Due(todo) = Call.event.qty /\ ob.event = Call.event
      BY <1>1, <2>1, <2>2 DEF Due
    <3> QED BY <3>1, <3>2
  <2> QED BY <1>1, <2>1, <2>3, <2>4, BudgetObserves
<1>5. CASE ClosedBar
  <2>1. todo # <<>> /\ Call.op = "closedBar" /\ state.pending = None
    BY <1>1, <1>5 DEF ClosedBar, Doing
  <2>2. PICK last \in Seq(Calls) : last = <<drain, [op |-> "processed"]>> /\ Fillless(last)
    <3>1. PICK a \in Calls : a = drain /\ a.op = "drain"
      <4>1. drain \in Calls
        BY DEF Calls, drain
      <4>2. drain.op = "drain"
        BY DEF drain
      <4> QED BY <4>1, <4>2
    <3>2. PICK b \in Calls : b = [op |-> "processed"] /\ b.op = "processed"
      <4>1. [op |-> "processed"] \in Calls
        BY DEF Calls
      <4>2. [op |-> "processed"].op = "processed"
        OBVIOUS
      <4> QED BY <4>1, <4>2
    <3>3. /\ <<a, b>> \in Seq(Calls)
          /\ \A i \in DOMAIN <<a, b>> : <<a, b>>[i] = a \/ <<a, b>>[i] = b
      OBVIOUS
    <3> QED BY <3>1, <3>2, <3>3 DEF Fillless
  <2>3. PICK request \in Requests \cup {None} :
          Observe([kind |-> "closed_bar", request |-> request], last \o Rest)
    BY <1>5, <2>2 DEF ClosedBar
  <2>4. PICK ob \in Observations : ob = [kind |-> "closed_bar", request |-> request]
    BY DEF Observations
  <2>5. last \o Rest \in Seq(Calls) /\ Fillless(last \o Rest)
    BY <1>1, <2>1, <2>2, FilllessConcat
  <2>6. ob.kind # "executions" /\ Observe(ob, last \o Rest)
    BY <2>3, <2>4
  <2> QED BY <2>1, <2>5, <2>6, BudgetObserves
<1>6. CASE Processed
  <2>1. PICK candidate \in Sessions : candidate = [state EXCEPT !.inBar = FALSE]
    BY <1>1 DEF Sessions
  <2>2. /\ candidate.pending = state.pending /\ candidate.tape = state.tape
        /\ candidate.used = state.used /\ candidate.allowance = state.allowance
    BY <1>1, <2>1 DEF Sessions
  <2>3. "candle_processed" \in Kinds /\ todo # <<>> /\ Call.op = "processed"
    BY <1>6 DEF Kinds, Processed, Doing
  <2>4. Persist(candidate, "candle_processed", Rest)
    BY <1>6, <2>1 DEF Processed
  <2> QED BY <2>2, <2>3, <2>4, BudgetAnnotates
<1>7. CASE StopReference
  <2>1. PICK candidate \in Sessions : candidate = [state EXCEPT !.stopBar = state.bar]
    BY <1>1 DEF Sessions
  <2>2. /\ candidate.pending = state.pending /\ candidate.tape = state.tape
        /\ candidate.used = state.used /\ candidate.allowance = state.allowance
    BY <1>1, <2>1 DEF Sessions
  <2>3. "stop_reference_consumed" \in Kinds /\ todo # <<>> /\ Call.op = "stopReference"
    BY <1>7 DEF Kinds, StopReference, Doing
  <2>4. Persist(candidate, "stop_reference_consumed", Rest)
    BY <1>7, <2>1 DEF StopReference
  <2> QED BY <2>2, <2>3, <2>4, BudgetAnnotates
<1>8. CASE EndOfData
  <2>1. PICK candidate \in Sessions : candidate = [state EXCEPT !.finished = TRUE]
    BY <1>1 DEF Sessions
  <2>2. /\ candidate.pending = state.pending /\ candidate.tape = state.tape
        /\ candidate.used = state.used /\ candidate.allowance = state.allowance
    BY <1>1, <2>1 DEF Sessions
  <2>3. "end_of_data" \in Kinds /\ todo # <<>> /\ Call.op = "endOfData"
    BY <1>8 DEF Kinds, EndOfData, Doing
  <2>4. Persist(candidate, "end_of_data", Rest)
    BY <1>8, <2>1 DEF EndOfData
  <2> QED BY <2>2, <2>3, <2>4, BudgetAnnotates
<1> QED BY StepShapes, BudgetAdvances, BudgetDebits,
           <1>2, <1>3, <1>4, <1>5, <1>6, <1>7, <1>8 DEF Inv

\* What a record restores to kept to its budget, and so does a record of which only
\* the position is used.
LEMMA RestoredBudget ==
  ASSUME Inv, Budget, NEW h \in DOMAIN store
  PROVE  Within(StateOf(h), 0)
<1>1. store[h] \in StoredRecords
  BY DEF Inv, TypeOK
<1>2. PICK s \in Sessions :
        /\ StateOf(h) = [s EXCEPT !.seq = store[h].seq, !.sha = h] /\ Within(s, 0)
  <2>1. CASE store[h].body # None
    <3>1. store[h].body \in Sessions
      BY <1>1, <2>1 DEF StoredRecords
    <3>2. StateOf(h) = [store[h].body EXCEPT !.seq = store[h].seq, !.sha = h]
      BY <2>1 DEF StateOf
    <3> QED BY <2>1, <3>1, <3>2 DEF Budget
  <2>2. CASE store[h].body = None
    <3>1. PICK s \in Sessions :
            /\ s = [Genesis EXCEPT !.inBar = store[h].inBar, !.pending = store[h].pending]
            /\ s.tape = <<>> /\ s.used = 0 /\ s.allowance = 0
      <4>1. [Genesis EXCEPT !.inBar = store[h].inBar, !.pending = store[h].pending] \in Sessions
        BY <1>1, GenesisType DEF StoredRecords, Sessions
      <4>2. /\ [Genesis EXCEPT !.inBar = store[h].inBar, !.pending = store[h].pending].tape = Genesis.tape
            /\ [Genesis EXCEPT !.inBar = store[h].inBar, !.pending = store[h].pending].used = Genesis.used
            /\ [Genesis EXCEPT !.inBar = store[h].inBar, !.pending = store[h].pending].allowance
                 = Genesis.allowance
        BY GenesisType DEF Sessions
      <4>3. Genesis.tape = <<>> /\ Genesis.used = 0 /\ Genesis.allowance = 0
        BY DEF Genesis
      <4> QED BY <4>1, <4>2, <4>3
    <3>2. StateOf(h) = [s EXCEPT !.seq = store[h].seq, !.sha = h]
      BY <2>2, <3>1 DEF StateOf
    <3>3. Taken(s) = 0
      BY <3>1, NothingTaken
    <3>4. Within(s, 0)
      BY <3>1, <3>3 DEF Within
    <3> QED BY <3>2, <3>4
  <2> QED BY <2>1, <2>2
<1>3. /\ StateOf(h).tape = s.tape /\ StateOf(h).used = s.used /\ StateOf(h).allowance = s.allowance
  BY <1>2 DEF Sessions
<1> QED BY <1>2, <1>3 DEF Within, Taken

\* A candle begins with an empty tape, nothing debited and its volume allowed.
LEMMA BudgetBegins ==
  ASSUME Inv, Budget, NEW c \in Candles, OnCandle(c)
  PROVE  Budget'
<1>1. state \in Sessions /\ ~failed /\ todo = <<>>
  BY DEF Inv, TypeOK, OnCandle, Idle, Persist
<1>2. state.pending = None
  BY <1>1 DEF Inv, Control, Nested
<1>3. PICK started \in Sessions :
        /\ started = [state EXCEPT !.bar = @ + 1, !.inBar = TRUE, !.candle = c,
                                   !.allowance = c.v, !.used = 0, !.tape = <<>>]
        /\ started.pending = None
        /\ started.allowance = c.v /\ started.used = 0 /\ started.tape = <<>> /\ c.v \in Nat
  BY <1>1, <1>2, StartedType
<1>4. PICK path \in Seq(Quiet), end \in Seq(Calls) :
        /\ Persist(started, "candle_received", path \o end)
        /\ Len(end) = 2 /\ end[1].op = "price" /\ end[2].op = "closedBar"
  BY <1>3, CandleCalls DEF OnCandle
<1>5. Fillless(end)
  <2>1. \A i \in DOMAIN end : i = 1 \/ i = 2
    BY <1>4
  <2> QED BY <1>4, <2>1 DEF Fillless
<1>6. PICK all \in Seq(Calls) : all = path \o end /\ FillsFirst(all) /\ Due(all) = 0
  <2>1. path \in Seq(Calls) /\ Fillless(path)
    BY FilllessCalls
  <2>2. path \o end \in Seq(Calls) /\ Fillless(path \o end)
    BY <1>5, <2>1, FilllessConcat
  <2> QED BY <2>2, FilllessCalls
<1>7. Within(started, Waiting(started) + Due(all))
  <2>1. Taken(started) = 0 /\ Waiting(started) = 0
    BY <1>3, NothingTaken DEF Waiting
  <2> QED BY <1>3, <1>6, <2>1 DEF Within
<1>8. "candle_received" \in Kinds
  BY DEF Kinds
<1> QED BY <1>4, <1>6, <1>7, <1>8, BudgetPersists

\* Exports, crashes and restores move among states that keep to their budget.
LEMMA BudgetRestores ==
  ASSUME Inv, Budget, \/ ExportState \/ Crash \/ RestoreBegin \/ RestoreEnd
                      \/ \E h \in DOMAIN store : RestoreRecord(h)
  PROVE  Budget'
<1>1. Due(<<>>) = 0 /\ FillsFirst(<<>>)
  BY DEF Due, FillsFirst
<1>2. CASE ExportState
  <2>1. /\ Taken(state) \in Int /\ Waiting(state) \in Nat /\ Due(todo) \in Nat
        /\ state.used \in Nat
    BY VolumeTypes, DueType DEF Inv, TypeOK
  <2>2. Taken(state) + (Waiting(state) + Due(todo)) <= state.used /\ state.used <= state.allowance
    BY DEF Budget, Within
  <2>3. Taken(state) + 0 <= state.used
    BY <2>1, <2>2
  <2>4. Within(state, 0)
    BY <2>2, <2>3 DEF Within
  <2> QED BY <1>2, <2>4 DEF ExportState, Budget, Within, Taken, Waiting, Due, FillsFirst
<1>3. CASE Crash
  <2>1. state' \in Sessions /\ state' = Genesis
    BY <1>3, GenesisType DEF Crash
  <2>2. Genesis.tape = <<>> /\ Genesis.used = 0 /\ Genesis.allowance = 0 /\ Genesis.pending = None
    BY DEF Genesis
  <2>3. Taken(Genesis) = 0 /\ Waiting(Genesis) = 0
    BY <2>1, <2>2, GenesisType, NothingTaken DEF Waiting
  <2>4. Within(Genesis, Waiting(Genesis) + Due(<<>>))
    BY <1>1, <2>2, <2>3 DEF Within
  <2>5. Within(state', Waiting(state') + Due(todo')) /\ FillsFirst(todo')
    BY <1>1, <1>3, <2>1, <2>4 DEF Crash
  <2> QED BY <1>3, <2>5 DEF Crash, Budget
<1>4. CASE RestoreBegin
  BY <1>4 DEF RestoreBegin, Budget, Within, Taken, Waiting, Due, FillsFirst
<1>5. ASSUME NEW h \in DOMAIN store, RestoreRecord(h)
      PROVE  Budget'
  <2>1. Within(StateOf(h), 0)
    BY RestoredBudget
  <2>2. loading' # None => Within(loading', 0)
    BY <1>5, <2>1 DEF RestoreRecord
  <2>3. UNCHANGED <<store, state, checkpoint, todo>>
    BY <1>5 DEF RestoreRecord
  <2> QED BY <2>2, <2>3 DEF Budget, Within, Taken, Waiting
<1>6. CASE RestoreEnd
  <2>1. todo = <<>> /\ loading \in Sessions /\ Within(loading, 0)
    BY <1>6 DEF RestoreEnd, Inv, TypeOK, Control, Budget
  <2>2. UNCHANGED <<store, checkpoint, todo>> /\ loading' = None
    BY <1>6 DEF RestoreEnd
  <2>3. CASE Complete(loading)
    <3>1. state' = loading
      BY <1>6, <2>3 DEF RestoreEnd
    <3>2. Waiting(loading) = 0
      BY <2>3 DEF Complete, Waiting
    <3>3. Within(loading, Waiting(loading) + Due(todo))
      BY <1>1, <2>1, <3>2
    <3> QED BY <2>2, <3>1, <3>3 DEF Budget, Within, Taken
  <2>4. CASE ~Complete(loading)
    <3>1. UNCHANGED state
      BY <1>6, <2>4 DEF RestoreEnd
    <3> QED BY <2>2, <3>1 DEF Budget, Within, Taken, Waiting
  <2> QED BY <2>3, <2>4
<1> QED BY <1>2, <1>3, <1>4, <1>5, <1>6

\* The budget holds initially.
LEMMA BudgetInit == Init => Budget
<1> SUFFICES ASSUME Init PROVE Budget
  OBVIOUS
<1>1. state = Genesis /\ todo = <<>> /\ DOMAIN store = {} /\ checkpoint = None /\ loading = None
  BY DEF Init
<1>2. Genesis.tape = <<>> /\ Genesis.used = 0 /\ Genesis.allowance = 0 /\ Genesis.pending = None
  BY DEF Genesis
<1>3. Taken(Genesis) = 0 /\ Waiting(Genesis) = 0
  BY <1>2, GenesisType, NothingTaken DEF Waiting
<1>4. Due(todo) = 0 /\ FillsFirst(todo)
  BY <1>1 DEF Due, FillsFirst
<1>5. Within(Genesis, Waiting(Genesis) + Due(todo))
  BY <1>2, <1>3, <1>4 DEF Within
<1> QED BY <1>1, <1>4, <1>5 DEF Budget

\* The budget is inductive.
LEMMA BudgetStep ==
  ASSUME Inv, Budget, [Next]_vars
  PROVE  Budget'
<1>1. CASE UNCHANGED vars
  BY <1>1 DEF vars, journalVars, Budget, Within, Taken, Waiting, Due, FillsFirst
<1>2. CASE Finish \/ \E action \in Actions : Command(action)
  <2>1. PICK ob \in Observations, calls \in Seq(Quiet) :
               ob.kind = "command" /\ Observe(ob, calls) /\ todo = <<>>
    BY <1>2, CommandCalls
  <2>2. state.pending = None
    BY <2>1 DEF Observe, Persist, Inv, Control, Nested
  <2>3. calls \in Seq(Calls) /\ Fillless(calls)
    BY FilllessCalls
  <2> QED BY <2>1, <2>2, <2>3, BudgetObserves
<1> QED BY <1>1, <1>2, BudgetSteps, BudgetBegins, BudgetRestores DEF Next, Host

\* The volume of the fills is what the tape took.
LEMMA FilledIsTaken ==
  ASSUME state \in Sessions
  PROVE  Filled = Taken(state)
<1>1. state.tape \in Seq(Events)
  BY DEF Sessions
<1>2. \A i \in DOMAIN state.tape : state.tape[i] \in Events
  BY <1>1
<1>3. [i \in DOMAIN state.tape |-> IF TRUE THEN state.tape[i].qty ELSE 0]
        = [i \in DOMAIN state.tape |-> Quantity[state.tape[i]]]
  BY <1>2 DEF Quantity
<1> QED BY <1>3 DEF Filled, Volume, Taken, Tally

\* All orders of a bar share one volume allowance, through every nesting of calls
\* and every crash and restore between the debit of a fill and the fill: what the
\* bar's fills took never exceeds what was debited for them, nor that the allowance.
THEOREM VolumeShared == Spec => []LiquidityShared
<1>1. Spec => []Budget
  BY BudgetInit, BudgetStep, Invariant, PTL DEF Spec
<1>2. Inv /\ Budget => LiquidityShared
  <2> SUFFICES ASSUME Inv, Budget PROVE LiquidityShared
    OBVIOUS
  <2>1. state \in Sessions /\ todo \in Seq(Calls)
    BY DEF Inv, TypeOK
  <2>2. /\ Taken(state) \in Int /\ Waiting(state) \in Nat /\ Due(todo) \in Nat
        /\ state.used \in Nat
    BY <2>1, VolumeTypes, DueType
  <2>3. Taken(state) + (Waiting(state) + Due(todo)) <= state.used /\ state.used <= state.allowance
    BY DEF Budget, Within
  <2>4. Taken(state) <= state.used
    BY <2>2, <2>3
  <2> QED BY <2>1, <2>3, <2>4, FilledIsTaken DEF LiquidityShared
<1> QED BY <1>1, <1>2, Invariant, PTL

(* ---- The inventory a bar begins with ------------------------------------ *)

\* What sells: the targets and the close.
Exits == Targets \cup {Close}

\* What a fill bought, what it sold, and what a target sold by it.
Gained == [e \in Events |-> IF Side(e.key) = "buy" THEN e.qty ELSE 0]
Parted == [e \in Events |-> IF Side(e.key) = "sell" THEN e.qty ELSE 0]
Aimed  == [e \in Events |-> IF e.key \in Targets THEN e.qty ELSE 0]

\* What the bar began with and no target has sold yet.
Free(s) == s.base - Tally(s.tape, Gained) + Tally(s.tape, Parted) - Tally(s.tape, Aimed)

\* There is one exit at a time and it asks for no more than the inventory; a target
\* that is active for no more than what is free.
Stock(s) ==
  /\ s.base >= 0 /\ Free(s) >= 0
  /\ \A j \in Exits, k \in Exits : Open(s, j) /\ Open(s, k) => j = k
  /\ \A k \in Exits : Open(s, k) => Remaining(s, k) <= s.base
  /\ \A k \in Targets : Open(s, k) /\ s.orders[k].act <= s.bar => Remaining(s, k) <= Free(s)

\* An order that may be filled: it is open, and active if it is a target.
Live(s, k) == Open(s, k) /\ (k \in Targets => s.orders[k].act <= s.bar)

\* An event that reopens nothing and fills no more than is left to fill.
Lands(s, e) ==
  /\ e.status \notin TERMINAL => Open(s, e.key)
  /\ e.qty > 0 => Live(s, e.key) /\ e.qty <= Remaining(s, e.key)

\* So are the event that is observed and what the next call matches or executes.
Ready(s, calls) ==
  /\ s.pending # None /\ s.pending.kind = "executions" => Lands(s, s.pending.event)
  /\ calls # <<>> /\ calls[1].op = "match" => Live(s, calls[1].key)
  /\ calls # <<>> /\ calls[1].op = "execution" => Lands(s, calls[1].event)

\* The inventory covers what asks for it, in this session and in one restored.
Stocked ==
  /\ Stock(state)
  /\ Ready(state, todo)
  /\ checkpoint # None => Stock(checkpoint)
  /\ loading # None => Stock(loading)
  /\ \A h \in DOMAIN store : store[h].body # None => Stock(store[h].body)

\* The quantities of a session are numbers.
LEMMA StockTypes ==
  ASSUME NEW s \in Sessions
  PROVE  /\ s.base \in Int /\ s.bar \in Nat /\ Free(s) \in Int
         /\ Tally(s.tape, Gained) \in Int /\ Tally(s.tape, Parted) \in Int
         /\ Tally(s.tape, Aimed) \in Int
         /\ s.orders \in [Orders -> OrderStates]
         /\ \A k \in Orders : Remaining(s, k) \in Int /\ s.orders[k].act \in Nat
         /\ Exits \subseteq Orders /\ Targets \subseteq Orders
<1>1. /\ Gained \in [Events -> Int] /\ Parted \in [Events -> Int] /\ Aimed \in [Events -> Int]
  BY DEF Gained, Parted, Aimed, Events
<1>2. s.tape \in Seq(Events) /\ s.base \in Int /\ s.bar \in Nat /\ s.orders \in [Orders -> OrderStates]
  BY DEF Sessions
<1>3. /\ Tally(s.tape, Gained) \in Int /\ Tally(s.tape, Parted) \in Int
      /\ Tally(s.tape, Aimed) \in Int
  BY <1>1, <1>2, TallyType
<1>4. \A k \in Orders : Remaining(s, k) \in Int /\ s.orders[k].act \in Nat
  BY <1>2 DEF Remaining, OrderStates
<1>5. Exits \subseteq Orders /\ Targets \subseteq Orders
  BY DEF Exits, Orders
<1> QED BY <1>2, <1>3, <1>4, <1>5 DEF Free

\* A state in which the exits ask for no more than before.
AsksNoMore(s, t) ==
  /\ t.base = s.base /\ t.tape = s.tape /\ t.bar = s.bar
  /\ \A k \in Exits : Open(t, k) => /\ Open(s, k) /\ Remaining(t, k) = Remaining(s, k)
                                    /\ t.orders[k].act = s.orders[k].act

LEMMA StockKept ==
  ASSUME NEW s, NEW t, Stock(s), AsksNoMore(s, t)
  PROVE  Stock(t)
<1>1. Free(t) = Free(s)
  BY DEF AsksNoMore, Free
<1>2. \A k \in Targets : k \in Exits
  BY DEF Exits
<1> QED BY <1>1, <1>2 DEF Stock, AsksNoMore

\* A state with the same orders, inventory and bar.
LEMMA StockSame ==
  ASSUME NEW s, NEW t, t.orders = s.orders, t.base = s.base, t.tape = s.tape, t.bar = s.bar
  PROVE  /\ Stock(s) => Stock(t)
         /\ \A k : Live(s, k) => Live(t, k)
         /\ \A e : Lands(s, e) => Lands(t, e)
<1>1. /\ \A k : Open(t, k) <=> Open(s, k)
      /\ \A k : Remaining(t, k) = Remaining(s, k)
  BY DEF Open, Exists, Remaining
<1>2. AsksNoMore(s, t)
  BY <1>1 DEF AsksNoMore
<1>3. \A k : Live(s, k) => Live(t, k)
  BY <1>1 DEF Live
<1> QED BY <1>1, <1>2, <1>3, StockKept DEF Lands

\* Cancels change no quantity (RequestCancels).
LEMMA RequestCancelsStock ==
  ASSUME NEW s \in Sessions, Stock(s), NEW K
  PROVE  Stock(RequestCancels(s, K))
<1>1. s.orders \in [Orders -> OrderStates] /\ Exits \subseteq Orders
  BY StockTypes
<1>2. PICK f : f = [k \in Orders |-> IF k \in K /\ Open(s, k)
                                     THEN [s.orders[k] EXCEPT !.status = "cancel_pending"]
                                     ELSE s.orders[k]]
  OBVIOUS
<1>3. PICK t : t = [s EXCEPT !.orders = f]
  OBVIOUS
<1>4. t = RequestCancels(s, K)
  BY <1>2, <1>3 DEF RequestCancels
<1>5. t.base = s.base /\ t.tape = s.tape /\ t.bar = s.bar /\ t.orders = f
  BY <1>3 DEF Sessions
<1>6. \A o \in OrderStates : LET u == [o EXCEPT !.status = "cancel_pending"]
                             IN  u.qty = o.qty /\ u.filled = o.filled /\ u.act = o.act
  BY DEF OrderStates
<1>7. ASSUME NEW k \in Exits, Open(t, k)
      PROVE  /\ Open(s, k) /\ Remaining(t, k) = Remaining(s, k)
             /\ t.orders[k].act = s.orders[k].act
  <2>1. s.orders[k] \in OrderStates /\ t.orders[k] = f[k] /\ k \in Orders
    BY <1>1, <1>5
  <2>2. CASE k \in K /\ Open(s, k)
    <3>1. PICK u : u = [s.orders[k] EXCEPT !.status = "cancel_pending"]
      OBVIOUS
    <3>2. f[k] = u
      BY <1>2, <2>1, <2>2, <3>1
    <3>3. u.qty = s.orders[k].qty /\ u.filled = s.orders[k].filled /\ u.act = s.orders[k].act
      BY <1>6, <2>1, <3>1
    <3> QED BY <2>1, <2>2, <3>2, <3>3 DEF Remaining
  <2>3. CASE ~(k \in K /\ Open(s, k))
    <3>1. f[k] = s.orders[k]
      BY <1>2, <2>1, <2>3
    <3> QED BY <1>7, <2>1, <3>1 DEF Remaining, Open, Exists
  <2> QED BY <2>2, <2>3
<1>8. AsksNoMore(s, t)
  BY <1>5, <1>7 DEF AsksNoMore
<1> QED BY <1>4, <1>8, StockKept

\* A terminal action only cancels (Terminate).
LEMMA TerminateStock ==
  ASSUME NEW s \in Sessions, Stock(s), NEW action \in Actions,
         NEW why \in {"stop", "command", "graph"}
  PROVE  Stock(Terminate(s, action, why))
<1>1. PICK u \in Sessions : u = [s EXCEPT !.terminal = action, !.reason = why]
  BY DEF Sessions
<1>2. u.orders = s.orders /\ u.base = s.base /\ u.tape = s.tape /\ u.bar = s.bar
  BY <1>1 DEF Sessions
<1>3. Stock(RequestCancels(u, Orders))
  BY <1>2, StockSame, RequestCancelsStock
<1> QED BY <1>1, <1>3 DEF Terminate

\* A new exit asks for the inventory when there is no other; a target for that of the
\* next bar.
LEMMA PlaceStock ==
  ASSUME NEW s \in Sessions, Stock(s), NEW k \in Exits, \A j \in Exits : ~Open(s, j),
         NEW o, o.qty = s.base, o.filled = 0, k \in Targets => o.act = s.bar + 1
  PROVE  Stock([s EXCEPT !.orders[k] = o])
<1>1. PICK t : t = [s EXCEPT !.orders[k] = o]
  OBVIOUS
<1>2. /\ s.orders \in [Orders -> OrderStates] /\ k \in Orders /\ s.base \in Int /\ s.bar \in Nat
      /\ Exits \subseteq Orders
  BY StockTypes
<1>3. /\ t.base = s.base /\ t.tape = s.tape /\ t.bar = s.bar /\ t.orders[k] = o
      /\ \A j \in Orders \ {k} : t.orders[j] = s.orders[j]
  BY <1>1, <1>2 DEF Sessions
<1>4. Free(t) = Free(s)
  BY <1>3 DEF Free
<1>5. \A j \in Exits : Open(t, j) => j = k
  BY <1>2, <1>3 DEF Open, Exists
<1>6. Remaining(t, k) = s.base
  BY <1>2, <1>3 DEF Remaining
<1>7. k \in Targets => ~(t.orders[k].act <= t.bar)
  BY <1>2, <1>3
<1>8. \A j \in Targets : j \in Exits
  BY DEF Exits
<1>9. s.base <= s.base
  BY <1>2
<1> QED BY <1>1, <1>3, <1>4, <1>5, <1>6, <1>7, <1>8, <1>9 DEF Stock

\* A new order asks for its quantity from a bar on (NewOrder).
Asks(o, qty, act) == o.qty = qty /\ o.filled = 0 /\ o.act = act

LEMMA NewOrderAsks ==
  ASSUME NEW s, NEW limit, NEW qty, NEW act
  PROVE  Asks(NewOrder(s, limit, qty, act), qty, act)
<1>1. PICK o : o = NewOrder(s, limit, qty, act)
  OBVIOUS
<1>2. o.qty = qty /\ o.filled = 0 /\ o.act = act
  BY <1>1 DEF NewOrder, NoOrder
<1> QED BY <1>1, <1>2 DEF Asks

\* A target is placed when none works, and before there is a close (Retarget).
LEMMA RetargetStock ==
  ASSUME NEW s \in Sessions, Sane(s), Stock(s)
  PROVE  Stock(Retarget(s))
<1> DEFINE working == {k \in Targets : Open(s, k)}
           unused == {k \in Targets : ~Exists(s, k)}
           place == [s EXCEPT !.orders[Min(unused)] = NewOrder(s, TargetLimit, s.base, s.bar + 1)]
<1>1. \/ Retarget(s) = s \/ Retarget(s) = RequestCancels(s, working)
      \/ /\ s.terminal = None /\ working = {} /\ unused # {} /\ Retarget(s) = place
  BY DEF Retarget
<1>2. CASE Retarget(s) = RequestCancels(s, working)
  <2> HIDE DEF working
  <2> QED BY <1>2, RequestCancelsStock
<1>3. CASE s.terminal = None /\ working = {} /\ unused # {} /\ Retarget(s) = place
  <2>1. PICK m : m = Min(unused) /\ m \in Targets
    BY <1>3, MinOfNaturals, RecipeAssumption
  <2>2. \A j \in Exits : ~Open(s, j)
    <3>1. ~Open(s, Close)
      <4>1. "stop_and_flatten" # None
        BY NoneAssumption DEF Actions
      <4> QED BY <1>3, <4>1 DEF Sane, Open
    <3> QED BY <1>3, <3>1 DEF Exits
  <2>3. PICK o : o = NewOrder(s, TargetLimit, s.base, s.bar + 1) /\ Asks(o, s.base, s.bar + 1)
    BY NewOrderAsks
  <2>4. m \in Exits
    BY <2>1 DEF Exits
  <2>5. Stock([s EXCEPT !.orders[m] = o])
    BY <2>2, <2>3, <2>4, PlaceStock DEF Asks
  <2> QED BY <1>3, <2>1, <2>3, <2>5
<1> QED BY <1>1, <1>2, <1>3

\* The close is placed when no order is open (Contain).
LEMMA ContainStock ==
  ASSUME NEW s \in Sessions, Stock(s)
  PROVE  Stock(Contain(s))
<1>1. PICK o : o = NewOrder(s, Market, s.base, s.bar) /\ Asks(o, s.base, s.bar)
  BY NewOrderAsks
<1>2. \/ Contain(s) = s
      \/ (\A k \in Orders : ~Open(s, k)) /\ Contain(s) = [s EXCEPT !.orders[Close] = o]
  BY <1>1 DEF Contain
<1>3. CASE (\A k \in Orders : ~Open(s, k)) /\ Contain(s) = [s EXCEPT !.orders[Close] = o]
  <2>1. Close \in Exits /\ Close \notin Targets /\ \A j \in Exits : ~Open(s, j)
    BY <1>3, RecipeAssumption DEF Exits, Orders
  <2>2. Stock([s EXCEPT !.orders[Close] = o])
    BY <1>1, <2>1, PlaceStock DEF Asks
  <2> QED BY <1>3, <2>2
<1> QED BY <1>2, <1>3

\* What an event changes (Execute).
LEMMA ExecuteInventory ==
  ASSUME NEW s \in Sessions, NEW e \in Events
  PROVE  LET t == Execute(s, e)
         IN  /\ t.base = IF e.key \in Entries THEN s.base + e.qty ELSE s.base - e.qty
             /\ t.bar = s.bar
             /\ t.tape = IF e.qty > 0 THEN Append(s.tape, e) ELSE s.tape
             /\ \A k \in Orders \ {e.key} : t.orders[k] = s.orders[k]
             /\ t.orders[e.key].status = e.status /\ t.orders[e.key].act = s.orders[e.key].act
             /\ Remaining(t, e.key) = Remaining(s, e.key) - e.qty
<1>1. s.orders \in [Orders -> OrderStates] /\ e.key \in Orders /\ e.qty \in Nat /\ s.base \in Int
  BY DEF Sessions, Events
<1>2. PICK o \in OrderStates : o = s.orders[e.key]
  BY <1>1
<1>3. PICK n : n = [o EXCEPT !.status = e.status, !.filled = @ + e.qty,
                             !.acc = IF e.status = "accepted" THEN s.accepted + 1 ELSE @]
  OBVIOUS
<1>4. n.status = e.status /\ n.filled = o.filled + e.qty /\ n.qty = o.qty /\ n.act = o.act
  BY <1>3 DEF OrderStates
<1>5. PICK bought \in Int : /\ bought = IF Side(e.key) = "buy" THEN e.qty ELSE -e.qty
                            /\ s.base + bought = IF e.key \in Entries THEN s.base + e.qty
                                                 ELSE s.base - e.qty
  BY <1>1 DEF Side
<1>6. PICK t : t = Execute(s, e)
  OBVIOUS
<1>7. /\ t.base = s.base + bought /\ t.bar = s.bar
      /\ t.tape = IF e.qty > 0 THEN Append(s.tape, e) ELSE s.tape
      /\ t.orders = [s.orders EXCEPT ![e.key] = n]
  BY <1>2, <1>3, <1>5, <1>6 DEF Execute, Sessions
<1>8. t.orders[e.key] = n /\ \A k \in Orders \ {e.key} : t.orders[k] = s.orders[k]
  BY <1>1, <1>7
<1>9. Remaining(t, e.key) = Remaining(s, e.key) - e.qty
  <2>1. o.qty \in Nat /\ o.filled \in Nat
    BY DEF OrderStates
  <2> QED BY <1>1, <1>2, <1>4, <1>8, <2>1 DEF Remaining
<1> QED BY <1>2, <1>4, <1>5, <1>6, <1>7, <1>8, <1>9

\* What is free shrinks by what a target sells, and by nothing else.
LEMMA FreeOfExecuted ==
  ASSUME NEW s \in Sessions, NEW e \in Events
  PROVE  Free(Execute(s, e)) = IF e.key \in Targets THEN Free(s) - e.qty ELSE Free(s)
<1>1. PICK t : t = Execute(s, e)
  OBVIOUS
<1>2. /\ t.base = IF e.key \in Entries THEN s.base + e.qty ELSE s.base - e.qty
      /\ t.tape = IF e.qty > 0 THEN Append(s.tape, e) ELSE s.tape
  BY <1>1, ExecuteInventory
<1>3. /\ s.tape \in Seq(Events) /\ e.qty \in Nat /\ e.key \in Orders /\ s.base \in Int
      /\ Tally(s.tape, Gained) \in Int /\ Tally(s.tape, Parted) \in Int
      /\ Tally(s.tape, Aimed) \in Int /\ Free(s) \in Int
  BY StockTypes DEF Sessions, Events
<1>4. CASE e.qty = 0
  <2>1. t.base = s.base /\ t.tape = s.tape
    BY <1>2, <1>3, <1>4
  <2>2. Free(t) = Free(s)
    BY <2>1 DEF Free
  <2> QED BY <1>1, <1>3, <1>4, <2>2
<1>5. CASE e.qty # 0
  <2>1. /\ Gained \in [Events -> Int] /\ Parted \in [Events -> Int] /\ Aimed \in [Events -> Int]
    BY DEF Gained, Parted, Aimed, Events
  <2>2. t.tape = Append(s.tape, e)
    BY <1>2, <1>3, <1>5
  <2>3. /\ Tally(t.tape, Gained) = Tally(s.tape, Gained) + Gained[e]
        /\ Tally(t.tape, Parted) = Tally(s.tape, Parted) + Parted[e]
        /\ Tally(t.tape, Aimed) = Tally(s.tape, Aimed) + Aimed[e]
    BY <1>3, <2>1, <2>2, TallyOfMore
  <2>4. CASE e.key \in Entries
    <3>1. Gained[e] = e.qty /\ Parted[e] = 0 /\ Aimed[e] = 0 /\ e.key \notin Targets
      BY <2>4, RecipeAssumption DEF Gained, Parted, Aimed, Side
    <3> QED BY <1>1, <1>2, <1>3, <2>3, <2>4, <3>1 DEF Free
  <2>5. CASE e.key \in Targets
    <3>1. Gained[e] = 0 /\ Parted[e] = e.qty /\ Aimed[e] = e.qty /\ e.key \notin Entries
      BY <2>5, RecipeAssumption DEF Gained, Parted, Aimed, Side
    <3> QED BY <1>1, <1>2, <1>3, <2>3, <2>5, <3>1 DEF Free
  <2>6. CASE e.key \notin Entries \cup Targets
    <3>1. Gained[e] = 0 /\ Parted[e] = e.qty /\ Aimed[e] = 0
      BY <2>6 DEF Gained, Parted, Aimed, Side
    <3> QED BY <1>1, <1>2, <1>3, <2>3, <2>6, <3>1 DEF Free
  <2> QED BY <2>4, <2>5, <2>6
<1> QED BY <1>3, <1>4, <1>5

\* An event that lands leaves enough for the exits that stay open: a purchase adds to
\* the inventory, and the exit that sells is the only one (Execute).
LEMMA ExecuteStock ==
  ASSUME NEW s \in Sessions, Stock(s), NEW e \in Events, Lands(s, e)
  PROVE  Stock(Execute(s, e))
<1>1. PICK t : t = Execute(s, e)
  OBVIOUS
<1>2. /\ t.base = IF e.key \in Entries THEN s.base + e.qty ELSE s.base - e.qty
      /\ t.bar = s.bar
      /\ t.tape = IF e.qty > 0 THEN Append(s.tape, e) ELSE s.tape
      /\ \A k \in Orders \ {e.key} : t.orders[k] = s.orders[k]
      /\ t.orders[e.key].status = e.status /\ t.orders[e.key].act = s.orders[e.key].act
      /\ Remaining(t, e.key) = Remaining(s, e.key) - e.qty
      /\ Free(t) = IF e.key \in Targets THEN Free(s) - e.qty ELSE Free(s)
  BY <1>1, ExecuteInventory, FreeOfExecuted
<1>3. /\ s.base \in Int /\ Free(s) \in Int /\ e.qty \in Nat /\ e.key \in Orders
      /\ \A k \in Orders : Remaining(s, k) \in Int
      /\ Exits \subseteq Orders /\ Targets \subseteq Exits
  BY StockTypes DEF Events, Exits
<1>4. \A k \in Orders : Open(t, k) => Open(s, k)
  BY <1>2, <1>3 DEF Lands, Open, Exists
<1>5. \A k \in Orders \ {e.key} : Remaining(t, k) = Remaining(s, k)
  BY <1>2 DEF Remaining
<1>6. CASE e.qty = 0
  <2>1. t.base = s.base /\ t.tape = s.tape /\ t.bar = s.bar
    BY <1>2, <1>3, <1>6
  <2>2. \A k \in Orders : /\ Remaining(t, k) = Remaining(s, k)
                          /\ t.orders[k].act = s.orders[k].act
    BY <1>2, <1>3, <1>5, <1>6
  <2>3. AsksNoMore(s, t)
    BY <1>3, <1>4, <2>1, <2>2 DEF AsksNoMore
  <2> QED BY <1>1, <2>3, StockKept
<1>7. CASE e.qty # 0 /\ e.key \in Entries
  <2>1. e.key \notin Exits
    BY <1>7, RecipeAssumption DEF Exits
  <2>2. t.base = s.base + e.qty /\ Free(t) = Free(s)
    BY <1>2, <1>7, <2>1 DEF Exits
  <2>3. \A k \in Exits : /\ Remaining(t, k) = Remaining(s, k)
                         /\ t.orders[k].act = s.orders[k].act
    BY <1>2, <1>3, <1>5, <2>1
  <2>4. t.base >= s.base /\ \A k \in Exits : Remaining(s, k) <= s.base => Remaining(s, k) <= t.base
    BY <1>3, <2>2
  <2>5. t.base >= 0
    BY <1>3, <2>2 DEF Stock
  <2> QED BY <1>1, <1>2, <1>3, <1>4, <2>2, <2>3, <2>4, <2>5 DEF Stock
<1>8. CASE e.qty # 0 /\ e.key \notin Entries
  <2>1. e.key \in Exits
    BY <1>3, <1>8 DEF Exits, Orders
  <2>2. /\ Open(s, e.key) /\ e.qty <= Remaining(s, e.key)
        /\ e.key \in Targets => s.orders[e.key].act <= s.bar
    BY <1>3, <1>8 DEF Lands, Live
  <2>3. /\ Remaining(s, e.key) <= s.base
        /\ e.key \in Targets => Remaining(s, e.key) <= Free(s)
    BY <2>1, <2>2 DEF Stock
  <2>4. t.base = s.base - e.qty
    BY <1>2, <1>8
  <2>5. \A k \in Exits : Open(t, k) => k = e.key
    BY <1>3, <1>4, <2>1, <2>2 DEF Stock
  <2>6. t.base >= 0 /\ Free(t) >= 0
    BY <1>2, <1>3, <2>2, <2>3, <2>4 DEF Stock
  <2>7. /\ Remaining(t, e.key) <= t.base
        /\ e.key \in Targets => Remaining(t, e.key) <= Free(t)
    BY <1>2, <1>3, <2>3, <2>4
  <2> QED BY <1>1, <1>3, <2>5, <2>6, <2>7 DEF Stock
<1> QED BY <1>6, <1>7, <1>8

\* A start places entries only (Start), a reconciliation no order (Decide).
LEMMA StartStock ==
  ASSUME NEW s \in Sessions, Stock(s)
  PROVE  Stock(Start(s))
<1>1. CASE s.terminal # None \/ \E k \in Orders : Exists(s, k)
  BY <1>1 DEF Start
<1>2. CASE ~(s.terminal # None \/ \E k \in Orders : Exists(s, k))
  <2>1. PICK f : f = [k \in Orders |-> IF k \in Entries
                                       THEN NewOrder(s, EntryLimit[k], EntryQty[k], s.bar + 1)
                                       ELSE s.orders[k]]
    OBVIOUS
  <2>2. PICK t : t = [s EXCEPT !.orders = f]
    OBVIOUS
  <2>3. t = Start(s)
    BY <1>2, <2>1, <2>2 DEF Start, Sessions
  <2>4. t.base = s.base /\ t.tape = s.tape /\ t.bar = s.bar /\ t.orders = f
    BY <2>2 DEF Sessions
  <2>5. \A k \in Exits : t.orders[k] = s.orders[k]
    BY <2>1, <2>4, RecipeAssumption DEF Exits, Orders
  <2>6. AsksNoMore(s, t)
    BY <2>4, <2>5 DEF AsksNoMore, Open, Exists, Remaining
  <2> QED BY <2>3, <2>6, StockKept
<1> QED BY <1>1, <1>2

\* What the engine decides, first half (Decide).
LEMMA DecideStock ==
  ASSUME NEW s \in Sessions, NEW ob \in Observations, Stock(s),
         ob.kind = "executions" => Lands(s, ob.event)
  PROVE  Stock(Decide(s, ob))
<1>1. ob.kind \in {"price", "command", "closed_bar", "executions", "reconciliation"}
  BY DEF Observations
<1>2. CASE ob.kind = "price"
  <2>1. PICK m \in Sessions : m = [s EXCEPT !.mark = ob.price]
    <3>1. ob.price \in Nat
      BY <1>2 DEF Observations
    <3> QED BY <3>1 DEF Sessions
  <2>2. m.orders = s.orders /\ m.base = s.base /\ m.tape = s.tape /\ m.bar = s.bar
    BY <2>1 DEF Sessions
  <2>3. Stock(m) /\ "stop_and_flatten" \in Actions
    BY <2>2, StockSame DEF Actions
  <2>4. Decide(s, ob) = m \/ Decide(s, ob) = Terminate(m, "stop_and_flatten", "stop")
    BY <1>2, <2>1 DEF Decide
  <2> QED BY <2>3, <2>4, TerminateStock
<1>3. CASE ob.kind = "command"
  <2>1. PICK action \in Actions : action = ob.action
    BY <1>3 DEF Observations
  <2>2. Decide(s, ob) = Terminate(s, action, "command")
    BY <1>3, <2>1 DEF Decide
  <2> QED BY <2>2, TerminateStock
<1>4. CASE ob.kind = "closed_bar"
  <2>1. ob.request \in Requests \cup {None}
    BY <1>4 DEF Observations
  <2>2. \/ Decide(s, ob) = s \/ Decide(s, ob) = Start(s)
        \/ ob.request \in Actions /\ Decide(s, ob) = Terminate(s, ob.request, "graph")
    BY <1>4, <2>1, HostAssumption DEF Decide
  <2> QED BY <2>2, StartStock, TerminateStock
<1>5. CASE ob.kind = "executions"
  <2>1. PICK e \in Events : e = ob.event
    BY <1>5 DEF Observations
  <2>2. Decide(s, ob) = Execute(s, e)
    BY <1>5, <2>1 DEF Decide
  <2> QED BY <1>5, <2>1, <2>2, ExecuteStock
<1>6. CASE ob.kind = "reconciliation"
  <2>1. PICK f : /\ f = [k \in Orders |-> IF s.orders[k].status \in TERMINAL
                                          THEN [s.orders[k] EXCEPT !.reconciled = TRUE]
                                          ELSE s.orders[k]]
                 /\ Decide(s, ob) = [s EXCEPT !.orders = f]
    BY <1>6 DEF Decide
  <2>2. PICK t : t = Decide(s, ob)
    OBVIOUS
  <2>3. t.base = s.base /\ t.tape = s.tape /\ t.bar = s.bar /\ t.orders = f
    BY <2>1, <2>2 DEF Sessions
  <2>4. ASSUME NEW k \in Exits, Open(t, k)
        PROVE  t.orders[k] = s.orders[k]
    <3>1. s.orders[k] \in OrderStates /\ k \in Orders
      BY StockTypes
    <3>2. s.orders[k].status \notin TERMINAL
      <4>1. s.orders[k].status \in TERMINAL =>
              t.orders[k].status = s.orders[k].status
        BY <2>1, <2>3, <3>1 DEF OrderStates
      <4> QED BY <2>4, <4>1 DEF Open
    <3> QED BY <2>1, <2>3, <3>1, <3>2
  <2>5. AsksNoMore(s, t)
    BY <2>3, <2>4 DEF AsksNoMore, Open, Exists, Remaining
  <2> QED BY <2>2, <2>5, StockKept
<1> QED BY <1>1, <1>2, <1>3, <1>4, <1>5, <1>6

\* A reduction leaves the inventory covering what asks for it (Reduce).
LEMMA ReduceStock ==
  ASSUME NEW s \in Sessions, s.pending # None, Sane(s), Stock(s),
         s.pending.kind = "executions" => Fits(s, s.pending.event) /\ Lands(s, s.pending.event)
  PROVE  Stock(Reduce(s))
<1>1. PICK ob \in Observations : ob = s.pending
  BY DEF Sessions
<1>2. PICK m \in Sessions : m = [s EXCEPT !.pending = None]
  BY DEF Sessions
<1>3. /\ m.terminal = s.terminal /\ m.halted = s.halted /\ m.orders = s.orders
      /\ m.base = s.base /\ m.tape = s.tape /\ m.bar = s.bar
  BY <1>2 DEF Sessions
<1>4. ob.kind = "executions" => ob.event.key \in Orders
  BY DEF Observations, Events
<1>5. /\ Sane(m) /\ Stock(m)
      /\ ob.kind = "executions" => Fits(m, ob.event) /\ Lands(m, ob.event)
  BY <1>1, <1>3, <1>4, SameOrders, StockSame
<1>6. PICK d \in Sessions : d = Decide(m, ob)
  BY DecideType
<1>7. Sane(d) /\ Stock(d)
  BY <1>5, <1>6, DecideSane, DecideStock
<1>8. PICK r \in Sessions : r = Retarget(d)
  BY RetargetType
<1>9. Stock(r)
  BY <1>7, <1>8, RetargetStock
<1>10. Stock(Contain(r))
  BY <1>9, ContainStock
<1>11. Contain(r) = Reduce(s)
  BY <1>1, <1>2, <1>6, <1>8 DEF Reduce
<1> QED BY <1>10, <1>11

\* A record whose candidate and calls are covered keeps the cover.
LEMMA StockPersist ==
  ASSUME Inv, Stocked, NEW candidate \in Sessions, NEW kind \in Kinds, NEW rest \in Seq(Calls),
         Persist(candidate, kind, rest), Stock(candidate), Ready(candidate, rest)
  PROVE  Stocked'
<1>1. PICK r \in StoredRecords :
        /\ r = Record(candidate, kind)
        /\ r.body # None => r.body = [candidate EXCEPT !.seq = 0, !.sha = 0]
  <2>1. PICK r \in StoredRecords : r = Record(candidate, kind)
    BY RecordType DEF Inv, TypeOK
  <2>2. r.body # None => r.body = [candidate EXCEPT !.seq = 0, !.sha = 0]
    BY <2>1 DEF Record
  <2> QED BY <2>1, <2>2
<1>2. ASSUME NEW n, NEW h
      PROVE  LET s == [candidate EXCEPT !.seq = n, !.sha = h]
             IN  /\ s.orders = candidate.orders /\ s.base = candidate.base /\ s.tape = candidate.tape
                 /\ s.bar = candidate.bar /\ s.pending = candidate.pending
  BY DEF Sessions
<1>3. r.body # None => Stock(r.body)
  <2>1. PICK s : s = [candidate EXCEPT !.seq = 0, !.sha = 0]
    OBVIOUS
  <2>2. /\ s.orders = candidate.orders /\ s.base = candidate.base /\ s.tape = candidate.tape
        /\ s.bar = candidate.bar
    BY <1>2, <2>1
  <2>3. Stock(s)
    BY <2>2, StockSame
  <2> QED BY <1>1, <2>1, <2>3
<1>4. \A h \in DOMAIN store' : store'[h].body # None => Stock(store'[h].body)
  <2>1. Stores(r) \/ UNCHANGED store
    BY <1>1 DEF Persist
  <2>2. \A h \in DOMAIN store' : (h \in DOMAIN store /\ store'[h] = store[h]) \/ store'[h] = r
    BY <2>1, StoreGrows DEF Inv, TypeOK
  <2> QED BY <1>3, <2>2 DEF Stocked
<1>5. checkpoint' = checkpoint /\ loading' = loading
  BY DEF Persist
<1>6. Stock(state') /\ Ready(state', todo')
  <2>1. CASE state' = [candidate EXCEPT !.seq = r.seq, !.sha = HashOf(r)] /\ todo' = rest
    <3>1. /\ state'.orders = candidate.orders /\ state'.base = candidate.base
          /\ state'.tape = candidate.tape /\ state'.bar = candidate.bar
          /\ state'.pending = candidate.pending
      BY <1>2, <2>1
    <3>2. /\ Stock(state')
          /\ \A k : Live(candidate, k) => Live(state', k)
          /\ \A e : Lands(candidate, e) => Lands(state', e)
      BY <3>1, StockSame
    <3>3. Ready(state', rest)
      BY <3>1, <3>2 DEF Ready
    <3> QED BY <2>1, <3>2, <3>3
  <2>2. CASE state' = state /\ todo' = <<>>
    BY <2>2 DEF Stocked, Ready
  <2> QED BY <1>1, <2>1, <2>2 DEF Persist
<1> QED BY <1>4, <1>5, <1>6 DEF Stocked

\* Calls before others keep what is next covered.
LEMMA ReadyBefore ==
  ASSUME NEW s, s.pending = None, NEW S, NEW calls \in Seq(S), NEW rest \in Seq(Calls), Beneath(rest),
         calls # <<>> => /\ calls[1].op = "match" => Live(s, calls[1].key)
                         /\ calls[1].op = "execution" => Lands(s, calls[1].event)
  PROVE  Ready(s, calls \o rest)
<1>1. CASE calls = <<>>
  <2>1. calls \o rest = rest
    BY <1>1, ConcatEmptySeq
  <2>2. rest # <<>> => rest[1].op \notin {"match", "execution"}
    <3>1. rest # <<>> => 1 \in DOMAIN rest
      BY EmptySeq, LenProperties
    <3> QED BY <3>1 DEF Beneath
  <2> QED BY <2>1, <2>2 DEF Ready
<1>2. CASE calls # <<>>
  <2>1. calls \o rest # <<>> /\ (calls \o rest)[1] = calls[1]
    BY <1>2, CallsBefore
  <2>2. PICK all : all = calls \o rest
    OBVIOUS
  <2>3. Ready(s, all)
    BY <1>2, <2>1, <2>2 DEF Ready
  <2> QED BY <2>2, <2>3
<1> QED BY <1>1, <1>2

\* Noting an observation that lands (Observe).
LEMMA StockObserve ==
  ASSUME Inv, Stocked, NEW ob \in Observations, NEW rest \in Seq(Calls), Observe(ob, rest),
         ob.kind = "executions" => Lands(state, ob.event)
  PROVE  Stocked'
<1>1. PICK candidate \in Sessions :
        /\ candidate = [state EXCEPT !.pending = ob]
        /\ candidate.pending = ob /\ candidate.orders = state.orders
        /\ candidate.base = state.base /\ candidate.tape = state.tape /\ candidate.bar = state.bar
  <2>1. state \in Sessions
    BY DEF Inv, TypeOK
  <2>2. PICK candidate \in Sessions : candidate = [state EXCEPT !.pending = ob]
    BY <2>1, NotingType
  <2>3. /\ candidate.pending = ob /\ candidate.orders = state.orders
        /\ candidate.base = state.base /\ candidate.tape = state.tape /\ candidate.bar = state.bar
    BY <2>1, <2>2 DEF Sessions
  <2> QED BY <2>2, <2>3
<1>2. PICK top \in Seq(Calls) : top = <<[op |-> "advance"]>> /\ top # <<>> /\ top[1].op = "advance"
  <2>1. PICK c \in Calls : c = [op |-> "advance"] /\ c.op = "advance"
    <3>1. [op |-> "advance"] \in Calls
      BY DEF Calls
    <3>2. [op |-> "advance"].op = "advance"
      OBVIOUS
    <3> QED BY <3>1, <3>2
  <2>2. <<c>> \in Seq(Calls) /\ <<c>> # <<>> /\ <<c>>[1] = c
    OBVIOUS
  <2> QED BY <2>1, <2>2
<1>3. PICK all \in Seq(Calls) : all = top \o rest /\ all # <<>> /\ all[1].op = "advance"
  <2>1. top \o rest \in Seq(Calls)
    BY ConcatProperties
  <2> QED BY <1>2, <2>1, CallsBefore
<1>4. Persist(candidate, "observation_received", all)
  BY <1>1, <1>2, <1>3 DEF Observe
<1>5. "observation_received" \in Kinds
  BY DEF Kinds
<1>6. Stock(candidate) /\ (ob.kind = "executions" => Lands(candidate, ob.event))
  BY <1>1, StockSame DEF Stocked
<1>7. Ready(candidate, all)
  BY <1>1, <1>3, <1>6 DEF Ready
<1> QED BY <1>4, <1>5, <1>6, <1>7, StockPersist

\* Control moves on, to a match of an order that is live or an event that lands.
LEMMA StockContinue ==
  ASSUME Inv, Gates, Stocked, todo # <<>>, Call.op # "advance", NEW S, NEW calls \in Seq(S),
         Continue(calls),
         calls # <<>> => /\ calls[1].op = "match" => Live(state, calls[1].key)
                         /\ calls[1].op = "execution" => Lands(state, calls[1].event)
  PROVE  Stocked'
<1>1. todo' = calls \o Rest /\ UNCHANGED <<store, state, checkpoint, loading>>
  BY DEF Continue, journalVars
<1>2. state.pending = None /\ Rest \in Seq(Calls) /\ Beneath(Rest)
  BY NestedRest, CallsAfter DEF Inv, TypeOK, Gates, Fitting
<1>3. PICK all : all = calls \o Rest
  OBVIOUS
<1>4. Ready(state, all)
  BY <1>2, <1>3, ReadyBefore
<1> QED BY <1>1, <1>3, <1>4 DEF Stocked

\* The same for a short stack, of which only the first call matches or executes.
LEMMA StockStack ==
  ASSUME Inv, Gates, Stocked, todo # <<>>, Call.op # "advance", NEW a, NEW b, NEW c,
         b.op \notin {"match", "execution"}, c.op \notin {"match", "execution"},
         Continue(<<>>) \/ Continue(<<a>>) \/ Continue(<<a, b>>) \/ Continue(<<a, b, c>>),
         a.op = "match" => Live(state, a.key), a.op = "execution" => Lands(state, a.event)
  PROVE  Stocked'
<1>1. ASSUME NEW calls \in Seq({a, b, c}), Continue(calls), calls # <<>> => calls[1] = a
      PROVE  Stocked'
  BY <1>1, StockContinue
<1>2. /\ <<a>> \in Seq({a, b, c}) /\ <<a, b>> \in Seq({a, b, c}) /\ <<a, b, c>> \in Seq({a, b, c})
      /\ <<a>>[1] = a /\ <<a, b>>[1] = a /\ <<a, b, c>>[1] = a
      /\ <<>> \in Seq({a, b, c})
  BY Stacks, SomeCalls
<1>3. PICK none, one, two, three :
        none = <<>> /\ one = <<a>> /\ two = <<a, b>> /\ three = <<a, b, c>>
  OBVIOUS
<1> QED BY <1>1, <1>2, <1>3

\* The reduction (Advance).
LEMMA StockAdvance ==
  ASSUME Inv, Gates, Stocked, Advance
  PROVE  Stocked'
<1>1. /\ state \in Sessions /\ todo \in Seq(Calls) /\ todo # <<>> /\ Call.op = "advance"
  BY DEF Inv, TypeOK, Advance, Doing
<1>2. state.pending # None
  BY <1>1, NestedRest DEF Inv
<1>3. Rest \in Seq(Calls) /\ Beneath(Rest)
  BY <1>1, CallsAfter DEF Gates, Fitting
<1>4. ASSUME failed' = TRUE, todo' = <<>>,
             UNCHANGED <<store, state, fresh, checkpoint, loading, crashes>>
      PROVE  Stocked'
  BY <1>4 DEF Stocked, Ready
<1>5. ASSUME NEW halt \in BOOLEAN,
             Persist([Reduce(state) EXCEPT !.halted = @ \/ halt], state.pending.kind, Rest)
      PROVE  Stocked'
  <2>1. PICK reduced \in Sessions : reduced = Reduce(state)
    BY <1>1, <1>2, ReduceType
  <2>2. Stock(reduced) /\ reduced.pending = None
    BY <1>1, <1>2, <2>1, ReduceStock, ReduceKeeps DEF Gates, Fitting, Stocked, Ready
  <2>3. PICK candidate \in Sessions : candidate = [reduced EXCEPT !.halted = @ \/ halt]
    BY DEF Sessions
  <2>4. /\ candidate.pending = None /\ candidate.orders = reduced.orders
        /\ candidate.base = reduced.base /\ candidate.tape = reduced.tape
        /\ candidate.bar = reduced.bar
    BY <2>2, <2>3 DEF Sessions
  <2>5. PICK kind \in Kinds : kind = state.pending.kind
    <3>1. state.pending \in Observations
      BY <1>1, <1>2 DEF Sessions
    <3>2. \A ob \in Observations : ob.kind \in Kinds
      BY DEF Observations, Kinds
    <3> QED BY <3>1, <3>2
  <2>6. Persist(candidate, kind, Rest)
    BY <1>5, <2>1, <2>3, <2>5
  <2>7. Stock(candidate)
    BY <2>2, <2>4, StockSame
  <2>8. Ready(candidate, Rest)
    <3>1. Rest # <<>> => 1 \in DOMAIN Rest
      BY <1>3, EmptySeq, LenProperties
    <3>2. Rest # <<>> => Rest[1].op \notin {"match", "execution"}
      BY <1>3, <3>1 DEF Beneath
    <3> QED BY <2>4, <3>2 DEF Ready
  <2> QED BY <1>3, <2>6, <2>7, <2>8, StockPersist
<1> QED BY <1>4, <1>5 DEF Advance

\* The walk matches what is live: an order that triggers is active, and FlattenRest
\* matches no target (Point, Sort, Sells, Buys, Bought, Leg, FlattenRest).
LEMMA StockWalk ==
  ASSUME Inv, Gates, Stocked, Point \/ Sort \/ Sells \/ Buys \/ Bought \/ Leg \/ FlattenRest
  PROVE  Stocked'
<1>1. PICK a, b, c : Unfolding(a, b, c)
  BY WalkUnfolds
<1>2. todo # <<>> /\ Call.op \in Trading
  BY WalkUnfolds
<1>3. /\ a.op # "execution" /\ b.op \notin {"match", "execution"} /\ c.op \notin {"match", "execution"}
      /\ Call.op # "advance"
  BY <1>1, <1>2 DEF Unfolding, Sub, Trading
<1>4. a.op = "match" => Live(state, a.key)
  <2>1. Close \notin Targets
    BY RecipeAssumption
  <2> QED BY <1>1, <2>1 DEF Unfolding, Live, Eligible
<1> QED BY <1>1, <1>2, <1>3, <1>4, StockStack DEF Unfolding

\* A record that touches neither orders nor inventory (StopReference, Processed,
\* EndOfData, and the debit of a Match).
LEMMA StockRecord ==
  ASSUME Inv, Gates, Stocked, todo # <<>>, NEW candidate \in Sessions, candidate.pending = None,
         candidate.orders = state.orders, candidate.base = state.base,
         candidate.tape = state.tape, candidate.bar = state.bar,
         NEW kind \in Kinds, NEW calls \in Seq(Calls), Persist(candidate, kind, calls \o Rest),
         calls # <<>> => /\ calls[1].op = "match" => Live(state, calls[1].key)
                         /\ calls[1].op = "execution" => Lands(state, calls[1].event)
  PROVE  Stocked'
<1>1. Rest \in Seq(Calls) /\ Beneath(Rest)
  BY CallsAfter DEF Inv, TypeOK, Gates, Fitting
<1>2. calls \o Rest \in Seq(Calls)
  BY <1>1, ConcatProperties
<1>3. /\ Stock(candidate)
      /\ \A k : Live(state, k) => Live(candidate, k)
      /\ \A e : Lands(state, e) => Lands(candidate, e)
  BY StockSame DEF Stocked
<1>4. Ready(candidate, calls \o Rest)
  BY <1>1, <1>3, ReadyBefore
<1>5. PICK rest \in Seq(Calls) : Persist(candidate, kind, rest) /\ Ready(candidate, rest)
  BY <1>2, <1>4
<1> QED BY <1>3, <1>5, StockPersist

\* A fill is of the order matched, and of no more than it has left (Match).
LEMMA StockMatch ==
  ASSUME Inv, Gates, Stocked, Match
  PROVE  Stocked'
<1>1. /\ todo # <<>> /\ Call \in Calls /\ Call.op = "match" /\ Call.key \in Orders
      /\ state \in Sessions /\ todo \in Seq(Calls)
  BY TopCall, CallFields DEF Match, Doing, Inv, TypeOK
<1>2. Live(state, Call.key) /\ state.pending = None
  <2>1. Live(state, Call.key)
    BY <1>1, TopCall DEF Stocked, Ready
  <2>2. state.pending = None
    BY <1>1, NestedRest DEF Inv
  <2> QED BY <2>1, <2>2
<1>3. PICK event : event = MatchEvent(Call)
  OBVIOUS
<1>4. event # None => /\ event \in Events /\ event.key = Call.key
                      /\ event.qty # 0 => event.qty <= Remaining(state, Call.key)
  BY <1>1, <1>3, MatchEventType
<1>5. event # None => Lands(state, event)
  BY <1>2, <1>4 DEF Lands, Live
<1>6. PICK a, b : /\ a = execution(event) /\ b = drain
                  /\ a.op = "execution" /\ a.event = event /\ b.op = "drain"
  <2>1. execution(event).op = "execution" /\ execution(event).event = event /\ drain.op = "drain"
    BY DEF execution, drain
  <2> QED BY <2>1
<1>7. CASE event = None
  <2>1. Continue(<<>>)
    BY <1>3, <1>7 DEF Match
  <2>2. b.op \notin {"match", "execution"}
    BY <1>6
  <2> QED BY <1>1, <2>1, <2>2, StockStack
<1>8. CASE event # None /\ event.qty = 0
  <2>1. Continue(<<a, b>>)
    BY <1>3, <1>6, <1>8 DEF Match
  <2> QED BY <1>1, <1>5, <1>6, <1>8, <2>1, StockStack
<1>9. CASE event # None /\ event.qty # 0
  <2>1. PICK n \in Nat : n = state.used + event.qty
    BY <1>1, <1>4, <1>9 DEF Sessions, Events
  <2>2. PICK candidate \in Sessions : candidate = [state EXCEPT !.used = n]
    BY <1>1, SessionUpdates
  <2>3. /\ candidate.pending = None /\ candidate.orders = state.orders
        /\ candidate.base = state.base /\ candidate.tape = state.tape /\ candidate.bar = state.bar
    BY <1>1, <1>2, <2>2 DEF Sessions
  <2>4. PICK calls \in Seq(Calls) : calls = <<a, b>> /\ calls[1] = a
    <3>1. a \in Calls /\ b \in Calls
      BY <1>4, <1>6, <1>9, CallsAreQuiet DEF Inner, Quiet, drain
    <3>2. <<a, b>> \in Seq(Calls) /\ <<a, b>>[1] = a
      BY <3>1
    <3> QED BY <3>2
  <2>5. Persist(candidate, "liquidity_allocation", calls \o Rest)
    BY <1>3, <1>6, <1>9, <2>1, <2>2, <2>4 DEF Match
  <2>6. "liquidity_allocation" \in Kinds
    BY DEF Kinds
  <2>7. calls[1].op = "execution" /\ Lands(state, calls[1].event)
    BY <1>5, <1>6, <1>9, <2>4
  <2> QED BY <1>1, <2>3, <2>4, <2>5, <2>6, <2>7, StockRecord
<1> QED BY <1>7, <1>8, <1>9

\* The end of an order lands wherever it comes from: it has no quantity (Expire).
LEMMA StockExpire ==
  ASSUME Inv, Gates, Stocked, Expire
  PROVE  Stocked'
<1>1. todo # <<>> /\ Call.op = "expire"
  BY DEF Expire, Doing
<1>2. PICK event : /\ event = StatusEvent(Min(Expired), "expired")
                   /\ event.qty = 0 /\ event.status = "expired"
  <2>1. /\ StatusEvent(Min(Expired), "expired").qty = 0
        /\ StatusEvent(Min(Expired), "expired").status = "expired"
    BY DEF StatusEvent
  <2> QED BY <2>1
<1>3. Lands(state, event)
  BY <1>2 DEF Lands, TERMINAL
<1>4. PICK a, b : /\ a = execution(event) /\ b = Call
                  /\ a.op = "execution" /\ a.event = event
  <2>1. execution(event).op = "execution" /\ execution(event).event = event
    BY DEF execution
  <2> QED BY <2>1
<1>5. Continue(<<>>) \/ Continue(<<a, b>>)
  BY <1>2, <1>4 DEF Expire
<1> QED BY <1>1, <1>3, <1>4, <1>5, StockStack

\* What is acknowledged is open, what is canceled has no quantity (Drain).
LEMMA StockDrain ==
  ASSUME Inv, Gates, Stocked, Drain
  PROVE  Stocked'
<1>1. todo # <<>> /\ Call.op = "drain" /\ todo \in Seq(Calls) /\ state \in Sessions
  BY DEF Drain, Doing, Inv, TypeOK
<1>2. CASE state.halted \/ (Unacknowledged = {} /\ Reconciled(state))
  <2>1. Continue(<<>>)
    BY <1>2 DEF Drain
  <2> QED BY <1>1, <2>1, StockStack
<1>3. CASE ~(state.halted \/ (Unacknowledged = {} /\ Reconciled(state)))
  <2>1. CASE Unacknowledged # {}
    <3>1. PICK k \in Unacknowledged : k = Min(Unacknowledged)
      <4>1. Unacknowledged \in SUBSET Nat
        BY OrdersAreFinite DEF Unacknowledged
      <4> QED BY <2>1, <4>1, MinOfNaturals
    <3>2. PICK status \in {"accepted", "canceled"} :
            status = IF state.orders[k].status = "pending" THEN "accepted" ELSE "canceled"
      OBVIOUS
    <3>3. k \in Orders /\ status \in Statuses
      BY <3>1, <3>2 DEF Unacknowledged, Statuses, TERMINAL
    <3>4. PICK event \in Events : /\ event = StatusEvent(k, status)
                                  /\ event.key = k /\ event.qty = 0 /\ event.status = status
      <4>1. StatusEvent(k, status).key = k /\ StatusEvent(k, status).status = status
        BY DEF StatusEvent
      <4> QED BY <3>3, <4>1, StatusEventType
    <3>5. Lands(state, event)
      <4>1. Open(state, k)
        BY <3>1 DEF Unacknowledged, Open, Exists, TERMINAL
      <4> QED BY <3>4, <4>1 DEF Lands
    <3>6. PICK ob \in Observations : ob = [kind |-> "executions", event |-> event] /\ ob.event = event
      <4>1. [kind |-> "executions", event |-> event] \in Observations
        BY DEF Observations
      <4>2. [kind |-> "executions", event |-> event].event = event
        OBVIOUS
      <4> QED BY <4>1, <4>2
    <3>7. Observe(ob, todo)
      BY <1>3, <2>1, <3>1, <3>2, <3>4, <3>6 DEF Drain
    <3> QED BY <1>1, <3>5, <3>6, <3>7, StockObserve
  <2>2. CASE Unacknowledged = {}
    <3>1. PICK ob \in Observations : ob = [kind |-> "reconciliation"] /\ ob.kind = "reconciliation"
      <4>1. [kind |-> "reconciliation"] \in Observations
        BY DEF Observations
      <4>2. [kind |-> "reconciliation"].kind = "reconciliation"
        OBVIOUS
      <4> QED BY <4>1, <4>2
    <3>2. Observe(ob, todo)
      BY <1>3, <2>2, <3>1 DEF Drain
    <3> QED BY <1>1, <3>1, <3>2, StockObserve
  <2> QED BY <2>1, <2>2
<1> QED BY <1>2, <1>3

\* The steps that observe and do not match (Price, Execution, ClosedBar).
LEMMA StockNote ==
  ASSUME Inv, Stocked, Price \/ Execution \/ ClosedBar
  PROVE  Stocked'
<1>1. /\ todo # <<>> /\ Call \in Calls /\ todo \in Seq(Calls) /\ Rest \in Seq(Calls)
  BY TopCall DEF Price, Execution, ClosedBar, Doing, Inv, TypeOK
<1>2. PICK d \in Calls, p \in Calls : d = drain /\ p = [op |-> "processed"]
  <2>1. drain \in Calls /\ [op |-> "processed"] \in Calls
    BY DEF drain, Calls
  <2> QED BY <2>1
<1>3. CASE Price
  <2>1. PICK ob \in Observations : ob = [kind |-> "price", price |-> Call.price] /\ ob.kind = "price"
    <3>1. Call.price \in Nat
      BY <1>1, <1>3, CallFields DEF Price, Doing
    <3>2. [kind |-> "price", price |-> Call.price] \in Observations
      BY <3>1 DEF Observations
    <3>3. [kind |-> "price", price |-> Call.price].kind = "price"
      OBVIOUS
    <3> QED BY <3>2, <3>3
  <2>2. PICK a \in Seq(Calls) : a = <<d>>
    BY SomeCalls
  <2>3. Observe(ob, a \o Rest) /\ a \o Rest \in Seq(Calls)
    BY <1>1, <1>2, <1>3, <2>1, <2>2, ConcatProperties DEF Price
  <2> QED BY <2>1, <2>3, StockObserve
<1>4. CASE Execution
  <2>1. Call.op = "execution" /\ Call.event \in Events /\ Lands(state, Call.event)
    BY <1>1, <1>4, TopCall, CallFields DEF Execution, Doing, Stocked, Ready
  <2>2. PICK ob \in Observations : ob = [kind |-> "executions", event |-> Call.event] /\ ob.event = Call.event
    <3>1. [kind |-> "executions", event |-> Call.event] \in Observations
      BY <2>1 DEF Observations
    <3>2. [kind |-> "executions", event |-> Call.event].event = Call.event
      OBVIOUS
    <3> QED BY <3>1, <3>2
  <2>3. Observe(ob, Rest)
    BY <1>4, <2>2 DEF Execution
  <2> QED BY <1>1, <2>1, <2>2, <2>3, StockObserve
<1>5. CASE ClosedBar
  <2>1. PICK a \in Seq(Calls) : a = <<d, p>>
    BY SomeCalls
  <2>2. PICK request \in Requests \cup {None} :
          Observe([kind |-> "closed_bar", request |-> request], a \o Rest)
    BY <1>2, <1>5, <2>1 DEF ClosedBar
  <2>3. PICK ob \in Observations : /\ ob = [kind |-> "closed_bar", request |-> request]
                                   /\ ob.kind = "closed_bar"
    <3>1. [kind |-> "closed_bar", request |-> request] \in Observations
      BY DEF Observations
    <3>2. [kind |-> "closed_bar", request |-> request].kind = "closed_bar"
      OBVIOUS
    <3> QED BY <3>1, <3>2
  <2>4. Observe(ob, a \o Rest) /\ a \o Rest \in Seq(Calls)
    BY <1>1, <2>2, <2>3, ConcatProperties
  <2> QED BY <2>3, <2>4, StockObserve
<1> QED BY <1>3, <1>4, <1>5

\* The steps that only record (StopReference, Processed, EndOfData).
LEMMA StockMark ==
  ASSUME Inv, Gates, Stocked, StopReference \/ Processed \/ EndOfData
  PROVE  Stocked'
<1>1. /\ todo # <<>> /\ todo \in Seq(Calls) /\ state \in Sessions /\ Rest \in Seq(Calls)
      /\ Call.op \in {"stopReference", "processed", "endOfData"}
  BY TopCall DEF StopReference, Processed, EndOfData, Doing, Inv, TypeOK
<1>2. state.pending = None
  BY <1>1, NestedRest DEF Inv
<1>3. PICK calls \in Seq(Calls) : calls = <<>> /\ calls \o Rest = Rest
  BY <1>1, ConcatEmptySeq, EmptySeq
<1>4. ASSUME NEW candidate \in Sessions, NEW kind \in Kinds, Persist(candidate, kind, Rest),
             candidate.pending = state.pending, candidate.orders = state.orders,
             candidate.base = state.base, candidate.tape = state.tape, candidate.bar = state.bar
      PROVE  Stocked'
  <2>1. Persist(candidate, kind, calls \o Rest)
    BY <1>3, <1>4
  <2> QED BY <1>1, <1>2, <1>3, <1>4, <2>1, StockRecord
<1>5. CASE StopReference
  <2>1. PICK candidate \in Sessions : candidate = [state EXCEPT !.stopBar = state.bar]
    BY <1>1 DEF Sessions
  <2>2. /\ candidate.pending = state.pending /\ candidate.orders = state.orders
        /\ candidate.base = state.base /\ candidate.tape = state.tape /\ candidate.bar = state.bar
    BY <1>1, <2>1 DEF Sessions
  <2>3. "stop_reference_consumed" \in Kinds
    BY DEF Kinds
  <2> QED BY <1>4, <1>5, <2>1, <2>2, <2>3 DEF StopReference
<1>6. CASE Processed
  <2>1. PICK candidate \in Sessions : candidate = [state EXCEPT !.inBar = FALSE]
    BY <1>1 DEF Sessions
  <2>2. /\ candidate.pending = state.pending /\ candidate.orders = state.orders
        /\ candidate.base = state.base /\ candidate.tape = state.tape /\ candidate.bar = state.bar
    BY <1>1, <2>1 DEF Sessions
  <2>3. "candle_processed" \in Kinds
    BY DEF Kinds
  <2> QED BY <1>4, <1>6, <2>1, <2>2, <2>3 DEF Processed
<1>7. CASE EndOfData
  <2>1. PICK candidate \in Sessions : candidate = [state EXCEPT !.finished = TRUE]
    BY <1>1 DEF Sessions
  <2>2. /\ candidate.pending = state.pending /\ candidate.orders = state.orders
        /\ candidate.base = state.base /\ candidate.tape = state.tape /\ candidate.bar = state.bar
    BY <1>1, <2>1 DEF Sessions
  <2>3. "end_of_data" \in Kinds
    BY DEF Kinds
  <2> QED BY <1>4, <1>7, <2>1, <2>2, <2>3 DEF EndOfData
<1> QED BY <1>5, <1>6, <1>7

\* The tallies of a session without fills in its bar are empty.
LEMMA FreeOfNothing ==
  ASSUME NEW s \in Sessions, s.tape = <<>>
  PROVE  Free(s) = s.base
<1>1. /\ Gained \in [Events -> Int] /\ Parted \in [Events -> Int] /\ Aimed \in [Events -> Int]
  BY DEF Gained, Parted, Aimed, Events
<1>2. <<>> \in Seq(Events) /\ DOMAIN <<>> = {}
  BY EmptySeq
<1>3. ASSUME NEW value \in [Events -> Int]
      PROVE  Tally(<<>>, value) = 0
  <2>1. \A i \in DOMAIN <<>> : value[(<<>>)[i]] = 0
    BY <1>2
  <2> QED BY <1>2, <2>1, TallyOfZeros
<1>4. Tally(<<>>, Gained) = 0 /\ Tally(<<>>, Parted) = 0 /\ Tally(<<>>, Aimed) = 0
  BY <1>1, <1>3
<1>5. s.base \in Int
  BY StockTypes
<1> QED BY <1>4, <1>5 DEF Free

\* A new bar makes the whole inventory free (OnCandle).
LEMMA StockCandle ==
  ASSUME Inv, Stocked, NEW c \in Candles, OnCandle(c)
  PROVE  Stocked'
<1>1. state \in Sessions /\ todo = <<>> /\ ~failed
  BY DEF Inv, TypeOK, OnCandle, Idle, Persist
<1>2. state.pending = None
  BY <1>1 DEF Inv, Control, Nested
<1>3. PICK started \in Sessions :
        /\ started = [state EXCEPT !.bar = @ + 1, !.inBar = TRUE, !.candle = c,
                                   !.allowance = c.v, !.used = 0, !.tape = <<>>]
        /\ started.pending = None /\ started.tape = <<>>
  BY <1>1, <1>2, StartedType
<1>4. started.orders = state.orders /\ started.base = state.base
  BY <1>1, <1>3 DEF Sessions
<1>5. Stock(started)
  <2>1. Free(started) = state.base
    BY <1>3, <1>4, FreeOfNothing
  <2>2. /\ \A k : Open(started, k) <=> Open(state, k)
        /\ \A k : Remaining(started, k) = Remaining(state, k)
    BY <1>4 DEF Open, Exists, Remaining
  <2>3. \A k \in Targets : k \in Exits
    BY DEF Exits
  <2> QED BY <1>4, <2>1, <2>2, <2>3 DEF Stocked, Stock
<1>6. PICK e \in Calls, d \in Calls : e = [op |-> "expire"] /\ d = drain /\ e.op = "expire"
  <2>1. [op |-> "expire"] \in Calls /\ drain \in Calls
    BY DEF Calls, drain
  <2>2. [op |-> "expire"].op = "expire"
    OBVIOUS
  <2> QED BY <2>1, <2>2
<1>7. PICK begin \in Seq(Calls) : begin = <<e, d>> /\ begin # <<>> /\ begin[1] = e
  <2>1. <<e, d>> \in Seq(Calls) /\ <<e, d>> # <<>> /\ <<e, d>>[1] = e
    OBVIOUS
  <2> QED BY <2>1
<1>8. PICK walk \in Seq(Calls) : walk = Walk(c) /\ Beneath(walk)
  BY CandlePath
<1>9. PICK end \in Seq(Calls) : end = <<price(c.c), [op |-> "closedBar"]>> /\ Beneath(end)
  BY CandlePath
<1>10. PICK rest \in Seq(Calls) : rest = walk \o end /\ Beneath(rest)
  <2>1. walk \o end \in Seq(Calls)
    BY ConcatProperties
  <2>2. Beneath(walk \o end)
    BY <1>8, <1>9, CallsBefore
  <2> QED BY <2>1, <2>2
<1>11. PICK all \in Seq(Calls) : all = begin \o rest /\ Ready(started, all)
  <2>1. begin \o rest \in Seq(Calls)
    BY ConcatProperties
  <2>2. Ready(started, begin \o rest)
    BY <1>3, <1>6, <1>7, <1>10, ReadyBefore
  <2> QED BY <2>1, <2>2
<1>12. Persist(started, "candle_received", all)
  <2>1. \A s, t, u \in Seq(Calls) : (s \o t) \o u = s \o (t \o u)
    BY ConcatAssociative, SMTT(30)
  <2>2. Persist(started, "candle_received", begin \o walk \o end)
    BY <1>3, <1>6, <1>7, <1>8, <1>9 DEF OnCandle
  <2>3. begin \o walk \o end = all
    BY <1>10, <1>11, <2>1
  <2> QED BY <2>2, <2>3
<1>13. "candle_received" \in Kinds
  BY DEF Kinds
<1> QED BY <1>5, <1>11, <1>12, <1>13, StockPersist

\* A command and the end of the feed (Command, Finish).
LEMMA StockCommand ==
  ASSUME Inv, Stocked, Finish \/ \E action \in Actions : Command(action)
  PROVE  Stocked'
<1>1. PICK ob \in Observations, calls \in Seq(Quiet) : ob.kind = "command" /\ Observe(ob, calls)
  BY CommandCalls
<1>2. calls \in Seq(Calls)
  BY SeqMonotonic DEF Quiet, Inner
<1> QED BY <1>1, <1>2, StockObserve

\* A new session has neither orders nor inventory.
LEMMA GenesisStock == Stock(Genesis) /\ Ready(Genesis, <<>>)
<1>1. /\ Genesis.pending = None /\ Genesis.tape = <<>> /\ Genesis.base = 0
      /\ Genesis.orders = [k \in Orders |-> NoOrder]
  BY DEF Genesis
<1>2. Free(Genesis) = 0
  BY <1>1, GenesisType, FreeOfNothing
<1>3. \A k \in Orders : ~Open(Genesis, k)
  BY <1>1 DEF Open, Exists, NoOrder
<1>4. Exits \subseteq Orders /\ Targets \subseteq Orders
  BY DEF Exits, Orders
<1> QED BY <1>1, <1>2, <1>3, <1>4 DEF Stock, Ready

\* What a record restores to is covered, as what it has kept is (StateOf).
LEMMA StateOfStock ==
  ASSUME Inv, Stocked, NEW h \in DOMAIN store
  PROVE  Stock(StateOf(h))
<1>1. store[h] \in StoredRecords /\ h \in Nat
  BY DEF Inv, TypeOK
<1>2. PICK g \in Sessions : /\ g = [Genesis EXCEPT !.inBar = store[h].inBar, !.pending = store[h].pending]
                            /\ Stock(g)
  <2>1. [Genesis EXCEPT !.inBar = store[h].inBar, !.pending = store[h].pending] \in Sessions
    BY <1>1, GenesisType DEF StoredRecords, Sessions
  <2>2. PICK g \in Sessions : g = [Genesis EXCEPT !.inBar = store[h].inBar, !.pending = store[h].pending]
    BY <2>1
  <2>3. /\ g.orders = Genesis.orders /\ g.base = Genesis.base
        /\ g.tape = Genesis.tape /\ g.bar = Genesis.bar
    BY <2>2, GenesisType DEF Sessions
  <2> QED BY <2>2, <2>3, GenesisStock, StockSame
<1>3. PICK s \in Sessions : s = (IF store[h].body # None THEN store[h].body ELSE g) /\ Stock(s)
  BY <1>1, <1>2 DEF StoredRecords, Stocked
<1>4. PICK t : t = [s EXCEPT !.seq = store[h].seq, !.sha = h]
  OBVIOUS
<1>5. StateOf(h) = t
  BY <1>2, <1>3, <1>4 DEF StateOf
<1>6. t.orders = s.orders /\ t.base = s.base /\ t.tape = s.tape /\ t.bar = s.bar
  BY <1>4 DEF Sessions
<1> QED BY <1>3, <1>5, <1>6, StockSame

\* Exports, crashes and restores move among covered sessions.
LEMMA StockRestore ==
  ASSUME Inv, Stocked, \/ ExportState \/ Crash \/ RestoreBegin \/ RestoreEnd
                       \/ \E h \in DOMAIN store : RestoreRecord(h)
  PROVE  Stocked'
<1>1. CASE ExportState
  BY <1>1 DEF ExportState, Stocked
<1>2. CASE Crash
  <2>1. state' = Genesis /\ loading' = None /\ todo' = <<>> /\ UNCHANGED <<store, checkpoint>>
    BY <1>2 DEF Crash
  <2> QED BY <2>1, GenesisStock DEF Stocked
<1>3. CASE RestoreBegin
  BY <1>3 DEF RestoreBegin, Stocked
<1>4. ASSUME NEW h \in DOMAIN store, RestoreRecord(h)
      PROVE  Stocked'
  BY <1>4, StateOfStock DEF RestoreRecord, Stocked
<1>5. CASE RestoreEnd
  <2>1. todo = <<>> /\ loading # None /\ todo' = todo /\ loading' = None /\ UNCHANGED <<store, checkpoint>>
    BY <1>5 DEF RestoreEnd, Inv, Control
  <2>2. CASE Complete(loading)
    <3>1. state' = loading /\ loading.pending = None
      BY <1>5, <2>2 DEF RestoreEnd, Complete
    <3>2. Ready(loading, <<>>)
      BY <3>1 DEF Ready
    <3> QED BY <2>1, <3>1, <3>2 DEF Stocked
  <2>3. CASE ~Complete(loading)
    BY <1>5, <2>1, <2>3 DEF RestoreEnd, Stocked
  <2> QED BY <2>2, <2>3
<1> QED BY <1>1, <1>2, <1>3, <1>4, <1>5

\* The cover holds initially.
LEMMA StockInit == Init => Stocked
<1> SUFFICES ASSUME Init PROVE Stocked
  OBVIOUS
<1>1. state = Genesis /\ todo = <<>> /\ DOMAIN store = {} /\ checkpoint = None /\ loading = None
  BY DEF Init
<1> QED BY <1>1, GenesisStock DEF Stocked

\* The cover is inductive, given the gates.
LEMMA StockNext ==
  ASSUME Inv, Gates, Stocked, [Next]_vars
  PROVE  Stocked'
<1>1. CASE UNCHANGED vars
  BY <1>1 DEF vars, journalVars, Stocked
<1>2. CASE Step
  BY <1>2, StockAdvance, StockWalk, StockMatch, StockExpire, StockDrain, StockNote, StockMark DEF Step
<1>3. CASE Host
  BY <1>3, StockCandle, StockCommand, StockRestore DEF Host
<1> QED BY <1>1, <1>2, <1>3 DEF Next

\* What targets sold, and the inventory the bar began with, are the tallies.
LEMMA FreeIsUnsold ==
  ASSUME state \in Sessions
  PROVE  NewLotsWait <=> Free(state) >= 0
<1>1. \A i \in DOMAIN state.tape : state.tape[i] \in Events
  BY DEF Sessions
<1>2. Volume(LAMBDA e : Side(e.key) = "buy") = Tally(state.tape, Gained)
  <2>1. [i \in DOMAIN state.tape |-> IF Side(state.tape[i].key) = "buy" THEN state.tape[i].qty ELSE 0]
          = [i \in DOMAIN state.tape |-> Gained[state.tape[i]]]
    BY <1>1 DEF Gained
  <2> QED BY <2>1 DEF Volume, Tally
<1>3. Volume(LAMBDA e : Side(e.key) = "sell") = Tally(state.tape, Parted)
  <2>1. [i \in DOMAIN state.tape |-> IF Side(state.tape[i].key) = "sell" THEN state.tape[i].qty ELSE 0]
          = [i \in DOMAIN state.tape |-> Parted[state.tape[i]]]
    BY <1>1 DEF Parted
  <2> QED BY <2>1 DEF Volume, Tally
<1>4. Volume(LAMBDA e : e.key \in Targets) = Tally(state.tape, Aimed)
  <2>1. [i \in DOMAIN state.tape |-> IF state.tape[i].key \in Targets THEN state.tape[i].qty ELSE 0]
          = [i \in DOMAIN state.tape |-> Aimed[state.tape[i]]]
    BY <1>1 DEF Aimed
  <2> QED BY <2>1 DEF Volume, Tally
<1>5. NewLotsWait <=> Tally(state.tape, Aimed) <= state.base - Tally(state.tape, Gained) + Tally(state.tape, Parted)
  BY <1>2, <1>3, <1>4 DEF NewLotsWait, OpeningBase
<1> QED BY <1>5, StockTypes DEF Free

\* A lot bought in this bar is not sold at a price the bar reached earlier, however
\* the points of the walk nest, targets are replaced and sessions are restored: what
\* targets sell in a bar is inventory the bar began with.
THEOREM LotsWait == Spec => []NewLotsWait
<1>1. Init => Inv /\ Gates /\ Stocked
  BY TypeInit, ControlInit, GatesInit, StockInit DEF Inv
<1>2. Inv /\ Gates /\ Stocked /\ [Next]_vars => (Inv /\ Gates /\ Stocked)'
  BY InvStep, GatesNext, StockNext
<1>3. Inv /\ Gates /\ Stocked => NewLotsWait
  BY FreeIsUnsold DEF Inv, TypeOK, Stocked, Stock
<1> QED BY <1>1, <1>2, <1>3, PTL DEF Spec
=============================================================================
