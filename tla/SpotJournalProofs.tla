------------------------- MODULE SpotJournalProofs -------------------------
(***************************************************************************)
(* Theorems about SpotJournal, for any bound on the records.                *)
(***************************************************************************)
EXTENDS SpotJournal, TLAPS


\* Every write of the journal appends one record or finds it already stored, and
\* the hash it returns is that record's.
LEMMA StoresStep ==
    ASSUME TypeOK, NEW r \in Records, NEW h \in 1..(Len(store) + 1), Stores(r, h)
    PROVE  /\ store' \in Seq(Records)
           /\ Len(store') <= MaxRecords
           /\ h \in DOMAIN store'
           /\ store'[h] = r
           /\ \A i \in DOMAIN store : i \in DOMAIN store' /\ store'[i] = store[i]
           /\ \A i \in DOMAIN store' : i \in DOMAIN store \/ (i = Len(store) + 1 /\ store'[i] = r)
  BY DEF TypeOK, Stores

LEMMA RecordType ==
    ASSUME TypeOK, NEW a \in BOOLEAN, NEW b \in BOOLEAN
    PROVE  Record(a, b) \in Records
  BY DEF TypeOK, Record, Records, States

\* What any step that goes through _persist does to the variables.
LEMMA PersistStep ==
    ASSUME TypeOK, NEW a \in BOOLEAN, NEW b \in BOOLEAN, Persist(a, b)
    PROVE  /\ TypeOK'
           /\ UNCHANGED <<checkpoint, loading>>
           /\ loading = None
           /\ \A i \in DOMAIN store : i \in DOMAIN store' /\ store'[i] = store[i]
           /\ \A i \in DOMAIN store' : i \in DOMAIN store \/ (i = Len(store) + 1 /\ store'[i] = Record(a, b))
           /\ \/ state' = state
              \/ state'.sha \in DOMAIN store' /\ state' = StateOf(state.sha)' /\ store'[state'.sha] = Record(a, b)
<1> DEFINE r == Record(a, b)
<1>1. r \in Records
  BY RecordType
<1>2. CASE Acknowledge(r)
  <2>1. PICK h \in 1..(Len(store) + 1) :
           /\ Stores(r, h)
           /\ state' = [seq |-> r.seq, sha |-> h, inBar |-> r.inBar, pending |-> r.pending]
           /\ fresh' = FALSE
           /\ UNCHANGED failed
    BY <1>2 DEF Acknowledge
  <2> HIDE DEF r
  <2>2. /\ store' \in Seq(Records) /\ Len(store') <= MaxRecords
        /\ h \in DOMAIN store' /\ store'[h] = r
        /\ \A i \in DOMAIN store : i \in DOMAIN store' /\ store'[i] = store[i]
        /\ \A i \in DOMAIN store' : i \in DOMAIN store \/ (i = Len(store) + 1 /\ store'[i] = r)
    BY <1>1, <2>1, StoresStep
  <2>3. h \in Nat
    BY <2>1 DEF TypeOK
  <2>4. state' \in States /\ state'.sha = h /\ state' = StateOf(h)'
    BY <1>1, <2>1, <2>2, <2>3 DEF States, Records, StateOf
  <2>5. UNCHANGED <<checkpoint, loading>> /\ loading = None
    BY DEF Persist
  <2>6. TypeOK'
    BY <2>1, <2>2, <2>4, <2>5 DEF TypeOK
  <2> QED
    BY <2>2, <2>4, <2>5, <2>6 DEF r
<1>3. CASE SinkRaises(r)
  <2>1. /\ store' \in Seq(Records) /\ Len(store') <= MaxRecords
        /\ \A i \in DOMAIN store : i \in DOMAIN store' /\ store'[i] = store[i]
        /\ \A i \in DOMAIN store' : i \in DOMAIN store \/ (i = Len(store) + 1 /\ store'[i] = r)
    <3>1. CASE UNCHANGED store
      BY <3>1 DEF TypeOK
    <3>2. CASE \E h \in 1..(Len(store) + 1) : Stores(r, h)
      <4> HIDE DEF r
      <4> QED BY <1>1, <3>2, StoresStep
    <3> QED BY <1>3, <3>1, <3>2 DEF SinkRaises
  <2>2. failed' = TRUE /\ UNCHANGED <<state, fresh>>
    BY <1>3 DEF SinkRaises
  <2>3. UNCHANGED <<checkpoint, loading>> /\ loading = None
    BY DEF Persist
  <2> QED
    BY <2>1, <2>2, <2>3 DEF TypeOK
<1> QED
  BY <1>2, <1>3 DEF Persist

-----------------------------------------------------------------------------

\* The steps that write a record, whichever operation they belong to.
Writes == \E a, b \in BOOLEAN : Persist(a, b)

LEMMA WritingSteps ==
    TypeOK /\ (Observe \/ Reduce \/ BeginCandle \/ EndCandle \/ Annotate) => Writes
  BY DEF TypeOK, States, Observe, Reduce, BeginCandle, EndCandle, Annotate, Writes

LEMMA GenesisType == Genesis \in States
  BY DEF Genesis, States

LEMMA StateOfType ==
    ASSUME TypeOK, NEW h \in DOMAIN store
    PROVE  StateOf(h) \in States
<1>1. store[h] \in Records /\ h \in Nat
  BY DEF TypeOK
<1> QED
  BY <1>1 DEF StateOf, States, Records

LEMMA TypeStep == TypeOK /\ [Next]_vars => TypeOK'
<1> SUFFICES ASSUME TypeOK, [Next]_vars PROVE TypeOK'
  OBVIOUS
<1>1. CASE Writes
  BY <1>1, PersistStep DEF Writes
<1>2. CASE ReducerRaises
  BY <1>2 DEF ReducerRaises, TypeOK
<1>3. CASE ExportState
  BY <1>3 DEF ExportState, TypeOK
<1>4. CASE Crash
  BY <1>4, GenesisType DEF Crash, TypeOK
<1>5. CASE RestoreBegin
  BY <1>5 DEF RestoreBegin, TypeOK
<1>6. ASSUME NEW h \in DOMAIN store, RestoreRecord(h) PROVE TypeOK'
  BY <1>6, StateOfType DEF RestoreRecord, TypeOK
<1>7. CASE RestoreEnd
  BY <1>7 DEF RestoreEnd, TypeOK
<1>8. CASE UNCHANGED vars
  BY <1>8 DEF vars, TypeOK
<1> QED
  BY <1>1, <1>2, <1>3, <1>4, <1>5, <1>6, <1>7, <1>8, WritingSteps DEF Next

\* Type correctness for every bound.
THEOREM TypeCorrect == Spec => []TypeOK
<1>1. Init => TypeOK
  <2> SUFFICES ASSUME Init PROVE TypeOK
    OBVIOUS
  <2>1. << >> \in Seq(Records) /\ Len(<< >>) = 0
    OBVIOUS
  <2>2. store \in Seq(Records) /\ Len(store) <= MaxRecords
    BY <2>1, RecordsAssumption DEF Init, RecordsAssumption
  <2> QED
    BY <2>2, GenesisType DEF Init, TypeOK
<1> QED
  BY <1>1, TypeStep, PTL DEF Spec

-----------------------------------------------------------------------------

\* What the running session, the checkpoint and a restore in progress share:
\* they stand at the end of a durable history.
Inv == StoreIsChained /\ WriteAhead

\* Journaled against an explicit store, for the states before and after a step.
RestoresTo(st, s) ==
    \/ s = Genesis
    \/ /\ s.sha \in DOMAIN st
       /\ s = [seq |-> st[s.sha].seq, sha |-> s.sha,
               inBar |-> st[s.sha].inBar, pending |-> st[s.sha].pending]

\* A record is durable for good, and so is the state it restores to.
LEMMA JournaledIsStable ==
    ASSUME TypeOK, NEW s, Journaled(s),
           \A i \in DOMAIN store : i \in DOMAIN store' /\ store'[i] = store[i]
    PROVE  RestoresTo(store', s)
  BY DEF Journaled, StateOf, RestoresTo

\* A record written from a journaled state continues a durable record.
LEMMA ChainStep ==
    ASSUME TypeOK, Inv, Writes
    PROVE  StoreIsChained'
<1> PICK a \in BOOLEAN, b \in BOOLEAN : Persist(a, b)
  BY DEF Writes
<1> DEFINE r == Record(a, b)
<1>1. /\ \A i \in DOMAIN store : i \in DOMAIN store' /\ store'[i] = store[i]
      /\ \A i \in DOMAIN store' : i \in DOMAIN store \/ (i = Len(store) + 1 /\ store'[i] = r)
  BY PersistStep
<1>2. /\ r.prev = state.sha /\ r.seq = state.seq + 1
      /\ state.seq \in Nat /\ state.sha \in Nat /\ DOMAIN store = 1..Len(store) /\ Len(store) \in Nat
  BY DEF Record, TypeOK, States
<1>3. /\ state.sha \in 0..Len(store)
      /\ state.seq = IF state.sha = 0 THEN 0 ELSE store[state.sha].seq
  BY <1>2 DEF Inv, WriteAhead, Journaled, StateOf, Genesis
<1> SUFFICES ASSUME NEW h \in DOMAIN store'
             PROVE  /\ store'[h].prev < h
                    /\ store'[h].seq = 1 + (IF store'[h].prev = 0 THEN 0 ELSE store'[store'[h].prev].seq)
  BY DEF StoreIsChained
<1> HIDE DEF r
<1>4. CASE h \in DOMAIN store
  <2>1. store[h] \in Records
    BY <1>4 DEF TypeOK
  <2>2. store[h].prev = 0 \/ store[h].prev \in DOMAIN store
    BY <1>2, <1>4, <2>1 DEF Inv, StoreIsChained, Records
  <2> QED
    BY <1>1, <1>4, <2>2 DEF Inv, StoreIsChained
<1>5. CASE h = Len(store) + 1 /\ store'[h] = r
  <2>1. store'[h].prev < h
    BY <1>2, <1>3, <1>5
  <2>2. state.sha # 0 => store'[state.sha] = store[state.sha]
    BY <1>1, <1>2, <1>3
  <2> QED
    BY <1>2, <1>3, <1>5, <2>1, <2>2
<1> QED
  BY <1>1, <1>4, <1>5

LEMMA WriteAheadStep ==
    ASSUME TypeOK, Inv, Writes
    PROVE  WriteAhead'
<1> PICK a \in BOOLEAN, b \in BOOLEAN : Persist(a, b)
  BY DEF Writes
<1>1. /\ UNCHANGED <<checkpoint, loading>>
      /\ loading = None
      /\ \A i \in DOMAIN store : i \in DOMAIN store' /\ store'[i] = store[i]
      /\ \/ state' = state
         \/ state'.sha \in DOMAIN store' /\ state' = StateOf(state.sha)'
  BY PersistStep
<1>2. Journaled(state)'
  <2>1. CASE state' = state
    BY <1>1, <2>1, JournaledIsStable DEF Inv, WriteAhead, Journaled, StateOf, RestoresTo
  <2>2. CASE state'.sha \in DOMAIN store' /\ state' = StateOf(state.sha)'
    BY <2>2 DEF Journaled
  <2> QED
    BY <1>1, <2>1, <2>2
<1>3. (checkpoint # None => Journaled(checkpoint))'
  BY <1>1, JournaledIsStable DEF Inv, WriteAhead, Journaled, StateOf, RestoresTo
<1> QED
  BY <1>1, <1>2, <1>3 DEF WriteAhead

LEMMA InvStep == TypeOK /\ Inv /\ [Next]_vars => Inv'
<1> SUFFICES ASSUME TypeOK, Inv, [Next]_vars PROVE Inv'
  OBVIOUS
<1>1. CASE Writes
  BY <1>1, ChainStep, WriteAheadStep DEF Inv
<1>2. ASSUME UNCHANGED store PROVE StoreIsChained'
  BY <1>2 DEF Inv, StoreIsChained
<1> USE DEF Inv, WriteAhead
<1>4. CASE ReducerRaises
  BY <1>2, <1>4 DEF ReducerRaises, Journaled, StateOf
<1>5. CASE ExportState
  BY <1>2, <1>5 DEF ExportState, Journaled, StateOf
<1>6. CASE Crash
  BY <1>2, <1>6 DEF Crash, Journaled, StateOf
<1>7. CASE RestoreBegin
  BY <1>2, <1>7 DEF RestoreBegin, Journaled, StateOf
<1>8. ASSUME NEW h \in DOMAIN store, RestoreRecord(h) PROVE Inv'
  <2>1. StateOf(h).sha = h
    BY DEF StateOf
  <2>2. UNCHANGED <<store, state, failed, fresh, checkpoint>>
    BY <1>8 DEF RestoreRecord
  <2>3. Journaled(loading)' \/ loading' = None
    BY <1>8, <2>1, <2>2 DEF RestoreRecord, Journaled, StateOf
  <2> QED
    BY <1>2, <2>2, <2>3 DEF Journaled, StateOf
<1>9. CASE RestoreEnd
  BY <1>2, <1>9 DEF RestoreEnd, Journaled, StateOf
<1>10. CASE UNCHANGED vars
  BY <1>2, <1>10 DEF vars, Journaled, StateOf
<1> HIDE DEF Inv, WriteAhead
<1> QED
  BY <1>1, <1>4, <1>5, <1>6, <1>7, <1>8, <1>9, <1>10, WritingSteps DEF Next

LEMMA InvCorrect == Spec => []Inv
<1>1. Init => Inv
  BY DEF Init, Inv, StoreIsChained, WriteAhead, Journaled
<1> QED
  BY <1>1, InvStep, TypeCorrect, PTL DEF Spec

\* However failures, crashes and restores interleave, the durable records form
\* contiguous histories.
THEOREM ChainCorrect == Spec => []StoreIsChained
<1>1. Inv => StoreIsChained
  BY DEF Inv
<1> QED
  BY <1>1, InvCorrect, PTL

\* No state that a caller, a checkpoint or a restore holds is ahead of the
\* durable store.
THEOREM WriteAheadCorrect == Spec => []WriteAhead
<1>1. Inv => WriteAhead
  BY DEF Inv
<1> QED
  BY <1>1, InvCorrect, PTL

-----------------------------------------------------------------------------

\* Only a fresh session that has not failed restores.
LoadingInv == loading # None => fresh /\ ~failed /\ checkpoint # None

RestoreInv == LoadingInv /\ RestoreDescends

LEMMA RestoreInvStep == TypeOK /\ RestoreInv /\ [Next]_vars => RestoreInv'
<1> SUFFICES ASSUME TypeOK, RestoreInv, [Next]_vars PROVE RestoreInv'
  OBVIOUS
<1> USE DEF RestoreInv, LoadingInv
<1>1. CASE Writes
  BY <1>1, PersistStep DEF Writes, RestoreDescends
<1>2. CASE ReducerRaises \/ ExportState \/ Crash \/ RestoreEnd
  BY <1>2 DEF ReducerRaises, ExportState, Crash, RestoreEnd, RestoreDescends
<1>3. CASE RestoreBegin
  BY <1>3 DEF RestoreBegin, RestoreDescends, Descends
<1>4. ASSUME NEW h \in DOMAIN store, RestoreRecord(h) PROVE RestoreInv'
  <2>1. CASE Continues(h)
    <3>1. Descends(checkpoint.sha, loading.sha)
      BY <1>4 DEF RestoreRecord, RestoreDescends
    <3>2. Descends(checkpoint.sha, h)
      BY <2>1, <3>1 DEF Descends, Continues
    <3>3. loading' = StateOf(h) /\ UNCHANGED <<store, state, failed, fresh, checkpoint>>
      BY <1>4, <2>1 DEF RestoreRecord
    <3>4. loading'.sha = h
      BY <3>3 DEF StateOf
    <3> QED
      BY <1>4, <3>2, <3>3, <3>4 DEF RestoreRecord, RestoreDescends, Descends
  <2>2. CASE ~Continues(h)
    BY <1>4, <2>2 DEF RestoreRecord, RestoreDescends
  <2> QED
    BY <2>1, <2>2
<1>5. CASE UNCHANGED vars
  BY <1>5 DEF vars, RestoreDescends, Descends
<1> HIDE DEF RestoreInv, LoadingInv
<1> QED
  BY <1>1, <1>2, <1>3, <1>4, <1>5, WritingSteps DEF Next

LEMMA RestoreInvCorrect == Spec => []RestoreInv
<1>1. Init => RestoreInv
  BY DEF Init, RestoreInv, LoadingInv, RestoreDescends
<1> QED
  BY <1>1, RestoreInvStep, TypeCorrect, PTL DEF Spec

\* A restore follows the checkpoint's own history and no other incarnation's.
THEOREM RestoreCorrect == Spec => []RestoreDescends
<1>1. RestoreInv => RestoreDescends
  BY DEF RestoreInv
<1> QED
  BY <1>1, RestoreInvCorrect, PTL

\* A session that runs never goes back in its history.
THEOREM NeverRewindsCorrect == Spec => NeverRewinds
<1> DEFINE A == ~fresh /\ ~fresh' => state' = state \/ (state'.sha # 0 /\ store'[state'.sha].prev = state.sha)
<1>1. TypeOK /\ RestoreInv /\ [Next]_vars => [A]_vars
  <2> SUFFICES ASSUME TypeOK, RestoreInv, [Next]_vars, ~fresh, ~fresh'
               PROVE  state' = state \/ (state'.sha # 0 /\ store'[state'.sha].prev = state.sha)
    OBVIOUS
  <2>1. CASE Writes
    <3>1. PICK a \in BOOLEAN, b \in BOOLEAN : Persist(a, b)
      BY <2>1 DEF Writes
    <3>2. TypeOK' /\ (state' = state \/ (state'.sha \in DOMAIN store' /\ store'[state'.sha] = Record(a, b)))
      BY <3>1, PersistStep
    <3>3. state'.sha \in DOMAIN store' => state'.sha # 0
      BY <3>2 DEF TypeOK
    <3> QED
      BY <3>2, <3>3 DEF Record
  <2>2. CASE ReducerRaises \/ ExportState \/ Crash \/ RestoreBegin \/ RestoreEnd \/ UNCHANGED vars
    BY <2>2 DEF ReducerRaises, ExportState, Crash, RestoreBegin, RestoreEnd, vars, RestoreInv, LoadingInv
  <2>3. ASSUME NEW h \in DOMAIN store, RestoreRecord(h) PROVE state' = state
    BY <2>3 DEF RestoreRecord
  <2> QED
    BY <2>1, <2>2, <2>3, WritingSteps DEF Next
<1> QED
  BY <1>1, TypeCorrect, RestoreInvCorrect, PTL DEF Spec, NeverRewinds

\* A latched session stays as it was, and so does the store.
THEOREM FailedIsFrozenCorrect == Spec => FailedIsFrozen
<1> DEFINE A == failed /\ failed' => UNCHANGED <<store, state, fresh>>
<1>1. TypeOK /\ RestoreInv /\ [Next]_vars => [A]_vars
  BY WritingSteps DEF Next, vars, Writes, Persist, ReducerRaises, ExportState, Crash, RestoreBegin,
     RestoreRecord, RestoreEnd, RestoreInv, LoadingInv
<1> QED
  BY <1>1, TypeCorrect, RestoreInvCorrect, PTL DEF Spec, FailedIsFrozen

=============================================================================
