---------------------------- MODULE SpotJournal ----------------------------
(***************************************************************************)
(* The write-ahead journal of HistoricalSpotSession (spot_session.py), with *)
(* everything the engine decides abstracted to the two flags restore looks  *)
(* at: a candle is being processed, an observation waits for its reduction. *)
(* SpotSession, which runs candles against an order book, implements this.  *)
(*                                                                          *)
(* The durable store survives crashes and is shared by every incarnation of *)
(* the session.  It holds each distinct record once: the SHA-256 of a       *)
(* record is modelled as its position, so equal contents have equal hashes  *)
(* and different contents different ones (no collisions).  Hash 0 is the    *)
(* empty journal.                                                           *)
(***************************************************************************)
EXTENDS Naturals, Sequences

CONSTANTS
    MaxRecords,  \* bound on the number of distinct records ever stored
    None         \* no document, no restore in progress

VARIABLES
    store,       \* durable records, by hash
    state,       \* self._state of the running session: position and flags
    failed,      \* self._failed
    fresh,       \* self._fresh
    checkpoint,  \* the export_state document the host keeps
    loading      \* the state restore_state has rebuilt so far

vars == <<store, state, failed, fresh, checkpoint, loading>>

States  == [seq : Nat, sha : Nat, inBar : BOOLEAN, pending : BOOLEAN]
Records == [seq : Nat, prev : Nat, inBar : BOOLEAN, pending : BOOLEAN]

Genesis == [seq |-> 0, sha |-> 0, inBar |-> FALSE, pending |-> FALSE]

ASSUME RecordsAssumption == MaxRecords \in Nat
ASSUME NoneAssumption == None \notin States

-----------------------------------------------------------------------------

\* The record _persist builds for a candidate with these flags.
Record(inBar, pending) ==
    [seq |-> state.seq + 1, prev |-> state.sha, inBar |-> inBar, pending |-> pending]

\* The state a record restores to, h being its hash.
StateOf(h) ==
    [seq |-> store[h].seq, sha |-> h, inBar |-> store[h].inBar, pending |-> store[h].pending]

\* Appending r under hash h: a new record takes the next position, a record
\* rewritten by a later incarnation keeps the one it has.
Stores(r, h) ==
    \/ h = Len(store) + 1 /\ h <= MaxRecords /\ store' = Append(store, r)
    \/ h \in DOMAIN store /\ store[h] = r /\ UNCHANGED store

\* Mutant of Acknowledge: the hash is not taken over.
AcknowledgeOldHash(r) ==
    \E h \in 1..(Len(store) + 1) :
        /\ Stores(r, h)
        /\ state' = [seq |-> r.seq, sha |-> state.sha, inBar |-> r.inBar, pending |-> r.pending]
        /\ fresh' = FALSE
        /\ UNCHANGED failed

\* _persist, the sink having acknowledged.
Acknowledge(r) ==
    \E h \in 1..(Len(store) + 1) :
        /\ Stores(r, h)
        /\ state' = [seq |-> r.seq, sha |-> h, inBar |-> r.inBar, pending |-> r.pending]
        /\ fresh' = FALSE
        /\ UNCHANGED failed

\* Mutant of SinkRaises: the candidate is installed before the sink is called.
SinkRaisesInstalled(r) ==
    /\ UNCHANGED store
    /\ state' = [seq |-> r.seq, sha |-> Len(store) + 1, inBar |-> r.inBar, pending |-> r.pending]
    /\ failed' = TRUE
    /\ UNCHANGED fresh

\* _persist, the sink having raised: the record may or may not be durable, the
\* session keeps its old state and is latched.
SinkRaises(r) ==
    /\ UNCHANGED store \/ \E h \in 1..(Len(store) + 1) : Stores(r, h)
    /\ failed' = TRUE
    /\ UNCHANGED <<state, fresh>>

\* Mutant of Persist: the latch is not looked at.
PersistUnlatched(inBar, pending) ==
    /\ loading = None
    /\ Acknowledge(Record(inBar, pending)) \/ SinkRaises(Record(inBar, pending))
    /\ UNCHANGED <<checkpoint, loading>>

Persist(inBar, pending) ==
    /\ ~failed
    /\ loading = None
    /\ Acknowledge(Record(inBar, pending)) \/ SinkRaises(Record(inBar, pending))
    /\ UNCHANGED <<checkpoint, loading>>

-----------------------------------------------------------------------------

\* _observe up to its first _persist: the observation is durable before it is
\* reduced.
Observe == ~state.pending /\ Persist(state.inBar, TRUE)

\* The rest of _observe: the reducer's state is persisted without the
\* observation, or the reducer raises and latches the session.
Reduce == state.pending /\ Persist(state.inBar, FALSE)

ReducerRaises ==
    /\ state.pending /\ ~failed /\ loading = None
    /\ failed' = TRUE
    /\ UNCHANGED <<store, state, fresh, checkpoint, loading>>

\* candle_received and candle_processed.
BeginCandle == ~state.pending /\ ~state.inBar /\ Persist(TRUE, FALSE)
EndCandle   == ~state.pending /\ state.inBar  /\ Persist(FALSE, FALSE)

\* liquidity_allocation, stop_reference_consumed and end_of_data.
Annotate == ~state.pending /\ Persist(state.inBar, FALSE)

\* export_state: the host keeps the document.  It may do so at any time, also
\* after a failure.
ExportState ==
    /\ loading = None
    /\ checkpoint' = state
    /\ UNCHANGED <<store, state, failed, fresh, loading>>

\* The process dies; a new session object is built.
Crash ==
    /\ state' = Genesis
    /\ failed' = FALSE
    /\ fresh' = TRUE
    /\ loading' = None
    /\ UNCHANGED <<store, checkpoint>>

-----------------------------------------------------------------------------

\* Mutant of RestoreBegin: a running session restores.
RestoreBeginRunning ==
    /\ ~failed
    /\ loading = None /\ checkpoint # None
    /\ loading' = checkpoint
    /\ UNCHANGED <<store, state, failed, fresh, checkpoint>>

\* restore_state: a fresh session takes the checkpoint, then each record of the
\* suffix in turn; a record that does not continue the chain refuses the whole
\* restore, and so does an incomplete result.
RestoreBegin ==
    /\ fresh /\ ~failed
    /\ loading = None /\ checkpoint # None
    /\ loading' = checkpoint
    /\ UNCHANGED <<store, state, failed, fresh, checkpoint>>

\* Mutant of Continues: only the sequence numbers are compared.
ContinuesInSequence(h) == store[h].seq = loading.seq + 1

\* The checks of the loop body on the record of hash h.
Continues(h) ==
    /\ store[h].seq = loading.seq + 1
    /\ store[h].prev = loading.sha

RestoreRecord(h) ==
    /\ loading # None
    /\ loading' = IF Continues(h) THEN StateOf(h) ELSE None
    /\ UNCHANGED <<store, state, failed, fresh, checkpoint>>

\* Only a candle boundary without a pending observation is accepted.
Complete(s) == ~s.inBar /\ ~s.pending

\* Mutant of RestoreEnd: a refused restore clears the state.
RestoreEndClears ==
    /\ loading # None
    /\ state' = IF Complete(loading) THEN loading ELSE None
    /\ fresh' = FALSE
    /\ loading' = None
    /\ UNCHANGED <<store, failed, checkpoint>>

RestoreEnd ==
    /\ loading # None
    /\ IF Complete(loading)
         THEN state' = loading /\ fresh' = FALSE
         ELSE UNCHANGED <<state, fresh>>
    /\ loading' = None
    /\ UNCHANGED <<store, failed, checkpoint>>

-----------------------------------------------------------------------------

Init ==
    /\ store = << >>
    /\ state = Genesis
    /\ failed = FALSE
    /\ fresh = TRUE
    /\ checkpoint = None
    /\ loading = None

Next ==
    \/ Observe
    \/ Reduce
    \/ ReducerRaises
    \/ BeginCandle
    \/ EndCandle
    \/ Annotate
    \/ ExportState
    \/ Crash
    \/ RestoreBegin
    \/ \E h \in DOMAIN store : RestoreRecord(h)
    \/ RestoreEnd

Spec == Init /\ [][Next]_vars

-----------------------------------------------------------------------------

\* Type correctness of the journal's variables.
TypeOK ==
    /\ store \in Seq(Records)
    /\ Len(store) <= MaxRecords
    /\ state \in States
    /\ failed \in BOOLEAN
    /\ fresh \in BOOLEAN
    /\ checkpoint \in States \cup {None}
    /\ loading \in States \cup {None}

\* The durable records form a tree of contiguous histories: every record
\* continues an older one (or the empty journal) at the next sequence number,
\* whatever failures, crashes and restores happened in between.
StoreIsChained ==
    \A h \in DOMAIN store :
        /\ store[h].prev < h
        /\ store[h].seq = 1 + (IF store[h].prev = 0 THEN 0 ELSE store[store[h].prev].seq)

Journaled(s) == s = Genesis \/ (s.sha \in DOMAIN store /\ s = StateOf(s.sha))

\* Write-ahead: the running session, the host's document and a restore in
\* progress never hold a state that is not durable, so nothing a caller saw can
\* be lost by a crash, also not after a sink that stored a record and raised.
WriteAhead ==
    /\ Journaled(state)
    /\ checkpoint # None => Journaled(checkpoint)
    /\ loading # None => Journaled(loading)

\* h is a or a later record of a history through a: it is in every set that
\* holds a and, with a record, all records that continue it.
Descends(a, h) ==
    \A S \in SUBSET (0..Len(store)) :
        (a \in S /\ \A i \in DOMAIN store : store[i].prev \in S => i \in S) => h \in S

\* A restore only ever rebuilds a continuation of the checkpoint's own history:
\* a suffix mixed from two incarnations of the session, although its sequence
\* numbers are contiguous, is not followed.
RestoreDescends ==
    loading # None => Descends(checkpoint.sha, loading.sha)

\* A session that has been running never goes back: until the process dies, its
\* state is frozen or continues the history it had.
NeverRewinds ==
    [][~fresh /\ ~fresh' => state' = state \/ (state'.sha # 0 /\ store'[state'.sha].prev = state.sha)]_vars

\* A latched session writes nothing and keeps its state until it is rebuilt: no
\* record can follow one whose acknowledgement failed.
FailedIsFrozen ==
    [][failed /\ failed' => UNCHANGED <<store, state, fresh>>]_vars

=============================================================================
