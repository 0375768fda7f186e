--------------------------- MODULE MCAccountBooks ---------------------------
(***************************************************************************)
(* Instances of AccountBooks: three bars, with or without a gap, with or   *)
(* without a bar of warm-up, and evidence that settles before the first    *)
(* bar, at every bar, or covers only part of the run.                      *)
(***************************************************************************)
EXTENDS AccountBooks

ShortFeeds == {<<1, 2, 3>>, <<1, 2, 4>>}
Starts == {1, 2}
Record(t, r) == [time |-> t, rate |-> r]
NoEvidence == [from |-> 0, to |-> 0, records |-> <<>>, marks |-> {},
               hasFunding |-> FALSE, hasMarks |-> FALSE]
Settlements == [NoEvidence EXCEPT !.hasFunding = TRUE, !.to = 3,
                  !.records = <<Record(0, 1), Record(1, 1), Record(2, 2), Record(3, -1)>>]
Marks == [Settlements EXCEPT !.hasMarks = TRUE, !.marks = {1, 2, 3}]
LateMarks == [Marks EXCEPT !.marks = {2, 3}]
EarlyFunding == [Settlements EXCEPT !.to = 2]
Supplied == {NoEvidence, Settlements, Marks, LateMarks, EarlyFunding}
=============================================================================
