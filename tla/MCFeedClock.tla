---------------------------- MODULE MCFeedClock ----------------------------
(***************************************************************************)
(* Instances of FeedClock.  A higher bar spans two primary bars.  The      *)
(* primary feeds start late, have a gap, or neither; the higher ones start *)
(* before or after them, have a bar missing, run on past their end, or     *)
(* are not there.                                                          *)
(***************************************************************************)
EXTENDS FeedClock

Feeds == {<<2, 3, 4, 5, 6>>, <<3, 4, 5, 6>>, <<2, 3, 5, 7>>, <<1, 2, 5>>}
Highers == {<<>>, <<0, 2, 4, 6, 8>>, <<2, 4>>, <<4, 6>>, <<0, 6>>, <<8>>}
Runtimes == {NoContract,
             [warmup |-> 2, evaluation |-> 4, end |-> 7],
             [warmup |-> 3, evaluation |-> 4, end |-> 6]}
GappedFeeds == {<<2, 3, 6>>}
SteppedHighers == {<<2, 4, 6>>}
NoContracts == {NoContract}
=============================================================================
