---------------------------- MODULE MCSpotRunner ----------------------------
(***************************************************************************)
(* Instances of SpotRunner: lists of up to four steps over three candles,  *)
(* one of them also with other values, and at most two commands; and lists *)
(* that go on beyond the evaluation.                                       *)
(***************************************************************************)
EXTENDS SpotRunner

Candle(t, c) == [kind |-> "candle", candle |-> [time |-> t, content |-> c]]
Named(kind) == [kind |-> kind, name |-> kind]

Rising(list) ==
  \A i, j \in Rows(list) : i < j => list[i].candle.time < list[j].candle.time

Lists ==
  {list \in UNION {[1..n -> {Candle(1, 1), Candle(2, 1), Candle(2, 2), Candle(3, 1),
                             Named("command")}] : n \in 1..4} :
     /\ Rows(list) # {} /\ Rising(list)
     /\ Len(list) <= Cardinality(Rows(list)) + 2}
  \cup {<<Candle(3, 1), Candle(4, 1)>>, <<Named("command"), Candle(4, 1)>>}

ReplayLists ==
  {<<Named("request"), Named("restore"), Named("observation")>>,
   <<Named("observation"), Named("restore")>>}
=============================================================================
