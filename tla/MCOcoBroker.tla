---------------------------- MODULE MCOcoBroker ----------------------------
(***************************************************************************)
(* Instances of OcoBroker: prices 1 to 7, entries around 4 between 2 and 6. *)
(***************************************************************************)
EXTENDS OcoBroker

Plan(dir, type, price, stop, target) ==
    [dir |-> dir, type |-> type, price |-> price, stop |-> stop, target |-> target, qty |-> 1]
Bar(o, l, h, c) == [o |-> o, l |-> l, h |-> h, c |-> c, v |-> 0]

\* Longs at the market and by limit, shorts by stop.
Plans == {Plan(1, "market", 4, 2, 6), Plan(1, "limit", 4, 2, 6), Plan(-1, "stop", 3, 6, 2)}

\* Within the bracket, through both levels, and opening beyond either level before
\* touching the other one.
Feed == {Bar(4, 3, 4, 4), Bar(4, 1, 7, 4), Bar(7, 1, 7, 5), Bar(1, 1, 7, 5)}
=============================================================================
