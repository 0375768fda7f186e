------------------------- MODULE MCRealisticBroker -------------------------
(***************************************************************************)
(* Instances of RealisticBroker: prices 1 to 7, entries around 4 between 2  *)
(* and 6.                                                                   *)
(***************************************************************************)
EXTENDS RealisticBroker

Plan(dir, type, price, stop, target, qty) ==
    [dir |-> dir, type |-> type, price |-> price, stop |-> stop, target |-> target, qty |-> qty]
Bar(o, l, h, c, v) == [o |-> o, l |-> l, h |-> h, c |-> c, v |-> v]

\* A market and a limit entry, three lots each, the second without a target.
Longs == {Plan(1, "market", 4, 2, 6, 3), Plan(1, "limit", 4, 2, None, 3)}

\* A quiet bar, one through both levels, gaps beyond the stop and the target, and
\* a bar without volume.
Feed == {Bar(4, 4, 4, 4, 4), Bar(4, 2, 6, 5, 2), Bar(1, 1, 3, 3, 4), Bar(6, 5, 7, 6, 1), Bar(4, 2, 6, 5, 0)}

\* Longs at the market and by stop order and a short by limit, as a perpetual
\* account trades them.
BothWays == {Plan(1, "market", 4, 2, 6, 3), Plan(1, "stop", 5, 2, 6, 3),
             Plan(-1, "limit", 4, 6, 2, 3)}

\* Bars that reach no level, one, all of the bracket, and open beyond it.
Ranges == {Bar(4, 3, 5, 5, 2), Bar(4, 3, 6, 5, 2), Bar(4, 2, 6, 5, 4), Bar(7, 3, 7, 6, 4), Bar(1, 1, 5, 5, 1)}
=============================================================================
