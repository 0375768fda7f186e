--------------------------- MODULE MCSpotSession ---------------------------
(***************************************************************************)
(* Instances of SpotSession: two entries, two target generations, a close;  *)
(* prices 1 to 5, the stop at 2 and the target at 5.                        *)
(***************************************************************************)
EXTENDS SpotSession

\* Two limit entries at different levels; the lower one lives for one bar.
GridLimit == 1 :> 4 @@ 2 :> 3
GridQty   == 1 :> 2 @@ 2 :> 1
GridLife  == 1 :> 0 @@ 2 :> 1

\* A market base order and an addition at the stop's level.
BasketLimit == 1 :> Market @@ 2 :> 2
BasketQty   == 1 :> 2 @@ 2 :> 2

Bar(o, l, h, c, v) == [o |-> o, l |-> l, h |-> h, c |-> c, v |-> v]

\* Orders that live until they are filled.
NoExpiry == 1 :> 0 @@ 2 :> 0

\* A bar that fills the upper entry and rises to the target, two wide bars
\* through everything, a gap below the stop, and a slow bar with little volume.
Feed == {Bar(4, 4, 5, 4, 3), Bar(4, 1, 5, 3, 3), Bar(5, 1, 5, 4, 5), Bar(1, 1, 3, 3, 2),
         Bar(4, 3, 5, 4, 1)}

\* Smaller feeds for the runs with commands and crashes.  The second bar of
\* TinyFeed and that of SameFeed fill both entries and leave volume for a close
\* at the end of data.
ShortFeed == {Bar(5, 5, 5, 5, 1), Bar(4, 3, 5, 3, 3), Bar(3, 1, 3, 3, 4)}
TinyFeed  == {Bar(5, 5, 5, 5, 3), Bar(4, 3, 5, 3, 4)}
SlowFeed  == {Bar(4, 1, 5, 3, 1), Bar(4, 3, 5, 3, 3)}
SameFeed  == {Bar(4, 3, 5, 3, 4)}
=============================================================================
