---------------------------- MODULE PositionLife ----------------------------
(***************************************************************************)
(* What a broker promises of a position, whatever its orders do: a trade    *)
(* grows until its first exit, from then on it only shrinks, and it keeps   *)
(* its side until it is closed; the next trade gets the next number.  One   *)
(* turn of the broker's queue may fill an entry and contain it at once.     *)
(***************************************************************************)
EXTENDS Integers

CONSTANTS Limit      \* the largest quantity an entry may ask for

VARIABLES
    size, dir,       \* the position
    trade,           \* the number of the current or next trade
    reducing         \* an exit of the current trade has been filled

vars == <<size, dir, trade, reducing>>

Init == size = 0 /\ dir = 1 /\ trade = 1 /\ reducing = FALSE

KeepsSide == dir' = dir \/ size = 0

Grow ==
    /\ ~reducing
    /\ size' \in (size + 1)..Limit /\ KeepsSide
    /\ UNCHANGED <<trade, reducing>>

Reduce ==
    /\ size' \in 1..(size - 1) /\ dir' = dir
    /\ reducing' = TRUE
    /\ UNCHANGED trade

\* An entry filled and partly closed again in one turn.
Contain ==
    /\ ~reducing
    /\ size' \in 1..(Limit - 1) /\ KeepsSide
    /\ reducing' = TRUE
    /\ UNCHANGED trade

\* Also of an entry filled in the same turn.
Close ==
    /\ size > 0 \/ ~reducing
    /\ size' = 0 /\ dir' = 1
    /\ reducing' = FALSE
    /\ trade' = trade + 1

Next == Grow \/ Reduce \/ Contain \/ Close

Spec == Init /\ [][Next]_vars
=============================================================================
