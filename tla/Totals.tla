------------------------------- MODULE Totals -------------------------------
(***************************************************************************)
(* Totals of amounts, as Python's sum() gives them: one definition for the *)
(* books of a run and for the lemmas about sums.                           *)
(***************************************************************************)
EXTENDS Integers, Sequences

\* The total of a sequence of amounts.
Total(amounts) ==
  LET upTo[i \in 0..Len(amounts)] == IF i = 0 THEN 0 ELSE upTo[i - 1] + amounts[i]
  IN upTo[Len(amounts)]
=============================================================================
