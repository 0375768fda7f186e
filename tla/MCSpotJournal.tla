--------------------------- MODULE MCSpotJournal ---------------------------
(***************************************************************************)
(* Model checking SpotJournal: every tree of up to MaxRecords records that  *)
(* any number of incarnations, failures and restores can build.             *)
(***************************************************************************)
EXTENDS SpotJournal
=============================================================================
