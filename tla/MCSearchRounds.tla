--------------------------- MODULE MCSearchRounds ---------------------------
(***************************************************************************)
(* SearchRounds on small instances.                                        *)
(***************************************************************************)
EXTENDS SearchRounds

=============================================================================
