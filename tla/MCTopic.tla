------------------------------ MODULE MCTopic ------------------------------
(***************************************************************************)
(* Topic on a small instance: two updates of one collection and one of     *)
(* another, and one with no vectors.                                       *)
(***************************************************************************)
EXTENDS Topic

MCUpdates == 1 .. 4
MCCol == [u \in MCUpdates |-> IF u = 3 THEN "docs" ELSE "hr"]
MCBatch == <<{1, 2}, {3}, {4}, {}>>

=============================================================================
