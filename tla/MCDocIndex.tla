----------------------------- MODULE MCDocIndex -----------------------------
(***************************************************************************)
(* DocIndex on small instances.                                            *)
(***************************************************************************)
EXTENDS DocIndex, TLC

CONSTANTS blank, short, long   \* contents of no chunk, one chunk, two chunks

MCChunks == (blank :> 0) @@ (short :> 1) @@ (long :> 2)

Symmetric == Permutations(Workers)

=============================================================================
