---------------------------- MODULE MCEmbedCache ----------------------------
(***************************************************************************)
(* EmbedCache on small instances.                                          *)
(***************************************************************************)
EXTENDS EmbedCache, TLC

Symmetric == Permutations(Threads) \cup Permutations(Texts)

=============================================================================
