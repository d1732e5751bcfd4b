---------------------------- MODULE MCFederation ----------------------------
(***************************************************************************)
(* Federation on small instances.                                          *)
(***************************************************************************)
EXTENDS Federation, TLC

CONSTANTS a, b, c, d

\* Two nodes that are each other's peers; and three that all are, with a fourth
\* that asks nobody: the workers of b and c, asked by a, can wait for each other,
\* and a has more peers than it may ask.
MCPair == (a :> {b}) @@ (b :> {a})
MCMesh == (a :> {b, c, d}) @@ (b :> {a, c}) @@ (c :> {a, b}) @@ (d :> {})

=============================================================================
