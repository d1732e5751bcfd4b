---------------------------- MODULE MCPublisher ----------------------------
(***************************************************************************)
(* Publisher on small instances.                                           *)
(***************************************************************************)
EXTENDS Publisher

CONSTANTS r1, r2

\* A search whose only result is a honey token that a peer found, so that the
\* node's own search publishes nothing, and another request.
MCShape ==
    (r1 :> [op |-> "search", lineage |-> <<>>, honey |-> 1,
            filtered |-> FALSE])
        @@ (r2 :> [op |-> "embed", lineage |-> <<>>, honey |-> 0,
                   filtered |-> FALSE])

MCHooks == {<<"soc", "honey_token_retrieved">>}

=============================================================================
