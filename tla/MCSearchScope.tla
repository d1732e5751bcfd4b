--------------------------- MODULE MCSearchScope ---------------------------
(***************************************************************************)
(* SearchScope on small instances.                                         *)
(***************************************************************************)
EXTENDS SearchScope, TLC

CONSTANTS customer, hr, other, customer_docs, hr_docs

\* The category other has no collection.
MCCollectionOf ==
    (customer :> customer_docs) @@ (hr :> hr_docs) @@ (other :> NoCollection)

=============================================================================
