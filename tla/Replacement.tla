---------------------------- MODULE Replacement ----------------------------
(***************************************************************************)
(* What delta indexing promises the readers of the index (SC-10): a        *)
(* document is either absent or held in one version, and a version is      *)
(* replaced by removing it first.  DocIndex implements this while callers  *)
(* send at most one request at a time for a document.                      *)
(***************************************************************************)
CONSTANTS Keys,         \* documents, each in its collection
          Contents,     \* what a document can say
          PurposeSets,  \* the purposes it can be used for
          Absent        \* no version is held

VARIABLE held           \* the version of each document a reader can find

Version == [hash : Contents, purposes : PurposeSets]

Init == held = [k \in Keys |-> Absent]

\* The version of a document is removed.
Remove(k) == held' = [held EXCEPT ![k] = Absent]

\* A version is stored of a document that has none.
Put(k) ==
    /\ held[k] = Absent
    /\ \E v \in Version : held' = [held EXCEPT ![k] = v]

\* A steward changes what a document may be used for, and nothing else.
Restrict(k) ==
    /\ held[k] # Absent
    /\ \E p \in PurposeSets : held' = [held EXCEPT ![k].purposes = p]

Next == \E k \in Keys : Remove(k) \/ Put(k) \/ Restrict(k)

Spec == Init /\ [][Next]_held

=============================================================================
