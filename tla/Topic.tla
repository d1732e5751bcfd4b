------------------------------- MODULE Topic -------------------------------
(***************************************************************************)
(* QdrantSearcher.update_topic_vector: every index request folds the       *)
(* vectors of its chunks into the centroid of its collection, which the    *)
(* router compares queries with.  The centroids of all collections are     *)
(* points of one sidecar collection, created on demand.  An update reads   *)
(* the centroid and its count, folds, and writes both back, with no lock,  *)
(* in the thread of its request; it swallows every exception.              *)
(***************************************************************************)
EXTENDS Integers, FiniteSets

CONSTANTS
    Updates,      \* calls of update_topic_vector
    Collections,
    Col,          \* the collection of each update
    Vectors,      \* vectors of chunks, as often as they are indexed
    Batch         \* the vectors each update folds in

ASSUME ColAssumption == Col \in [Updates -> Collections]
ASSUME BatchAssumption ==
    /\ Batch \in [Updates -> SUBSET Vectors]
    /\ \A u \in Updates : IsFiniteSet(Batch[u])
    /\ \A u, v \in Updates : u # v => Batch[u] \cap Batch[v] = {}

VARIABLES
    exists,   \* the sidecar collection exists
    topic,    \* the centroid of each collection
    pc,       \* where each update is
    got,      \* what each update read
    \* History variables, read by the properties only:
    overlap,  \* updates that were running while this one was
    creator,  \* the update that created the sidecar, or none yet
    blind,    \* updates whose read failed
    faulted   \* updates that a failing call or a crash ended

vars == <<exists, topic, pc, got, overlap, creator, blind, faulted>>

Running == {u \in Updates : pc[u] \in {"check", "create", "read", "write"}}

\* A centroid is kept as the vectors it is the mean of, and the count stored
\* beside it.
NoTopic == [mean |-> {}, count |-> 0]

\* Mutant of Fold: the count is that of the new vectors.
FoldNewCount(old, new) ==
    [mean |-> old.mean \cup new, count |-> Cardinality(new)]

\* Mutant of Fold: a centroid of one vector is taken for none.
FoldOffByOne(old, new) ==
    IF old.count <= 1 THEN [mean |-> new, count |-> Cardinality(new)]
    ELSE [mean |-> old.mean \cup new, count |-> old.count + Cardinality(new)]

\* _fold_centroid
Fold(old, new) ==
    IF old.count <= 0 THEN [mean |-> new, count |-> Cardinality(new)]
    ELSE [mean |-> old.mean \cup new, count |-> old.count + Cardinality(new)]

Goto(u, to) == pc' = [pc EXCEPT ![u] = to]

-----------------------------------------------------------------------------

Init ==
    /\ exists = FALSE
    /\ topic = [c \in Collections |-> NoTopic]
    /\ pc = [u \in Updates |-> "waiting"]
    /\ got = [u \in Updates |-> NoTopic]
    /\ overlap = [u \in Updates |-> {}]
    /\ creator = {} /\ blind = {} /\ faulted = {}

\* if not vectors: return
Begin(u) ==
    /\ pc[u] = "waiting"
    /\ IF Batch[u] = {}
       THEN Goto(u, "done") /\ UNCHANGED overlap
       ELSE /\ Goto(u, "check")
            /\ overlap' = [v \in Updates |->
                  IF v = u THEN overlap[u] \cup Running
                  ELSE IF v \in Running THEN overlap[v] \cup {u}
                  ELSE overlap[v]]
    /\ UNCHANGED <<exists, topic, got, creator, blind, faulted>>

\* Mutant of CheckSidecar: no test whether it exists.
CheckSidecarNever(u) ==
    /\ pc[u] = "check"
    /\ Goto(u, "create")
    /\ UNCHANGED <<exists, topic, got, overlap, creator, blind, faulted>>

\* ensure_collection: if not collection_exists(sidecar)
CheckSidecar(u) ==
    /\ pc[u] = "check"
    /\ Goto(u, IF exists THEN "read" ELSE "create")
    /\ UNCHANGED <<exists, topic, got, overlap, creator, blind, faulted>>

\* The sidecar is there, by update u unless it was there before.
Created(u) ==
    /\ exists' = TRUE
    /\ creator' = IF exists THEN creator ELSE creator \cup {u}

\* create_collection raises when another update created the sidecar first.
CreateSidecar(u) ==
    /\ pc[u] = "create"
    /\ Created(u)
    /\ Goto(u, IF exists THEN "gaveUp" ELSE "read")
    /\ UNCHANGED <<topic, got, overlap, blind, faulted>>

\* _get_topic_raw
ReadTopic(u) ==
    /\ pc[u] = "read"
    /\ got' = [got EXCEPT ![u] = topic[Col[u]]]
    /\ Goto(u, "write")
    /\ UNCHANGED <<exists, topic, overlap, creator, blind, faulted>>

\* _get_topic_raw: a failing read is taken for no centroid.
ReadFails(u) ==
    /\ pc[u] = "read"
    /\ got' = [got EXCEPT ![u] = NoTopic]
    /\ blind' = blind \cup {u}
    /\ Goto(u, "write")
    /\ UNCHANGED <<exists, topic, overlap, creator, faulted>>

Written(u) == [topic EXCEPT ![Col[u]] = Fold(got[u], Batch[u])]

\* Mutant of WriteTopic: one point for all collections.
WriteTopicShared(u) ==
    /\ pc[u] = "write"
    /\ topic' = [c \in Collections |-> Fold(got[u], Batch[u])]
    /\ Goto(u, "done")
    /\ UNCHANGED <<exists, got, overlap, creator, blind, faulted>>

\* upsert of the centroid and its count.
WriteTopic(u) ==
    /\ pc[u] = "write"
    /\ topic' = Written(u)
    /\ Goto(u, "done")
    /\ UNCHANGED <<exists, got, overlap, creator, blind, faulted>>

\* Mutant of CallFails: the exception reaches the index request.
CallFailsRaises(u) ==
    /\ pc[u] \in {"check", "create", "write"}
    /\ faulted' = faulted \cup {u}
    /\ Goto(u, "raised")
    /\ UNCHANGED <<exists, topic, got, overlap, creator, blind>>

\* A call raises and the exception is swallowed; a creation or an upsert may
\* have taken effect.
CallFails(u) ==
    /\ pc[u] \in {"check", "create", "write"}
    /\ \/ UNCHANGED <<exists, creator, topic>>
       \/ pc[u] = "create" /\ Created(u) /\ UNCHANGED topic
       \/ pc[u] = "write" /\ topic' = Written(u) /\ UNCHANGED <<exists, creator>>
    /\ faulted' = faulted \cup {u}
    /\ Goto(u, "gaveUp")
    /\ UNCHANGED <<got, overlap, blind>>

\* The service is killed and restarted: the running updates are gone.
Crash ==
    /\ Running # {}
    /\ pc' = [u \in Updates |-> IF u \in Running THEN "gaveUp" ELSE pc[u]]
    /\ faulted' = faulted \cup Running
    /\ UNCHANGED <<exists, topic, got, overlap, creator, blind>>

Progress(u) ==
    \/ CheckSidecar(u) \/ CreateSidecar(u)
    \/ ReadTopic(u) \/ ReadFails(u)
    \/ WriteTopic(u)

Next ==
    \/ \E u \in Updates : Begin(u) \/ Progress(u) \/ CallFails(u)
    \/ Crash

Spec == Init /\ [][Next]_vars

-----------------------------------------------------------------------------

Centroids == [mean : SUBSET Vectors, count : Nat]

\* Types: what each variable may hold.
TypeOK ==
    /\ exists \in BOOLEAN
    /\ topic \in [Collections -> Centroids]
    /\ pc \in [Updates -> {"waiting", "check", "create", "read", "write",
                           "done", "gaveUp"}]
    /\ got \in [Updates -> Centroids]
    /\ overlap \in [Updates -> SUBSET Updates]
    /\ creator \subseteq Updates
    /\ blind \subseteq Updates /\ faulted \subseteq Updates

\* The stored count is the number of vectors the stored centroid is the mean
\* of, whatever updates overwrite: the next fold weighs the old centroid right.
CountMatches ==
    \A c \in Collections : topic[c].count = Cardinality(topic[c].mean)

\* A centroid takes in vectors of its own collection only.
OwnVectors ==
    \A c \in Collections : \A x \in topic[c].mean :
        \E u \in Updates : Col[u] = c /\ x \in Batch[u]

\* The vectors of an update that ended are missing from the centroid only if
\* another update of the collection overlapped it, or one wrote without having
\* read: updates that do not overlap and can read lose nothing.
LossExplained ==
    \A u \in Updates :
        pc[u] = "done" /\ ~ Batch[u] \subseteq topic[Col[u]].mean =>
            \E v \in Updates \ {u} :
                Col[v] = Col[u] /\ (v \in overlap[u] \/ v \in blind)

\* An update gives up only for a failing call, a crash, or because it overlapped
\* the update, of whatever collection, that created the sidecar: once it is there
\* and its creator has ended, no update is lost to the race for it.
GiveUpExplained ==
    \A u \in Updates :
        pc[u] = "gaveUp" =>
            u \in faulted \/ \E v \in creator : v # u /\ v \in overlap[u]

=============================================================================
