------------------------------ MODULE DocIndex ------------------------------
(***************************************************************************)
(* The document index: what Orchestrator.index_document,                   *)
(* Orchestrator.delta_index_document and                                   *)
(* Orchestrator.update_document_purposes do to the vector store, one       *)
(* action per call they make to it.  Each request handler runs in a thread *)
(* of its own, so the calls of two requests interleave in any order.       *)
(*                                                                         *)
(* The vector store (Qdrant) is not in the repository.  It is modelled by  *)
(* what the calls in searcher.py rely on: every call is atomic, a call     *)
(* that names a missing collection raises, creating a collection that      *)
(* exists raises, and an upsert replaces the points that have the same id. *)
(* A point's id is a hash of the document's id and the chunk's index, so   *)
(* here a document is a function from chunk indices to chunks.             *)
(***************************************************************************)
EXTENDS Integers

CONSTANTS
    Workers,      \* threads that run request handlers
    Docs,         \* document ids
    Contents,     \* the contents a document can have
    Chunks,       \* how many chunks each content is split into
    MaxChunks,    \* bound: no content has more chunks than this
    PurposeSets,  \* values of permitted_purposes
    Collections,  \* collections of the store, named by a request's category
    Existing,     \* the collections there are at the start
    Kinds,        \* which handlers are called: "index", "delta"
    Serial,       \* callers wait for the answer on a document before they
                  \* send another request for it (one CDC driver per source)
    MaxFaults,    \* bound on failed calls and crashes
    NoChunk, NoHash, NoJob

Index == 0 .. MaxChunks - 1

ASSUME ChunksAssumption ==
    /\ MaxChunks \in Nat \ {0}
    /\ Chunks \in [Contents -> 0 .. MaxChunks]
ASSUME CollectionsAssumption == Existing \subseteq Collections
ASSUME KindsAssumption == Kinds \subseteq {"index", "delta"}
ASSUME SwitchAssumption == Serial \in BOOLEAN /\ MaxFaults \in Nat
ASSUME NullAssumption ==
    /\ NoHash \notin Contents
    /\ NoChunk \notin [hash : Contents, purposes : PurposeSets]
    /\ NoJob \notin [kind : Kinds, col : Collections, doc : Docs,
                     content : Contents, purposes : PurposeSets,
                     force : BOOLEAN]

VARIABLES
    exists,   \* the collections that have been created
    store,    \* store[col][doc][i]: the stored chunk with index i, or NoChunk
    topics,   \* the collections that have a topic centroid
    pc,       \* where each worker is
    job,      \* the request each worker serves
    faults    \* failed calls and crashes so far

vars == <<exists, store, topics, pc, job, faults>>

Chunk == [hash : Contents, purposes : PurposeSets]

Job == [kind : Kinds, col : Collections, doc : Docs, content : Contents,
        purposes : PurposeSets, force : BOOLEAN]

PC == {"idle", "hash", "count", "delete", "check", "create", "upsert",
       "topic", "indexed", "skipped", "failed"}

Answers == {"indexed", "skipped", "failed"}

\* The chunks of a document nothing is stored of.
Empty == [i \in Index |-> NoChunk]

\* The chunks of old once those of content x have been upserted over them.
Overwrite(old, x, p) ==
    [i \in Index |->
        IF i < Chunks[x] THEN [hash |-> x, purposes |-> p] ELSE old[i]]

\* Exactly the chunks of content x.
Image(x, p) == Overwrite(Empty, x, p)

Stored(c, d) == {i \in Index : store[c][d][i] # NoChunk}

\* What _get_stored_hash may read: it asks for one chunk of the document, the
\* store picks which, and no chunk (or no collection) gives no hash.
StoredHashes(c, d) ==
    IF Stored(c, d) = {} THEN {NoHash}
    ELSE {store[c][d][i].hash : i \in Stored(c, d)}

Goto(w, to) == pc' = [pc EXCEPT ![w] = to]

-----------------------------------------------------------------------------

Init ==
    /\ exists = Existing
    /\ store = [c \in Collections |-> [d \in Docs |-> Empty]]
    /\ topics = {}
    /\ pc = [w \in Workers |-> "idle"]
    /\ job = [w \in Workers |-> NoJob]
    /\ faults = 0

Busy == {w \in Workers : pc[w] # "idle"}

\* No worker serves document d of collection c.
Free(c, d) ==
    \A v \in Busy : <<job[v].col, job[v].doc>> # <<c, d>>

\* Where index_document goes once it has split the content into chunks: a
\* content without chunks is answered at once.
IndexEntry(x) == IF Chunks[x] = 0 THEN "indexed" ELSE "check"

\* A handler starts.  The delta handler reads the stored hash first.
Begin(w, j) ==
    /\ pc[w] = "idle"
    /\ Serial => Free(j.col, j.doc)
    /\ job' = [job EXCEPT ![w] = j]
    /\ Goto(w, IF j.kind = "delta" THEN "hash" ELSE IndexEntry(j.content))
    /\ UNCHANGED <<exists, store, topics, faults>>

\* Mutant of ReadHash: any stored hash is taken for the content's.
ReadHashAnySkips(w) ==
    /\ pc[w] = "hash"
    /\ \E h \in StoredHashes(job[w].col, job[w].doc) :
          Goto(w, IF ~job[w].force /\ h # NoHash THEN "skipped" ELSE "count")
    /\ UNCHANGED <<exists, store, topics, job, faults>>

\* Mutant of ReadHash: a missing hash counts as unchanged.
ReadHashNoneSkips(w) ==
    /\ pc[w] = "hash"
    /\ \E h \in StoredHashes(job[w].col, job[w].doc) :
          Goto(w, IF ~job[w].force /\ h \in {job[w].content, NoHash}
                  THEN "skipped" ELSE "count")
    /\ UNCHANGED <<exists, store, topics, job, faults>>

\* _get_stored_hash answered: the document is skipped when it has a hash, the
\* hash is that of the new content, and the request does not force it.
ReadHash(w) ==
    /\ pc[w] = "hash"
    /\ \E h \in StoredHashes(job[w].col, job[w].doc) :
          Goto(w, IF ~job[w].force /\ h = job[w].content
                  THEN "skipped" ELSE "count")
    /\ UNCHANGED <<exists, store, topics, job, faults>>

\* _get_stored_hash swallows a failed read and answers no hash.
ReadHashFails(w) ==
    /\ pc[w] = "hash"
    /\ faults < MaxFaults
    /\ faults' = faults + 1
    /\ Goto(w, "count")
    /\ UNCHANGED <<exists, store, topics, job>>

\* count_by_document: raises when the collection is missing.
CountOld(w) ==
    /\ pc[w] = "count"
    /\ Goto(w, IF job[w].col \in exists THEN "delete" ELSE "failed")
    /\ UNCHANGED <<exists, store, topics, job, faults>>

\* Mutant of DeleteOld: only the chunk that was read is deleted.
DeleteOldOne(w) ==
    /\ pc[w] = "delete"
    /\ store' = [store EXCEPT ![job[w].col][job[w].doc][0] = NoChunk]
    /\ Goto(w, IndexEntry(job[w].content))
    /\ UNCHANGED <<exists, topics, job, faults>>

\* Mutant of DeleteOld: a document with new chunks is left to the upsert.
DeleteOldUnlessOverwritten(w) ==
    /\ pc[w] = "delete"
    /\ store' = [store EXCEPT ![job[w].col][job[w].doc] =
                    IF Chunks[job[w].content] = 0 THEN Empty ELSE @]
    /\ Goto(w, IndexEntry(job[w].content))
    /\ UNCHANGED <<exists, topics, job, faults>>

\* delete_by_document removes every chunk of the document in one call.
DeleteOld(w) ==
    /\ pc[w] = "delete"
    /\ store' = [store EXCEPT ![job[w].col][job[w].doc] = Empty]
    /\ Goto(w, IndexEntry(job[w].content))
    /\ UNCHANGED <<exists, topics, job, faults>>

\* Mutant of CheckCollection: the collection is taken to exist.
CheckCollectionAssumed(w) ==
    /\ pc[w] = "check"
    /\ Goto(w, "upsert")
    /\ UNCHANGED <<exists, store, topics, job, faults>>

\* ensure_collection, its first call: does the collection exist?
CheckCollection(w) ==
    /\ pc[w] = "check"
    /\ Goto(w, IF job[w].col \in exists THEN "upsert" ELSE "create")
    /\ UNCHANGED <<exists, store, topics, job, faults>>

\* ensure_collection, its second call.  Another worker may have created the
\* collection since the check: then the store refuses and the request fails.
CreateCollection(w) ==
    /\ pc[w] = "create"
    /\ exists' = exists \cup {job[w].col}
    /\ Goto(w, IF job[w].col \in exists THEN "failed" ELSE "upsert")
    /\ UNCHANGED <<store, topics, job, faults>>

\* The chunks of the new content are written over those with the same index;
\* chunks with a higher index are not touched.
Upsert(w) ==
    LET j == job[w] IN
    /\ pc[w] = "upsert"
    /\ store' = [store EXCEPT ![j.col][j.doc] =
                    Overwrite(@, j.content, j.purposes)]
    /\ Goto(w, "topic")
    /\ UNCHANGED <<exists, topics, job, faults>>

\* update_topic_vector folds the new vectors into the collection's centroid.
\* Only its presence is kept here.
UpdateTopic(w) ==
    /\ pc[w] = "topic"
    /\ topics' = topics \cup {job[w].col}
    /\ Goto(w, "indexed")
    /\ UNCHANGED <<exists, store, job, faults>>

\* update_topic_vector swallows every exception.
UpdateTopicFails(w) ==
    /\ pc[w] = "topic"
    /\ faults < MaxFaults
    /\ faults' = faults + 1
    /\ Goto(w, "indexed")
    /\ UNCHANGED <<exists, store, topics, job>>

\* A call raises, and so does the handler: to the store ("count" to "upsert"),
\* or to the embedding service ("check").  A call that took effect and whose
\* reply was lost leaves the worker at the next location, so "topic" is here
\* for a lost reply to the upsert.
CallFails(w) ==
    /\ pc[w] \in {"count", "delete", "check", "create", "upsert", "topic"}
    /\ faults < MaxFaults
    /\ faults' = faults + 1
    /\ Goto(w, "failed")
    /\ UNCHANGED <<exists, store, topics, job>>

\* The handler returns, or its exception becomes an error response.
Respond(w) ==
    /\ pc[w] \in Answers
    /\ Goto(w, "idle")
    /\ job' = [job EXCEPT ![w] = NoJob]
    /\ UNCHANGED <<exists, store, topics, faults>>

\* The process is killed and restarted; the store is another process.
Crash ==
    /\ faults < MaxFaults
    /\ faults' = faults + 1
    /\ pc' = [w \in Workers |-> "idle"]
    /\ job' = [w \in Workers |-> NoJob]
    /\ UNCHANGED <<exists, store, topics>>

\* Mutant of Restricted: the payload is replaced and not patched, so that the
\* hash in it is gone.
RestrictedReplacing(old, p) ==
    [i \in Index |->
        IF old[i] = NoChunk THEN NoChunk
        ELSE [hash |-> NoHash, purposes |-> p]]

\* The chunks of a document after set_payload has patched their purposes.
Restricted(old, p) ==
    [i \in Index |->
        IF old[i] = NoChunk THEN NoChunk ELSE [old[i] EXCEPT !.purposes = p]]

\* update_document_purposes: one set_payload on every chunk of the document in
\* the collection the request names.  It raises when there is no collection.
UpdatePurposes(c, d, p) ==
    /\ c \in exists
    /\ store' = [store EXCEPT ![c][d] = Restricted(@, p)]
    /\ UNCHANGED <<exists, topics, pc, job, faults>>

\* The steps by which worker w gets on with the request it serves.
Progress(w) ==
    \/ ReadHash(w)
    \/ CountOld(w)
    \/ DeleteOld(w)
    \/ CheckCollection(w)
    \/ CreateCollection(w)
    \/ Upsert(w)
    \/ UpdateTopic(w)
    \/ Respond(w)

Fault(w) == ReadHashFails(w) \/ UpdateTopicFails(w) \/ CallFails(w)

Next ==
    \/ \E w \in Workers :
          \/ \E j \in Job : Begin(w, j)
          \/ Progress(w)
          \/ Fault(w)
    \/ \E c \in Collections, d \in Docs, p \in PurposeSets :
          UpdatePurposes(c, d, p)
    \/ Crash

Spec == Init /\ [][Next]_vars

\* Handlers run to their end: the system runs their threads, and a call to the
\* store returns or raises.  Nobody has to send a request.
FairSpec == Spec /\ \A w \in Workers : WF_vars(Progress(w))

-----------------------------------------------------------------------------

\* Types: what each variable may hold.
TypeOK ==
    /\ exists \subseteq Collections
    /\ store \in [Collections -> [Docs -> [Index -> Chunk \cup {NoChunk}]]]
    /\ topics \subseteq Collections
    /\ pc \in [Workers -> PC]
    /\ job \in [Workers -> Job \cup {NoJob}]
    /\ \A w \in Workers : pc[w] = "idle" <=> job[w] = NoJob
    /\ faults \in 0 .. MaxFaults

\* Whatever requests run together, the chunks stored of a document have the
\* indices 0 .. m-1: no interleaving of deletions and upserts leaves a hole in
\* a document's text.
Contiguous ==
    \A c \in Collections, d \in Docs, i, k \in Index :
        i < k /\ store[c][d][k] # NoChunk => store[c][d][i] # NoChunk

\* A worker that is about to upsert finds the collection, even when several
\* workers found it missing and all of them tried to create it.
UpsertFindsCollection ==
    \A w \in Workers : pc[w] = "upsert" => job[w].col \in exists

\* All the chunks stored of a document come from one content: old and new
\* versions are never retrievable together (SC-10).
NoMixedVersions ==
    \A c \in Collections, d \in Docs :
        \A i, k \in Stored(c, d) : store[c][d][i].hash = store[c][d][k].hash

\* A document is stored whole, from one content and with one set of purposes,
\* or not at all, at every moment of a re-index, also between a crash or a
\* failed call and the next request.
WholeOrAbsent ==
    \A c \in Collections, d \in Docs :
        \/ store[c][d] = Empty
        \/ \E x \in Contents, p \in PurposeSets : store[c][d] = Image(x, p)

\* The hashes of the chunks of d in c are those of content x, all of them.
Holds(c, d, x) ==
    \A i \in Index : IF i < Chunks[x] THEN /\ store[c][d][i] # NoChunk
                                           /\ store[c][d][i].hash = x
                                      ELSE store[c][d][i] = NoChunk

\* When delta_index_document answers, with "indexed" or with "skipped", the
\* document stored is the one that was sent.
DeltaAnswerIsCurrent ==
    \A w \in Workers :
        pc[w] \in {"indexed", "skipped"} /\ job[w].kind = "delta"
            => Holds(job[w].col, job[w].doc, job[w].content)

\* A delta request for content x of document d in collection c has begun, n calls
\* having failed so far.
Requested(c, d, x, n) ==
    /\ faults = n
    /\ \E w \in Workers :
          /\ pc[w] = "hash"
          /\ job[w].col = c /\ job[w].doc = d /\ job[w].content = x

\* A delta request brings the document it sends into the store, unless another
\* call fails or the service is killed meanwhile.  So the document that a failed
\* or interrupted re-index has removed is there again once somebody sends it: its
\* chunks took the hash with them, and nothing is skipped.
ResendRepairs ==
    \A c \in Existing, d \in Docs, x \in Contents, n \in 0 .. MaxFaults :
        Requested(c, d, x, n) ~> Holds(c, d, x) \/ faults > n

-----------------------------------------------------------------------------

\* The version a reader finds of each document: that of its first chunk.
Version(key) == store[key[1]][key[2]][0]

Held == [key \in Collections \X Docs |-> Version(key)]

R == INSTANCE Replacement WITH
        Keys <- Collections \X Docs, Absent <- NoChunk, held <- Held

\* Indexing replaces documents as Replacement promises: a version is never
\* put in the place of another one.
ReplacesByRemoval == R!Spec

=============================================================================
