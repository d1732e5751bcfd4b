--------------------------- MODULE DocIndexProofs ---------------------------
(***************************************************************************)
(* Proofs about DocIndex: for any workers, documents, contents and faults; *)
(* and, in the second half, for callers that delta-index their documents   *)
(* and wait for the answer on one before they send another request for it. *)
(***************************************************************************)
EXTENDS DocIndex, TLAPS

\* The chunks of a document, by their index.
Chunking == [Index -> Chunk \cup {NoChunk}]

-----------------------------------------------------------------------------
(* The operators the actions are built from.                               *)

\* No chunks are chunks.
LEMMA EmptyType == Empty \in Chunking
  BY DEF Empty, Chunking

\* Upserting the chunks of a content gives chunks again.
LEMMA OverwriteType ==
  ASSUME NEW old \in Chunking, NEW x \in Contents, NEW p \in PurposeSets
  PROVE  Overwrite(old, x, p) \in Chunking
  BY DEF Overwrite, Chunking, Chunk

\* New purposes for chunks give chunks again.
LEMMA RestrictedType ==
  ASSUME NEW old \in Chunking, NEW p \in PurposeSets
  PROVE  Restricted(old, p) \in Chunking
  BY DEF Restricted, Chunking, Chunk

\* A worker that serves a request is told from one that does not.
LEMMA JobIsNotNull == NoJob \notin Job
  BY NullAssumption DEF Job

\* Indexing starts at one of its steps.
LEMMA IndexEntryType ==
  ASSUME NEW x
  PROVE  IndexEntry(x) \in PC \ {"idle"}
  BY DEF IndexEntry, PC

-----------------------------------------------------------------------------

\* Every variable keeps its type, and a worker has a request exactly while it
\* is busy.
THEOREM TypeCorrect == Spec => []TypeOK
<1>1. Init => TypeOK
  BY EmptyType, CollectionsAssumption, SwitchAssumption
  DEF Init, TypeOK, Chunking, PC
<1>2. TypeOK /\ [Next]_vars => TypeOK'
  <2> SUFFICES ASSUME TypeOK, [Next]_vars PROVE TypeOK'
    OBVIOUS
  <2> USE JobIsNotNull, SwitchAssumption
  <2>1. ASSUME NEW w \in Workers, NEW j \in Job, Begin(w, j) PROVE TypeOK'
    <3>1. (IF j.kind = "delta" THEN "hash" ELSE IndexEntry(j.content))
             \in PC \ {"idle"}
      BY IndexEntryType DEF PC
    <3>2. QED
      BY <2>1, <3>1 DEF Begin, TypeOK, Goto
  <2>2. ASSUME NEW w \in Workers, Progress(w) PROVE TypeOK'
    <3>1. CASE ReadHash(w)
      BY <3>1 DEF ReadHash, TypeOK, Goto, PC
    <3>2. CASE CountOld(w)
      BY <3>2 DEF CountOld, TypeOK, Goto, PC
    <3>3. CASE DeleteOld(w)
      <4>1. job[w] \in Job
        BY <3>3 DEF DeleteOld, TypeOK
      <4>2. store' \in [Collections -> [Docs -> Chunking]]
        BY <3>3, <4>1, EmptyType DEF DeleteOld, TypeOK, Chunking, Job
      <4>3. QED
        BY <3>3, <4>2, IndexEntryType DEF DeleteOld, TypeOK, Goto, Chunking
    <3>4. CASE CheckCollection(w)
      BY <3>4 DEF CheckCollection, TypeOK, Goto, PC
    <3>5. CASE CreateCollection(w)
      <4>1. job[w] \in Job
        BY <3>5 DEF CreateCollection, TypeOK
      <4>2. QED
        BY <3>5, <4>1 DEF CreateCollection, TypeOK, Goto, PC, Job
    <3>6. CASE Upsert(w)
      <4>1. job[w] \in Job
        BY <3>6 DEF Upsert, TypeOK
      <4>2. store[job[w].col][job[w].doc] \in Chunking
        BY <4>1 DEF TypeOK, Chunking, Job
      <4>3. Overwrite(store[job[w].col][job[w].doc], job[w].content,
                      job[w].purposes) \in Chunking
        BY <4>1, <4>2, OverwriteType DEF Job
      <4>4. store' \in [Collections -> [Docs -> Chunking]]
        BY <3>6, <4>1, <4>3 DEF Upsert, TypeOK, Chunking, Job
      <4>5. QED
        BY <3>6, <4>4 DEF Upsert, TypeOK, Goto, PC, Chunking
    <3>7. CASE UpdateTopic(w)
      <4>1. job[w] \in Job
        BY <3>7 DEF UpdateTopic, TypeOK
      <4>2. QED
        BY <3>7, <4>1 DEF UpdateTopic, TypeOK, Goto, PC, Job
    <3>8. CASE Respond(w)
      BY <3>8 DEF Respond, TypeOK, Goto, PC
    <3>9. QED
      BY <2>2, <3>1, <3>2, <3>3, <3>4, <3>5, <3>6, <3>7, <3>8 DEF Progress
  <2>3. ASSUME NEW w \in Workers, Fault(w) PROVE TypeOK'
    BY <2>3
    DEF Fault, ReadHashFails, UpdateTopicFails, CallFails, TypeOK, Goto, PC
  <2>4. ASSUME NEW c \in Collections, NEW d \in Docs, NEW p \in PurposeSets,
               UpdatePurposes(c, d, p)
        PROVE TypeOK'
    <3>1. Restricted(store[c][d], p) \in Chunking
      BY RestrictedType DEF TypeOK, Chunking
    <3>2. store' \in [Collections -> [Docs -> Chunking]]
      BY <2>4, <3>1 DEF UpdatePurposes, TypeOK, Chunking
    <3>3. QED
      BY <2>4, <3>2 DEF UpdatePurposes, TypeOK, Chunking
  <2>5. CASE Crash
    BY <2>5 DEF Crash, TypeOK, PC
  <2>6. CASE UNCHANGED vars
    BY <2>6 DEF vars, TypeOK
  <2>7. QED
    BY <2>1, <2>2, <2>3, <2>4, <2>5, <2>6 DEF Next
<1>3. QED
  BY <1>1, <1>2, PTL DEF Spec

-----------------------------------------------------------------------------
(* No interleaving leaves a hole in a document.                            *)

\* The chunks of one document have the indices 0 .. m-1.
Gapless(chunks) ==
  \A i, k \in Index : i < k /\ chunks[k] # NoChunk => chunks[i] # NoChunk

\* Upserting the first chunks of a document leaves no hole.
LEMMA OverwriteGapless ==
  ASSUME NEW old \in Chunking, Gapless(old),
         NEW x \in Contents, NEW p \in PurposeSets
  PROVE  Gapless(Overwrite(old, x, p))
<1> DEFINE new == Overwrite(old, x, p)
<1> SUFFICES ASSUME NEW i \in Index, NEW k \in Index, i < k, new[k] # NoChunk
             PROVE  new[i] # NoChunk
  BY DEF Gapless
<1>1. [hash |-> x, purposes |-> p] # NoChunk
  BY NullAssumption
<1>2. /\ new[i] = IF i < Chunks[x] THEN [hash |-> x, purposes |-> p] ELSE old[i]
      /\ new[k] = IF k < Chunks[x] THEN [hash |-> x, purposes |-> p] ELSE old[k]
  BY DEF Overwrite
<1>3. CASE i < Chunks[x]
  BY <1>1, <1>2, <1>3
<1>4. CASE ~ (i < Chunks[x])
  <2>1. ~ (k < Chunks[x])
    BY <1>4, ChunksAssumption DEF Index
  <2>2. QED
    BY <1>2, <1>4, <2>1 DEF Gapless
<1>5. QED
  BY <1>3, <1>4

\* New purposes leave no gap.
LEMMA RestrictedGapless ==
  ASSUME NEW old \in Chunking, Gapless(old), NEW p \in PurposeSets
  PROVE  Gapless(Restricted(old, p))
<1>1. \A i \in Index : Restricted(old, p)[i] # NoChunk <=> old[i] # NoChunk
  BY NullAssumption DEF Restricted, Chunking, Chunk
<1>2. QED
  BY <1>1 DEF Gapless

\* The stored chunks of every document are contiguous, however the requests of
\* any number of workers interleave, fail and are cut off by crashes.
THEOREM NoHoles == Spec => []Contiguous
<1> DEFINE Inv == \A c \in Collections, d \in Docs : Gapless(store[c][d])
<1>1. Init => Inv
  BY DEF Init, Gapless, Empty
<1>2. TypeOK /\ Inv /\ [Next]_vars => Inv'
  <2> SUFFICES ASSUME TypeOK, Inv, [Next]_vars,
                      NEW c \in Collections, NEW d \in Docs
               PROVE  Gapless(store'[c][d])
    BY DEF Gapless
  <2>1. store[c][d] \in Chunking /\ Gapless(store[c][d])
    BY DEF TypeOK, Chunking
  <2>2. CASE UNCHANGED store
    BY <2>1, <2>2
  <2>3. ASSUME NEW w \in Workers, DeleteOld(w) PROVE Gapless(store'[c][d])
    <3>1. store'[c][d] \in {Empty, store[c][d]}
      BY <2>3 DEF DeleteOld, TypeOK
    <3>2. QED
      BY <2>1, <3>1 DEF Gapless, Empty
  <2>4. ASSUME NEW w \in Workers, Upsert(w) PROVE Gapless(store'[c][d])
    <3>1. job[w] \in Job
      BY <2>4 DEF Upsert, TypeOK
    <3>2. store'[c][d] \in
             {store[c][d],
              Overwrite(store[c][d], job[w].content, job[w].purposes)}
      BY <2>4, <3>1 DEF Upsert, TypeOK, Job
    <3>3. QED
      BY <2>1, <3>1, <3>2, OverwriteGapless DEF Job
  <2>5. ASSUME NEW a \in Collections, NEW b \in Docs, NEW p \in PurposeSets,
               UpdatePurposes(a, b, p)
        PROVE Gapless(store'[c][d])
    <3>1. store'[c][d] \in {store[c][d], Restricted(store[c][d], p)}
      BY <2>5 DEF UpdatePurposes, TypeOK
    <3>2. QED
      BY <2>1, <3>1, RestrictedGapless
  <2>6. ASSUME NEW w \in Workers, NEW j \in Job, Begin(w, j)
        PROVE  UNCHANGED store
    BY <2>6 DEF Begin
  <2>7. ASSUME NEW w \in Workers, Progress(w)
        PROVE  UNCHANGED store \/ DeleteOld(w) \/ Upsert(w)
    BY <2>7 DEF Progress, ReadHash, CountOld, CheckCollection,
                CreateCollection, UpdateTopic, Respond
  <2>8. ASSUME NEW w \in Workers, Fault(w) PROVE UNCHANGED store
    BY <2>8 DEF Fault, ReadHashFails, UpdateTopicFails, CallFails
  <2>9. Crash \/ UNCHANGED vars => UNCHANGED store
    BY DEF Crash, vars
  <2>10. QED
    BY <2>2, <2>3, <2>4, <2>5, <2>6, <2>7, <2>8, <2>9 DEF Next
<1>3. Inv => Contiguous
  BY DEF Contiguous, Gapless
<1>4. QED
  BY <1>1, <1>2, <1>3, TypeCorrect, PTL DEF Spec

-----------------------------------------------------------------------------
(* ensure_collection is two calls, and between them anything may happen.   *)

\* A request that is about to upsert finds its collection: collections are
\* only ever created, and the way to the upsert is through a check that saw
\* the collection or through the call that created it.
THEOREM UpsertsFindCollection == Spec => []UpsertFindsCollection
<1>1. Init => UpsertFindsCollection
  BY DEF Init, UpsertFindsCollection
<1>2. TypeOK /\ UpsertFindsCollection /\ [Next]_vars => UpsertFindsCollection'
  <2> SUFFICES ASSUME TypeOK, UpsertFindsCollection, [Next]_vars,
                      NEW v \in Workers, pc'[v] = "upsert"
               PROVE  job'[v].col \in exists'
    BY DEF UpsertFindsCollection
  <2> USE DEF UpsertFindsCollection
  <2>1. CASE UNCHANGED <<exists, pc, job>>
    BY <2>1
  <2>2. ASSUME NEW w \in Workers, NEW j \in Job, Begin(w, j)
        PROVE  job'[v].col \in exists'
    BY <2>2 DEF Begin, IndexEntry, Goto, TypeOK
  <2>3. ASSUME NEW w \in Workers, Progress(w) PROVE job'[v].col \in exists'
    <3>1. CASE CheckCollection(w)
      BY <3>1 DEF CheckCollection, Goto, TypeOK
    <3>2. CASE CreateCollection(w)
      BY <3>2 DEF CreateCollection, Goto, TypeOK
    <3>3. CASE ReadHash(w) \/ CountOld(w) \/ Upsert(w) \/ UpdateTopic(w)
      BY <3>3 DEF ReadHash, CountOld, Upsert, UpdateTopic, Goto, TypeOK
    <3>4. CASE DeleteOld(w)
      BY <3>4 DEF DeleteOld, IndexEntry, Goto, TypeOK
    <3>5. CASE Respond(w)
      BY <3>5 DEF Respond, Goto, TypeOK
    <3>6. QED
      BY <2>3, <3>1, <3>2, <3>3, <3>4, <3>5 DEF Progress
  <2>4. ASSUME NEW w \in Workers, Fault(w) PROVE job'[v].col \in exists'
    BY <2>4 DEF Fault, ReadHashFails, UpdateTopicFails, CallFails, Goto, TypeOK
  <2>5. ASSUME NEW c \in Collections, NEW d \in Docs, NEW p \in PurposeSets,
               UpdatePurposes(c, d, p)
        PROVE  UNCHANGED <<exists, pc, job>>
    BY <2>5 DEF UpdatePurposes
  <2>6. CASE Crash
    BY <2>6 DEF Crash
  <2>7. UNCHANGED vars => UNCHANGED <<exists, pc, job>>
    BY DEF vars
  <2>8. QED
    BY <2>1, <2>2, <2>3, <2>4, <2>5, <2>6, <2>7 DEF Next
<1>3. QED
  BY <1>1, <1>2, TypeCorrect, PTL DEF Spec

-----------------------------------------------------------------------------
(* Callers that delta-index, one request per document at a time.           *)

\* The callers of the "serial" run.
SerialDelta == Serial /\ Kinds = {"delta"}

-----------------------------------------------------------------------------
(* The inductive invariant.                                                *)

\* Two busy workers serve different documents.
OneRequest ==
  \A v, w \in Workers :
     v # w /\ pc[v] # "idle" /\ pc[w] # "idle"
        => job[v].col # job[w].col \/ job[v].doc # job[w].doc

\* Between its deletion and its upsert, a worker's document has no chunks.
Deleted(w) ==
  pc[w] \in {"check", "create", "upsert"}
     => store[job[w].col][job[w].doc] = Empty

\* chunks are those of content x, all of them.
AreOf(chunks, x) ==
  \A i \in Index : IF i < Chunks[x] THEN chunks[i] # NoChunk /\ chunks[i].hash = x
                                    ELSE chunks[i] = NoChunk

\* Once it has upserted or skipped, a worker's document is what was sent.
Installed(w) ==
  pc[w] \in {"topic", "indexed", "skipped"}
     => AreOf(store[job[w].col][job[w].doc], job[w].content)

\* chunks are those of one content with one set of purposes, or none.
Whole(chunks) ==
  chunks = Empty \/ \E x \in Contents, p \in PurposeSets : chunks = Image(x, p)

\* The inductive invariant for these callers.
SerialInv ==
  /\ TypeOK
  /\ OneRequest
  /\ \A w \in Workers : Deleted(w) /\ Installed(w)
  /\ \A c \in Collections, d \in Docs : Whole(store[c][d])

-----------------------------------------------------------------------------
(* What the calls do to the chunks of one document.                        *)

\* The chunks of a content are all of its chunks.
LEMMA ImageIsOf ==
  ASSUME NEW x \in Contents, NEW p \in PurposeSets
  PROVE  AreOf(Image(x, p), x)
<1>1. [hash |-> x, purposes |-> p] # NoChunk
  BY NullAssumption
<1>2. QED
  BY <1>1 DEF AreOf, Image, Overwrite, Empty

\* Any chunk of a whole document tells which content it is of.
LEMMA OneHashTells ==
  ASSUME NEW chunks \in Chunking, Whole(chunks),
         NEW i \in Index, chunks[i] # NoChunk
  PROVE  AreOf(chunks, chunks[i].hash)
<1>1. chunks # Empty
  BY DEF Empty
<1>2. PICK x \in Contents, p \in PurposeSets : chunks = Image(x, p)
  BY <1>1 DEF Whole
<1>3. chunks[i].hash = x
  BY <1>2, ImageIsOf DEF AreOf
<1>4. QED
  BY <1>2, <1>3, ImageIsOf

\* New purposes leave a document whole,
LEMMA RestrictedWhole ==
  ASSUME NEW chunks \in Chunking, Whole(chunks), NEW q \in PurposeSets
  PROVE  Whole(Restricted(chunks, q))
<1>1. CASE chunks = Empty
  BY <1>1 DEF Whole, Restricted, Empty
<1>2. ASSUME NEW x \in Contents, NEW p \in PurposeSets, chunks = Image(x, p)
      PROVE  Restricted(chunks, q) = Image(x, q)
  <2>1. [hash |-> x, purposes |-> p] # NoChunk
    BY NullAssumption
  <2>2. [[hash |-> x, purposes |-> p] EXCEPT !.purposes = q]
           = [hash |-> x, purposes |-> q]
    OBVIOUS
  <2>3. QED
    BY <1>2, <2>1, <2>2 DEF Restricted, Image, Overwrite, Empty
<1>3. QED
  BY <1>1, <1>2 DEF Whole

\* and of the same content.
LEMMA RestrictedIsOf ==
  ASSUME NEW chunks \in Chunking, NEW x \in Contents, AreOf(chunks, x),
         NEW q \in PurposeSets
  PROVE  AreOf(Restricted(chunks, q), x)
<1>1. ASSUME NEW i \in Index, chunks[i] # NoChunk
      PROVE  /\ Restricted(chunks, q)[i] # NoChunk
             /\ Restricted(chunks, q)[i].hash = chunks[i].hash
  BY <1>1, NullAssumption DEF Restricted, Chunking, Chunk
<1>2. ASSUME NEW i \in Index, chunks[i] = NoChunk
      PROVE  Restricted(chunks, q)[i] = NoChunk
  BY <1>2 DEF Restricted
<1>3. QED
  BY <1>1, <1>2 DEF AreOf

-----------------------------------------------------------------------------
(* Every step keeps the invariant.                                         *)

\* A step that neither touches the store nor starts a request, and after which
\* each worker has nothing new to answer for.
LEMMA QuietStep ==
  ASSUME SerialInv, TypeOK', UNCHANGED store,
         \A w \in Workers :
            \/ pc'[w] = "idle"
            \/ /\ job'[w] = job[w]
               /\ pc[w] # "idle"
               /\ Deleted(w)'
               /\ Installed(w)'
  PROVE  SerialInv'
<1>1. OneRequest'
  BY DEF SerialInv, OneRequest
<1>2. \A w \in Workers : Deleted(w)' /\ Installed(w)'
  BY DEF Deleted, Installed
<1>3. QED
  BY <1>1, <1>2 DEF SerialInv

\* A worker's step that changes the chunks of its own document only.
LEMMA OwnStep ==
  ASSUME SerialInv, TypeOK', NEW w \in Workers, pc[w] # "idle",
         NEW chunks,
         store' = [store EXCEPT ![job[w].col][job[w].doc] = chunks],
         Whole(chunks), job' = job,
         \A v \in Workers \ {w} : pc'[v] = pc[v],
         Deleted(w)', Installed(w)'
  PROVE  SerialInv'
<1>1. job[w] \in Job
  BY DEF SerialInv, TypeOK
<1>2. OneRequest'
  BY DEF SerialInv, OneRequest
<1>3. ASSUME NEW v \in Workers \ {w} PROVE Deleted(v)' /\ Installed(v)'
  <2>1. CASE pc[v] = "idle"
    BY <2>1 DEF Deleted, Installed
  <2>2. CASE pc[v] # "idle"
    <3>1. job[v] \in Job
      BY <2>2 DEF SerialInv, TypeOK
    <3>2. store'[job[v].col][job[v].doc] = store[job[v].col][job[v].doc]
      BY <1>1, <2>2, <3>1 DEF SerialInv, OneRequest, TypeOK, Job
    <3>3. QED
      BY <3>2 DEF SerialInv, Deleted, Installed
  <2>3. QED
    BY <2>1, <2>2
<1>4. ASSUME NEW c \in Collections, NEW d \in Docs PROVE Whole(store'[c][d])
  <2>1. store'[c][d] \in {chunks, store[c][d]}
    BY <1>1 DEF SerialInv, TypeOK, Job
  <2>2. QED
    BY <2>1 DEF SerialInv
<1>5. QED
  BY <1>2, <1>3, <1>4 DEF SerialInv

\* Every step preserves SerialInv.
LEMMA SerialInvStep ==
  ASSUME SerialDelta, SerialInv, TypeOK', [Next]_vars
  PROVE  SerialInv'
<1>1. ASSUME NEW w \in Workers, NEW j \in Job, Begin(w, j) PROVE SerialInv'
  <2>1. j.kind = "delta" /\ pc' = [pc EXCEPT ![w] = "hash"]
    BY <1>1 DEF SerialDelta, Job, Begin, Goto
  <2>2. OneRequest'
    <3>1. \A v \in Workers : pc[v] # "idle" => job[v].col # j.col \/ job[v].doc # j.doc
      BY <1>1 DEF SerialDelta, Begin, Free, Busy
    <3>2. QED
      BY <1>1, <2>1, <3>1 DEF SerialInv, OneRequest, Begin, TypeOK
  <2>3. \A v \in Workers : Deleted(v)' /\ Installed(v)'
    BY <1>1, <2>1 DEF SerialInv, TypeOK, Deleted, Installed, Begin
  <2>4. QED
    BY <1>1, <2>2, <2>3 DEF SerialInv, Begin
<1>2. ASSUME NEW w \in Workers, Progress(w) PROVE SerialInv'
  <2>1. CASE ReadHash(w)
    <3>1. job[w] \in Job
      BY <2>1 DEF ReadHash, SerialInv, TypeOK
    <3>2. PICK h \in StoredHashes(job[w].col, job[w].doc) :
             pc' = [pc EXCEPT ![w] = IF ~job[w].force /\ h = job[w].content
                                     THEN "skipped" ELSE "count"]
      BY <2>1 DEF ReadHash, Goto
    <3>3. ASSUME h = job[w].content
          PROVE  AreOf(store[job[w].col][job[w].doc], job[w].content)
      <4>1. h # NoHash
        BY <3>1, <3>3, NullAssumption DEF Job
      <4>2. PICK i \in Index : /\ store[job[w].col][job[w].doc][i] # NoChunk
                               /\ h = store[job[w].col][job[w].doc][i].hash
        BY <3>2, <4>1 DEF StoredHashes, Stored
      <4>3. /\ store[job[w].col][job[w].doc] \in Chunking
            /\ Whole(store[job[w].col][job[w].doc])
        BY <3>1 DEF SerialInv, TypeOK, Chunking, Job
      <4>4. QED
        BY <3>3, <4>2, <4>3, OneHashTells
    <3>4. Deleted(w)' /\ Installed(w)'
      BY <2>1, <3>2, <3>3 DEF ReadHash, SerialInv, TypeOK, Deleted, Installed
    <3>5. QED
      BY <2>1, <3>2, <3>4, QuietStep
      DEF ReadHash, SerialInv, TypeOK, Deleted, Installed
  <2>2. CASE CountOld(w)
    BY <2>2, QuietStep
    DEF CountOld, Goto, SerialInv, TypeOK, Deleted, Installed
  <2>3. CASE DeleteOld(w)
    <3>1. job[w] \in Job
      BY <2>3 DEF DeleteOld, SerialInv, TypeOK
    <3>2. store'[job[w].col][job[w].doc] = Empty
      BY <2>3, <3>1 DEF DeleteOld, SerialInv, TypeOK, Job
    <3>3. pc'[w] = IF Chunks[job[w].content] = 0 THEN "indexed" ELSE "check"
      BY <2>3 DEF DeleteOld, SerialInv, TypeOK, Goto, IndexEntry
    <3>4. Deleted(w)'
      BY <2>3, <3>2 DEF DeleteOld, Deleted
    <3>5. Chunks[job[w].content] = 0 => AreOf(Empty, job[w].content)
      BY DEF AreOf, Empty, Index
    <3>6. Installed(w)'
      BY <2>3, <3>2, <3>3, <3>5 DEF DeleteOld, Installed
    <3>7. QED
      BY <2>3, <3>4, <3>6, OwnStep DEF DeleteOld, Goto, SerialInv, TypeOK, Whole
  <2>4. CASE CheckCollection(w)
    BY <2>4, QuietStep
    DEF CheckCollection, Goto, SerialInv, TypeOK, Deleted, Installed
  <2>5. CASE CreateCollection(w)
    BY <2>5, QuietStep
    DEF CreateCollection, Goto, SerialInv, TypeOK, Deleted, Installed
  <2>6. CASE Upsert(w)
    <3> DEFINE j == job[w]
    <3>1. j \in Job
      BY <2>6 DEF Upsert, SerialInv, TypeOK
    <3>2. store[j.col][j.doc] = Empty
      BY <2>6 DEF Upsert, SerialInv, Deleted
    <3>3. store' = [store EXCEPT ![j.col][j.doc] = Image(j.content, j.purposes)]
      BY <2>6, <3>2 DEF Upsert, Image
    <3>4. store'[j.col][j.doc] = Image(j.content, j.purposes)
      BY <3>1, <3>3 DEF SerialInv, TypeOK, Job
    <3>5. Deleted(w)' /\ Installed(w)'
      BY <2>6, <3>1, <3>4, ImageIsOf
      DEF Upsert, Goto, SerialInv, TypeOK, Deleted, Installed, Job
    <3>6. Whole(Image(j.content, j.purposes))
      BY <3>1 DEF Whole, Job
    <3>7. QED
      BY <2>6, <3>3, <3>5, <3>6, OwnStep DEF Upsert, Goto, SerialInv, TypeOK
  <2>7. CASE UpdateTopic(w)
    BY <2>7, QuietStep
    DEF UpdateTopic, Goto, SerialInv, TypeOK, Deleted, Installed
  <2>8. CASE Respond(w)
    BY <2>8, QuietStep
    DEF Respond, Answers, Goto, SerialInv, TypeOK, Deleted, Installed
  <2>9. QED
    BY <1>2, <2>1, <2>2, <2>3, <2>4, <2>5, <2>6, <2>7, <2>8 DEF Progress
<1>3. ASSUME NEW w \in Workers, Fault(w) PROVE SerialInv'
  BY <1>3, QuietStep
  DEF Fault, ReadHashFails, UpdateTopicFails, CallFails, Goto, SerialInv,
      TypeOK, Deleted, Installed
<1>4. ASSUME NEW c \in Collections, NEW d \in Docs, NEW p \in PurposeSets,
             UpdatePurposes(c, d, p)
      PROVE SerialInv'
  <2>1. ASSUME NEW a \in Collections, NEW b \in Docs
        PROVE  /\ store[a][b] \in Chunking
               /\ Whole(store[a][b])
               /\ store'[a][b] \in {store[a][b], Restricted(store[a][b], p)}
    BY <1>4, <2>1 DEF UpdatePurposes, SerialInv, TypeOK, Chunking
  <2>2. OneRequest'
    BY <1>4 DEF UpdatePurposes, SerialInv, OneRequest
  <2>3. ASSUME NEW w \in Workers PROVE Deleted(w)' /\ Installed(w)'
    <3>1. CASE pc[w] = "idle"
      BY <1>4, <3>1 DEF UpdatePurposes, Deleted, Installed
    <3>2. CASE pc[w] # "idle"
      <4>1. job[w] \in Job
        BY <3>2 DEF SerialInv, TypeOK
      <4>2. Restricted(Empty, p) = Empty
        BY DEF Restricted, Empty
      <4>3. Deleted(w) /\ Installed(w)
        BY DEF SerialInv
      <4>4. Deleted(w)'
        BY <1>4, <2>1, <4>1, <4>2, <4>3 DEF UpdatePurposes, Deleted, Job
      <4>5. Installed(w)'
        BY <1>4, <2>1, <4>1, <4>3, RestrictedIsOf
        DEF UpdatePurposes, Installed, Job
      <4>6. QED
        BY <4>4, <4>5
    <3>3. QED
      BY <3>1, <3>2
  <2>4. \A a \in Collections, b \in Docs : Whole(store'[a][b])
    BY <2>1, RestrictedWhole
  <2>5. QED
    BY <2>2, <2>3, <2>4 DEF SerialInv
<1>5. CASE Crash
  BY <1>5, QuietStep DEF Crash
<1>6. CASE UNCHANGED vars
  BY <1>6 DEF vars, SerialInv, TypeOK, OneRequest, Deleted, Installed, Whole
<1>7. QED
  BY <1>1, <1>2, <1>3, <1>4, <1>5, <1>6 DEF Next

-----------------------------------------------------------------------------
(* What follows from the invariant.                                        *)

\* SerialInv is an invariant.
LEMMA SerialInvariant == ASSUME SerialDelta PROVE Spec => []SerialInv
<1>1. Init => SerialInv
  <2> SUFFICES ASSUME Init PROVE SerialInv
    OBVIOUS
  <2>1. TypeOK
    BY EmptyType, CollectionsAssumption, SwitchAssumption
    DEF Init, TypeOK, Chunking, PC
  <2>2. QED
    BY <2>1 DEF Init, SerialInv, OneRequest, Deleted, Installed, Whole
<1>2. SerialInv /\ TypeOK' /\ [Next]_vars => SerialInv'
  BY SerialInvStep
<1>3. QED
  BY <1>1, <1>2, TypeCorrect, PTL DEF Spec

\* A document is stored whole or not at all, at every moment, also when calls
\* fail and processes crash between its deletion and its upsert.
THEOREM WholeDocuments == ASSUME SerialDelta PROVE Spec => []WholeOrAbsent
<1>1. SerialInv => WholeOrAbsent
  BY DEF SerialInv, WholeOrAbsent, Whole
<1>2. QED
  BY <1>1, SerialInvariant, PTL

\* "indexed" and "skipped" both mean that what was sent is what is stored.
THEOREM AnswersAreCurrent ==
  ASSUME SerialDelta PROVE Spec => []DeltaAnswerIsCurrent
<1>1. SerialInv => DeltaAnswerIsCurrent
  BY DEF SerialInv, DeltaAnswerIsCurrent, Installed, AreOf, Holds
<1>2. QED
  BY <1>1, SerialInvariant, PTL

-----------------------------------------------------------------------------
(* DocIndex implements Replacement.                                        *)

\* When a step changes the chunks of document d of collection c only, the
\* version held of that document is the only one that changes.
LEMMA OneVersionChanges ==
  ASSUME TypeOK, NEW c \in Collections, NEW d \in Docs, NEW chunks,
         store' = [store EXCEPT ![c][d] = chunks]
  PROVE  Held' = [Held EXCEPT ![<<c, d>>] = chunks[0]]
<1>1. ASSUME NEW a \in Collections, NEW b \in Docs
      PROVE  store'[a][b] = IF a = c /\ b = d THEN chunks ELSE store[a][b]
  BY DEF TypeOK
<1>2. ASSUME NEW key \in Collections \X Docs
      PROVE  store'[key[1]][key[2]][0] =
                IF key = <<c, d>> THEN chunks[0] ELSE store[key[1]][key[2]][0]
  BY <1>1, <1>2
<1>3. QED
  BY <1>2 DEF Held, Version

\* Every step replaces documents, or leaves them as they are.
LEMMA StepReplaces ==
  ASSUME SerialInv, [Next]_vars PROVE [R!Next]_Held
<1> USE DEF R!Next, R!Remove, R!Put, R!Restrict, R!Version
<1>0. TypeOK /\ 0 \in Index
  BY ChunksAssumption DEF SerialInv, Index
<1>1. UNCHANGED store => UNCHANGED Held
  BY DEF Held, Version
<1>2. ASSUME NEW w \in Workers, DeleteOld(w) PROVE \E k \in Collections \X Docs : R!Remove(k)
  <2>1. job[w] \in Job
    BY <1>0, <1>2 DEF DeleteOld, TypeOK
  <2>2. job[w].col \in Collections /\ job[w].doc \in Docs
    BY <2>1 DEF Job
  <2>3. Held' = [Held EXCEPT ![<<job[w].col, job[w].doc>>] = Empty[0]]
    <3>1. store' = [store EXCEPT ![job[w].col][job[w].doc] = Empty]
      BY <1>2 DEF DeleteOld
    <3>2. QED
      BY <1>0, <2>2, <3>1, OneVersionChanges
  <2>4. QED
    BY <1>0, <2>2, <2>3 DEF Empty
<1>3. ASSUME NEW w \in Workers, Upsert(w) PROVE [R!Next]_Held
  <2> DEFINE j == job[w]
             k == <<j.col, j.doc>>
  <2>1. j \in Job
    BY <1>0, <1>3 DEF Upsert, TypeOK
  <2>2. store[j.col][j.doc] = Empty
    BY <1>3 DEF Upsert, SerialInv, Deleted
  <2>3. k \in Collections \X Docs /\ Held[k] = NoChunk
    BY <1>0, <2>1, <2>2 DEF Job, Held, Version, Empty
  <2>4. Held' = [Held EXCEPT ![k] = Image(j.content, j.purposes)[0]]
    <3>1. store' = [store EXCEPT ![j.col][j.doc] =
                       Image(j.content, j.purposes)]
      BY <1>3, <2>2 DEF Upsert, Image
    <3>2. j.col \in Collections /\ j.doc \in Docs
      BY <2>1 DEF Job
    <3>3. QED
      BY <1>0, <3>1, <3>2, OneVersionChanges
  <2>5. CASE 0 < Chunks[j.content]
    <3>1. Image(j.content, j.purposes)[0]
             = [hash |-> j.content, purposes |-> j.purposes]
      BY <1>0, <2>5 DEF Image, Overwrite
    <3>2. QED
      BY <2>1, <2>3, <2>4, <3>1 DEF Job
  <2>6. CASE ~ (0 < Chunks[j.content])
    <3>1. Image(j.content, j.purposes)[0] = NoChunk
      BY <1>0, <2>6 DEF Image, Overwrite, Empty
    <3>2. QED
      BY <2>3, <2>4, <3>1 DEF Held
  <2>7. QED
    BY <2>5, <2>6
<1>4. ASSUME NEW c \in Collections, NEW d \in Docs, NEW p \in PurposeSets,
             UpdatePurposes(c, d, p)
      PROVE [R!Next]_Held
  <2> DEFINE k == <<c, d>>
             new == Restricted(store[c][d], p)
  <2>1. Held' = [Held EXCEPT ![k] = new[0]]
    <3>1. store' = [store EXCEPT ![c][d] = new]
      BY <1>4 DEF UpdatePurposes
    <3>2. QED
      BY <1>0, <3>1, OneVersionChanges
  <2>2. k \in Collections \X Docs /\ Held[k] = store[c][d][0]
    BY DEF Held, Version
  <2>3. CASE store[c][d][0] = NoChunk
    <3>1. new[0] = NoChunk
      BY <1>0, <2>3 DEF Restricted
    <3>2. QED
      BY <2>1, <2>2, <2>3, <3>1 DEF Held
  <2>4. CASE store[c][d][0] # NoChunk
    <3>1. new[0] = [store[c][d][0] EXCEPT !.purposes = p]
      BY <1>0, <2>4 DEF Restricted
    <3>2. Held' = [Held EXCEPT ![k].purposes = p]
      BY <2>1, <2>2, <3>1
    <3>3. QED
      BY <2>2, <2>4, <3>2
  <2>5. QED
    BY <2>3, <2>4
<1>5. ASSUME NEW w \in Workers, Progress(w)
      PROVE  UNCHANGED store \/ DeleteOld(w) \/ Upsert(w)
  BY <1>5 DEF Progress, ReadHash, CountOld, CheckCollection, CreateCollection,
              UpdateTopic, Respond
<1>6. ASSUME NEW w \in Workers, Fault(w) PROVE UNCHANGED store
  BY <1>6 DEF Fault, ReadHashFails, UpdateTopicFails, CallFails
<1>7. ASSUME NEW w \in Workers, NEW j \in Job, Begin(w, j)
      PROVE  UNCHANGED store
  BY <1>7 DEF Begin
<1>8. Crash \/ UNCHANGED vars => UNCHANGED store
  BY DEF Crash, vars
<1>9. QED
  BY <1>1, <1>2, <1>3, <1>4, <1>5, <1>6, <1>7, <1>8 DEF Next

\* Every delta-indexing step is a step of Replacement or changes nothing that a
\* reader sees: a version is never put in the place of another.
THEOREM Implements == ASSUME SerialDelta PROVE Spec => ReplacesByRemoval
<1>1. Init => R!Init
  <2> SUFFICES ASSUME Init PROVE R!Init
    OBVIOUS
  <2>1. 0 \in Index
    BY ChunksAssumption DEF Index
  <2>2. QED
    BY <2>1 DEF Init, R!Init, Held, Version, Empty
<1>2. SerialInv /\ [Next]_vars => [R!Next]_Held
  BY StepReplaces
<1>3. QED
  BY <1>1, <1>2, SerialInvariant, PTL DEF Spec, ReplacesByRemoval, R!Spec

=============================================================================
