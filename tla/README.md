# A TLA+ verification of bastion-navigator

bastion-navigator is the retrieval service of a RAG platform. It indexes
documents in a vector store (Qdrant), and answers searches over the collections
that a permission service (Vault) lets the caller read. `src/navigator/` is the
service, in Python; `src/internal/` and `src/cmd/` hold a smaller Go service that
does the same searches without indexing, rounds or federation.

This directory has TLA+ modules of the service's own logic, TLC configurations
that check them on small instances, and proofs, checked by TLAPS, of what holds
for every value of the constants. Paths below are relative to `src/`.

## 1. Inventory

For each part: its state, its operations, whom it talks to, what is hard about
it, and what makes it correct.

**Document indexing** (`navigator/orchestrator.py:371-448, 577-680`,
`navigator/searcher.py:178-245`). State: none of its own; the points in the
vector store. Operations: `index_document` (chunk, embed, create the collection
when it is missing, upsert, update the topic centroid), `delta_index_document`
(compare the stored hash, skip or count, delete, index), and
`update_document_purposes` (patch the payload of every chunk). Each is a sequence
of separate calls to the store and to the embedding service. The REST handlers
run in FastAPI's thread pool and the gRPC handlers in a pool of ten threads.
Hard: two requests for one document interleave; a call in the middle fails or the
process is killed; what was read (the hash, whether a collection exists) is stale
when it is used. Correct when a document is stored whole, from one version, or
not at all; when an answer tells the truth; when a document that a failed re-index
removed is stored again by the next request for it.

**Embedding cache** (`navigator/embedder.py:81-101`). State: a dict from text to
vector. Operation: `embed`. Used by every search and index handler and by the
threads of a decomposed search, without a lock. Hard: between any two operations
on the dict another thread runs. Correct when the cache is bounded and never makes
an embedding fail that the service answered.

**Permissions and collection scope** (`navigator/orchestrator.py:316-357, 465-511`,
`navigator/vault_client.py`, `navigator/router.py:105-206`). State: none between
requests. Operations: ask Vault for each of the user's roles, intersect with what
the caller supplied, map categories to collections, let the router pick some. Hard:
Vault fails for one role after it answered for others; three switches
(`vault.enabled`, `server.trust_caller_permissions`, `modular_rag.enabled`); the
fallback of the router when it selects nothing. Correct when a search reads nothing
that is not granted, and nothing at all when Vault could not be asked.

**Search pipeline** (`navigator/orchestrator.py:83-314, 450-463, 515-573, 682-803`,
`navigator/evaluator.py`, `navigator/decomposer.py`, `navigator/reranker.py`).
State: that of one request: the round, the best results, the documents of the last
round, the deadline. Operations: a round (embed, search, rerank or cut, filter by
purpose, merge, evaluate, refine the query), and a second way to an answer that
splits the query and searches the parts in parallel. Hard: five reasons to end the
loop; results are cut before they are merged; sub-queries fail, and end in any order.
Correct when the loop ends, loses nothing it should keep, and respects the declared
purpose.

**Federation** (`navigator/federation.py`, `navigator/grpc_server.py:116-127, 236-243`).
State: the pools of the nodes' gRPC servers. Operations: a node with low confidence
asks peers through their ordinary `Search`, waits for each until a timeout, and fuses
what came. Hard: nodes ask each other; workers wait for workers; late answers.
Correct when a query goes no further than `max_depth` and every call ends.

**Topic centroids** (`navigator/searcher.py:25-34, 136-184`). State: a mean vector and
a count for each collection, points of one sidecar collection that is created on
demand; the router compares queries with them. Operation: `update_topic_vector`, called
by every index request: check and create the sidecar, read, fold in the new vectors,
write back, without a lock, swallowing every exception. Hard: updates of one collection
overlap, updates of all collections share the sidecar, a failing read looks like no
centroid. Correct when the count is that of the vectors in the mean, when vectors are
lost only for a reason the design accepts, and when indexing never suffers.

**Chunker** (`navigator/chunker.py`). No state. Splits text, CSV, JSON and HTML into
chunks that do not cut personal data in two. Hard: windows with an overlap whose cut
is moved must still advance and cover the text; overlaps, tables, split blocks and a
merged tail in any order. Correct when the chunks read back as the document, each
under its own headings, with personal data whole, and none of them too long.

**Source connectors** (`navigator/connector.py`). Read documents that changed since a
cursor. The driver that calls them and sends the documents is not in the repository, so
nothing is assumed of how often it sends what.

**Event publisher and hooks** (`navigator/events.py:432-478`, `navigator/hooks.py:35-57`).
State: an event loop in a thread of its own and the NATS client in it; a registry of
hook handlers. Operations: connect, `publish` (dropped before the connection is up, else
scheduled on the loop), the coroutine that hands the event to the client, `close` (a
drain, scheduled too); `register` and `fire`. The handlers of the servers publish before
and after the orchestrator works, and the orchestrator publishes while it does. Hard:
the client is tested in one thread and used in another; the connection breaks,
comes back or is given up in between; events of one request cross two queues. Correct
when accepted events are lost to outages only, in order, without blocking a caller, and
when a honey token raises its alert in any case.

**HyDE, token rewriter** (`navigator/hyde.py`, `navigator/token_rewriter.py`). Text in,
text out.

**REST and gRPC servers, authentication** (`navigator/rest.py`, `navigator/grpc_server.py`,
`navigator/auth.py`). Decode a request, call the orchestrator, publish events.

**Configuration, start-up, metrics, client** (`navigator/config.py`, `main.py`,
`metrics.py`, `models.py`, `cli.py`). Data, wiring and output.

**Go service** (`internal/`, `cmd/`). A search of all collections in one pass; its Vault
client, with a cache of permissions behind a mutex (`internal/vault/vault.go`,
`internal/cache/cache.go`), is asked for nothing but a filter over no categories
(`internal/orchestrator/orchestrator.go:99`). The repository has a `main` for its command
line only.

The parts meet as follows. A handler (REST, gRPC) calls the orchestrator, or the
federated orchestrator, which calls the orchestrator first and peers after it. A
search goes through scope, rounds or sub-queries, and response; every round calls the
embedding cache and the store. Indexing calls the chunker, the embedding cache and the
store. The only state that requests share is the store, the cache, the worker pools of
the servers and the connection of the publisher.

## 2. Modules

| module | what it models |
| --- | --- |
| `DocIndex` | indexing against the store, one action per call |
| `Replacement` | what indexing promises a reader: one version is removed before another is put |
| `DocIndexProofs` | proofs about `DocIndex`: for any requests, and then for serial delta requests |
| `EmbedCache`, `EmbedCacheProofs` | the embedding cache, one action per operation on the dict |
| `SearchScope`, `SearchScopeProofs` | permissions and collection scope |
| `SearchRounds`, `SearchRoundsProofs` | the re-search loop and the decomposed search |
| `Federation`, `FederationProofs` | who asks whom, the worker pools, timeouts |
| `Publisher`, `PublisherProofs` | the events and hooks of requests, from the handlers to NATS |
| `Topic`, `TopicProofs` | the topic centroids under concurrent updates |
| `Chunker`, `ChunkerProofs` | `chunk_document`: how a document's text becomes chunks |
| `MC...` | the instances TLC checks |

### DocIndex

`store[c][d][i]` is the chunk of index `i` of document `d` in collection `c`. A point's
id is a hash of the document's id and the chunk's index (`orchestrator.py:410-412`), so
an upsert replaces the point with the same index: `Overwrite`. Of a chunk are kept the
content it comes from, which stands for its `content_hash`, and its
`permitted_purposes`. `Chunks` says how many chunks a content has, zero included
(`orchestrator.py:398-399` returns early: `IndexEntry`).

A worker's `pc` is the next call its handler makes:

| pc | call | action |
| --- | --- | --- |
| `hash` | `_get_stored_hash`, which asks for one point and answers `None` when the call fails | `ReadHash`, `ReadHashFails` |
| `count` | `count_by_document`, which raises when there is no collection | `CountOld` |
| `delete` | `delete_by_document` | `DeleteOld` |
| `check`, `create` | `collection_exists`, `create_collection` of `ensure_collection` | `CheckCollection`, `CreateCollection` |
| `upsert` | `upsert` | `Upsert` |
| `topic` | `update_topic_vector`, which swallows exceptions | `UpdateTopic`, `UpdateTopicFails` |

`CallFails` is an exception at any of these (the embedding service's is at `check`),
`Crash` a restart of the service, `UpdatePurposes` the steward's request, which is one
call. `Serial` is an assumption about callers: whoever sends requests for a document
waits for the answer before sending the next one. The code does not enforce it; the
runs and theorems that need it say so.

### EmbedCache

`position[x]` is the place of text `x` in the dict's order, 0 when it is absent.
`embed` is split at every operation on the dict: `in` (`Lookup`), the read (`Get`),
`len` (`CheckSize`), `iter` (`MakeIter`), `next` (`NextKey`), `pop` (`Pop`), the
assignment (`Store`). Python runs each of them without switching threads, and may switch
between any two. The exceptions are those of Python: `KeyError` for a missing key,
`RuntimeError` when the dict changed its size during an iteration, `StopIteration` when it
is empty; all of them end in `cacheFailed`. `EmbedInner` is the call to the service,
which answers or raises. `crossed` is a history variable: the threads during whose call
another thread evicted or stored something.

### SearchScope

One search, from the request to the collections it reads. `TakeSupplied`, `AskVault`,
`FetchRole`, `VaultFails` and `Narrow` are the branches of `_resolve_permissions` and
`allowed_categories`; `MapToCollections` is `_collections_for_categories`; `Route` is
`_do_route`. Vault answers for the roles in any order here, one after the other in the
code: the union is the same. `config` has the three switches and never changes. The router's choice is any non-empty part of the collections
it is given (`Picks`): both of its selectors fall back to all of them.

### SearchRounds

One search, from its collections to the response. A round's search is outside the
module: it finds any set of at most `MaxFound` hits (`Findings`). A hit is a document, a
score and whether its payload permits the purpose. `Round` is one pass of the loop's body
from the embedding to the evaluation, merge and duplicate check included (`Absorb`,
`Judge`); nothing else runs in between that could change the request's state, so it is one
action. `TimesOut` is the deadline check at the top of the loop. The evaluator's coverage
test depends on words: where the score is high enough, either outcome is possible
(`Verdicts`). The decomposed search is `StartSubQueries`, then `SubQueryEnds` or
`SubQueryFails` for each part in any order, then `RespondMerged`. `seen` is a history
variable for the properties.

### Federation

A call is the chain of nodes it went through, so two calls to one node are different
calls. `Accept` takes a worker of the node's pool; a worker is held until the handler
ends, also while it waits for peers. `TimeOut` is `asyncio.wait_for`: a call that no
worker took is cancelled, one that runs goes on for nobody. The first node is asked by
a client over REST and needs no worker. `HopDepth` and `Origin` are what the gRPC
handler gives the orchestrator: the defaults.

### Chunker

A document is the sequence of blocks `_parse_blocks` finds: headings with a level,
tables, and text (paragraphs and code fences, which the code does not tell apart after
parsing). A character is the pair of its block and its place in it, so it can be
followed into the chunks; `White` is white space. `Heading`, `Table` and `TextBlock`
are the three branches of the loop over blocks, `Cut` and `CutEnds` the loop of the
hard cut in `_split_oversized`, `Place` the loop over parts in `_append_text_block`,
`Finish` the last flush with the merge of a small tail. `SafeCut` is what the docstring of
`_safe_cut` promises, the first position from `pos` on that is inside no span, and
`SafeCutLoop` its loop (`PastSpan` for each span, with the early `break`): the theorem
`LoopIsSafeCut` has that the loop keeps the promise, and `LoopAssumption` of `MCChunker`
evaluates both for every three spans of a small text. `punkt` says
whether NLTK's tokenizer is installed; when it is, parts are whole sentences (`Pack`,
`PackSentence`). What a sentence is depends on a trained model: here one ends at every
white space of a block (`gaps`), and white space inside a sentence is not modelled. A span of
personal data is found where all of it stands (`Spans`); patterns that also match a part
of it are not modelled. Spans may overlap: `Stretches` has the lengths of what they cover
together, by which a cut may be moved. A heading is a level and a title, and the merge of
the tail compares titles. `PathOf` is the path at a block by the rule of the code;
`IsAncestry`, which `AncestorsOnly` compares it with, is written without that rule: the
headings before the block that no heading of the same or a higher level has closed.

`PIIWhole` is about spans that are `Unbroken`. With the tokenizer, a span in which a
sentence ends is taken apart by `_pack_sentences`: the docstring of `_split_oversized`
(`chunker.py:307-309`) has the guard on the character-level fallback only. A span that
begins or ends with white space may lose that when a chunk is stripped.

`SizesAssumption` has `OverlapChars < MaxChars`. The code does not check it; with an
overlap as long as a window the hard cut would never end. The defaults, 120 and 1200,
satisfy it.

### Publisher

A handler thread is `phase` and `steps`, what it still has to do: `Steps` lists, for each
endpoint, the publishing, the firing of hooks and the work of the orchestrator, in the
order of the code. What a search publishes while it runs depends on its
configuration, its purpose and its results; `Shape` has it as a sequence of event types
(`lineage`), so any of them is possible. `Publish` is the test of the client at
`events.py:462`, `Schedule` the `run_coroutine_threadsafe` at line 464: another thread may
run between them. `loop` is the queue of coroutines, `Run` and `RunDrain` execute its first.
`_publish` (line 466) has no `await` that yields before the client has buffered the
event, so it is one step; `nc.publish` raises when its buffer is full while it
reconnects, after it has given up, and after a drain began, and `_publish` swallows
that.

External, and modelled by what the code relies on: `nc` is the state of the NATS client
(`Connect`, `ConnectFails`, `ConnectionLost`, `Reconnect`, `GiveUp`, `DrainEnds`),
`pending` its buffer and what is on the wire, `delivered` what the server received.
A broken connection loses any prefix of `pending`, which had been written. `broken`,
`refused`, `accepted`, `beforeClose` and `atBegin` are history variables that the
properties read. Hook handlers run in threads of their own and may raise; only that
they are called is kept (`calls`).

### Topic

An update's `pc` is the next call of `update_topic_vector`: `collection_exists`,
`create_collection`, `retrieve`, `upsert`. A centroid is the set of vectors it is the mean
of, with the stored count beside it, so an overwritten update is visible as vectors
that are missing. `Batch` gives each update its vectors, no vector twice. `DocIndex` has
the update as one step (`UpdateTopic`), since no property of documents depends on it;
here it is taken apart, without the documents. `CallFails` is any call that raises, with or
without having taken effect (a `create_collection` that raises may have created the
sidecar); `ReadFails` is the read, whose exception `_get_topic_raw` swallows itself.
`overlap`, `creator`, `blind` and `faulted` are history variables: which updates ran
together, which one created the sidecar, whose read failed, and what else failed.

## 3. Runs

Passing runs:

| run | question | instance |
| --- | --- | --- |
| `DocIndex_serial` | with delta requests, one at a time for each document, is every document whole or absent, are answers true, is `Replacement` implemented, does the next request for a lost document store it again? | two workers, one document, two collections of which one exists, contents of 0, 1 and 2 chunks, two purpose sets, two faults |
| `DocIndex_concurrent` | what holds with plain and delta requests in any order? | the same without serialisation, one purpose set, one fault |
| `EmbedCache_threads` | by how much can the cache exceed its limit, and when does it raise? | three threads, four texts, a limit of one |
| `SearchScope_vault` | is what is searched bounded by whoever decides, and does Vault fail closed? | all eight configurations; three categories, two with a collection, two roles, all grants |
| `SearchRounds_loop` | does the loop end with the best of what it merged, permitted hits only, and does a failed sub-query cost only its own results? | three documents, scores 0-2, top two, three rounds, two sub-queries |
| `Chunker_blocks` | do the chunks read back as the document, under the right headings, with personal data whole and bounded sizes, does the hard cut end, and is a path the ancestors? | all documents of at most four blocks out of three headings of two levels, a table, a short text and a long one; windows of 6, overlap of 1, smallest chunk of 3; with and without tokenizer |
| `Federation_timeouts` | do all calls end when pools are exhausted? | three nodes that are all peers and a fourth that asks nobody, two peers at most, pools of one worker, two hops |
| `Publisher` | which events are lost, in what order do the others arrive, are alerts raised, does a caller ever wait? | a search with a honey token and an embedding request, one hook, a buffer of one event while reconnecting, one close |
| `Topic` | what do concurrent updates lose, and can they harm an index request? | two updates of one collection, one of another, an empty one, any failures and crashes |

Runs that find a disagreement between the code and what the repository says of it:

| run | what it shows |
| --- | --- |
| `DocIndex_race` | two concurrent delta requests for one document leave chunks of both versions (`orchestrator.py:603, 617`), where `docs/source-connectors.md:185` promises no mixed-version window |
| `SearchRounds_purpose` | a decomposed search never filters by purpose (`orchestrator.py:121, 515-573`; the loop does, line 213) |
| `Federation_loop` | the gRPC handler drops the headers that every peer call carries (`grpc_server.py:121`), so the depth limit and the origin check never apply |

Why the bounds are enough. In `DocIndex` chunks of different documents are never
touched by one call, so one document shows what can happen to any; the second
collection is there because creating one on demand is a race of its own. Contents of
none, one and two chunks are the shapes that differ: nothing to store, something
overwritten, something left over. Two workers give every race of two calls; the proofs
cover any number. A second fault lets a re-index fail and its repair fail too. In `EmbedCache` the third thread
and the fourth text let two threads pass the size check while a third evicts. In
`SearchRounds` the third round is the first with two merges before it, and three
documents for two places make every cut lose something. In `Federation`, three nodes with two
hops are the smallest mesh in which two workers wait for each other on behalf of one client: b, asked
by a, asks c, whose only worker waits for b. The fourth node gives a three peers, of
which it may ask two. `MaxHops` and `MaxFaults` are bounds of
the models, not of the code; so are `MaxFound` and the sizes of the sets.

In `Chunker` four blocks give every order of three kinds of steps and a tail. The long text has three
spans of personal data: the first cut falls into the first, the position behind it into the
second, which overlaps with it, and the first window that a wrong cut would start falls into
the third, in which a sentence ends. Two short texts fill
a window exactly, and a small tail may come after a text or after a table. The proofs
cover documents of any length and any sizes.

In `Publisher` one search and one other request give events of one handler in order
and of two handlers in any order; the search publishes three events and fires a hook, so it
has events before, during and after any change of the connection, and its only result
comes from a peer, so that its own search publishes nothing and the instance stays small.
A buffer of one overflows. The handlers' other shapes differ in the number and the types of
events only, and the proofs cover every shape, number of requests and buffer size.
`close` is called at most once. The connection may break and come back any number of
times: what is lost is bounded by the events there are. In `Topic` three updates are two of
one collection, which lose vectors, and one of another, which races them for the sidecar.

In `SearchScope` the three switches are part of the initial state, so one run covers all
eight configurations.

Fairness. `DocIndex!FairSpec` has weak fairness of the steps of each handler (a thread
runs on, and every call to the store returns or raises) and of nothing else: not of faults,
of the steward, nor of requests. `ResendRepairs` has a request in its hypothesis, and
says nothing of a document that nobody sends again. `Federation!FairSpec` has weak fairness
of the handlers, of `Accept` and of `TimeOut`: `asyncio.wait_for` fires at the latest
after `peer_timeout_ms`. `Publisher!FairSpec` has weak fairness of each handler's steps
(the system runs its thread; that the orchestrator answers or raises is `Work` and
`Raise`), of the loop (`Run`, `RunDrain`: `run_forever` in a thread of its own) and of
`Receive`, the client's flusher on a connection that is up. Nothing is assumed of
the connection: `EventuallyReceived` has that it stays up as its hypothesis, and
`CallersEnd` holds whatever it does. The other modules check safety only.

`SearchRounds`, `SearchScope` and `Chunker` stop when the work is done, and `Federation`
when every call has ended; an explicit stuttering action (`Done`, `Finished`) says so,
and deadlock is checked in these and in the runs of `DocIndex` and `EmbedCache`. `Publisher`
and `Topic` really stop when every request is served and nothing is queued, and their
configurations say `CHECK_DEADLOCK FALSE`.

## 4. Proofs

| theorem | says | assumes |
| --- | --- | --- |
| `DocIndexProofs!TypeCorrect` | `TypeOK` | |
| `DocIndexProofs!NoHoles` | `Contiguous`, for any workers, requests and faults | |
| `DocIndexProofs!UpsertsFindCollection` | `UpsertFindsCollection` | |
| `DocIndexProofs!WholeDocuments` | `WholeOrAbsent` | `SerialDelta` |
| `DocIndexProofs!AnswersAreCurrent` | `DeltaAnswerIsCurrent` | `SerialDelta` |
| `DocIndexProofs!Implements` | `Spec` implements `Replacement` | `SerialDelta` |
| `EmbedCacheProofs!EmbedTypeCorrect` | `TypeOK` | |
| `EmbedCacheProofs!SizeBounded` | `SizeBound` for any number of threads | |
| `EmbedCacheProofs!OnlyCrossedRaise` | `OnlyCrossedFail` for any number of threads; with one thread the cache raises nothing of its own | |
| `SearchScopeProofs!ScopeTypeCorrect` | `TypeOK` | |
| `SearchScopeProofs!SearchesWithinGrants`, `SuppliedOnlyNarrows`, `SearchFailsClosed` | `WithinGrants`, `SuppliedNarrows`, `FailsClosed` in every configuration | |
| `SearchRoundsProofs!SearchTypeCorrect`, `LoopKeepsPurpose`, `BestResultsAreBest`, `FailedSubQueriesDegrade` | `TypeOK`, `LoopRespectsPurpose`, `BestOfMergedRounds`, `FailureDegrades`, for any documents, scores, rounds and sub-queries | `Docs` is finite |
| `FederationProofs!FederationTypeCorrect` | `TypeOK`, with the bound of `max_peers_per_query` in it, for any mesh of nodes | `Nodes` is finite |
| `PublisherProofs!PublisherTypeCorrect`, `NoEventSkipped`, `NoEventVanishes`, `CloseLosesNothing`, `ReceivedInOrder` | `TypeOK`, `NoGaps`, `NothingVanishes`, `CloseKeepsAccepted`, `InOrder`, for any requests and any buffer | |
| `PublisherProofs!HoneyTokensAlert` | `AlertsRaised`, for any requests, honey tokens and hooks | |
| `ChunkerProofs!ChunkerTypeCorrect`, `TextStaysInSection`, `PathsAreAncestors`, `ChunksReadBack`, `PersonalDataWhole`, `ChunkSizesBounded`, `EveryCutAdvances` | `TypeOK`, `Located`, `AncestorsOnly`, `ReadsBack`, `PIIWhole`, `SizeBound`, `CutsAdvance`, for documents of any length and any sizes | what is said of sizes and blocks in the assumptions of `Chunker` |
| `ChunkerProofs!LoopIsSafeCut` | the loop of `_safe_cut` computes `SafeCut`, for any spans | spans sorted by their beginnings, as `_pii_spans` returns them |
| `TopicProofs!TopicTypeCorrect`, `CountsMatch`, `OnlyOwnVectors`, `LossesExplained`, `GiveUpsExplained` | the five invariants of the run, for any updates and collections | the batches are finite and disjoint |

`SerialDelta` is `Serial` together with delta requests only. It is what
`docs/source-connectors.md` has a CDC driver do, and `DocIndex_race` shows that it
cannot be dropped.

The arguments:

- `NoHoles`. `Contiguous` is stated with two indices; the inductive form, `Gapless`,
  says that each document's chunks are those below some length. An upsert writes an
  initial segment over an initial segment, a deletion leaves none, and a patch of the
  purposes changes no index, so no interleaving matters.
- `WholeDocuments`. `WholeOrAbsent` is not inductive: it says nothing of what a worker
  that is about to upsert will find. `SerialInv` adds that two busy workers serve
  different documents, that the document of a worker between `delete` and `upsert` is absent,
  and that it is the one that was sent when the worker answers. The upsert then writes over
  nothing and the document is `Image`.
- `AnswersAreCurrent` follows from the same invariant; the case of a skipped
  request is where `WholeOrAbsent` is used: all chunks have one hash, so whichever one
  the store returns speaks for the document.
- `Implements`. `Held` maps a document to its first chunk. Under `SerialInv` an upsert
  starts from an absent document and a deletion ends in one; every other step is
  a stutter of `Replacement`, or a patch of the purposes of the version that is held.
- `SizeBounded`. `SizeInv` counts the threads that have passed the size check and have
  not stored yet: size plus these is at most the limit plus the other threads.
- `OnlyCrossedRaise`. `CrossInv` says at each location what the lookup, the size check and
  the iterator found, and that it still holds, for each thread that no other one has
  crossed. A step of a thread that changes the dict marks the others as crossed; a step
  that does not leaves what they found as it was.
- `SearchesWithinGrants` and the other two. `ScopeInv` says at each location which part of the decision has
  been made: what has been fetched is part of the grants, Vault has failed only where
  nothing is allowed, and the scope stays inside the permissions through the router.

- `UpsertsFindCollection` is inductive as it stands: collections are only created, and
  the location `upsert` is entered from a check that saw the collection or from the call
  that created it.
- `LoopKeepsPurpose`. `PurposeInv` says that the best results so far are permitted; the
  merge and both cuts only ever keep hits of the two sides.
- `BestResultsAreBest`. `BestOfMergedRounds` speaks of the response; `BestInv` says of the
  running `best` that it has one hit for each document and that for every hit seen it has
  one as good of the same document, or is full of hits at least as good (`StandsFor`).
  The lemmas are that of the cut (the top of a set stands for all of it) and that of the
  union (what stood for a hit still does when better ones push it out), by cardinality of
  finite sets.
- `FailedSubQueriesDegrade`. `SubInv` adds that once a sub-query has found something the
  merged set is not empty: a fusion keeps a hit of each document.
- `NoEventSkipped`. `OfferInv`: no event is accepted without a client, a client never
  becomes none again, so what is accepted of a request is everything from its first
  accepted event on.
- `ReceivedInOrder`. `OrderInv`: what was received, what the client holds and what the
  loop holds are three sorted parts, each behind the one before. An outage cuts a
  prefix of the middle part, giving up cuts all of it, and neither moves an event past
  another one.
- `NoEventVanishes` is inductive once the types are known. `CloseLosesNothing`:
  `CloseInv` says that the drain is behind everything accepted before `close`, so that the
  client drains only when none of it is left in the loop.
- `FederationTypeCorrect`. The bound on peers is not inductive: it does not say that a
  handler asks once. `FedInv` adds that a handler whose own search has not ended has asked
  nobody; the peers it then asks are as many as it picked, since appending a node to a chain is
  injective and no other chain goes back to it (`FrontOfAppend`).
- `CountsMatch` and the others of `Topic`. `FoldInv` says that what is stored, and what a
  running update has read, has the right count and comes from updates that ended: an
  update never folds into its own vectors, and the union in `Fold` is disjoint.
  `LossInv` says that what an update is about to write back has the vectors of every
  other update that ended, or their loss is explained. `GiveUpInv` says that whoever goes
  to create a sidecar that exists met its creator: another update, which created it
  and ran at the same time.

- `HoneyTokensAlert`. `AlertsRaised` counts calls when nothing is left to do. `AlertInv`
  says at every moment which calls there are: `steps` is what is left of the request's
  steps, its last ones, and a hook that was registered at the beginning was called at
  each alert among the others, told apart by the number of steps that were left then. `NoAlerts` and
  `SearchAlerts` say where in `Steps` the alerts are, and `AllRaised` counts them by a
  bijection.
- The properties of `Chunker` rest on four inductive invariants, one over the other.
  `Sections` has the types, and that all that is in hand (the buffer, the parts, what
  remains) is text from under the current path: `TextStaysInSection` is in it.
  `HierarchyStep` adds that the path is the hierarchy of the open headings when no level
  is skipped; it is an induction over the blocks, apart from the loop, since `PathOf`
  depends on the document only.
- `ChunkSizesBounded`. `Lengths` bounds the parts, and the buffer by an overlap and its blank
  lines more; what remains of a block that is cut is the end of that block, at its place, so that the
  spans found in it are the document's and a cut passes one stretch of them at most
  (`CutLength`). `EveryCutAdvances` needs only that a cut is never before `MaxChars`.
- `ChunksReadBack`. A text is `Orderly` after what was read before when one reads in it no
  character of the document before all that precede it there. Concatenation, padding and stripping
  keep this. `Order` says that the chunks, then the buffer, then the parts, then what
  remains are orderly, each after the ones before, and have all characters of the
  blocks the loop is past: an overlap was read before, and may be read again.
- `PersonalDataWhole`. `Whole` says that an unbroken span of a block that the loop has reached
  is whole somewhere: in a chunk, in a piece of the buffer, in a part, or in what remains.
  Where it is in what remains, a cut is not inside it (`SafeCut`), so it is on one side.
- `LoopIsSafeCut`. `Moved` is the invariant of the loop: the position is `pos` or the end of
  a span already seen, it is inside none of those, everything from `pos` up to it is inside one,
  and after the `break` it is inside no later span either, since these begin at it or beyond.
- Sequences of sequences, sentences and paths are defined by recursive functions, and what they
  are for every document is proved by induction in the form of sets: a set of numbers that has 0
  and, with each number, the next one, has them all (`Induction`, from the
  well-foundedness of the naturals), and the same for sequences (`SeqInduction`). The
  induction theorems of the library take an operator as a parameter, which the provers
  at hand cannot instantiate. `Recursion` has that a function by recursion on numbers exists.

What TLC shows on its instances only: the liveness properties (`ResendRepairs`,
`EveryCallEnds`, `CallersEnd`, `EventuallyReceived`), since they need fairness
and `ENABLED`, which the prover does not handle; and that the three runs that expect a
violation find one.

## 5. Seen while modelling

Differences between the code and the documents that no run is spent on, and details
worth a reviewer's time:

- A plain `index_document` of a shorter version leaves the chunks of the longer one
  with higher indices (`orchestrator.py:435`), where `docs/logical-partitioning.md:333`
  says that re-indexing does not accumulate orphans. A later delta request for the longer
  version may then read its hash from the orphan and be skipped (`orchestrator.py:592`).
- A delta request that fails after its deletion leaves its document absent until it is sent
  again (`orchestrator.py:603-617`). A driver that polls with `since=last_run`, as in the trace
  of `docs/source-connectors.md:421`, does not send it again while it is unchanged at its
  source: `connector.py:55-56` yields only what was updated after that time.
- A delta request with another category leaves the old version in its old collection:
  `delete_by_document` is called for the new one (`orchestrator.py:603`).
- `count_by_document` raises when the collection is missing, so a delta request never
  creates one; `CountOld` has this.
- `docs/logical-partitioning.md:97-137` shows `_resolve_permissions` and
  `_collections_for_categories` as they are no longer. It has categories that the caller
  supplies returned without asking Vault (lines 103-105), a request
  without a user search all collections (lines 109-110 and 118-125), and categories
  without a collection do the same (lines 135-136). The code asks Vault unless the caller is
  trusted, denies a request without a user when Vault is enabled, and takes an empty list for a
  decision (`orchestrator.py:473-511`), which is what the docstring and the service's
  `README.md:68-72` say. `WithinGrants`, `SuppliedNarrows` and `FailsClosed` state those rules.
- The embedding cache evicts the text inserted first, also one just used
  (`embedder.py:96`): first in, first out, where line 82 and the SRS say LRU.
- Two threads are enough to make the embedding cache raise although the service answered:
  the text found at `embedder.py:90` may be evicted before line 92 reads it
  (`KeyError`), and the iteration and the `pop` of line 96 raise when another
  thread changed the dict. `OnlyCrossedFail` says that nothing else makes it raise.
- Where a level is skipped, a heading comes under the heading before it of its own
  level: `heading_path` is cut back to its first `level - 1` entries, by position
  (`chunker.py:462`), so "## A", "## B" without a first-level heading give [A, B], where
  line 373 has it be the ancestors. `AncestorsOnly` holds when no level is skipped.
- A round that finds the documents of the round before is dropped with its scores
  (`orchestrator.py:224`), before the merge that keeps the best score of each document.
- The loop counts a round before it checks the deadline (`orchestrator.py:184`):
  `total_iterations` reports one that was not run (`reported` in `SearchRounds`).
- The fusion of sub-queries weighs lists 0.7 and 0.3 in order of completion
  (`orchestrator.py:547-554`), and `_merge_best` sorts by the hits' own scores
  (`orchestrator.py:792`): the order of a fusion or of the reranker is lost there.
- `delete_by_document` and the point ids do not mention the tenant: two tenants with
  one document id and one collection share points.
- The hard cut never cuts personal data at the end of a window, but the next window
  starts an overlap before the cut, which may be inside the span
  (`chunker.py:334`): a chunk may begin with the second half of a value that is whole
  in the chunk before, where line 9 says that cuts never bisect. Only the overlap of a
  flush is guarded (line 418). `PIIWhole` says what holds.
- With the tokenizer installed nothing guards personal data in a block that is split: a
  sentence that ends inside a span puts its halves in two parts (`chunker.py:349-357`). The
  documentation speaks of character-level cuts only (`chunker.py:8-9, 307-309`).
- A code fence is a text block: it is split when it is too long and shares chunks with
  paragraphs, where `docs/logical-partitioning.md:364` has it stored as a
  chunk of its own like a table. A small tail is merged into a table too
  (`chunker.py:495-499`).
- A chunk may exceed `max_chars` by an overlap and two characters, which `projected`
  does not count (`chunker.py:437-443`), on top of what the guard adds: `SizeBound`.
- Two sections with the same headings, one after the other, count as one when the
  tail is merged (`chunker.py:498`): paths are compared by their text.
- `_rrf` keys hits by document and keeps the last one (`orchestrator.py:711, 714`): of
  several chunks of a document the lowest ranked of the second list survives.
  `rrf_merge_multi` of the federation also collapses the chunks of a document.
- A multi-hop query (`orchestrator.py:121`) publishes no `chunk_retrieved` and raises no
  `training_data_access_requested`; a batch search publishes no `honey_token_retrieved` and
  fires no hook for one (`rest.py:153-165`). `AlertsRaised` says what the code does.
- Events published before the client is connected, or after it gave up, are dropped
  without a trace (`events.py:462`, a debug message at line 474): a
  `search_completed` may arrive without its `search_started`. Once an event of a request is
  accepted, `publish` drops none of its later ones (`NoGaps`).
- `events.py:456` gives `nats.connect` a plain lambda for `error_cb`. Version 2 of nats-py
  (`pyproject.toml:14`) asks for a coroutine function there and raises otherwise, and the `except` at line 458
  then disables events for good. The client is not in the repository; `Publisher` lets `Connect`
  succeed or fail, and its properties hold either way.
- `close` while the client reconnects does nothing: `drain` raises in a coroutine whose
  result nobody reads (`events.py:478`). Nothing in `main.py` calls `close`; what is queued when
  the process ends is lost.
- A failing read of a centroid is taken for no centroid (`searcher.py:160`): the next update
  replaces all that was folded in before by its own vectors, and its count.
- A re-index folds the new vectors into the centroid and never takes the old ones out, so
  a document that is re-indexed often weighs more. The sidecar is created with cosine
  distance (`searcher.py:183`), for which Qdrant stores normalised vectors: what is read
  back is not the mean that was written.
- The Go search never asks which categories the user may read and filters by none
  (`internal/orchestrator/orchestrator.go:99`), where the comment above it has a permission
  filter in the pipeline.
- The Go permission cache is built with a TTL that nothing reads
  (`internal/vault/vault.go:85`).

## 6. Not modelled

- Tenants, partitions and payload fields other than the hash and the purposes.
- Calls to the store that take effect after their caller gave up on them. The store's
  client waits for the answer; a reply that is lost after the call took effect is
  in `CallFails`.
- The scores and the order of a fusion, the arithmetic of centroids, embeddings:
  rationals and vectors. The rules that use scores compare them, and the models keep
  the comparison. Which order is right after a fusion and a rerank is said nowhere.
- Staleness flags, HyDE, token rewriting, metrics: they change no state a property is
  about. What they publish is part of `Publisher`'s `lineage`.
- The data of events and hooks, and what hook handlers do.
- Time. A deadline is an action that may happen whenever the code checks it.
- Configuration, start-up and the command line client: data, wiring and output.
- The Go service: see the inventory. Its `cache.go` makes every call one critical section.
- The router's patterns, `cli.py`, authentication of callers, reading files and pages in
  the connectors: pure functions of text, or input and output.
- Of the chunker, how lines become blocks, character offsets, links, and what CSV, JSON
  and HTML become before they reach it.

## 7. Plan

1. *Done*: `DocIndex`, `Replacement`, `EmbedCache`, `SearchScope`, `SearchRounds`,
   `Federation`, `Chunker`, `Publisher`, `Topic`, and the proofs of section 4.
2. *Left, models*: the order of results through fusion, cut and merge, once the documents
   say what it should be; the Go service, once it has a `main` and asks for permissions.
3. *Left, proofs*: every safety property of the passing runs has a theorem. What could follow are
   statements of the operators `Fuse` and `Union` as theorems of their own.
