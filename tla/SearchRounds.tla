---------------------------- MODULE SearchRounds ----------------------------
(***************************************************************************)
(* How a search finds its results once its collections are fixed: the      *)
(* second half of Orchestrator.search.  Either the re-search loop runs     *)
(* rounds until it has a reason to stop, or the query is split into        *)
(* sub-queries that are searched in parallel (_search_decomposed).         *)
(*                                                                         *)
(* What the store, the embedder and the reranker answer is outside the     *)
(* module: a round finds any set of hits.  A hit stands for a chunk; of    *)
(* its payload only whether it permits the declared purpose is kept.       *)
(***************************************************************************)
EXTENDS Integers, FiniteSets, FiniteSetsExt

CONSTANTS
    Docs,           \* document ids
    MaxScore,       \* scores are 0 .. MaxScore
    TopK,           \* options.top_k
    MaxFound,       \* bound on the hits one round finds
    LoopEnabled,    \* the re-search loop is configured
    MaxIterations,  \* modular_rag.loop.max_iterations
    QualityAt,      \* loop.quality_threshold
    UncertainAt,    \* loop.uncertain_low
    MinScore,       \* options.min_score
    Purposed,       \* the request declares a purpose
    SubQueries,     \* the parts the query can be split into; {} when
                    \* decomposition is off
    NoRound         \* no round has been run

Scores == 0 .. MaxScore

Hit == [doc : Docs, score : Scores, permitted : BOOLEAN]

ASSUME DocsAssumption == IsFiniteSet(Docs)
ASSUME NoRoundAssumption == \A hits \in SUBSET Hit : hits # NoRound
ASSUME BoundsAssumption ==
    /\ MaxScore \in Nat /\ TopK \in Nat \ {0} /\ MaxFound \in Nat
    /\ QualityAt \in Nat /\ UncertainAt \in Nat /\ MinScore \in Nat
ASSUME LoopAssumption ==
    /\ LoopEnabled \in BOOLEAN /\ Purposed \in BOOLEAN
    /\ MaxIterations \in Nat \ {0}
    /\ LoopEnabled => MaxIterations > 1

VARIABLES
    pc,
    reranking,    \* options.use_reranking, set by the routing strategy
    iteration,    \* rounds run
    reported,     \* total_iterations of the loop_completed event
    prev,         \* the document ids of the last round, or NoRound
    best,         \* best_results
    candidates,   \* total_candidates
    termination,
    running,      \* sub-queries whose search has not ended
    merged,       \* results of the sub-queries that have, or NoRound
    results,      \* the response
    seen          \* history: every hit a round kept

vars == <<pc, reranking, iteration, reported, prev, best, candidates,
          termination, running, merged, results, seen>>

loopVars == <<iteration, reported, prev, best, termination, seen>>

PC == {"start", "round", "sub", "finish", "answered", "error"}

\* Mutant of Rounds: one round too many.
RoundsPlusOne == IF LoopEnabled THEN MaxIterations + 1 ELSE 1

\* max_iters
Rounds == IF LoopEnabled THEN MaxIterations ELSE 1

DocsOf(hits) == {h.doc : h \in hits}

\* What the decomposer may split a multi-hop query into: two parts or more (a
\* query that stays whole is searched in rounds).
Parts == {parts \in SUBSET SubQueries : Cardinality(parts) > 1}

\* What a search of the collections can find.
Findings == UNION {kSubset(n, Hit) : n \in 0 .. MaxFound}

\* The sorted list of document ids of a round, as a bag.
DocIds(hits) == [d \in Docs |-> Cardinality({h \in hits : h.doc = d})]

\* _top_k: some choice of the TopK hits with the best scores.
TopSets(hits) ==
    {top \in SUBSET hits :
        /\ Cardinality(top) = Min({TopK, Cardinality(hits)})
        /\ \A h \in top, g \in hits \ top : h.score >= g.score}

\* The reranker orders by scores of its own: any TopK hits (a remote reranker
\* may leave some out).
RerankedSets(hits) == {top \in SUBSET hits : Cardinality(top) <= TopK}

Ranked(hits) == IF reranking THEN RerankedSets(hits) ELSE TopSets(hits)

\* _filter_by_purpose.
Kept(hits) == IF Purposed THEN {h \in hits : h.permitted} ELSE hits

\* One of the hits of d with the best score.
BestHit(hits, d) ==
    CHOOSE h \in hits : h.doc = d /\ \A g \in hits : g.doc = d => g.score <= h.score

\* Mutant of Union: a new hit always replaces the document's.
UnionNewest(old, new) ==
    {IF d \in DocsOf(new) THEN BestHit(new, d) ELSE BestHit(old, d)
        : d \in DocsOf(old \cup new)}

\* _merge_best before its cut: a new hit replaces the document's only when its
\* score is higher.
Union(old, new) ==
    {IF \/ d \notin DocsOf(new)
        \/ d \in DocsOf(old) /\ BestHit(old, d).score >= BestHit(new, d).score
     THEN BestHit(old, d) ELSE BestHit(new, d) : d \in DocsOf(old \cup new)}

\* Evaluator.evaluate looks at the first result: the best one, or whichever the
\* reranker put first.
Verdicts(hits) ==
    IF hits = {} THEN {"insufficient"}
    ELSE LET tops == IF reranking THEN hits
                     ELSE {h \in hits : \A g \in hits : g.score <= h.score}
         IN  UNION { IF h.score >= QualityAt
                     THEN {"sufficient",   \* or its coverage is too low
                           IF h.score >= UncertainAt THEN "uncertain"
                           ELSE "insufficient"}
                     ELSE IF h.score >= UncertainAt THEN {"uncertain"}
                     ELSE {"insufficient"} : h \in tops}

-----------------------------------------------------------------------------

Init ==
    /\ pc = "start"
    /\ reranking \in BOOLEAN
    /\ iteration = 0
    /\ reported = 0
    /\ prev = NoRound
    /\ best = {}
    /\ candidates = 0
    /\ termination = "quality_met"
    /\ running = {}
    /\ merged = NoRound
    /\ results = {}
    /\ seen = {}

StartRounds ==
    /\ pc = "start"
    /\ pc' = "round"
    /\ UNCHANGED <<reranking, loopVars, candidates, running, merged, results>>

\* A query the router takes for a multi-hop one falls apart.
StartSubQueries ==
    /\ pc = "start"
    /\ running' \in Parts
    /\ pc' = "sub"
    /\ UNCHANGED <<reranking, loopVars, candidates, merged, results>>

Stop(reason) == pc' = "finish" /\ termination' = reason

\* What the loop does after round n, given the verdict on it.
Judge(verdict, n) ==
    IF ~LoopEnabled \/ verdict = "sufficient" THEN Stop("quality_met")
    ELSE IF n = Rounds THEN Stop("max_iterations")
    ELSE IF verdict = "uncertain" /\ n > 1 THEN Stop("quality_met")
    ELSE pc' = "round" /\ UNCHANGED termination

\* One round that found these hits and keeps some of them: a round with the
\* same documents as the one before ends the loop, any other is merged.
Absorb(kept) ==
    IF DocIds(kept) = prev
    THEN Stop("duplicate") /\ UNCHANGED <<prev, best>>
    ELSE /\ prev' = DocIds(kept)
         /\ best' \in TopSets(Union(best, kept))
         /\ \E v \in Verdicts(kept) : Judge(v, iteration + 1)

\* Mutant of Round: the purpose is checked on what the evaluator sees only.
RoundUnfiltered ==
    /\ pc = "round"
    /\ iteration < Rounds
    /\ \E found \in Findings :
       \E ranked \in Ranked(found) :
          /\ Absorb(ranked)
          /\ candidates' = Cardinality(found)
          /\ seen' = seen \cup Kept(ranked)
    /\ iteration' = iteration + 1
    /\ reported' = iteration'
    /\ UNCHANGED <<reranking, running, merged, results>>

\* A round: embed the query, search every collection, rerank or cut, filter by
\* purpose, and let the loop go on or stop.
Round ==
    /\ pc = "round"
    /\ iteration < Rounds
    /\ \E found \in Findings :
       \E ranked \in Ranked(found) :
          /\ Absorb(Kept(ranked))
          /\ candidates' = Cardinality(found)
          /\ seen' = seen \cup Kept(ranked)
    /\ iteration' = iteration + 1
    /\ reported' = iteration'
    /\ UNCHANGED <<reranking, running, merged, results>>

\* The loop's time is up before another round: the round is counted, not run.
TimesOut ==
    /\ pc = "round"
    /\ iteration > 0
    /\ reported' = iteration + 1
    /\ Stop("timeout")
    /\ UNCHANGED <<reranking, iteration, prev, best, candidates, running, merged,
                   results, seen>>

\* A call of a round raises: the request fails, whatever earlier rounds found.
RoundFails ==
    /\ pc = "round"
    /\ pc' = "error"
    /\ UNCHANGED <<reranking, loopVars, candidates, running, merged, results>>

\* The response of the loop.
Respond ==
    /\ pc = "finish"
    /\ results' = {h \in best : h.score >= MinScore}
    /\ pc' = "answered"
    /\ UNCHANGED <<reranking, loopVars, candidates, running, merged>>

\* The hits a ranked list keeps of each document in a fusion: the last one, that
\* with the lowest score.
LastHits(hits) ==
    {CHOOSE h \in hits :
        h.doc = d /\ \A g \in hits : g.doc = d => g.score >= h.score
        : d \in DocsOf(hits)}

\* _rrf, as far as which hits are kept: one for each document, of the second
\* list when the document is in both.
Fuse(first, second) ==
    {h \in LastHits(first) : h.doc \notin DocsOf(second)} \cup LastHits(second)

\* A sub-query's search ends.  Results are taken in the order of completion.
SubQueryEnds(q) ==
    /\ pc = "sub"
    /\ q \in running
    /\ running' = running \ {q}
    /\ \E found \in Findings :
          /\ merged' = IF merged = NoRound THEN found ELSE Fuse(merged, found)
          /\ candidates' = candidates + Cardinality(found)
    /\ UNCHANGED <<pc, reranking, loopVars, results>>

\* Mutant of SubQueryFails: one failure ends the others.
SubQueryFailsAll(q) ==
    /\ pc = "sub"
    /\ q \in running
    /\ running' = {}
    /\ merged' = NoRound
    /\ UNCHANGED <<pc, reranking, loopVars, candidates, results>>

\* A sub-query's search raises: it is left out.
SubQueryFails(q) ==
    /\ pc = "sub"
    /\ q \in running
    /\ running' = running \ {q}
    /\ UNCHANGED <<pc, reranking, loopVars, candidates, merged, results>>

\* The response of the sub-queries: cut to TopK, and reranked.
RespondMerged ==
    /\ pc = "sub"
    /\ running = {}
    /\ \E top \in TopSets(IF merged = NoRound THEN {} ELSE merged) :
          results' \in IF reranking THEN RerankedSets(top) ELSE {top}
    /\ pc' = "answered"
    /\ UNCHANGED <<reranking, loopVars, candidates, running, merged>>

\* The reranker raises on the merged results, and the request fails.
MergedRerankFails ==
    /\ pc = "sub"
    /\ running = {}
    /\ reranking
    /\ merged \notin {NoRound, {}}
    /\ pc' = "error"
    /\ UNCHANGED <<reranking, loopVars, candidates, running, merged, results>>

Done == pc \in {"answered", "error"} /\ UNCHANGED vars

Next ==
    \/ StartRounds
    \/ StartSubQueries
    \/ Round
    \/ TimesOut
    \/ RoundFails
    \/ Respond
    \/ \E q \in SubQueries : SubQueryEnds(q) \/ SubQueryFails(q)
    \/ RespondMerged
    \/ MergedRerankFails
    \/ Done

Spec == Init /\ [][Next]_vars

-----------------------------------------------------------------------------

\* Types: what each variable may hold; the rounds run and reported are at most
\* max_iterations.
TypeOK ==
    /\ pc \in PC
    /\ reranking \in BOOLEAN
    /\ iteration \in 0 .. MaxIterations
    /\ reported \in 0 .. MaxIterations
    /\ prev = NoRound \/ prev \in [Docs -> 0 .. MaxFound]
    /\ best \subseteq Hit
    /\ candidates \in Nat
    /\ termination \in {"quality_met", "duplicate", "max_iterations", "timeout"}
    /\ running \subseteq SubQueries
    /\ merged = NoRound \/ merged \subseteq Hit
    /\ results \subseteq Hit
    /\ seen \subseteq Hit

\* Every result permits the purpose the request declares (MR-04-002).
PurposeRespected ==
    pc = "answered" /\ Purposed => \A h \in results : h.permitted

\* Every result of the re-search loop permits the declared purpose, whichever
\* rounds were merged and whatever the reranker or the cut put first.
LoopRespectsPurpose == iteration > 0 => PurposeRespected

\* The best results stand for every hit in hits: its document is there with a
\* score as good, or TopK documents with scores as good are.
Stands(hits) ==
    \A h \in hits :
        \/ \E b \in best : b.doc = h.doc /\ b.score >= h.score
        \/ Cardinality(best) = TopK /\ \A b \in best : b.score >= h.score

\* Cutting to TopK after every round loses nothing: after any number of rounds
\* the best results are the best of all the hits the rounds kept, each document
\* once, unless the last round was dropped as a duplicate.
BestOfMergedRounds ==
    /\ Cardinality(DocsOf(best)) = Cardinality(best)
    /\ termination # "duplicate" => Stands(seen)

\* The search of a sub-query that failed costs its own results only: while one
\* sub-query found something, the answer is not empty (a remote reranker may
\* still leave everything out).
FailureDegrades ==
    pc = "answered" /\ iteration = 0 /\ candidates > 0 /\ ~reranking
        => results # {}

=============================================================================
