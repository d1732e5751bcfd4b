------------------------- MODULE SearchRoundsProofs -------------------------
(***************************************************************************)
(* Proofs about SearchRounds: for any documents, scores, number of rounds, *)
(* sub-queries and size of the answer.                                     *)
(***************************************************************************)
EXTENDS SearchRounds, FiniteSetTheorems, WellFoundedInduction, TLAPS

-----------------------------------------------------------------------------
(* Sets of hits.                                                           *)

LEMMA HitsFinite == IsFiniteSet(Hit)
<1> DEFINE S == Docs \X Scores
           T == S \X BOOLEAN
           f == [t \in T |->
                   [doc |-> t[1][1], score |-> t[1][2], permitted |-> t[2]]]
<1>1. IsFiniteSet(Scores) /\ IsFiniteSet(BOOLEAN)
  <2>1. IsFiniteSet({TRUE}) /\ IsFiniteSet({TRUE} \cup {FALSE})
    BY FS_Singleton, FS_AddElement
  <2>2. BOOLEAN = {TRUE} \cup {FALSE}
    OBVIOUS
  <2>3. QED
    <3>1. MaxScore \in Int /\ 0 \in Int
      BY BoundsAssumption
    <3>2. IsFiniteSet(0 .. MaxScore)
      BY <3>1, FS_Interval
    <3>3. QED
      BY <2>1, <2>2, <3>2 DEF Scores
<1>2. IsFiniteSet(T)
  BY <1>1, DocsAssumption, FS_Product
<1>3. f \in Surjection(T, Hit)
  <2>1. f \in [T -> Hit]
    BY DEF Hit
  <2>2. ASSUME NEW h \in Hit PROVE \E t \in T : f[t] = h
    <3>1. <<<<h.doc, h.score>>, h.permitted>> \in T
      BY DEF Hit
    <3>2. f[<<<<h.doc, h.score>>, h.permitted>>] = h
      BY <3>1 DEF Hit
    <3>3. QED
      BY <3>1, <3>2
  <2>3. QED
    BY <2>1, <2>2 DEF Surjection
<1>4. QED
  BY <1>2, <1>3, FS_Surjection

LEMMA SubsetsFinite ==
  ASSUME NEW hits \in SUBSET Hit
  PROVE  IsFiniteSet(hits) /\ Cardinality(hits) \in Nat
BY HitsFinite, FS_Subset, FS_CardinalityType

LEMMA MinOfTwo ==
  ASSUME NEW a \in Nat, NEW b \in Nat
  PROVE  Min({a, b}) = IF a <= b THEN a ELSE b
<1>1. \E x \in {a, b} : \A y \in {a, b} : x <= y
  OBVIOUS
<1>2. Min({a, b}) \in {a, b} /\ \A y \in {a, b} : Min({a, b}) <= y
  BY <1>1 DEF Min
<1>3. QED
  BY <1>2

LEMMA NatHasLeast ==
  ASSUME NEW S \in SUBSET Nat, S # {}
  PROVE  \E x \in S : \A y \in S : x <= y
<1>1. PICK x \in S : \A y \in S : ~ (<<y, x>> \in OpToRel(<, Nat))
  BY NatLessThanWellFounded, WFMin
<1>2. \A y \in S : ~ (y < x)
  BY <1>1 DEF OpToRel
<1>3. QED
  BY <1>2

LEMMA BestExists ==
  ASSUME NEW hits \in SUBSET Hit, NEW d \in DocsOf(hits)
  PROVE  /\ BestHit(hits, d) \in hits /\ BestHit(hits, d).doc = d
         /\ \A g \in hits : g.doc = d => g.score <= BestHit(hits, d).score
<1> DEFINE mine == {h \in hits : h.doc = d}
           below == {MaxScore - h.score : h \in mine}
<1>1. \A h \in hits : h.score \in Nat /\ h.score <= MaxScore
  BY BoundsAssumption DEF Hit, Scores
<1>2. below \in SUBSET Nat /\ below # {}
  BY <1>1, BoundsAssumption DEF DocsOf
<1>3. PICK x \in below : \A y \in below : x <= y
  BY <1>2, NatHasLeast
<1>4. PICK h \in mine : x = MaxScore - h.score
  BY <1>3
<1>5. \A g \in mine : g.score <= h.score
  BY <1>1, <1>3, <1>4, BoundsAssumption
<1>6. \E b \in hits :
         b.doc = d /\ \A g \in hits : g.doc = d => g.score <= b.score
  BY <1>4, <1>5
<1>7. QED
  BY <1>6 DEF BestHit

\* _merge_best before its cut: every document once, with its best score.
LEMMA UnionKeepsBest ==
  ASSUME NEW old \in SUBSET Hit, NEW new \in SUBSET Hit
  PROVE  /\ Union(old, new) \subseteq old \cup new
         /\ \A h \in old \cup new : \E u \in Union(old, new) :
               u.doc = h.doc /\ u.score >= h.score
         /\ \A u, v \in Union(old, new) : u.doc = v.doc => u = v
<1> DEFINE D == DocsOf(old \cup new)
           fromOld(d) == \/ d \notin DocsOf(new)
                         \/ /\ d \in DocsOf(old)
                            /\ BestHit(old, d).score >= BestHit(new, d).score
           kept(d) == IF fromOld(d) THEN BestHit(old, d) ELSE BestHit(new, d)
<1>1. Union(old, new) = {kept(d) : d \in D}
  BY DEF Union
<1>2. ASSUME NEW d \in D
      PROVE  /\ kept(d) \in old \cup new /\ kept(d).doc = d
             /\ \A h \in old \cup new : h.doc = d => kept(d).score >= h.score
  <2>1. d \in DocsOf(old) \/ d \in DocsOf(new)
    BY DEF DocsOf
  <2>2. \A h \in old \cup new : h.score \in Nat
    BY BoundsAssumption DEF Hit, Scores
  <2>3. \A h \in old : h.doc \in DocsOf(old)
    BY DEF DocsOf
  <2>4. \A h \in new : h.doc \in DocsOf(new)
    BY DEF DocsOf
  <2>5. d \in DocsOf(old) =>
           /\ BestHit(old, d) \in old /\ BestHit(old, d).doc = d
           /\ \A g \in old : g.doc = d => g.score <= BestHit(old, d).score
    BY BestExists
  <2>6. d \in DocsOf(new) =>
           /\ BestHit(new, d) \in new /\ BestHit(new, d).doc = d
           /\ \A g \in new : g.doc = d => g.score <= BestHit(new, d).score
    BY BestExists
  <2>7. CASE fromOld(d)
    <3>1. d \in DocsOf(old) /\ kept(d) = BestHit(old, d)
      BY <2>1, <2>7
    <3>2. QED
      BY <2>2, <2>3, <2>4, <2>5, <2>6, <2>7, <3>1
  <2>8. CASE ~ fromOld(d)
    <3>1. d \in DocsOf(new) /\ kept(d) = BestHit(new, d)
      BY <2>8
    <3>2. QED
      BY <2>2, <2>3, <2>4, <2>5, <2>6, <2>8, <3>1
  <2>9. QED
    BY <2>7, <2>8
<1> HIDE DEF kept
<1>3. \A h \in old \cup new : h.doc \in D
  BY DEF DocsOf
<1>4. Union(old, new) \subseteq old \cup new
  BY <1>1, <1>2
<1>5. \A h \in old \cup new : \E u \in Union(old, new) :
         u.doc = h.doc /\ u.score >= h.score
  BY <1>1, <1>2, <1>3
<1>6. ASSUME NEW u \in Union(old, new), NEW v \in Union(old, new),
             u.doc = v.doc
      PROVE  u = v
  <2>1. PICK d \in D : u = kept(d)
    BY <1>1
  <2>2. PICK e \in D : v = kept(e)
    BY <1>1
  <2>3. u.doc = d /\ v.doc = e
    BY <1>2, <2>1, <2>2
  <2>4. QED
    BY <1>6, <2>1, <2>2, <2>3
<1>7. QED
  BY <1>4, <1>5, <1>6

\* _top_k cuts off nothing that is better than what it leaves.
LEMMA TopCut ==
  ASSUME NEW hits \in SUBSET Hit, NEW top \in TopSets(hits)
  PROVE  /\ top \subseteq hits
         /\ \A h \in top, g \in hits \ top : h.score >= g.score
         /\ top = hits \/ Cardinality(top) = TopK
         /\ top # {} \/ hits = {}
<1>1. /\ top \subseteq hits
      /\ Cardinality(top) = Min({TopK, Cardinality(hits)})
      /\ \A h \in top, g \in hits \ top : h.score >= g.score
  BY DEF TopSets
<1>2. /\ IsFiniteSet(hits) /\ Cardinality(hits) \in Nat
      /\ IsFiniteSet(top) /\ Cardinality(top) \in Nat
  BY <1>1, SubsetsFinite
<1>3. TopK \in Nat \ {0}
  BY BoundsAssumption
<1>4. Cardinality(top) = TopK \/ Cardinality(top) = Cardinality(hits)
  BY <1>1, <1>2, <1>3, MinOfTwo
<1>5. Cardinality(top) = Cardinality(hits) => top = hits
  BY <1>1, <1>2, FS_Subset
<1>6. top = {} => hits = {}
  BY <1>2, <1>3, <1>4, <1>5, FS_EmptySet
<1>7. QED
  BY <1>1, <1>4, <1>5, <1>6

\* What a round keeps is some of what it found.
LEMMA RoundKeeps ==
  ASSUME NEW found \in Findings, NEW ranked \in Ranked(found)
  PROVE  /\ Kept(ranked) \in SUBSET Hit
         /\ DocIds(Kept(ranked)) \in [Docs -> 0 .. MaxFound]
         /\ Cardinality(found) \in Nat
         /\ Purposed => \A h \in Kept(ranked) : h.permitted
<1>1. found \in SUBSET Hit /\ Cardinality(found) \in 0 .. MaxFound
  BY BoundsAssumption DEF Findings, kSubset
<1>2. Kept(ranked) \subseteq found
  BY DEF Ranked, TopSets, RerankedSets, Kept
<1>3. ASSUME NEW d \in Docs
      PROVE  Cardinality({h \in Kept(ranked) : h.doc = d}) \in 0 .. MaxFound
  <2>1. {h \in Kept(ranked) : h.doc = d} \in SUBSET found
    BY <1>2
  <2>2. QED
    BY <1>1, <2>1, BoundsAssumption, SubsetsFinite, FS_Subset,
       FS_CardinalityType
<1>4. Purposed => \A h \in Kept(ranked) : h.permitted
  BY DEF Kept
<1>5. QED
  BY <1>1, <1>2, <1>3, <1>4 DEF DocIds

\* The hits of a fusion are hits of the lists, and none is left out when there is
\* one.
LEMMA LastExists ==
  ASSUME NEW hits \in SUBSET Hit
  PROVE  LastHits(hits) \subseteq hits /\ (LastHits(hits) = {} => hits = {})
<1> DEFINE last(d) ==
             CHOOSE h \in hits :
                h.doc = d /\ \A g \in hits : g.doc = d => g.score >= h.score
<1>1. ASSUME NEW d \in DocsOf(hits) PROVE last(d) \in hits
  <2> DEFINE mine == {h \in hits : h.doc = d}
             scores == {h.score : h \in mine}
  <2>1. scores \in SUBSET Nat /\ scores # {}
    BY BoundsAssumption DEF DocsOf, Hit, Scores
  <2>2. PICK x \in scores : \A y \in scores : x <= y
    BY <2>1, NatHasLeast
  <2>3. PICK h \in mine : h.score = x
    BY <2>2
  <2>4. \A g \in mine : g.score >= h.score
    BY <2>1, <2>2, <2>3
  <2>5. \E l \in hits :
           l.doc = d /\ \A g \in hits : g.doc = d => g.score >= l.score
    BY <2>3, <2>4
  <2>6. QED
    BY <2>5
<1>2. LastHits(hits) = {last(d) : d \in DocsOf(hits)}
  BY DEF LastHits
<1> HIDE DEF last
<1>3. QED
  BY <1>1, <1>2 DEF DocsOf

LEMMA FuseKeeps ==
  ASSUME NEW first \in SUBSET Hit, NEW second \in SUBSET Hit
  PROVE  /\ Fuse(first, second) \in SUBSET Hit
         /\ Fuse(first, second) = {} => first = {} /\ second = {}
<1>1. /\ LastHits(first) \subseteq first /\ LastHits(second) \subseteq second
      /\ LastHits(first) = {} => first = {}
      /\ LastHits(second) = {} => second = {}
  BY LastExists
<1>2. second = {} => DocsOf(second) = {}
  BY DEF DocsOf
<1>3. QED
  BY <1>1, <1>2 DEF Fuse

-----------------------------------------------------------------------------
(* Rounds.                                                                 *)

\* How far a search that has not answered yet can be.
Progress ==
    /\ pc \in {"start", "sub"} => iteration = 0
    /\ pc = "start" \/ (pc = "round" /\ iteration = 0) => candidates = 0
    /\ pc = "round" => iteration < Rounds
    /\ pc \in {"start", "round"} => termination # "duplicate"
    /\ pc = "finish" => iteration > 0

\* One round, with what it keeps named.
RoundKeeping(kept) ==
    /\ pc = "round" /\ iteration < Rounds
    /\ DocIds(kept) \in [Docs -> 0 .. MaxFound]
    /\ Purposed => \A h \in kept : h.permitted
    /\ candidates' \in Nat
    /\ seen' = seen \cup kept
    /\ iteration' = iteration + 1 /\ reported' = iteration + 1
    /\ UNCHANGED <<reranking, running, merged, results>>
    /\ \/ /\ pc' = "finish" /\ termination' = "duplicate"
          /\ UNCHANGED <<prev, best>>
       \/ /\ prev' = DocIds(kept)
          /\ best' \in TopSets(Union(best, kept))
          /\ \/ pc' = "finish" /\ termination' \in {"quality_met", "max_iterations"}
             \/ /\ pc' = "round" /\ termination' = termination
                /\ iteration + 1 # Rounds

LEMMA RoundIsKeeping ==
  ASSUME Round PROVE \E kept \in SUBSET Hit : RoundKeeping(kept)
<1>a. PICK found \in Findings :
         \E r \in Ranked(found) :
            /\ Absorb(Kept(r))
            /\ candidates' = Cardinality(found)
            /\ seen' = seen \cup Kept(r)
  BY DEF Round
<1>1. PICK ranked \in Ranked(found) :
         /\ Absorb(Kept(ranked))
         /\ candidates' = Cardinality(found)
         /\ seen' = seen \cup Kept(ranked)
  BY <1>a
<1> DEFINE kept == Kept(ranked)
<1>2. /\ kept \in SUBSET Hit /\ DocIds(kept) \in [Docs -> 0 .. MaxFound]
      /\ Cardinality(found) \in Nat
      /\ Purposed => \A h \in kept : h.permitted
  BY RoundKeeps
<1>3. /\ pc = "round" /\ iteration < Rounds
      /\ iteration' = iteration + 1 /\ reported' = iteration'
      /\ UNCHANGED <<reranking, running, merged, results>>
  BY DEF Round
<1> HIDE DEF kept
<1>4. \/ /\ pc' = "finish" /\ termination' = "duplicate"
         /\ UNCHANGED <<prev, best>>
      \/ /\ prev' = DocIds(kept)
         /\ best' \in TopSets(Union(best, kept))
         /\ \/ pc' = "finish" /\ termination' \in {"quality_met", "max_iterations"}
            \/ /\ pc' = "round" /\ termination' = termination
               /\ iteration + 1 # Rounds
  <2>1. Absorb(kept)
    BY <1>1 DEF kept
  <2>2. CASE DocIds(kept) = prev
    BY <2>1, <2>2 DEF Absorb, Stop
  <2>3. CASE DocIds(kept) # prev
    BY <2>1, <2>3 DEF Absorb, Stop, Judge
  <2>4. QED
    BY <2>2, <2>3
<1>5. seen' = seen \cup kept
  BY <1>1 DEF kept
<1>6. QED
  BY <1>1, <1>2, <1>3, <1>4, <1>5 DEF RoundKeeping

LEMMA RoundsType == Rounds \in Nat \ {0} /\ Rounds <= MaxIterations
BY LoopAssumption DEF Rounds

LEMMA SearchTypeInit == Init => TypeOK /\ Progress
BY LoopAssumption DEF Init, TypeOK, Progress, PC

LEMMA SearchTypeStep ==
  TypeOK /\ Progress /\ [Next]_vars => TypeOK' /\ Progress'
<1> SUFFICES ASSUME TypeOK, Progress, [Next]_vars PROVE TypeOK' /\ Progress'
  OBVIOUS
<1> USE RoundsType, LoopAssumption DEF TypeOK, Progress, PC, loopVars
<1>1. CASE StartRounds
  BY <1>1 DEF StartRounds
<1>2. CASE StartSubQueries
  <2>1. running' \subseteq SubQueries
    BY <1>2 DEF StartSubQueries, Parts
  <2>2. QED
    BY <1>2, <2>1 DEF StartSubQueries
<1>3. CASE Round
  <2>1. PICK kept \in SUBSET Hit : RoundKeeping(kept)
    BY <1>3, RoundIsKeeping
  <2>2. best' \subseteq Hit
    <3>1. \A top \in TopSets(Union(best, kept)) :
             top \subseteq Union(best, kept)
      BY DEF TopSets
    <3>2. Union(best, kept) \subseteq best \cup kept
      BY UnionKeepsBest
    <3>3. QED
      BY <2>1, <3>1, <3>2 DEF RoundKeeping
  <2>3. TypeOK'
    BY <2>1, <2>2 DEF RoundKeeping
  <2>4. Progress'
    BY <2>1 DEF RoundKeeping
  <2>5. QED
    BY <2>3, <2>4
<1>4. CASE TimesOut
  <2>1. iteration + 1 \in 0 .. MaxIterations
    BY <1>4 DEF TimesOut
  <2>2. /\ pc' = "finish" /\ termination' = "timeout" /\ iteration > 0
        /\ reported' = iteration + 1
        /\ UNCHANGED <<reranking, iteration, prev, best, candidates, running,
                       merged, results, seen>>
    BY <1>4 DEF TimesOut, Stop
  <2>3. QED
    BY <2>1, <2>2
<1>5. CASE RoundFails
  BY <1>5 DEF RoundFails
<1>6. CASE Respond
  BY <1>6 DEF Respond
<1>7. ASSUME NEW q \in SubQueries, SubQueryEnds(q)
      PROVE  TypeOK' /\ Progress'
  <2>1. PICK found \in Findings :
           /\ merged' = IF merged = NoRound THEN found ELSE Fuse(merged, found)
           /\ candidates' = candidates + Cardinality(found)
    BY <1>7 DEF SubQueryEnds
  <2>2. found \in SUBSET Hit /\ Cardinality(found) \in Nat
    BY SubsetsFinite DEF Findings, kSubset
  <2>3. merged' \subseteq Hit
    BY <2>1, <2>2, FuseKeeps
  <2>4. QED
    BY <1>7, <2>1, <2>2, <2>3 DEF SubQueryEnds
<1>8. ASSUME NEW q \in SubQueries, SubQueryFails(q)
      PROVE  TypeOK' /\ Progress'
  BY <1>8 DEF SubQueryFails
<1>9. CASE RespondMerged
  <2>1. results' \subseteq Hit
    BY <1>9 DEF RespondMerged, TopSets, RerankedSets
  <2>2. QED
    BY <1>9, <2>1 DEF RespondMerged
<1>10. CASE MergedRerankFails
  BY <1>10 DEF MergedRerankFails
<1>11. CASE Done \/ UNCHANGED vars
  BY <1>11 DEF Done, vars
<1>12. QED
  BY <1>1, <1>2, <1>3, <1>4, <1>5, <1>6, <1>7, <1>8, <1>9, <1>10, <1>11
  DEF Next

\* Every variable keeps its type, and no more rounds are run, or reported, than
\* max_iterations.
THEOREM SearchTypeCorrect == Spec => []TypeOK
<1>1. TypeOK /\ Progress => TypeOK
  OBVIOUS
<1>2. QED
  BY SearchTypeInit, SearchTypeStep, PTL DEF Spec

-----------------------------------------------------------------------------
(* The purpose.                                                            *)

\* The inductive invariant behind LoopRespectsPurpose.
PurposeInv ==
    /\ Purposed => \A h \in best : h.permitted
    /\ pc = "answered" /\ iteration > 0 => results \subseteq best

LEMMA PurposeStep ==
  TypeOK /\ Progress /\ PurposeInv /\ [Next]_vars => PurposeInv'
<1> SUFFICES ASSUME TypeOK, Progress, PurposeInv, [Next]_vars
             PROVE  PurposeInv'
  OBVIOUS
<1> USE DEF PurposeInv, loopVars
<1>1. CASE Round
  <2>1. PICK kept \in SUBSET Hit : RoundKeeping(kept)
    BY <1>1, RoundIsKeeping
  <2>2. best' = best \/ best' \subseteq best \cup kept
    <3>1. best \in SUBSET Hit
      BY DEF TypeOK
    <3>2. Union(best, kept) \subseteq best \cup kept
      BY <3>1, UnionKeepsBest
    <3>3. QED
      BY <2>1, <3>2 DEF RoundKeeping, TopSets
  <2>3. QED
    BY <2>1, <2>2 DEF RoundKeeping
<1>2. CASE Respond
  BY <1>2 DEF Respond
<1>3. CASE RespondMerged
  <2>1. pc = "sub" /\ best' = best /\ iteration' = iteration
    BY <1>3 DEF RespondMerged
  <2>2. QED
    BY <2>1 DEF Progress
<1>4. CASE StartRounds \/ StartSubQueries \/ RoundFails \/ MergedRerankFails
  BY <1>4 DEF StartRounds, StartSubQueries, RoundFails, MergedRerankFails
<1>5. CASE TimesOut
  BY <1>5 DEF TimesOut, Stop
<1>6. CASE \E q \in SubQueries : SubQueryEnds(q) \/ SubQueryFails(q)
  BY <1>6 DEF SubQueryEnds, SubQueryFails
<1>7. CASE Done \/ UNCHANGED vars
  BY <1>7 DEF Done, vars
<1>8. QED
  BY <1>1, <1>2, <1>3, <1>4, <1>5, <1>6, <1>7 DEF Next

\* Every result of the re-search loop permits the declared purpose.
THEOREM LoopKeepsPurpose == Spec => []LoopRespectsPurpose
<1>1. Init => PurposeInv
  BY DEF Init, PurposeInv
<1>2. PurposeInv => LoopRespectsPurpose
  BY DEF PurposeInv, LoopRespectsPurpose, PurposeRespected
<1>3. QED
  BY <1>1, <1>2, SearchTypeInit, SearchTypeStep, PurposeStep, PTL DEF Spec

-----------------------------------------------------------------------------
(* The best of the rounds.                                                 *)

\* The hits of top stand for h.
StandsFor(top, h) ==
    \/ \E b \in top : b.doc = h.doc /\ b.score >= h.score
    \/ Cardinality(top) = TopK /\ \A b \in top : b.score >= h.score

Distinct(hits) == \A h, g \in hits : h.doc = g.doc => h = g

\* The inductive invariant behind BestOfMergedRounds.
BestInv ==
    /\ Distinct(best)
    /\ termination # "duplicate" => \A h \in seen : StandsFor(best, h)

LEMMA DistinctCardinality ==
  ASSUME NEW hits \in SUBSET Hit, Distinct(hits)
  PROVE  Cardinality(DocsOf(hits)) = Cardinality(hits)
<1> DEFINE f == [h \in hits |-> h.doc]
<1>1. f \in Bijection(hits, DocsOf(hits))
  BY DEF Bijection, Injection, Surjection, IsInjective, Distinct, DocsOf
<1>2. ExistsBijection(hits, DocsOf(hits))
  BY <1>1 DEF ExistsBijection
<1>3. QED
  BY <1>2, SubsetsFinite, FS_Bijection

\* There are at least as many hits of the documents of old in new as in old,
\* when new has one for each.
LEMMA AsManyHits ==
  ASSUME NEW old \in SUBSET Hit, NEW new \in SUBSET Hit, Distinct(old),
         \A h \in old : \E u \in new : u.doc = h.doc,
         \A u \in new : \E h \in old : u.doc = h.doc
  PROVE  Cardinality(old) <= Cardinality(new)
<1> DEFINE f == [u \in new |-> u.doc]
<1>1. f \in Surjection(new, DocsOf(old))
  <2>1. f \in [new -> DocsOf(old)]
    BY DEF DocsOf
  <2>2. \A d \in DocsOf(old) : \E u \in new : f[u] = d
    BY DEF DocsOf
  <2>3. QED
    BY <2>1, <2>2 DEF Surjection
<1> HIDE DEF f
<1>2. Cardinality(DocsOf(old)) <= Cardinality(new)
  BY <1>1, SubsetsFinite, FS_Surjection
<1>3. QED
  BY <1>2, DistinctCardinality

\* Merging a round and cutting to TopK keeps what the best results stand for,
\* and makes them stand for the round.
LEMMA MergeStands ==
  ASSUME NEW old \in SUBSET Hit, NEW new \in SUBSET Hit, Distinct(old),
         NEW top \in TopSets(Union(old, new)), NEW h \in Hit,
         h \in new \/ StandsFor(old, h)
  PROVE  StandsFor(top, h)
<1> DEFINE all == Union(old, new)
<1>1. /\ all \in SUBSET Hit
      /\ \A g \in old \cup new : \E u \in all :
            u.doc = g.doc /\ u.score >= g.score
  BY UnionKeepsBest
<1>2. /\ top \subseteq all
      /\ \A t \in top, g \in all \ top : t.score >= g.score
      /\ top = all \/ Cardinality(top) = TopK
  BY <1>1, TopCut
<1>3. \A g \in Hit : g.score \in Nat
  BY BoundsAssumption DEF Hit, Scores
<1> HIDE DEF all
<1>4. ASSUME NEW g \in old \cup new, g.doc = h.doc, g.score >= h.score
      PROVE  StandsFor(top, h)
  <2>1. PICK u \in all : u.doc = g.doc /\ u.score >= g.score
    BY <1>1
  <2>2. u.score >= h.score
    BY <1>1, <1>3, <1>4, <2>1
  <2>3. CASE u \in top
    BY <1>4, <2>1, <2>2, <2>3 DEF StandsFor
  <2>4. CASE u \notin top
    <3>1. Cardinality(top) = TopK
      BY <1>2, <2>4
    <3>2. \A t \in top : t.score >= h.score
      BY <1>1, <1>2, <1>3, <2>2, <2>4
    <3>3. QED
      BY <3>1, <3>2 DEF StandsFor
  <2>5. QED
    BY <2>3, <2>4
<1>5. CASE h \in new
  BY <1>3, <1>4, <1>5
<1>6. CASE \E b \in old : b.doc = h.doc /\ b.score >= h.score
  BY <1>4, <1>6
<1>7. CASE Cardinality(old) = TopK /\ \A b \in old : b.score >= h.score
  <2> DEFINE good == {u \in all : \E b \in old : u.doc = b.doc
                                               /\ u.score >= b.score}
  <2>1. good \in SUBSET Hit /\ \A u \in good : u.score >= h.score
    BY <1>1, <1>3, <1>7
  <2>2. TopK <= Cardinality(good)
    <3>1. \A b \in old : \E u \in good : u.doc = b.doc
      BY <1>1
    <3>2. \A u \in good : \E b \in old : u.doc = b.doc
      OBVIOUS
    <3> HIDE DEF good
    <3>3. QED
      BY <1>7, <2>1, <3>1, <3>2, AsManyHits
  <2>3. good \subseteq all
    OBVIOUS
  <2> HIDE DEF good
  <2>4. IsFiniteSet(all) /\ IsFiniteSet(good) /\ IsFiniteSet(top)
        /\ Cardinality(top) \in Nat /\ Cardinality(good) \in Nat
    BY <1>1, <1>2, <2>1, SubsetsFinite
  <2>5. ASSUME NEW t \in top, ~ (t.score >= h.score) PROVE FALSE
    <3>1. good \subseteq top
      BY <1>1, <1>2, <1>3, <2>1, <2>3, <2>5
    <3>2. good \in SUBSET (top \ {t})
      BY <2>1, <2>5, <3>1
    <3>3. /\ IsFiniteSet(top \ {t})
          /\ Cardinality(top \ {t}) = Cardinality(top) - 1
      BY <2>4, FS_RemoveElement
    <3>4. Cardinality(good) <= Cardinality(top) - 1
      BY <3>2, <3>3, FS_Subset
    <3>5. Cardinality(top) <= TopK
      BY <1>1, <1>2, <2>4, SubsetsFinite, MinOfTwo, BoundsAssumption
      DEF TopSets, all
    <3>6. QED
      BY <2>2, <2>4, <3>4, <3>5, BoundsAssumption
  <2>6. Cardinality(top) = TopK
    <3>1. CASE top = all
      <4>1. Cardinality(good) <= Cardinality(top)
        BY <2>3, <2>4, <3>1, FS_Subset
      <4>2. Cardinality(top) <= TopK
        BY <1>1, <1>2, <2>4, SubsetsFinite, MinOfTwo, BoundsAssumption
        DEF TopSets, all
      <4>3. QED
        BY <2>2, <2>4, <4>1, <4>2, BoundsAssumption
    <3>2. QED
      BY <1>2, <3>1
  <2>7. QED
    BY <2>5, <2>6 DEF StandsFor
<1>8. QED
  BY <1>5, <1>6, <1>7 DEF StandsFor

LEMMA BestStep ==
  TypeOK /\ Progress /\ BestInv /\ [Next]_vars => BestInv'
<1> SUFFICES ASSUME TypeOK, Progress, BestInv, [Next]_vars PROVE BestInv'
  OBVIOUS
<1> USE DEF BestInv, loopVars
<1>1. CASE Round
  <2>1. PICK kept \in SUBSET Hit : RoundKeeping(kept)
    BY <1>1, RoundIsKeeping
  <2>2. best \in SUBSET Hit /\ seen \in SUBSET Hit
    BY DEF TypeOK
  <2>3. CASE termination' = "duplicate" /\ best' = best
    BY <2>3
  <2>4. CASE best' \in TopSets(Union(best, kept))
    <3>1. termination # "duplicate"
      BY <2>1 DEF RoundKeeping, Progress
    <3>2. \A h \in seen' : StandsFor(best', h)
      <4>1. seen' = seen \cup kept
        BY <2>1 DEF RoundKeeping
      <4>2. QED
        BY <2>2, <2>4, <3>1, <4>1, MergeStands
    <3>3. Distinct(best')
      <4>1. Distinct(Union(best, kept))
        BY <2>2, UnionKeepsBest DEF Distinct
      <4>2. QED
        BY <2>4, <4>1 DEF Distinct, TopSets
    <3>4. QED
      BY <3>2, <3>3
  <2>5. QED
    BY <2>1, <2>3, <2>4 DEF RoundKeeping
<1>2. ASSUME UNCHANGED <<best, seen>>,
             termination' = "duplicate" \/ termination # "duplicate"
      PROVE  BestInv'
  BY <1>2
<1>3. ASSUME UNCHANGED <<best, seen, termination>> PROVE BestInv'
  BY <1>3
<1>4. CASE TimesOut
  BY <1>2, <1>4 DEF TimesOut, Stop, Progress
<1>5. CASE StartRounds \/ StartSubQueries \/ RoundFails \/ MergedRerankFails
           \/ Respond \/ RespondMerged
  BY <1>3, <1>5 DEF StartRounds, StartSubQueries, RoundFails,
                    MergedRerankFails, Respond, RespondMerged
<1>6. CASE \E q \in SubQueries : SubQueryEnds(q) \/ SubQueryFails(q)
  BY <1>3, <1>6 DEF SubQueryEnds, SubQueryFails
<1>7. CASE Done \/ UNCHANGED vars
  BY <1>3, <1>7 DEF Done, vars
<1>8. QED
  BY <1>1, <1>4, <1>5, <1>6, <1>7 DEF Next

\* Cutting to TopK after every round loses nothing, whatever the rounds find.
THEOREM BestResultsAreBest == Spec => []BestOfMergedRounds
<1>1. Init => BestInv
  BY DEF Init, BestInv, Distinct
<1>2. TypeOK /\ BestInv => BestOfMergedRounds
  <2> SUFFICES ASSUME TypeOK, BestInv PROVE BestOfMergedRounds
    OBVIOUS
  <2>1. Cardinality(DocsOf(best)) = Cardinality(best)
    BY DistinctCardinality DEF TypeOK, BestInv
  <2>2. QED
    BY <2>1 DEF BestInv, BestOfMergedRounds, Stands, StandsFor
<1>3. QED
  BY <1>1, <1>2, SearchTypeInit, SearchTypeStep, BestStep, PTL DEF Spec

-----------------------------------------------------------------------------
(* Sub-queries.                                                            *)

\* The inductive invariant behind FailureDegrades.
SubInv ==
    /\ pc = "sub" /\ candidates > 0 => merged # NoRound /\ merged # {}
    /\ FailureDegrades

LEMMA SubStep == TypeOK /\ Progress /\ SubInv /\ [Next]_vars => SubInv'
<1> SUFFICES ASSUME TypeOK, Progress, SubInv, [Next]_vars PROVE SubInv'
  OBVIOUS
<1> USE DEF SubInv, FailureDegrades, loopVars
<1>1. ASSUME pc' \notin {"sub", "answered"} PROVE SubInv'
  BY <1>1
<1>2. ASSUME NEW q \in SubQueries, SubQueryEnds(q) PROVE SubInv'
  <2>1. PICK found \in Findings :
           /\ merged' = IF merged = NoRound THEN found ELSE Fuse(merged, found)
           /\ candidates' = candidates + Cardinality(found)
    BY <1>2 DEF SubQueryEnds
  <2>2. /\ found \in SUBSET Hit /\ Cardinality(found) \in Nat
        /\ Cardinality(found) > 0 => found # {}
    BY SubsetsFinite, FS_EmptySet DEF Findings, kSubset
  <2>3. merged = NoRound \/ merged \in SUBSET Hit
    BY DEF TypeOK
  <2>4. /\ merged' \in SUBSET Hit
        /\ merged' = {} => found = {} /\ (merged = NoRound \/ merged = {})
    BY <2>1, <2>2, <2>3, FuseKeeps
  <2>5. candidates \in Nat /\ pc = "sub" /\ pc' = "sub"
    BY <1>2 DEF SubQueryEnds, TypeOK
  <2>6. candidates' > 0 => candidates > 0 \/ Cardinality(found) > 0
    BY <2>1, <2>2, <2>5
  <2>7. merged' # NoRound
    BY <2>4, NoRoundAssumption
  <2>8. QED
    BY <2>2, <2>4, <2>5, <2>6, <2>7
<1>3. ASSUME NEW q \in SubQueries, SubQueryFails(q) PROVE SubInv'
  BY <1>3 DEF SubQueryFails
<1>4. CASE RespondMerged
  <2>1. pc = "sub" /\ pc' = "answered" /\ candidates' = candidates
        /\ reranking' = reranking
    BY <1>4 DEF RespondMerged
  <2>2. ASSUME candidates > 0, ~ reranking PROVE results' # {}
    <3>1. merged # NoRound /\ merged # {} /\ merged \in SUBSET Hit
      BY <2>1, <2>2 DEF TypeOK
    <3>2. results' \in TopSets(merged)
      BY <1>4, <2>2, <3>1 DEF RespondMerged
    <3>3. QED
      BY <3>1, <3>2, TopCut
  <2>3. QED
    BY <2>1, <2>2
<1>5. CASE StartSubQueries
  BY <1>5 DEF StartSubQueries, Progress
<1>6. CASE Respond
  BY <1>6 DEF Respond, Progress, TypeOK
<1>7. CASE Round
  <2>1. PICK kept \in SUBSET Hit : RoundKeeping(kept)
    BY <1>7, RoundIsKeeping
  <2>2. QED
    BY <1>1, <2>1 DEF RoundKeeping
<1>8. CASE StartRounds \/ TimesOut \/ RoundFails \/ MergedRerankFails
  BY <1>1, <1>8 DEF StartRounds, TimesOut, Stop, RoundFails, MergedRerankFails
<1>9. CASE Done \/ UNCHANGED vars
  BY <1>9 DEF Done, vars
<1>10. QED
  BY <1>2, <1>3, <1>4, <1>5, <1>6, <1>7, <1>8, <1>9 DEF Next

\* While one sub-query found something, the answer is not empty.
THEOREM FailedSubQueriesDegrade == Spec => []FailureDegrades
<1>1. Init => SubInv
  BY DEF Init, SubInv, FailureDegrades
<1>2. SubInv => FailureDegrades
  BY DEF SubInv
<1>3. QED
  BY <1>1, <1>2, SearchTypeInit, SearchTypeStep, SubStep, PTL DEF Spec

=============================================================================
