---------------------------- MODULE TopicProofs ----------------------------
(***************************************************************************)
(* Proofs about Topic: for any number of updates, collections and vectors. *)
(***************************************************************************)
EXTENDS Topic, FiniteSetTheorems, TLAPS

\* The update has returned, or was given up.
Ended(u) == pc[u] \in {"done", "gaveUp"}

\* Every vector of m was folded in by an update of collection c that ended.
FoldedIn(m, c) ==
    \A x \in m : \E u \in Updates : Col[u] = c /\ x \in Batch[u] /\ Ended(u)

\* The count of a centroid is that of the vectors it is the mean of.
Counted(t) == IsFiniteSet(t.mean) /\ t.count = Cardinality(t.mean)

\* What is stored, and what an update has read, is counted right and was folded
\* in by updates that ended: an update never folds into its own vectors.
FoldInv ==
    /\ \A c \in Collections : Counted(topic[c]) /\ FoldedIn(topic[c].mean, c)
    /\ \A u \in Updates : Counted(got[u]) /\ FoldedIn(got[u].mean, Col[u])

\* What LossExplained accepts as the reason why vectors of u are missing.
Explained(u) ==
    \E v \in Updates \ {u} :
        Col[v] = Col[u] /\ (v \in overlap[u] \/ v \in blind)

\* The inductive invariant behind LossExplained: what an update is about to
\* write back has the vectors of every other update that ended, or these are
\* explained; and any two updates that run know of each other.
LossInv ==
    /\ \A u, v \in Running : u # v => v \in overlap[u]
    /\ \A u \in Updates : pc[u] = "done" =>
          Batch[u] \subseteq topic[Col[u]].mean \/ Explained(u)
    /\ \A u, v \in Updates :
          pc[u] = "done" /\ pc[v] = "write" /\ u # v /\ Col[u] = Col[v] =>
              Batch[u] \subseteq got[v].mean \/ Explained(u)

\* Update u ran while another one created the sidecar.
MetCreator(u) == \E v \in creator : v # u /\ v \in overlap[u]

\* An update that goes to create the sidecar although it is there ran while it
\* was created.
GiveUpInv ==
    /\ GiveUpExplained
    /\ \A u \in Updates : pc[u] = "create" /\ exists => MetCreator(u)

\* The inductive invariant of Topic.
TopicInv == TypeOK /\ FoldInv /\ LossInv /\ GiveUpInv

-----------------------------------------------------------------------------

\* An update that writes, whether or not the reply comes back.
Writes(u) == pc[u] = "write" /\ topic' = Written(u)

\* A fold adds the new vectors, none of which was in already, and counts them.
LEMMA FoldUnion ==
  ASSUME TypeOK, FoldInv, NEW u \in Updates, pc[u] = "write"
  PROVE  /\ Fold(got[u], Batch[u]).mean = got[u].mean \cup Batch[u]
         /\ Counted(Fold(got[u], Batch[u]))
         /\ Fold(got[u], Batch[u]) \in Centroids
<1>1. /\ got[u] \in Centroids /\ Batch[u] \in SUBSET Vectors
      /\ IsFiniteSet(Batch[u]) /\ Counted(got[u])
  BY BatchAssumption DEF TypeOK, FoldInv
<1>2. got[u].mean \cap Batch[u] = {}
  <2>1. ASSUME NEW x \in got[u].mean, x \in Batch[u] PROVE FALSE
    <3>1. PICK v \in Updates : x \in Batch[v] /\ Ended(v)
      BY <2>1 DEF FoldInv, FoldedIn
    <3>2. v # u
      BY <3>1 DEF Ended
    <3>3. QED
      BY <2>1, <3>1, <3>2, BatchAssumption
  <2>2. QED
    BY <2>1
<1>3. Cardinality(Batch[u]) \in Nat /\ Cardinality(got[u].mean) \in Nat
  BY <1>1, FS_CardinalityType DEF Counted
<1>4. /\ IsFiniteSet(got[u].mean \cup Batch[u])
      /\ Cardinality(got[u].mean \cup Batch[u]) =
            Cardinality(got[u].mean) + Cardinality(Batch[u])
  <2>1. Cardinality(got[u].mean \cap Batch[u]) = 0
    BY <1>2, FS_EmptySet
  <2>2. /\ IsFiniteSet(got[u].mean \cup Batch[u])
        /\ Cardinality(got[u].mean \cup Batch[u]) =
              Cardinality(got[u].mean) + Cardinality(Batch[u])
                - Cardinality(got[u].mean \cap Batch[u])
    BY <1>1, FS_Union DEF Counted
  <2>3. QED
    BY <1>3, <2>1, <2>2
<1>5. CASE got[u].count <= 0
  <2>1. got[u].mean = {}
    BY <1>1, <1>3, <1>5, FS_EmptySet DEF Counted
  <2>2. QED
    BY <1>1, <1>3, <1>5, <2>1 DEF Fold, Counted, Centroids
<1>6. CASE ~ (got[u].count <= 0)
  BY <1>1, <1>3, <1>4, <1>6 DEF Fold, Counted, Centroids
<1>7. QED
  BY <1>5, <1>6

\* The initial states have the types,
LEMMA TopicTypeInit == Init => TypeOK
<1>1. NoTopic \in Centroids
  BY DEF Centroids, NoTopic
<1>2. QED
  BY <1>1 DEF Init, TypeOK

\* and each step keeps them.
LEMMA TopicTypeStep == TypeOK /\ FoldInv /\ [Next]_vars => TypeOK'
<1> SUFFICES ASSUME TypeOK, FoldInv, [Next]_vars PROVE TypeOK'
  OBVIOUS
<1>1. ASSUME NEW u \in Updates, Begin(u) PROVE TypeOK'
  BY <1>1 DEF Begin, Goto, TypeOK, Running
<1>2. ASSUME NEW u \in Updates, CheckSidecar(u) \/ CreateSidecar(u)
      PROVE  TypeOK'
  BY <1>2 DEF CheckSidecar, CreateSidecar, Created, Goto, TypeOK
<1>3. ASSUME NEW u \in Updates, ReadTopic(u) \/ ReadFails(u) PROVE TypeOK'
  <2>1. topic[Col[u]] \in Centroids /\ NoTopic \in Centroids
    BY ColAssumption DEF TypeOK, Centroids, NoTopic
  <2>2. QED
    BY <1>3, <2>1 DEF ReadTopic, ReadFails, Goto, TypeOK
<1>4. ASSUME NEW u \in Updates, WriteTopic(u) PROVE TypeOK'
  <2>1. Fold(got[u], Batch[u]) \in Centroids
    BY <1>4, FoldUnion DEF WriteTopic
  <2>2. QED
    BY <1>4, <2>1, ColAssumption DEF WriteTopic, Written, Goto, TypeOK
<1>5. ASSUME NEW u \in Updates, CallFails(u) PROVE TypeOK'
  <2>1. pc[u] = "write" => Fold(got[u], Batch[u]) \in Centroids
    BY FoldUnion
  <2>2. topic' \in [Collections -> Centroids]
    BY <1>5, <2>1, ColAssumption DEF CallFails, Written, TypeOK
  <2>3. QED
    BY <1>5, <2>2 DEF CallFails, Created, Goto, TypeOK
<1>6. CASE Crash
  BY <1>6 DEF Crash, Running, TypeOK
<1>7. CASE UNCHANGED vars
  BY <1>7 DEF vars, TypeOK
<1>8. QED
  BY <1>1, <1>2, <1>3, <1>4, <1>5, <1>6, <1>7 DEF Next, Progress

-----------------------------------------------------------------------------

\* An update that ended stays so.
LEMMA EndedStays ==
  ASSUME TypeOK, [Next]_vars, NEW u \in Updates, Ended(u)
  PROVE  Ended(u)' /\ pc'[u] = pc[u]
BY DEF Ended, Next, Progress, Begin, CheckSidecar, CreateSidecar, ReadTopic,
       ReadFails, WriteTopic, CallFails, Crash, Running, Goto, TypeOK, vars

\* Vectors that updates that ended had folded in stay such.
LEMMA FoldedInStays ==
  ASSUME TypeOK, [Next]_vars, NEW m, NEW c, FoldedIn(m, c)
  PROVE  FoldedIn(m, c)'
BY EndedStays DEF FoldedIn

\* No centroid counts no vectors.
LEMMA NoTopicCounted == Counted(NoTopic)
BY FS_EmptySet DEF Counted, NoTopic

\* Nothing is stored at the beginning.
LEMMA FoldInit == Init => FoldInv
<1>1. \A c : FoldedIn(NoTopic.mean, c)
  BY DEF FoldedIn, NoTopic
<1>2. QED
  BY <1>1, NoTopicCounted DEF Init, FoldInv

\* What a writing update stores is counted and folded in by ended updates, the
\* writer now among them.
LEMMA WriteFolds ==
  ASSUME TypeOK, FoldInv, [Next]_vars, NEW u \in Updates, Writes(u), Ended(u)'
  PROVE  \A c \in Collections :
            Counted(topic'[c]) /\ FoldedIn(topic[c].mean, c)'
<1>1. topic' = [topic EXCEPT ![Col[u]] = Fold(got[u], Batch[u])]
  BY DEF Writes, Written
<1>2. TAKE c \in Collections
<1>3. CASE c # Col[u]
  BY <1>1, <1>3, FoldedInStays DEF TypeOK, FoldInv
<1>4. CASE c = Col[u]
  <2>1. topic'[c] = Fold(got[u], Batch[u])
    BY <1>1, <1>4, ColAssumption DEF TypeOK
  <2>2. /\ topic'[c].mean = got[u].mean \cup Batch[u]
        /\ Counted(topic'[c])
    BY <2>1, FoldUnion DEF Writes
  <2>3. FoldedIn(got[u].mean, c)
    BY <1>4 DEF FoldInv
  <2>4. \A x \in got[u].mean :
           \E v \in Updates : Col[v] = c /\ x \in Batch[v] /\ Ended(v)'
    BY <2>3, EndedStays DEF FoldedIn
  <2>5. QED
    BY <1>4, <2>2, <2>4 DEF FoldedIn
<1>5. QED
  BY <1>3, <1>4

\* Each step keeps FoldInv.
LEMMA FoldStep == TypeOK /\ FoldInv /\ [Next]_vars => FoldInv'
<1> SUFFICES ASSUME TypeOK, FoldInv, [Next]_vars PROVE FoldInv'
  OBVIOUS
<1>1. \A c \in Collections : FoldedIn(topic[c].mean, c) =>
         \A m : m = topic[c].mean => FoldedIn(m, c)'
  BY FoldedInStays
<1>2. ASSUME UNCHANGED topic
      PROVE  \A c \in Collections :
                Counted(topic'[c]) /\ FoldedIn(topic[c].mean, c)'
  <2> TAKE c \in Collections
  <2>1. FoldedIn(topic[c].mean, c) /\ Counted(topic[c])
    BY DEF FoldInv
  <2>2. \A x \in topic[c].mean :
           \E v \in Updates : Col[v] = c /\ x \in Batch[v] /\ Ended(v)'
    BY <2>1, EndedStays DEF FoldedIn
  <2>3. QED
    BY <1>2, <2>1, <2>2 DEF FoldedIn
<1>3. ASSUME NEW u \in Updates, got'[u] = got[u]
      PROVE  Counted(got'[u]) /\ FoldedIn(got[u].mean, Col[u])'
  <2>1. FoldedIn(got[u].mean, Col[u]) /\ Counted(got[u])
    BY DEF FoldInv
  <2>2. \A x \in got[u].mean :
           \E v \in Updates : Col[v] = Col[u] /\ x \in Batch[v] /\ Ended(v)'
    BY <2>1, EndedStays DEF FoldedIn
  <2>3. QED
    BY <1>3, <2>1, <2>2 DEF FoldedIn
<1>4. ASSUME NEW u \in Updates, UNCHANGED topic,
             \/ got' = [got EXCEPT ![u] = topic[Col[u]]]
             \/ got' = [got EXCEPT ![u] = NoTopic]
      PROVE  FoldInv'
  <2>1. ASSUME NEW v \in Updates
        PROVE  Counted(got'[v]) /\ FoldedIn(got[v].mean, Col[v])'
    <3>1. CASE v # u
      BY <1>3, <1>4, <3>1 DEF TypeOK
    <3>2. CASE v = u /\ got'[u] = topic[Col[u]]
      <4>1. Col[u] \in Collections
        BY ColAssumption
      <4>2. QED
        BY <1>2, <1>4, <3>2, <4>1 DEF FoldedIn
    <3>3. CASE v = u /\ got'[u] = NoTopic
      BY <3>3, NoTopicCounted DEF FoldedIn, NoTopic
    <3>4. QED
      BY <1>4, <3>1, <3>2, <3>3 DEF TypeOK
  <2>2. QED
    BY <1>2, <1>4, <2>1 DEF FoldInv, Counted
<1>5. ASSUME NEW u \in Updates, UNCHANGED got, Writes(u), Ended(u)'
      PROVE  FoldInv'
  BY <1>3, <1>5, WriteFolds DEF FoldInv, Counted
<1>6. ASSUME UNCHANGED <<topic, got>> PROVE FoldInv'
  BY <1>2, <1>3, <1>6 DEF FoldInv, Counted
<1>7. ASSUME NEW u \in Updates, WriteTopic(u) PROVE FoldInv'
  <2>1. UNCHANGED got /\ Writes(u) /\ Ended(u)'
    BY <1>7 DEF WriteTopic, Writes, Ended, Goto, TypeOK
  <2>2. QED
    BY <1>5, <2>1
<1>8. ASSUME NEW u \in Updates, CallFails(u) PROVE FoldInv'
  <2>1. UNCHANGED got /\ Ended(u)' /\ (UNCHANGED topic \/ Writes(u))
    BY <1>8 DEF CallFails, Writes, Ended, Goto, TypeOK
  <2>2. QED
    BY <1>5, <1>6, <2>1
<1>9. ASSUME NEW u \in Updates, ReadTopic(u) \/ ReadFails(u) PROVE FoldInv'
  BY <1>4, <1>9 DEF ReadTopic, ReadFails
<1>10. QED
  BY <1>6, <1>7, <1>8, <1>9
  DEF Next, Progress, Begin, CheckSidecar, CreateSidecar, Crash, vars

-----------------------------------------------------------------------------

\* No update runs at the beginning.
LEMMA LossInit == Init => LossInv /\ GiveUpInv
BY DEF Init, LossInv, Running, GiveUpInv, GiveUpExplained

\* An explanation stays one.
LEMMA ExplainedStays ==
  ASSUME TypeOK, [Next]_vars, NEW u \in Updates
  PROVE  /\ overlap[u] \subseteq overlap'[u] /\ blind \subseteq blind'
         /\ faulted \subseteq faulted'
         /\ Explained(u) => Explained(u)'
<1>1. /\ overlap[u] \subseteq overlap'[u] /\ blind \subseteq blind'
      /\ faulted \subseteq faulted'
  BY DEF Next, Progress, Begin, CheckSidecar, CreateSidecar, ReadTopic,
         ReadFails, WriteTopic, CallFails, Crash, TypeOK, vars
<1>2. QED
  BY <1>1 DEF Explained

\* Two updates that run know of each other, also after a step.
LEMMA MutualStep ==
  ASSUME TypeOK, LossInv, [Next]_vars, NEW u \in Running', NEW v \in Running',
         u # v
  PROVE  v \in overlap'[u]
<1>1. u \in Updates /\ v \in Updates
  BY DEF Running
<1>2. CASE u \in Running /\ v \in Running
  BY <1>1, <1>2, ExplainedStays DEF LossInv
<1>3. CASE ~ (u \in Running /\ v \in Running)
  <2>1. PICK w \in Updates : Begin(w)
    BY <1>1, <1>3
    DEF Next, Progress, CheckSidecar, CreateSidecar, ReadTopic,
        ReadFails, WriteTopic, CallFails, Crash, Running, Goto, TypeOK, vars
  <2>2. /\ w \notin Running /\ Running' \subseteq Running \cup {w}
        /\ (w = u \/ w = v)
    BY <1>1, <1>3, <2>1 DEF Begin, Goto, Running, TypeOK
  <2>3. overlap' = [x \in Updates |->
            IF x = w THEN overlap[w] \cup Running
            ELSE IF x \in Running THEN overlap[x] \cup {w} ELSE overlap[x]]
    BY <1>1, <2>1, <2>2 DEF Begin, Goto, Running, TypeOK
  <2>4. CASE w = u
    BY <1>1, <2>2, <2>3, <2>4
  <2>5. CASE w = v
    BY <1>1, <2>2, <2>3, <2>5
  <2>6. QED
    BY <2>2, <2>4, <2>5
<1>4. QED
  BY <1>2, <1>3

\* A write-back keeps the vectors of an update that ended, or these are
\* explained.
LEMMA WriteKeeps ==
  ASSUME TypeOK, FoldInv, LossInv, [Next]_vars, NEW v \in Updates, Writes(v),
         NEW u \in Updates, u # v, pc[u] = "done"
  PROVE  Batch[u] \subseteq topic'[Col[u]].mean \/ Explained(u)'
<1>1. Batch[u] \subseteq topic[Col[u]].mean \/ Explained(u)
  BY DEF LossInv
<1>2. topic' = [topic EXCEPT ![Col[v]] = Fold(got[v], Batch[v])]
  BY DEF Writes, Written
<1>3. CASE Col[v] = Col[u]
  <2>1. Batch[u] \subseteq got[v].mean \/ Explained(u)
    BY <1>3 DEF LossInv, Writes
  <2>2. topic'[Col[u]].mean = got[v].mean \cup Batch[v]
    BY <1>2, <1>3, ColAssumption, FoldUnion DEF TypeOK, Writes
  <2>3. QED
    BY <2>1, <2>2, ExplainedStays
<1>4. CASE Col[v] # Col[u]
  BY <1>1, <1>2, <1>4, ColAssumption, ExplainedStays DEF TypeOK
<1>5. QED
  BY <1>3, <1>4

\* Each step keeps LossInv.
LEMMA LossStep ==
  TypeOK /\ FoldInv /\ LossInv /\ [Next]_vars => LossInv'
<1> SUFFICES ASSUME TypeOK, FoldInv, LossInv, [Next]_vars PROVE LossInv'
  OBVIOUS
<1> DEFINE Kept(u) == Batch[u] \subseteq topic[Col[u]].mean \/ Explained(u)
           Carried(u, v) == Batch[u] \subseteq got[v].mean \/ Explained(u)
<1>1. \A u, v \in Running' : u # v => v \in overlap'[u]
  BY MutualStep
<1>2. ASSUME NEW u \in Updates, pc'[u] = "done" PROVE Kept(u)'
  <2>1. CASE pc[u] = "done"
    <3>1. CASE UNCHANGED topic
      BY <2>1, <3>1, ExplainedStays DEF LossInv
    <3>2. CASE \E v \in Updates : Writes(v)
      <4>1. PICK v \in Updates : Writes(v)
        BY <3>2
      <4>2. u # v
        BY <2>1, <4>1 DEF Writes
      <4>3. QED
        BY <2>1, <4>1, <4>2, WriteKeeps
    <3>3. QED
      BY <3>1, <3>2
      DEF Next, Progress, Begin, CheckSidecar, CreateSidecar, ReadTopic,
          ReadFails, WriteTopic, CallFails, Crash, Writes, vars
  <2>2. CASE pc[u] # "done"
    <3>1. Batch[u] = {} \/ WriteTopic(u)
      BY <1>2, <2>2
      DEF Next, Progress, Begin, CheckSidecar, CreateSidecar, ReadTopic,
          ReadFails, WriteTopic, CallFails, Crash, Goto, TypeOK, vars
    <3>2. CASE WriteTopic(u)
      <4>1. topic'[Col[u]].mean = got[u].mean \cup Batch[u]
        BY <3>2, ColAssumption, FoldUnion DEF TypeOK, WriteTopic, Written
      <4>2. QED
        BY <4>1
    <3>3. QED
      BY <3>1, <3>2
  <2>3. QED
    BY <2>1, <2>2
<1>3. ASSUME NEW u \in Updates, NEW v \in Updates, pc'[u] = "done",
             pc'[v] = "write", u # v, Col[u] = Col[v]
      PROVE  Carried(u, v)'
  <2>1. CASE pc[v] = "write" /\ got'[v] = got[v]
    <3>1. CASE pc[u] = "done"
      BY <1>3, <2>1, <3>1, ExplainedStays DEF LossInv
    <3>2. CASE pc[u] # "done"
      <4>1. Batch[u] = {} \/ u \in Running
        BY <1>3, <3>2
        DEF Next, Progress, Begin, CheckSidecar, CreateSidecar, ReadTopic,
            ReadFails, WriteTopic, CallFails, Crash, Running, Goto, TypeOK,
            vars
      <4>2. CASE u \in Running
        <5>1. v \in overlap[u]
          BY <1>3, <2>1, <4>2 DEF LossInv, Running
        <5>2. QED
          BY <1>3, <5>1, ExplainedStays DEF Explained
      <4>3. QED
        BY <4>1, <4>2
    <3>3. QED
      BY <3>1, <3>2
  <2>2. CASE ReadTopic(v)
    <3>1. got'[v] = topic[Col[u]] /\ pc[u] = "done"
      BY <1>3, <2>2 DEF ReadTopic, Goto, TypeOK
    <3>2. QED
      BY <3>1, ExplainedStays DEF LossInv
  <2>3. CASE ReadFails(v)
    <3>1. v \in blind'
      BY <2>3 DEF ReadFails
    <3>2. QED
      BY <1>3, <3>1 DEF Explained
  <2>4. QED
    BY <1>3, <2>1, <2>2, <2>3
    DEF Next, Progress, Begin, CheckSidecar, CreateSidecar, ReadTopic,
        ReadFails, WriteTopic, CallFails, Crash, Running, Goto, TypeOK, vars
<1>4. QED
  BY <1>1, <1>2, <1>3 DEF LossInv

\* The creator stays the one it was, and so does who ran beside it.
LEMMA MetCreatorStays ==
  ASSUME TypeOK, [Next]_vars, NEW u \in Updates, MetCreator(u)
  PROVE  MetCreator(u)'
<1>1. creator \subseteq creator'
  BY DEF Next, Progress, Begin, CheckSidecar, CreateSidecar, Created, ReadTopic,
         ReadFails, WriteTopic, CallFails, Crash, vars
<1>2. QED
  BY <1>1, ExplainedStays DEF MetCreator

\* Each step keeps GiveUpInv.
LEMMA GiveUpStep ==
  TypeOK /\ LossInv /\ GiveUpInv /\ [Next]_vars => GiveUpInv'
<1> SUFFICES ASSUME TypeOK, LossInv, GiveUpInv, [Next]_vars PROVE GiveUpInv'
  OBVIOUS
<1>1. ASSUME NEW u \in Updates, pc'[u] = "create", exists'
      PROVE  MetCreator(u)'
  <2>1. CASE exists
    <3>1. pc[u] = "create"
      BY <1>1, <2>1
      DEF Next, Progress, Begin, CheckSidecar, CreateSidecar, ReadTopic,
          ReadFails, WriteTopic, CallFails, Crash, Running, Goto, TypeOK, vars
    <3>2. MetCreator(u)
      BY <2>1, <3>1 DEF GiveUpInv
    <3>3. QED
      BY <3>2, MetCreatorStays
  <2>2. CASE ~ exists
    <3>1. PICK v \in Updates : CreateSidecar(v) \/ (CallFails(v) /\ Created(v))
      <4>1. PICK v \in Updates : CreateSidecar(v) \/ CallFails(v)
        BY <1>1, <2>2
        DEF Next, Progress, Begin, CheckSidecar, ReadTopic, ReadFails,
            WriteTopic, Crash, vars
      <4>2. CallFails(v) => Created(v)
        BY <1>1, <2>2 DEF CallFails
      <4>3. QED
        BY <4>1, <4>2
    <3>2. pc[v] = "create" /\ v \in creator'
      BY <1>1, <2>2, <3>1 DEF CreateSidecar, CallFails, Created
    <3>3. v # u /\ v \in Running /\ u \in Running
      BY <1>1, <3>1, <3>2
      DEF CreateSidecar, CallFails, Goto, Running, TypeOK
    <3>4. v \in overlap'[u]
      BY <3>3, ExplainedStays DEF LossInv
    <3>5. QED
      BY <3>2, <3>3, <3>4 DEF MetCreator
  <2>3. QED
    BY <2>1, <2>2
<1>2. ASSUME NEW u \in Updates, pc'[u] = "gaveUp"
      PROVE  u \in faulted' \/ MetCreator(u)'
  <2>1. \/ pc[u] = "gaveUp" \/ u \in faulted'
        \/ pc[u] = "create" /\ exists
    BY <1>2
    DEF Next, Progress, Begin, CheckSidecar, CreateSidecar, ReadTopic,
        ReadFails, WriteTopic, CallFails, Crash, Running, Goto, TypeOK, vars
  <2>2. QED
    BY <2>1, ExplainedStays, MetCreatorStays
    DEF GiveUpInv, GiveUpExplained, MetCreator
<1>3. QED
  BY <1>1, <1>2 DEF GiveUpInv, GiveUpExplained, MetCreator

-----------------------------------------------------------------------------

\* The parts together are an invariant.
LEMMA TopicInvariant == Spec => []TopicInv
<1>1. Init => TopicInv
  BY TopicTypeInit, FoldInit, LossInit DEF TopicInv
<1>2. TopicInv /\ [Next]_vars => TopicInv'
  BY TopicTypeStep, FoldStep, LossStep, GiveUpStep DEF TopicInv
<1>3. QED
  BY <1>1, <1>2, PTL DEF Spec

\* Every variable keeps its type; in particular no update raises.
THEOREM TopicTypeCorrect == Spec => []TypeOK
<1>1. TopicInv => TypeOK
  BY DEF TopicInv
<1>2. QED
  BY <1>1, TopicInvariant, PTL

\* Whatever overlaps, fails or crashes, the stored count is the number of
\* vectors the stored centroid is the mean of.
THEOREM CountsMatch == Spec => []CountMatches
<1>1. TopicInv => CountMatches
  BY DEF TopicInv, FoldInv, Counted, CountMatches
<1>2. QED
  BY <1>1, TopicInvariant, PTL

\* A centroid takes in vectors of its own collection only.
THEOREM OnlyOwnVectors == Spec => []OwnVectors
<1>1. TopicInv => OwnVectors
  BY DEF TopicInv, FoldInv, FoldedIn, OwnVectors
<1>2. QED
  BY <1>1, TopicInvariant, PTL

\* Updates of a collection that do not overlap and can read lose nothing.
THEOREM LossesExplained == Spec => []LossExplained
<1>1. TopicInv => LossExplained
  BY DEF TopicInv, LossInv, Explained, LossExplained
<1>2. QED
  BY <1>1, TopicInvariant, PTL

\* An update gives up only for a failing call, a crash, or because it ran while
\* another one created the sidecar.
THEOREM GiveUpsExplained == Spec => []GiveUpExplained
<1>1. TopicInv => GiveUpExplained
  BY DEF TopicInv, GiveUpInv
<1>2. QED
  BY <1>1, TopicInvariant, PTL

=============================================================================
