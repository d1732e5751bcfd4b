-------------------------- MODULE EmbedCacheProofs --------------------------
(***************************************************************************)
(* Proofs about EmbedCache: for any number of threads, texts and any limit.*)
(***************************************************************************)
EXTENDS EmbedCache, FiniteSetTheorems, TLAPS

\* Threads that have passed the size check and have not inserted yet.
Storing == {t \in Threads : pc[t] = "store"}

\* The inductive invariant behind SizeBound: every thread that is about to
\* insert has its place counted already.
SizeInv ==
    /\ TypeOK
    /\ Size + Cardinality(Storing) <= MaxSize + Cardinality(Threads) - 1

\* What thread t finds at each location is what it left there.
Undisturbed(t) ==
    /\ pc[t] = "get" => text[t] \in Cached
    /\ pc[t] = "iter" => Size >= MaxSize
    /\ pc[t] = "next" => Size >= MaxSize /\ iterSize[t] = Size
    /\ pc[t] = "pop" => victim[t] \in Cached
    /\ pc[t] # "cacheFailed"

\* The inductive invariant behind OnlyCrossedFail.
CrossInv == TypeOK /\ \A t \in Threads \ crossed : Undisturbed(t)

-----------------------------------------------------------------------------
(* The dict.                                                               *)

LEMMA SizeType ==
  /\ IsFiniteSet(Cached)
  /\ Size \in Nat
  /\ Cardinality(Texts) \in Nat
  /\ Size <= Cardinality(Texts)
<1>1. Cached \in SUBSET Texts
  BY DEF Cached
<1>2. QED
  BY <1>1, TextsAssumption, FS_Subset, FS_CardinalityType DEF Size

\* dict.pop removes the key, and no other one.
LEMMA PopRemoves ==
  ASSUME TypeOK, NEW x \in Cached, position' = Without(x)
  PROVE  /\ position' \in [Texts -> 0 .. Cardinality(Texts)]
         /\ Cached' = Cached \ {x}
         /\ Size' = Size - 1
<1>1. position' \in [Texts -> 0 .. Cardinality(Texts)]
  BY SizeType DEF TypeOK, Without, Cached
<1>2. Cached' = Cached \ {x}
  BY SizeType DEF TypeOK, Without, Cached
<1>3. QED
  BY <1>1, <1>2, SizeType, FS_RemoveElement DEF Size

\* dict[x] = vec adds the key, and at most that one.
LEMMA StoreAdds ==
  ASSUME TypeOK, NEW x \in Texts, position' = With(x)
  PROVE  /\ position' \in [Texts -> 0 .. Cardinality(Texts)]
         /\ Cached' = Cached \cup {x}
         /\ Size' = IF x \in Cached THEN Size ELSE Size + 1
<1>1. Cached' = Cached \cup {x}
  BY SizeType DEF TypeOK, With, Cached
<1>2. Size' = IF x \in Cached THEN Size ELSE Size + 1
  BY <1>1, SizeType, FS_AddElement DEF Size
<1>3. ASSUME x \notin Cached
      PROVE  Size + 1 <= Cardinality(Texts)
  <2>1. Cached \cup {x} \in SUBSET Texts
    BY DEF Cached
  <2>2. Cardinality(Cached \cup {x}) = Size + 1
    BY <1>3, SizeType, FS_AddElement DEF Size
  <2>3. QED
    BY <2>1, <2>2, TextsAssumption, FS_Subset
<1>4. position' \in [Texts -> 0 .. Cardinality(Texts)]
  BY <1>3, SizeType DEF TypeOK, With
<1>5. QED
  BY <1>1, <1>2, <1>4

\* Whatever else it does, a step of a thread other than Pop and Store leaves the
\* dict alone.
LEMMA OtherStepsKeepDict ==
  ASSUME NEW t \in Threads,
         \/ \E x \in Texts : Call(t, x)
         \/ Lookup(t) \/ Get(t) \/ EmbedInner(t) \/ CheckSize(t)
         \/ MakeIter(t) \/ NextKey(t) \/ Return(t)
  PROVE  UNCHANGED position /\ UNCHANGED Cached /\ UNCHANGED Size
<1>1. UNCHANGED position
  BY DEF Call, Lookup, Get, EmbedInner, CheckSize, MakeIter, NextKey, Return
<1>2. QED
  BY <1>1 DEF Cached, Size

-----------------------------------------------------------------------------

LEMMA EmbedTypeStep == TypeOK /\ [Next]_vars => TypeOK'
<1> SUFFICES ASSUME TypeOK, [Next]_vars PROVE TypeOK'
  OBVIOUS
<1> USE DEF TypeOK, Goto, PC, Crosses
<1>1. ASSUME NEW t \in Threads, NEW x \in Texts, Call(t, x) PROVE TypeOK'
  BY <1>1 DEF Call
<1>2. ASSUME NEW t \in Threads,
             Lookup(t) \/ Get(t) \/ EmbedInner(t) \/ CheckSize(t)
      PROVE  TypeOK'
  BY <1>2 DEF Lookup, Get, EmbedInner, CheckSize
<1>3. ASSUME NEW t \in Threads, MakeIter(t) PROVE TypeOK'
  <2>1. Size \in 0 .. Cardinality(Texts)
    BY SizeType
  <2>2. QED
    BY <1>3, <2>1 DEF MakeIter
<1>4. ASSUME NEW t \in Threads, NextKey(t) PROVE TypeOK'
  <2>1. CASE Size # iterSize[t] \/ Size = 0
    BY <1>4, <2>1, SizeType DEF NextKey
  <2>2. CASE ~ (Size # iterSize[t] \/ Size = 0)
    <3>1. PICK x \in Cached : /\ victim' = [victim EXCEPT ![t] = x]
                              /\ Goto(t, "pop")
      BY <1>4, <2>2 DEF NextKey
    <3>2. x \in Texts
      BY DEF Cached
    <3>3. QED
      BY <1>4, <3>1, <3>2, SizeType DEF NextKey
  <2>3. QED
    BY <2>1, <2>2
<1>5. ASSUME NEW t \in Threads, Pop(t) PROVE TypeOK'
  <2>1. position' \in [Texts -> 0 .. Cardinality(Texts)]
    BY <1>5, PopRemoves DEF Pop
  <2>2. QED
    BY <1>5, <2>1 DEF Pop
<1>6. ASSUME NEW t \in Threads, Store(t) PROVE TypeOK'
  <2>1. position' \in [Texts -> 0 .. Cardinality(Texts)]
    BY <1>6, StoreAdds DEF Store
  <2>2. QED
    BY <1>6, <2>1 DEF Store
<1>7. ASSUME NEW t \in Threads, Return(t) PROVE TypeOK'
  BY <1>7 DEF Return
<1>8. CASE UNCHANGED vars
  BY <1>8 DEF vars
<1>9. QED
  BY <1>1, <1>2, <1>3, <1>4, <1>5, <1>6, <1>7, <1>8 DEF Next, Step

LEMMA EmbedTypeInit == Init => TypeOK
  BY SizeType DEF Init, TypeOK, PC

\* Every variable keeps its type, and a thread has a text while it embeds one
\* and a key while it evicts one.
THEOREM EmbedTypeCorrect == Spec => []TypeOK
  BY EmbedTypeInit, EmbedTypeStep, PTL DEF Spec

-----------------------------------------------------------------------------

LEMMA StoringType ==
  /\ IsFiniteSet(Storing)
  /\ Cardinality(Storing) \in Nat
  /\ Cardinality(Threads) \in Nat
<1>1. Storing \in SUBSET Threads
  BY DEF Storing
<1>2. QED
  BY <1>1, ThreadsAssumption, FS_Subset, FS_CardinalityType

\* A thread that is not about to insert leaves at most all the others.
LEMMA StoringBound ==
  ASSUME NEW t \in Threads, t \notin Storing
  PROVE  Cardinality(Storing) <= Cardinality(Threads) - 1
<1>1. Storing \in SUBSET (Threads \ {t})
  BY DEF Storing
<1>2. /\ IsFiniteSet(Threads \ {t})
      /\ Cardinality(Threads \ {t}) = Cardinality(Threads) - 1
  BY ThreadsAssumption, FS_RemoveElement
<1>3. QED
  BY <1>1, <1>2, FS_Subset

\* A thread that comes to the insertion, and one that leaves it.
LEMMA StoringJoins ==
  ASSUME TypeOK, NEW t \in Threads, pc[t] # "store", Goto(t, "store")
  PROVE  Cardinality(Storing') = Cardinality(Storing) + 1
<1>1. Storing' = Storing \cup {t} /\ t \notin Storing
  BY DEF TypeOK, Goto, Storing
<1>2. QED
  BY <1>1, StoringType, FS_AddElement

LEMMA StoringLeaves ==
  ASSUME TypeOK, NEW t \in Threads, NEW to, to # "store", Goto(t, to)
  PROVE  Cardinality(Storing') =
            IF t \in Storing THEN Cardinality(Storing) - 1
            ELSE Cardinality(Storing)
<1>1. Storing' = Storing \ {t}
  BY DEF TypeOK, Goto, Storing
<1>2. QED
  BY <1>1, StoringType, FS_RemoveElement

\* Any number of threads: the cache exceeds its limit by fewer texts than there
\* are threads.
THEOREM SizeBounded == Spec => []SizeBound
<1>1. Init => SizeInv
  <2> SUFFICES ASSUME Init PROVE SizeInv
    OBVIOUS
  <2>1. Cached = {} /\ Storing = {}
    BY DEF Init, Cached, Storing
  <2>2. QED
    BY <2>1, EmbedTypeInit, FS_EmptySet, StoringType, MaxSizeAssumption
    DEF SizeInv, Size
<1>2. SizeInv /\ [Next]_vars => SizeInv'
  <2> SUFFICES ASSUME SizeInv, [Next]_vars PROVE SizeInv'
    OBVIOUS
  <2> DEFINE Sum == Size + Cardinality(Storing)
             Bound == MaxSize + Cardinality(Threads) - 1
  <2>1. TypeOK /\ TypeOK' /\ Sum <= Bound
    BY EmbedTypeStep DEF SizeInv
  <2> USE SizeType, StoringType, MaxSizeAssumption
  <2>2. ASSUME NEW t \in Threads,
               \/ \E x \in Texts : Call(t, x)
               \/ Lookup(t) \/ Get(t) \/ EmbedInner(t)
               \/ MakeIter(t) \/ NextKey(t) \/ Return(t)
        PROVE  Sum' <= Bound
    <3>1. Size' = Size
      BY <2>2, OtherStepsKeepDict
    <3>2. PICK to : Goto(t, to) /\ to # "store"
      BY <2>2
      DEF Call, Lookup, Get, EmbedInner, MakeIter, NextKey, Return, Goto
    <3>3. Cardinality(Storing') <= Cardinality(Storing)
      BY <2>1, <3>2, StoringLeaves
    <3>4. Cardinality(Storing') \in Nat
      BY <2>1, <3>2, StoringLeaves, FS_EmptySet DEF Storing
    <3>5. QED
      BY <2>1, <3>1, <3>3, <3>4
  <2>3. ASSUME NEW t \in Threads, CheckSize(t) PROVE Sum' <= Bound
    <3>1. Size' = Size /\ pc[t] = "size"
      BY <2>3, OtherStepsKeepDict DEF CheckSize
    <3>2. CASE Size >= MaxSize
      <4>1. Goto(t, "iter") /\ t \notin Storing
        BY <2>3, <3>2 DEF CheckSize, Storing
      <4>2. Cardinality(Storing') = Cardinality(Storing)
        BY <2>1, <4>1, StoringLeaves
      <4>3. QED
        BY <2>1, <3>1, <4>2
    <3>3. CASE ~ (Size >= MaxSize)
      <4>1. Goto(t, "store") /\ t \notin Storing
        BY <2>3, <3>3 DEF CheckSize, Storing
      <4>2. Cardinality(Storing') = Cardinality(Storing) + 1
        BY <2>1, <3>1, <4>1, StoringJoins
      <4>3. Cardinality(Storing) <= Cardinality(Threads) - 1
        BY <4>1, StoringBound
      <4>4. Size <= MaxSize - 1
        BY <3>3
      <4>5. QED
        BY <3>1, <4>2, <4>3, <4>4
    <3>4. QED
      BY <3>2, <3>3
  <2>4. ASSUME NEW t \in Threads, Pop(t) PROVE Sum' <= Bound
    <3>1. CASE victim[t] \in Cached
      <4>1. Size' = Size - 1
        BY <2>1, <2>4, <3>1, PopRemoves DEF Pop
      <4>2. Goto(t, "store") /\ pc[t] # "store"
        BY <2>4, <3>1 DEF Pop
      <4>3. Cardinality(Storing') = Cardinality(Storing) + 1
        BY <2>1, <4>2, StoringJoins
      <4>4. QED
        BY <2>1, <4>1, <4>3
    <3>2. CASE victim[t] \notin Cached
      <4>1. Size' = Size
        BY <2>4, <3>2 DEF Pop, Cached, Size
      <4>2. Goto(t, "cacheFailed") /\ t \notin Storing
        BY <2>4, <3>2 DEF Pop, Storing
      <4>3. Cardinality(Storing') = Cardinality(Storing)
        BY <2>1, <4>2, StoringLeaves
      <4>4. QED
        BY <2>1, <4>1, <4>3
    <3>3. QED
      BY <3>1, <3>2
  <2>5. ASSUME NEW t \in Threads, Store(t) PROVE Sum' <= Bound
    <3>1. text[t] \in Texts /\ t \in Storing
      BY <2>1, <2>5 DEF Store, TypeOK, Storing
    <3>2. Size' \in {Size, Size + 1}
      BY <2>1, <2>5, <3>1, StoreAdds DEF Store
    <3>3. Cardinality(Storing') = Cardinality(Storing) - 1
      BY <2>1, <2>5, <3>1, StoringLeaves DEF Store
    <3>4. QED
      BY <2>1, <3>2, <3>3
  <2>6. ASSUME UNCHANGED vars PROVE Sum' <= Bound
    <3>1. Cached' = Cached /\ Storing' = Storing
      BY <2>6 DEF vars, Cached, Storing
    <3>2. QED
      BY <2>1, <3>1 DEF Size
  <2>7. Sum' <= Bound
    <3> HIDE DEF Sum, Bound
    <3>1. CASE UNCHANGED vars
      BY <2>6, <3>1
    <3>2. CASE Next
      <4>1. PICK t \in Threads : Step(t)
        BY <3>2 DEF Next
      <4>2. QED
        BY <2>2, <2>3, <2>4, <2>5, <4>1 DEF Step
    <3>3. QED
      BY <3>1, <3>2
  <2>8. QED
    BY <2>1, <2>7 DEF SizeInv
<1>3. SizeInv => SizeBound
  BY SizeType, StoringType, MaxSizeAssumption DEF SizeInv, SizeBound
<1>4. QED
  BY <1>1, <1>2, <1>3, PTL DEF Spec

-----------------------------------------------------------------------------

\* A step of another thread that leaves the keys of the dict alone does not
\* disturb thread t.
LEMMA OtherThreadsStep ==
  ASSUME TypeOK, NEW t \in Threads, Undisturbed(t), Cached' = Cached,
         pc'[t] = pc[t], text'[t] = text[t], victim'[t] = victim[t],
         iterSize'[t] = iterSize[t]
  PROVE  Undisturbed(t)'
<1>1. Size' = Size
  BY DEF Size
<1>2. QED
  BY <1>1 DEF Undisturbed

\* A step of a thread changes nothing of another one.
LEMMA OwnState ==
  ASSUME TypeOK, NEW s \in Threads, Step(s), NEW t \in Threads, t # s
  PROVE  /\ pc'[t] = pc[t] /\ text'[t] = text[t] /\ victim'[t] = victim[t]
         /\ iterSize'[t] = iterSize[t]
BY DEF TypeOK, Step, Goto, Call, Lookup, Get, EmbedInner, CheckSize, MakeIter,
       NextKey, Pop, Store, Return

\* A step leaves the keys alone, or crosses every other thread in a call.
LEMMA ChangeCrosses ==
  ASSUME TypeOK, NEW s \in Threads, Step(s)
  PROVE  \/ Cached' = Cached /\ crossed \subseteq crossed' \cup {s}
         \/ /\ crossed \subseteq crossed'
            /\ \A t \in Threads \ {s} : pc[t] # "idle" => t \in crossed'
<1>1. CASE \/ \E x \in Texts : Call(s, x)
           \/ Lookup(s) \/ Get(s) \/ EmbedInner(s) \/ CheckSize(s)
           \/ MakeIter(s) \/ NextKey(s) \/ Return(s)
  <2>1. Cached' = Cached
    BY <1>1, OtherStepsKeepDict
  <2>2. crossed \subseteq crossed' \cup {s}
    BY <1>1 DEF Call, Lookup, Get, EmbedInner, CheckSize, MakeIter, NextKey,
                Return
  <2>3. QED
    BY <2>1, <2>2
<1>2. CASE Pop(s)
  BY <1>2 DEF Pop, Crosses, Cached
<1>3. CASE Store(s)
  BY <1>3 DEF Store, Crosses, With, Cached
<1>4. QED
  BY <1>1, <1>2, <1>3 DEF Step

\* Any number of threads: the cache raises an exception of its own only in a
\* call during which another thread changed the keys of the dict.
THEOREM OnlyCrossedRaise == Spec => []OnlyCrossedFail
<1>1. Init => CrossInv
  BY EmbedTypeInit DEF Init, CrossInv, Undisturbed
<1>2. CrossInv /\ [Next]_vars => CrossInv'
  <2> SUFFICES ASSUME CrossInv, [Next]_vars PROVE CrossInv'
    OBVIOUS
  <2>1. TypeOK /\ TypeOK'
    BY EmbedTypeStep DEF CrossInv
  <2>2. CASE UNCHANGED vars
    BY <2>1, <2>2 DEF vars, CrossInv, Undisturbed, Cached, Size
  <2>3. ASSUME NEW s \in Threads, Step(s), NEW t \in Threads, t # s,
               t \notin crossed'
        PROVE  Undisturbed(t)'
    <3>1. CASE Cached' = Cached /\ t \notin crossed
      <4>1. Undisturbed(t)
        BY <3>1 DEF CrossInv
      <4>2. QED
        BY <2>1, <2>3, <3>1, <4>1, OtherThreadsStep, OwnState
    <3>2. CASE pc[t] = "idle"
      <4>1. pc'[t] = "idle"
        BY <2>1, <2>3, <3>2, OwnState
      <4>2. QED
        BY <4>1 DEF Undisturbed
    <3>3. QED
      BY <2>1, <2>3, <3>1, <3>2, ChangeCrosses
  <2>4. ASSUME NEW t \in Threads, Step(t), t \notin crossed'
        PROVE  Undisturbed(t)'
    <3> USE <2>1, SizeType, MaxSizeAssumption DEF TypeOK, Goto
    <3>1. CASE \E x \in Texts : Call(t, x)
      <4>1. pc'[t] = "lookup"
        BY <3>1 DEF Call
      <4>2. QED
        BY <4>1 DEF Undisturbed
    <3>2. CASE Return(t)
      <4>1. pc'[t] = "idle"
        BY <3>2 DEF Return
      <4>2. QED
        BY <4>1 DEF Undisturbed
    <3>3. CASE Lookup(t)
      <4>1. pc'[t] = "inner" \/ (pc'[t] = "get" /\ text'[t] \in Cached')
        BY <3>3 DEF Lookup, Cached
      <4>2. QED
        BY <4>1 DEF Undisturbed
    <3>4. CASE EmbedInner(t)
      <4>1. pc'[t] \in {"size", "innerFailed"}
        BY <3>4 DEF EmbedInner
      <4>2. QED
        BY <4>1 DEF Undisturbed
    <3>5. CASE CheckSize(t)
      <4>1. Size' = Size
        BY <3>5, OtherStepsKeepDict
      <4>2. pc'[t] = "store" \/ (pc'[t] = "iter" /\ Size' >= MaxSize)
        BY <3>5, <4>1 DEF CheckSize
      <4>3. QED
        BY <4>2 DEF Undisturbed
    <3>6. ASSUME Get(t) \/ MakeIter(t) \/ NextKey(t) \/ Pop(t)
          PROVE  Undisturbed(t) /\ t \notin crossed
      <4>1. t \notin crossed
        BY <2>4, <3>6 DEF Get, MakeIter, NextKey, Pop, Crosses
      <4>2. QED
        BY <4>1 DEF CrossInv
    <3>7. CASE Get(t)
      <4>1. pc'[t] = "returned"
        BY <3>6, <3>7 DEF Get, Undisturbed
      <4>2. QED
        BY <4>1 DEF Undisturbed
    <3>8. CASE MakeIter(t)
      <4>1. Size' = Size
        BY <3>8, OtherStepsKeepDict
      <4>2. pc'[t] = "next" /\ Size' >= MaxSize /\ iterSize'[t] = Size'
        BY <3>6, <3>8, <4>1 DEF MakeIter, Undisturbed
      <4>3. QED
        BY <4>2 DEF Undisturbed
    <3>9. CASE NextKey(t)
      <4>1. Cached' = Cached
        BY <3>9, OtherStepsKeepDict
      <4>2. ~ (Size # iterSize[t] \/ Size = 0)
        BY <3>6, <3>9 DEF NextKey, Undisturbed
      <4>3. pc'[t] = "pop" /\ victim'[t] \in Cached'
        BY <3>9, <4>1, <4>2 DEF NextKey
      <4>4. QED
        BY <4>3 DEF Undisturbed
    <3>10. CASE Pop(t)
      <4>1. pc'[t] = "store"
        BY <3>6, <3>10 DEF Pop, Undisturbed
      <4>2. QED
        BY <4>1 DEF Undisturbed
    <3>11. CASE Store(t)
      <4>1. pc'[t] = "returned"
        BY <3>11 DEF Store
      <4>2. QED
        BY <4>1 DEF Undisturbed
    <3>12. QED
      BY <2>4, <3>1, <3>2, <3>3, <3>4, <3>5, <3>7, <3>8, <3>9, <3>10, <3>11
      DEF Step
  <2>5. QED
    BY <2>1, <2>2, <2>3, <2>4 DEF CrossInv, Next
<1>3. CrossInv => OnlyCrossedFail
  BY DEF CrossInv, Undisturbed, OnlyCrossedFail
<1>4. QED
  BY <1>1, <1>2, <1>3, PTL DEF Spec

=============================================================================
