-------------------------- MODULE FederationProofs --------------------------
(***************************************************************************)
(* Proofs about Federation: for any nodes, peers, limits and pools.        *)
(***************************************************************************)
EXTENDS Federation, FiniteSetTheorems, SequenceTheorems, TLAPS

\* The peers that call c has asked, as the calls it made of them.
AskedBy(c) == PeerCalls(c) \cap Started

\* A handler whose own search has not ended has asked nobody.
NotYetAsking ==
    \A c \in Calls :
        status[c] \in {"none", "queued", "searching"} => AskedBy(c) = {}

\* The inductive invariant: what a handler asks, it asks in one step.
FedInv == TypeOK /\ NotYetAsking

\* A call is a chain of nodes.
LEMMA CallsAreChains ==
  ASSUME NEW c \in Calls
  PROVE  c \in Seq(Nodes) /\ Len(c) \in Nat \ {0}
BY LimitsAssumption DEF Calls

\* A call of a peer goes back to the call it was made for.
LEMMA FrontOfAppend ==
  ASSUME NEW c \in Calls, NEW n \in Nodes
  PROVE  Front(Append(c, n)) = c /\ Append(c, n) # c
<1>1. c \in Seq(Nodes) /\ Len(c) \in Nat \ {0}
  BY CallsAreChains
<1> DEFINE d == Append(c, n)
<1>2. /\ d \in Seq(Nodes) /\ Len(d) = Len(c) + 1
      /\ \A i \in 1 .. Len(c) : d[i] = c[i]
  BY <1>1, AppendProperties
<1>3. /\ SubSeq(d, 1, Len(c)) \in Seq(Nodes)
      /\ Len(SubSeq(d, 1, Len(c))) = Len(c)
      /\ \A i \in 1 .. Len(c) : SubSeq(d, 1, Len(c))[i] = d[i]
  <2>1. \A i \in 1 .. Len(c) : d[i] \in Nodes
    BY <1>1, <1>2
  <2> HIDE DEF d
  <2>2. \A i \in 1 .. Len(c) - 1 + 1 : 1 + i - 1 = i
    BY <1>1
  <2> QED
    BY <1>1, <2>1, <2>2, SubSeqProperties
<1> HIDE DEF d
<1>4. Front(d) = SubSeq(d, 1, Len(c))
  BY <1>1, <1>2 DEF Front
<1>5. SubSeq(d, 1, Len(c)) = c
  BY <1>1, <1>2, <1>3, SeqEqual
<1>6. Front(d) = c
  BY <1>4, <1>5
<1>7. d # c
  BY <1>1, <1>2
<1>8. QED
  BY <1>6, <1>7 DEF d

\* A step after which nobody has been asked more keeps the invariant, when no
\* handler that has asked goes back.
LEMMA NobodyAsked ==
  ASSUME FedInv, status' \in [Calls -> Status],
         abandoned' \subseteq {c \in Calls : Len(c) > 1},
         \A c \in Calls : AskedBy(c)' = AskedBy(c),
         \A c \in Calls : status'[c] \in {"none", "queued", "searching"} =>
            status[c] \in {"none", "queued", "searching"}
  PROVE  FedInv'
<1>1. \A c \in Calls : (PeerCalls(c) \cap Started)' = PeerCalls(c) \cap Started
  BY DEF AskedBy
<1>2. TypeOK'
  BY <1>1 DEF FedInv, TypeOK
<1>3. NotYetAsking'
  BY DEF FedInv, NotYetAsking
<1>4. QED
  BY <1>2, <1>3 DEF FedInv

\* The handler of c asks the peers it picked, at most max_peers_per_query.
LEMMA FanOutStep ==
  ASSUME FedInv, NEW c \in Calls, FanOut(c)
  PROVE  FedInv'
<1>1. PICK picked \in SUBSET MayAsk(c) :
        /\ Cardinality(picked) <= MaxPeers
        /\ status' = [d \in Calls |->
                         IF d = c THEN "waiting"
                         ELSE IF d \in {Append(c, n) : n \in picked} THEN "queued"
                         ELSE status[d]]
  BY DEF FanOut
<1> DEFINE new == {Append(c, n) : n \in picked}
<1>2. status \in [Calls -> Status] /\ status[c] = "searching" /\ AskedBy(c) = {}
  BY DEF FedInv, TypeOK, NotYetAsking, FanOut
<1>3. picked \subseteq Nodes /\ IsFiniteSet(picked)
  <2>1. picked \subseteq Nodes
    <3>1. Handler(c) \in Nodes
      BY CallsAreChains DEF Handler, Last
    <3>2. QED
      BY <3>1, PeersAssumption DEF MayAsk
  <2>2. QED
    BY <2>1, NodesAssumption, FS_Subset
<1>4. \A d \in new : Front(d) = c /\ d # c
  BY <1>3, FrontOfAppend
<1>5. IsFiniteSet(new) /\ Cardinality(new) <= MaxPeers
  <2> DEFINE f == [n \in picked |-> Append(c, n)]
  <2>1. f \in Surjection(picked, new)
    BY DEF Surjection
  <2>2. IsFiniteSet(new) /\ Cardinality(new) <= Cardinality(picked)
    BY <1>3, <2>1, FS_Surjection
  <2>3. Cardinality(new) \in Nat /\ Cardinality(picked) \in Nat
    BY <1>3, <2>2, FS_CardinalityType
  <2> HIDE DEF new
  <2>4. QED
    BY <1>1, <2>2, <2>3, LimitsAssumption
<1> HIDE DEF new
<1>6. status' = [d \in Calls |-> IF d = c THEN "waiting"
                                 ELSE IF d \in new THEN "queued" ELSE status[d]]
  BY <1>1 DEF new
<1>7. /\ Started \subseteq Started' /\ Started' \subseteq Started \cup new
  BY <1>2, <1>6 DEF Started
<1>8. \A e \in Calls \ {c} : AskedBy(e)' = AskedBy(e)
  BY <1>4, <1>7 DEF AskedBy, PeerCalls
<1>9. AskedBy(c)' \subseteq new
  BY <1>2, <1>7 DEF AskedBy, PeerCalls
<1>10. TypeOK'
  <2>1. status' \in [Calls -> Status]
    BY <1>2, <1>6 DEF Status
  <2>2. abandoned' = abandoned
    BY DEF FanOut
  <2>3. Cardinality(AskedBy(c)') <= MaxPeers
    <3>1. /\ Cardinality(AskedBy(c)') <= Cardinality(new)
          /\ Cardinality(AskedBy(c)') \in Nat /\ Cardinality(new) \in Nat
      BY <1>5, <1>9, FS_Subset, FS_CardinalityType
    <3>2. QED
      BY <1>5, <3>1, LimitsAssumption
  <2>4. \A e \in Calls : Cardinality(AskedBy(e)') <= MaxPeers
    BY <1>8, <2>3 DEF FedInv, TypeOK, AskedBy
  <2>5. QED
    BY <2>1, <2>2, <2>4 DEF FedInv, TypeOK, AskedBy
<1>11. NotYetAsking'
  <2> SUFFICES ASSUME NEW e \in Calls,
                      status'[e] \in {"none", "queued", "searching"}
               PROVE  AskedBy(e)' = {}
    BY DEF NotYetAsking
  <2>1. e # c
    BY <1>6
  <2>2. CASE e \in new
    <3>1. e \notin Started
      <4>1. c \in Seq(Nodes) /\ Len(c) \in Nat \ {0}
        BY CallsAreChains
      <4>2. Len(e) > 1
        <5>1. PICK n \in picked : e = Append(c, n)
          BY <2>2 DEF new
        <5>2. Len(e) = Len(c) + 1
          BY <1>3, <4>1, <5>1, AppendProperties
        <5>3. QED
          BY <4>1, <5>2
      <4>3. e \in PeerCalls(c)
        BY <1>4, <2>2, <4>2 DEF PeerCalls
      <4>4. QED
        BY <1>2, <4>3 DEF AskedBy
    <3>2. AskedBy(e) = {}
      BY <3>1 DEF FedInv, NotYetAsking, Started
    <3>3. QED
      BY <1>8, <2>1, <3>2
  <2>3. CASE e \notin new
    BY <1>6, <1>8, <2>1, <2>3 DEF FedInv, NotYetAsking
  <2>4. QED
    BY <2>2, <2>3
<1>12. QED
  BY <1>10, <1>11 DEF FedInv

\* Whatever nodes ask each other, every call is in one of its states, only calls
\* of peers are given up, so the request of a client never times out, and no
\* call asks more peers than max_peers_per_query.
THEOREM FederationTypeCorrect == Spec => []TypeOK
<1>1. Init => FedInv
  <2> SUFFICES ASSUME Init PROVE FedInv
    OBVIOUS
  <2>1. \A c \in Calls : PeerCalls(c) \cap Started = {}
    BY DEF Init, Started
  <2>2. QED
    BY <2>1, FS_EmptySet, LimitsAssumption
    DEF Init, FedInv, TypeOK, NotYetAsking, AskedBy, Status
<1>2. FedInv /\ [Next]_vars => FedInv'
  <2> SUFFICES ASSUME FedInv, [Next]_vars PROVE FedInv'
    OBVIOUS
  <2>1. /\ status \in [Calls -> Status]
        /\ abandoned \subseteq {c \in Calls : Len(c) > 1}
    BY DEF FedInv, TypeOK
  <2>2. ASSUME NEW c \in Calls, NEW s \in Status \ {"none"},
               status' = [status EXCEPT ![c] = s],
               status[c] # "none",
               s \in {"none", "queued", "searching"} =>
                  status[c] \in {"none", "queued", "searching"},
               abandoned' \subseteq {d \in Calls : Len(d) > 1}
        PROVE  FedInv'
    <3>1. status' \in [Calls -> Status]
      BY <2>1, <2>2
    <3>2. Started' = Started
      BY <2>1, <2>2 DEF Started
    <3>3. \A d \in Calls : AskedBy(d)' = AskedBy(d)
      BY <3>2 DEF AskedBy
    <3>4. \A d \in Calls : status'[d] \in {"none", "queued", "searching"} =>
             status[d] \in {"none", "queued", "searching"}
      BY <2>1, <2>2
    <3>5. QED
      BY <2>2, <3>1, <3>3, <3>4, NobodyAsked
  <2>3. ASSUME NEW n \in Asked, Ask(n) PROVE FedInv'
    <3>1. status' \in [Calls -> Status] /\ abandoned' = abandoned
      BY <2>1, <2>3 DEF Ask, Status
    <3>2. Started' \subseteq Started \cup {<<n>>} /\ Started \subseteq Started'
      BY <2>1, <2>3 DEF Ask, Started
    <3>3. \A d \in Calls : AskedBy(d)' = AskedBy(d)
      <4>1. Len(<<n>>) = 1
        OBVIOUS
      <4>2. \A d \in Calls : <<n>> \notin PeerCalls(d)
        BY <4>1 DEF PeerCalls
      <4>3. QED
        BY <3>2, <4>2 DEF AskedBy
    <3>4. \A d \in Calls : status'[d] \in {"none", "queued", "searching"} =>
             status[d] \in {"none", "queued", "searching"}
      BY <2>1, <2>3 DEF Ask
    <3>5. QED
      BY <2>1, <3>1, <3>3, <3>4, NobodyAsked
  <2>4. ASSUME NEW c \in Calls, Handle(c) PROVE FedInv'
    <3>1. CASE Accept(c)
      BY <2>1, <2>2, <3>1 DEF Accept, Status
    <3>2. CASE AnswerLocally(c)
      BY <2>1, <2>2, <3>2 DEF AnswerLocally, Status
    <3>3. CASE FanOut(c)
      BY <3>3, FanOutStep
    <3>4. CASE SearchFails(c)
      BY <2>1, <2>2, <3>4 DEF SearchFails, Status
    <3>5. CASE Merge(c)
      BY <2>1, <2>2, <3>5 DEF Merge, Status
    <3>6. QED
      BY <2>4, <3>1, <3>2, <3>3, <3>4, <3>5 DEF Handle
  <2>5. ASSUME NEW c \in Calls, TimeOut(c) PROVE FedInv'
    <3>1. /\ abandoned' \subseteq {d \in Calls : Len(d) > 1}
          /\ status[c] \in {"queued", "searching", "waiting"}
      BY <2>1, <2>5 DEF TimeOut, Awaited
    <3>2. CASE status[c] = "queued"
      BY <2>1, <2>2, <2>5, <3>1, <3>2 DEF TimeOut, Status
    <3>3. CASE status[c] # "queued"
      <4>1. status' = [status EXCEPT ![c] = status[c]]
        BY <2>5, <3>3 DEF TimeOut
      <4>2. QED
        BY <2>1, <2>2, <3>1, <4>1 DEF Status
    <3>4. QED
      BY <3>2, <3>3
  <2>6. CASE Finished \/ UNCHANGED vars
    <3>1. UNCHANGED vars
      BY <2>6 DEF Finished
    <3>2. \A d \in Calls : AskedBy(d)' = AskedBy(d)
      BY <3>1 DEF vars, AskedBy, Started
    <3>3. QED
      BY <2>1, <3>1, <3>2, NobodyAsked DEF vars
  <2>7. QED
    BY <2>3, <2>4, <2>5, <2>6 DEF Next
<1>3. FedInv => TypeOK
  BY DEF FedInv
<1>4. QED
  BY <1>1, <1>2, <1>3, PTL DEF Spec

=============================================================================
