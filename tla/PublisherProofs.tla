-------------------------- MODULE PublisherProofs --------------------------
(***************************************************************************)
(* Proofs about Publisher: for any number of requests, of whatever shape,  *)
(* any hooks and any size of the client's buffer.                          *)
(***************************************************************************)
EXTENDS Publisher, SequenceTheorems, FiniteSetTheorems, TLAPS

\* No event before there is a client; the numbers of events do not exceed what
\* the handler has published, and no gap is left.
OfferInv ==
    /\ nc \in NoClient => accepted = {}
    /\ \A e \in accepted : e[2] <= offered[e[1]]
    /\ NoGaps

\* The inductive invariant behind CloseKeepsAccepted: what was accepted before
\* close is ahead of the drain in the loop, and gone from it once the client
\* drains.
CloseInv ==
    /\ ~ closed => /\ refused = {} /\ beforeClose = {}
                   /\ nc \notin {"draining", "drained"}
                   /\ \A i \in DOMAIN loop : loop[i] # Drain
    /\ \A i, j \in DOMAIN loop :
          i < j /\ loop[i] = Drain => loop[j] \notin beforeClose \cup {Drain}
    /\ nc \in {"draining", "drained"} =>
          \A i \in DOMAIN loop : loop[i] \notin beforeClose \cup {Drain}
    /\ CloseKeepsAccepted

\* e was published before f, when they are of one request.
Earlier(e, f) == e[1] = f[1] => e[2] < f[2]

\* So is every event of E before every event of F.
AllEarlier(E, F) == \A e \in E, f \in F : Earlier(e, f)

\* The events of a sequence are in the order they were published in.
Ordered(s) ==
    \A i, j \in DOMAIN s :
        i < j /\ s[i] # Drain /\ s[j] # Drain => Earlier(s[i], s[j])

\* The inductive invariant behind InOrder: what the server received, what the
\* client has and what the loop has are three sorted parts, one behind the
\* other, of what was accepted.
OrderInv ==
    /\ Queued \cup ToSet(pending) \cup Received \subseteq accepted
    /\ Ordered(loop) /\ Ordered(pending) /\ Ordered(delivered)
    /\ AllEarlier(Received, ToSet(pending) \cup Queued)
    /\ AllEarlier(ToSet(pending), Queued)

-----------------------------------------------------------------------------
(* Sequences as sets.                                                      *)

\* A sequence with one more element.
LEMMA AppendToSet ==
  ASSUME NEW S, NEW s \in Seq(S), NEW e \in S
  PROVE  /\ Append(s, e) \in Seq(S)
         /\ ToSet(Append(s, e)) = ToSet(s) \cup {e}
<1> DEFINE t == Append(s, e)
<1>1. /\ t \in Seq(S) /\ Len(t) = Len(s) + 1 /\ Len(s) \in Nat
      /\ \A i \in 1 .. Len(s) : t[i] = s[i]
      /\ t[Len(s) + 1] = e
      /\ DOMAIN s = 1 .. Len(s) /\ DOMAIN t = 1 .. Len(s) + 1
  BY AppendProperties
<1>2. \A i \in DOMAIN t : i \in DOMAIN s \/ i = Len(s) + 1
  BY <1>1
<1>3. DOMAIN s \subseteq DOMAIN t /\ Len(s) + 1 \in DOMAIN t
  BY <1>1
<1> HIDE DEF t
<1>4. ToSet(t) = ToSet(s) \cup {e}
  BY <1>1, <1>2, <1>3 DEF ToSet
<1>5. QED
  BY <1>1, <1>4 DEF t

\* A sequence is its head and its tail.
LEMMA HeadTailToSet ==
  ASSUME NEW S, NEW s \in Seq(S), s # <<>>
  PROVE  /\ Head(s) \in S /\ Tail(s) \in Seq(S)
         /\ ToSet(s) = ToSet(Tail(s)) \cup {Head(s)}
<1> DEFINE t == Tail(s)
<1>1. /\ Head(s) \in S /\ t \in Seq(S) /\ Len(s) \in Nat \ {0}
      /\ Len(t) = Len(s) - 1 /\ Head(s) = s[1]
      /\ DOMAIN s = 1 .. Len(s) /\ DOMAIN t = 1 .. Len(s) - 1
  BY HeadTailProperties, EmptySeq
<1>2. \A i \in DOMAIN t : t[i] = s[i + 1] /\ i + 1 \in DOMAIN s
  BY <1>1
<1>3. \A i \in DOMAIN s : i # 1 => i - 1 \in DOMAIN t /\ t[i - 1] = s[i]
  BY <1>1
<1>4. 1 \in DOMAIN s
  BY <1>1
<1> HIDE DEF t
<1>5. ToSet(s) \subseteq ToSet(t) \cup {Head(s)}
  <2>1. ASSUME NEW i \in DOMAIN s PROVE s[i] \in ToSet(t) \cup {Head(s)}
    BY <1>1, <1>3 DEF ToSet
  <2>2. QED
    BY <2>1 DEF ToSet
<1>6. ToSet(t) \cup {Head(s)} \subseteq ToSet(s)
  BY <1>1, <1>2, <1>4 DEF ToSet
<1>7. QED
  BY <1>1, <1>5, <1>6 DEF t

\* An event that is later than those of a sorted sequence goes to its end.
LEMMA AppendOrdered ==
  ASSUME NEW S, NEW s \in Seq(S), NEW e \in S, Ordered(s),
         \A f \in ToSet(s) \ {Drain} : Earlier(f, e)
  PROVE  Ordered(Append(s, e))
<1> DEFINE t == Append(s, e)
<1>1. /\ Len(s) \in Nat
      /\ \A i \in 1 .. Len(s) : t[i] = s[i]
      /\ t[Len(s) + 1] = e
      /\ DOMAIN s = 1 .. Len(s) /\ DOMAIN t = 1 .. Len(s) + 1
  BY AppendProperties
<1> HIDE DEF t
<1>2. ASSUME NEW i \in DOMAIN t, NEW j \in DOMAIN t, i < j, t[i] # Drain,
             t[j] # Drain
      PROVE  Earlier(t[i], t[j])
  <2>1. i \in DOMAIN s /\ t[i] = s[i]
    BY <1>1, <1>2
  <2>2. CASE j \in DOMAIN s
    BY <1>1, <1>2, <2>1, <2>2 DEF Ordered
  <2>3. CASE j = Len(s) + 1
    <3>1. s[i] \in ToSet(s) \ {Drain}
      BY <1>2, <2>1 DEF ToSet
    <3>2. QED
      BY <1>1, <2>1, <2>3, <3>1
  <2>4. QED
    BY <1>1, <2>2, <2>3
<1>3. QED
  BY <1>2 DEF Ordered, t

\* Every part of a sorted sequence is sorted.
LEMMA PartOrdered ==
  ASSUME NEW s, NEW t, NEW n \in Nat, Ordered(s), DOMAIN t \subseteq Nat,
         \A i \in DOMAIN t : i + n \in DOMAIN s /\ t[i] = s[i + n]
  PROVE  Ordered(t) /\ ToSet(t) \subseteq ToSet(s)
<1>1. Ordered(t)
  BY DEF Ordered
<1>2. ToSet(t) \subseteq ToSet(s)
  BY DEF ToSet
<1>3. QED
  BY <1>1, <1>2

\* SubSeq(s, n + 1, Len(s)) is s without its first n elements.
LEMMA SuffixProperties ==
  ASSUME NEW S, NEW s \in Seq(S), NEW n \in 0 .. Len(s)
  PROVE  LET t == SubSeq(s, n + 1, Len(s))
         IN  /\ DOMAIN t \subseteq Nat
             /\ \A i \in DOMAIN t : i + n \in DOMAIN s /\ t[i] = s[i + n]
<1> DEFINE t == SubSeq(s, n + 1, Len(s))
<1>1. Len(s) \in Nat /\ DOMAIN s = 1 .. Len(s)
  BY LenProperties
<1>2. n + 1 \in Int /\ Len(s) \in Int
  BY <1>1
<1>3. \A i \in n + 1 .. Len(s) : s[i] \in S
  BY <1>1, ElementOfSeq
<1>4. /\ t \in Seq(S)
      /\ Len(t) = IF n + 1 <= Len(s) THEN Len(s) - (n + 1) + 1 ELSE 0
      /\ \A i \in 1 .. Len(s) - (n + 1) + 1 : t[i] = s[n + 1 + i - 1]
  BY <1>2, <1>3, SubSeqProperties
<1> HIDE DEF t
<1>5. Len(t) = Len(s) - n
  <2>1. n \in Nat /\ n <= Len(s) /\ Len(s) \in Nat
    BY <1>1
  <2>2. CASE n + 1 <= Len(s)
    <3>1. Len(t) = Len(s) - (n + 1) + 1
      BY <1>4, <2>2
    <3>2. QED
      BY <2>1, <3>1
  <2>3. CASE ~ (n + 1 <= Len(s))
    <3>1. Len(t) = 0
      BY <1>4, <2>3
    <3>2. QED
      BY <2>1, <2>3, <3>1
  <2>4. QED
    BY <2>2, <2>3
<1>6. DOMAIN t = 1 .. Len(s) - n
  <2>1. DOMAIN t = 1 .. Len(t)
    BY <1>4, LenProperties
  <2>2. QED
    BY <1>5, <2>1
<1>7. ASSUME NEW i \in DOMAIN t
      PROVE  i + n \in DOMAIN s /\ t[i] = s[i + n]
  <2>1. /\ i \in 1 .. Len(s) - (n + 1) + 1 /\ n + 1 + i - 1 = i + n
        /\ i + n \in DOMAIN s
    BY <1>1, <1>6
  <2>2. t[i] = s[n + 1 + i - 1]
    BY <1>4, <2>1
  <2>3. QED
    BY <2>1, <2>2
<1>8. DOMAIN t \subseteq Nat
  BY <1>1, <1>6
<1>9. QED
  BY <1>7, <1>8 DEF t

\* In a sorted sequence the head is earlier than the tail.
LEMMA TailOrdered ==
  ASSUME NEW S, NEW s \in Seq(S), s # <<>>, Ordered(s), Head(s) # Drain
  PROVE  \A f \in ToSet(Tail(s)) \ {Drain} : Earlier(Head(s), f)
<1>1. /\ Len(s) \in Nat \ {0} /\ Head(s) = s[1]
      /\ DOMAIN s = 1 .. Len(s) /\ DOMAIN Tail(s) = 1 .. Len(s) - 1
      /\ \A i \in DOMAIN Tail(s) : Tail(s)[i] = s[i + 1]
  BY HeadTailProperties, EmptySeq
<1>2. ASSUME NEW i \in DOMAIN Tail(s), Tail(s)[i] # Drain
      PROVE  Earlier(Head(s), Tail(s)[i])
  <2>1. 1 \in DOMAIN s /\ i + 1 \in DOMAIN s /\ 1 < i + 1
    BY <1>1
  <2>2. QED
    BY <1>1, <1>2, <2>1 DEF Ordered
<1>3. QED
  BY <1>2 DEF ToSet

\* The tail of a sorted sequence is sorted.
LEMMA TailIsPart ==
  ASSUME NEW S, NEW s \in Seq(S), s # <<>>, Ordered(s)
  PROVE  Ordered(Tail(s)) /\ ToSet(Tail(s)) \subseteq ToSet(s)
<1>1. /\ DOMAIN Tail(s) \subseteq Nat
      /\ \A i \in DOMAIN Tail(s) : i + 1 \in DOMAIN s
                                 /\ Tail(s)[i] = s[i + 1]
  BY HeadTailProperties, EmptySeq
<1>2. QED
  BY <1>1, PartOrdered

-----------------------------------------------------------------------------
(* Types.                                                                  *)

\* A request has steps, whatever its shape.
LEMMA StepsType ==
  ASSUME NEW r \in Requests
  PROVE  Steps(Shape[r]) \in Seq(StepType)
<1> DEFINE s == Shape[r]
<1>1. /\ s.op \in {"search", "batch_search", "embed", "batch_embed", "rerank",
                   "agent", "reindex", "steward"}
      /\ s.lineage \in Seq(Lineage) /\ s.honey \in Nat
  BY ShapeAssumption
<1>2. \A t \in EventTypes : publish(t) \in StepType /\ fire(t) \in StepType
  BY DEF publish, fire, StepType
<1>3. work \in StepType
  BY DEF StepType
<1> HIDE DEF s
<1>4. Search(s) \in Seq(StepType)
  <2>1. /\ Len(s.lineage) \in Nat /\ DOMAIN s.lineage = 1 .. Len(s.lineage)
        /\ \A i \in 1 .. Len(s.lineage) : s.lineage[i] \in Lineage
    BY <1>1
  <2>2. Search(s) \in [1 .. Len(s.lineage) -> StepType]
    BY <1>2, <2>1 DEF Search, EventTypes
  <2>3. QED
    BY <2>1, <2>2, IsASeq
<1>5. HoneyTokens(s) \in Seq(StepType)
  <2>1. 2 * s.honey \in Nat
    BY <1>1
  <2>2. HoneyTokens(s) \in [1 .. 2 * s.honey -> StepType]
    BY <1>2 DEF HoneyTokens, EventTypes
  <2>3. QED
    BY <2>1, <2>2, IsASeq
<1>6. CASE s.op = "search"
  <2>1. <<publish("search_started")>> \in Seq(StepType)
    BY <1>2 DEF EventTypes
  <2>2. <<work, publish("search_completed")>> \in Seq(StepType)
    BY <1>2, <1>3 DEF EventTypes
  <2>3. (IF s.filtered THEN <<publish("permission_filtered")>> ELSE <<>>)
           \in Seq(StepType)
    BY <1>2 DEF EventTypes
  <2>4. SearchSteps(s) \in Seq(StepType)
    BY <1>4, <1>5, <2>1, <2>2, <2>3 DEF SearchSteps
  <2>5. QED
    BY <1>6, <2>4 DEF Steps, s
<1>7. CASE s.op = "batch_search"
  <2>1. <<work, publish("batch_search_completed"),
          fire("batch_search_completed")>> \in Seq(StepType)
    BY <1>2, <1>3 DEF EventTypes
  <2>2. BatchSearchSteps(s) \in Seq(StepType)
    BY <1>4, <2>1 DEF BatchSearchSteps
  <2>3. QED
    BY <1>7, <2>2 DEF Steps, s
<1>8. CASE s.op \in {"embed", "batch_embed", "rerank"}
  <2>1. \A t \in EventTypes : OneEventSteps(t) \in Seq(StepType)
    BY <1>2, <1>3 DEF OneEventSteps, EventTypes
  <2>2. QED
    BY <1>8, <2>1 DEF Steps, EventTypes, s
<1>9. CASE s.op = "agent"
  <2>1. AgentSteps \in Seq(StepType)
    BY <1>2 DEF AgentSteps, EventTypes
  <2>2. QED
    BY <1>9, <2>1 DEF Steps, s
<1>10. CASE s.op \in {"reindex", "steward"}
  <2>1. \A t \in EventTypes : CuratorSteps(t) \in Seq(StepType)
    BY <1>2, <1>3 DEF CuratorSteps
  <2>2. QED
    BY <1>10, <2>1 DEF Steps, EventTypes, s
<1>11. QED
  BY <1>1, <1>6, <1>7, <1>8, <1>9, <1>10

\* TypeOK holds at the start.
LEMMA PublisherTypeInit == Init => TypeOK
BY DEF Init, TypeOK, NoClient, Client

\* Every step preserves TypeOK.
LEMMA PublisherTypeStep == TypeOK /\ [Next]_vars => TypeOK'
<1> SUFFICES ASSUME TypeOK, [Next]_vars PROVE TypeOK'
  OBVIOUS
<1> USE DEF TypeOK, connection, history, handlers, Goto, Done, Now, NoClient,
            Client
<1>a. ASSUME NEW r \in Requests, steps[r] # <<>>, Done(r)
      PROVE  /\ steps' \in [Requests -> Seq(StepType)]
             /\ \A q \in Requests : q # r => steps'[q] = steps[q]
  <2>1. Tail(steps[r]) \in Seq(StepType)
    BY <1>a
  <2>2. QED
    BY <1>a, <2>1
<1>1. ASSUME NEW r \in Requests, Begin(r) PROVE TypeOK'
  <2>1. Steps(Shape[r]) \in Seq(StepType)
    BY StepsType
  <2>2. QED
    BY <1>1, <2>1 DEF Begin, StepType
<1>2. ASSUME NEW r \in Requests, Publish(r) PROVE TypeOK'
  <2>1. CASE nc \in NoClient
    <3>1. /\ phase[r] = "running" /\ steps[r] # <<>> /\ Done(r)
          /\ offered' = [offered EXCEPT ![r] = @ + 1]
      BY <1>2, <2>1 DEF Publish
    <3>2. steps' \in [Requests -> Seq(StepType)]
      BY <3>1, <1>a
    <3>3. offered' \in [Requests -> Nat]
      BY <3>1
    <3>4. QED
      BY <1>2, <2>1, <3>2, <3>3 DEF Publish
  <2>2. CASE nc \notin NoClient
    BY <1>2, <2>2 DEF Publish
  <2>3. QED
    BY <2>1, <2>2
<1>3. ASSUME NEW r \in Requests, Schedule(r) PROVE TypeOK'
  <2>1. Event(r) \in Events
    BY DEF Event, Events
  <2>2. QED
    BY <1>3, <2>1 DEF Schedule
<1>4. ASSUME NEW r \in Requests, Fire(r) \/ Work(r) \/ Raise(r) PROVE TypeOK'
  <2>1. CASE Fire(r) \/ Work(r)
    <3>1. phase[r] = "running" /\ steps[r] # <<>>
      BY <2>1 DEF Fire, Work
    <3>2. /\ steps' \in [Requests -> Seq(StepType)]
          /\ \A q \in Requests : q # r => steps'[q] = steps[q]
      BY <2>1, <3>1, <1>a DEF Fire, Work
    <3>3. QED
      BY <2>1, <3>1, <3>2 DEF Fire, Work
  <2>2. CASE Raise(r)
    BY <2>2 DEF Raise
  <2>3. QED
    BY <1>4, <2>1, <2>2
<1>5. ASSUME NEW k \in Hooks, Register(k) PROVE TypeOK'
  BY <1>5 DEF Register
<1>6. CASE Connect \/ ConnectFails \/ Reconnect \/ DrainEnds
  BY <1>6 DEF Connect, ConnectFails, Reconnect, DrainEnds
<1>7. CASE Run
  <2>1. Head(loop) \in Events /\ loop' \in Seq(Events \cup {Drain})
    BY <1>7 DEF Run
  <2>2. pending' = pending \/ pending' = Append(pending, Head(loop))
    BY <1>7 DEF Run
  <2>3. pending' \in Seq(Events)
    <3>1. pending \in Seq(Events)
      OBVIOUS
    <3>2. Append(pending, Head(loop)) \in Seq(Events)
      BY <2>1, <3>1, AppendToSet
    <3>3. QED
      BY <2>2, <3>1, <3>2
  <2>4. QED
    BY <1>7, <2>1, <2>3 DEF Run
<1>8. CASE RunDrain \/ Close
  <2>1. CASE RunDrain
    BY <2>1 DEF RunDrain
  <2>2. CASE Close
    <3>1. Append(loop, Drain) \in Seq(Events \cup {Drain})
      OBVIOUS
    <3>2. QED
      BY <2>2, <3>1 DEF Close
  <2>3. QED
    BY <1>8, <2>1, <2>2
<1>9. CASE Receive
  BY <1>9 DEF Receive
<1>10. CASE ConnectionLost
  <2>1. \A n \in 0 .. Len(pending) :
           SubSeq(pending, n + 1, Len(pending)) \in Seq(Events)
    BY SubSeqProperties
  <2>2. QED
    BY <1>10, <2>1, EmptySeq DEF ConnectionLost
<1>11. CASE GiveUp
  BY <1>11 DEF GiveUp
<1>12. CASE UNCHANGED vars
  BY <1>12 DEF vars
<1>13. QED
  BY <1>1, <1>2, <1>3, <1>4, <1>5, <1>6, <1>7, <1>8, <1>9, <1>10, <1>11, <1>12
  DEF Next, Handle, Send

\* Every variable keeps its type; in particular no event is scheduled before
\* there is a client.
THEOREM PublisherTypeCorrect == Spec => []TypeOK
BY PublisherTypeInit, PublisherTypeStep, PTL DEF Spec

-----------------------------------------------------------------------------
(* publish.                                                                *)

\* Every step preserves OfferInv: an event is numbered and scheduled in one step.
LEMMA OfferStep == TypeOK /\ OfferInv /\ [Next]_vars => OfferInv'
<1> SUFFICES ASSUME TypeOK, OfferInv, [Next]_vars PROVE OfferInv'
  OBVIOUS
<1> USE DEF OfferInv, NoGaps, connection, history, handlers, NoClient, Client
<1>1. ASSUME NEW r \in Requests, Publish(r) PROVE OfferInv'
  <2>1. CASE nc \in NoClient
    <3>1. accepted' = {} /\ nc' = nc
      BY <1>1, <2>1 DEF Publish
    <3>2. QED
      BY <3>1
  <2>2. CASE nc \notin NoClient
    BY <1>1, <2>2 DEF Publish
  <2>3. QED
    BY <2>1, <2>2
<1>2. ASSUME NEW r \in Requests, Schedule(r) PROVE OfferInv'
  <2>1. /\ nc \notin NoClient /\ nc' = nc
        /\ accepted' = accepted \cup {<<r, offered[r] + 1>>}
        /\ offered' = [offered EXCEPT ![r] = offered[r] + 1]
    BY <1>2 DEF Schedule, Event, TypeOK
  <2>2. /\ offered \in [Requests -> Nat] /\ accepted \subseteq Events
        /\ \A e \in accepted : e = <<e[1], e[2]>> /\ e[1] \in Requests
                                 /\ e[2] \in Nat
    BY DEF TypeOK, Events
  <2>3. ASSUME NEW e \in accepted' PROVE e[2] <= offered'[e[1]]
    BY <2>1, <2>2
  <2>4. ASSUME NEW e \in accepted', NEW n \in e[2] .. offered'[e[1]]
        PROVE  <<e[1], n>> \in accepted'
    <3>1. CASE e[1] = r /\ n = offered[r] + 1
      BY <2>1, <3>1
    <3>2. CASE ~ (e[1] = r /\ n = offered[r] + 1)
      <4>1. e \in accepted
        BY <2>1, <2>2, <2>4, <3>2
      <4>2. n \in e[2] .. offered[e[1]]
        BY <2>1, <2>2, <2>4, <3>2, <4>1
      <4>3. QED
        BY <2>1, <4>1, <4>2
    <3>3. QED
      BY <3>1, <3>2
  <2>5. QED
    BY <2>1, <2>3, <2>4
<1>3. ASSUME UNCHANGED <<accepted, offered>>, nc \in Client => nc' \in Client
      PROVE  OfferInv'
  <2>1. nc \in NoClient \cup Client
    BY DEF TypeOK
  <2>2. QED
    BY <1>3, <2>1
<1>4. ASSUME NEW r \in Requests, Begin(r) \/ Fire(r) \/ Work(r) \/ Raise(r)
      PROVE  OfferInv'
  BY <1>3, <1>4 DEF Begin, Fire, Work, Raise
<1>5. CASE Connect \/ ConnectFails \/ ConnectionLost \/ Reconnect \/ GiveUp
  BY <1>3, <1>5 DEF Connect, ConnectFails, ConnectionLost, Reconnect, GiveUp
<1>6. CASE Close \/ Send
  BY <1>3, <1>6 DEF Close, Send, Run, RunDrain, Receive, DrainEnds
<1>7. CASE (\E k \in Hooks : Register(k)) \/ UNCHANGED vars
  BY <1>3, <1>7 DEF Register, vars
<1>8. QED
  BY <1>1, <1>2, <1>4, <1>5, <1>6, <1>7 DEF Next, Handle

\* Once an event of a request was accepted, publish drops none after it.
THEOREM NoEventSkipped == Spec => []NoGaps
<1>1. Init => OfferInv
  BY DEF Init, OfferInv, NoGaps
<1>2. TypeOK /\ OfferInv /\ [Next]_vars => OfferInv'
  BY OfferStep
<1>3. OfferInv => NoGaps
  BY DEF OfferInv
<1>4. QED
  BY <1>1, <1>2, <1>3, PublisherTypeCorrect, PTL DEF Spec

-----------------------------------------------------------------------------
(* The loop and the client.                                                *)

\* Every step preserves NothingVanishes: it is inductive.
LEMMA VanishStep ==
  TypeOK /\ NothingVanishes /\ [Next]_vars => NothingVanishes'
<1> SUFFICES ASSUME TypeOK, NothingVanishes, [Next]_vars
             PROVE  NothingVanishes'
  OBVIOUS
<1> USE DEF NothingVanishes, Queued, Received, connection, history,
            handlers
<1>1. /\ loop \in Seq(Events \cup {Drain}) /\ pending \in Seq(Events)
      /\ delivered \in Seq(Events) /\ Drain \notin Events
  BY DrainAssumption DEF TypeOK, Events
<1>2. ASSUME UNCHANGED <<accepted, loop, pending, delivered, broken, refused>>
      PROVE  NothingVanishes'
  BY <1>2
<1>3. ASSUME NEW r \in Requests, Schedule(r) PROVE NothingVanishes'
  <2>1. /\ loop' = Append(loop, Event(r)) /\ Event(r) # Drain
        /\ accepted' = accepted \cup {Event(r)}
    BY <1>3, DrainAssumption DEF Schedule, Event, TypeOK
  <2>2. ToSet(loop') = ToSet(loop) \cup {Event(r)}
    <3>1. Event(r) \in Events \cup {Drain}
      BY <1>3 DEF Schedule, Event, Events, TypeOK
    <3>2. QED
      BY <1>1, <2>1, <3>1, AppendToSet
  <2>3. QED
    BY <1>3, <2>1, <2>2 DEF Schedule
<1>4. CASE Run
  <2> DEFINE e == Head(loop)
  <2>1. loop # <<>> /\ loop' = Tail(loop) /\ e \in Events
    BY <1>1, <1>4, HeadTailToSet DEF Run
  <2>2. ToSet(loop) \subseteq ToSet(loop') \cup {e}
    BY <1>1, <2>1, HeadTailToSet
  <2>3. \/ ToSet(pending') = ToSet(pending) \cup {e}
        \/ pending' = pending /\ e \in broken' \cup refused'
    <3>1. ToSet(Append(pending, e)) = ToSet(pending) \cup {e}
      BY <1>1, <2>1, AppendToSet
    <3>2. QED
      BY <1>4, <3>1 DEF Run
  <2>4. /\ broken \subseteq broken' /\ refused \subseteq refused'
        /\ accepted' = accepted /\ delivered' = delivered
    BY <1>4 DEF Run
  <2>5. QED
    BY <2>2, <2>3, <2>4
<1>5. CASE RunDrain
  <2>1. ToSet(loop) \subseteq ToSet(Tail(loop)) \cup {Drain}
    BY <1>1, <1>5, HeadTailToSet DEF RunDrain
  <2>2. QED
    BY <1>5, <2>1 DEF RunDrain
<1>6. CASE Close
  <2>1. ToSet(loop) \subseteq ToSet(Append(loop, Drain))
    <3>1. Drain \in Events \cup {Drain}
      OBVIOUS
    <3>2. QED
      BY <1>1, <3>1, AppendToSet
  <2>2. QED
    BY <1>6, <2>1 DEF Close
<1>7. CASE Receive
  <2>1. ToSet(delivered') = ToSet(delivered) \cup {Head(pending)}
    <3>1. Head(pending) \in Events
      BY <1>1, <1>7, HeadTailToSet DEF Receive
    <3>2. QED
      BY <1>1, <1>7, <3>1, AppendToSet DEF Receive
  <2>2. ToSet(pending) \subseteq ToSet(pending') \cup {Head(pending)}
    BY <1>1, <1>7, HeadTailToSet DEF Receive
  <2>3. QED
    BY <1>7, <2>1, <2>2 DEF Receive
<1>8. CASE ConnectionLost
  <2>1. ASSUME NEW n \in 0 .. Len(pending)
        PROVE  ToSet(pending) \subseteq
                  ToSet(SubSeq(pending, n + 1, Len(pending)))
                    \cup ToSet(SubSeq(pending, 1, n))
    <3>1. ASSUME NEW i \in DOMAIN pending
          PROVE  \/ pending[i] \in ToSet(SubSeq(pending, 1, n))
                 \/ pending[i] \in ToSet(SubSeq(pending, n + 1, Len(pending)))
      <4>1. CASE i <= n
        <5>1. i \in DOMAIN SubSeq(pending, 1, n)
              /\ SubSeq(pending, 1, n)[i] = pending[i]
          BY <1>1, <4>1
        <5>2. QED
          BY <5>1 DEF ToSet
      <4>2. CASE ~ (i <= n)
        <5>1. i - n \in DOMAIN SubSeq(pending, n + 1, Len(pending))
              /\ SubSeq(pending, n + 1, Len(pending))[i - n] = pending[i]
          BY <1>1, <4>2
        <5>2. QED
          BY <5>1 DEF ToSet
      <4>3. QED
        BY <4>1, <4>2
    <3>2. QED
      BY <3>1 DEF ToSet
  <2>2. CASE nc = "open"
    BY <1>8, <2>1, <2>2 DEF ConnectionLost
  <2>3. CASE nc = "draining"
    BY <1>8, <2>3 DEF ConnectionLost
  <2>4. QED
    BY <1>8, <2>2, <2>3 DEF ConnectionLost
<1>9. CASE GiveUp
  BY <1>9 DEF GiveUp
<1>10. ASSUME NEW r \in Requests,
              Begin(r) \/ Publish(r) \/ Fire(r) \/ Work(r) \/ Raise(r)
       PROVE  NothingVanishes'
  BY <1>2, <1>10 DEF Begin, Publish, Fire, Work, Raise
<1>11. CASE Connect \/ ConnectFails \/ Reconnect \/ DrainEnds
  BY <1>2, <1>11 DEF Connect, ConnectFails, Reconnect, DrainEnds
<1>12. CASE (\E k \in Hooks : Register(k)) \/ UNCHANGED vars
  BY <1>2, <1>12 DEF Register, vars
<1>13. QED
  BY <1>3, <1>4, <1>5, <1>6, <1>7, <1>8, <1>9, <1>10, <1>11, <1>12
  DEF Next, Handle, Send

\* An accepted event is under way or was received, unless an outage or close
\* cost it.
THEOREM NoEventVanishes == Spec => []NothingVanishes
<1>1. Init => NothingVanishes
  BY DEF Init, NothingVanishes
<1>2. QED
  BY <1>1, VanishStep, PublisherTypeCorrect, PTL DEF Spec

-----------------------------------------------------------------------------
(* close.                                                                  *)

\* Every step preserves CloseInv: the drain is scheduled last and once.
LEMMA CloseStep ==
  TypeOK /\ OfferInv /\ CloseInv /\ [Next]_vars => CloseInv'
<1> SUFFICES ASSUME TypeOK, OfferInv, CloseInv, [Next]_vars PROVE CloseInv'
  OBVIOUS
<1> USE DEF CloseInv, CloseKeepsAccepted, connection, history, handlers
<1>1. /\ loop \in Seq(Events \cup {Drain}) /\ Drain \notin Events
      /\ accepted \subseteq Events /\ beforeClose \subseteq accepted
      /\ nc \in NoClient \cup Client
  BY DrainAssumption DEF TypeOK, Events
<1>2. ASSUME UNCHANGED <<loop, refused, closed, beforeClose>>,
             nc' \in {"draining", "drained"} => nc \in {"draining", "drained"}
      PROVE  CloseInv'
  BY <1>2
<1>3. ASSUME NEW r \in Requests, Schedule(r) PROVE CloseInv'
  <2>1. /\ loop' = Append(loop, Event(r))
        /\ UNCHANGED <<nc, refused, closed, beforeClose>>
    BY <1>3 DEF Schedule
  <2>2. Event(r) \notin beforeClose /\ Event(r) # Drain
        /\ Event(r) \in Events \cup {Drain}
    BY <1>1 DEF OfferInv, Event, Events, TypeOK
  <2>3. /\ DOMAIN loop' = 1 .. Len(loop) + 1 /\ DOMAIN loop = 1 .. Len(loop)
        /\ Len(loop) \in Nat
        /\ \A i \in 1 .. Len(loop) : loop'[i] = loop[i]
        /\ loop'[Len(loop) + 1] = Event(r)
    BY <1>1, <2>1, <2>2, AppendProperties
  <2>4. \A i \in DOMAIN loop' : i \in DOMAIN loop \/ i = Len(loop) + 1
    BY <2>3
  <2>5. ASSUME NEW i \in DOMAIN loop', NEW j \in DOMAIN loop',
               i < j, loop'[i] = Drain
        PROVE  loop'[j] \notin beforeClose \cup {Drain}
    BY <2>2, <2>3, <2>4, <2>5
  <2>6. QED
    BY <2>1, <2>2, <2>3, <2>4, <2>5
<1>4. ASSUME loop # <<>>, loop' = Tail(loop),
             UNCHANGED <<closed, beforeClose>>,
             ~ closed => refused' = {} /\ nc' \notin {"draining", "drained"},
             nc' \in {"draining", "drained"} =>
                nc' = nc \/ Head(loop) = Drain,
             beforeClose \cap refused' = {}
      PROVE  CloseInv'
  <2>1. /\ DOMAIN loop = 1 .. Len(loop) /\ DOMAIN loop' = 1 .. Len(loop) - 1
        /\ Len(loop) \in Nat /\ Head(loop) = loop[1]
        /\ \A i \in DOMAIN loop' : loop'[i] = loop[i + 1]
    BY <1>1, <1>4, HeadTailProperties, EmptySeq
  <2>2. /\ \A i \in DOMAIN loop' : i + 1 \in DOMAIN loop /\ 1 < i + 1
        /\ \A i, j \in DOMAIN loop' : i < j => i + 1 < j + 1
    BY <2>1
  <2>3. \A i, j \in DOMAIN loop' :
           i < j /\ loop'[i] = Drain =>
              loop'[j] \notin beforeClose \cup {Drain}
    BY <2>1, <2>2
  <2>4. Head(loop) = Drain =>
           \A i \in DOMAIN loop' : loop'[i] \notin beforeClose \cup {Drain}
    <3>1. \A i \in DOMAIN loop' : 1 \in DOMAIN loop
      BY <2>1
    <3>2. QED
      BY <2>1, <2>2, <3>1
  <2>5. QED
    BY <1>4, <2>1, <2>2, <2>3, <2>4
<1>5. CASE Run
  <2>1. Head(loop) = loop[1] /\ 1 \in DOMAIN loop
    BY <1>1, <1>5, HeadTailProperties, EmptySeq DEF Run
  <2>2. nc \in {"draining", "drained"} => loop[1] \notin beforeClose
    BY <2>1
  <2>3. \/ refused' = refused
        \/ /\ nc \in {"draining", "drained"}
           /\ refused' = refused \cup {Head(loop)}
    BY <1>5, Zenon DEF Run
  <2>4. ~ closed => refused' = {} /\ nc' \notin {"draining", "drained"}
    BY <1>5, <2>3 DEF Run
  <2>5. beforeClose \cap refused' = {}
    BY <2>1, <2>2, <2>3
  <2>6. QED
    BY <1>4, <1>5, <2>4, <2>5 DEF Run
<1>6. CASE RunDrain
  <2>1. 1 \in DOMAIN loop /\ loop[1] = Drain
    BY <1>1, <1>6, HeadTailProperties, EmptySeq DEF RunDrain
  <2>2. QED
    BY <1>4, <1>6, <2>1 DEF RunDrain
<1>7. CASE Close
  <2>1. /\ loop' = Append(loop, Drain) /\ ~ closed /\ closed'
        /\ nc' = nc /\ refused' = {}
    BY <1>7 DEF Close
  <2>2. /\ DOMAIN loop' = 1 .. Len(loop) + 1 /\ DOMAIN loop = 1 .. Len(loop)
        /\ Len(loop) \in Nat
        /\ \A i \in 1 .. Len(loop) : loop'[i] = loop[i]
    <3>1. Drain \in Events \cup {Drain}
      OBVIOUS
    <3>2. QED
      BY <1>1, <2>1, <3>1, AppendProperties
  <2>3. \A i, j \in DOMAIN loop' : i < j => i \in DOMAIN loop
    BY <2>2
  <2>4. QED
    BY <2>1, <2>2, <2>3
<1>8. CASE (\E r \in Requests : Begin(r) \/ Publish(r) \/ Fire(r) \/ Work(r)
                                 \/ Raise(r))
           \/ (\E k \in Hooks : Register(k))
  BY <1>2, <1>8 DEF Begin, Publish, Fire, Work, Raise, Register
<1>9. CASE Connect \/ ConnectFails \/ Reconnect \/ DrainEnds \/ Receive
  BY <1>2, <1>9 DEF Connect, ConnectFails, Reconnect, DrainEnds, Receive
<1>10. CASE ConnectionLost \/ GiveUp \/ UNCHANGED vars
  BY <1>2, <1>10 DEF ConnectionLost, GiveUp, vars
<1>11. QED
  BY <1>3, <1>5, <1>6, <1>7, <1>8, <1>9, <1>10 DEF Next, Handle, Send

\* The client refuses no event that was accepted before close.
THEOREM CloseLosesNothing == Spec => []CloseKeepsAccepted
<1>1. Init => OfferInv /\ CloseInv
  BY DEF Init, OfferInv, NoGaps, CloseInv, CloseKeepsAccepted, NoClient
<1>2. CloseInv => CloseKeepsAccepted
  BY DEF CloseInv
<1>3. QED
  BY <1>1, <1>2, OfferStep, CloseStep, PublisherTypeCorrect, PTL DEF Spec

-----------------------------------------------------------------------------
(* Order.                                                                  *)

\* Every step preserves OrderInv: the loop, the client and the connection are
\* queues.
LEMMA OrderStep ==
  TypeOK /\ OfferInv /\ OrderInv /\ [Next]_vars => OrderInv'
<1> SUFFICES ASSUME TypeOK, OfferInv, OrderInv, [Next]_vars PROVE OrderInv'
  OBVIOUS
<1> USE DEF Queued, Received, connection, history, handlers
<1>1. /\ loop \in Seq(Events \cup {Drain}) /\ pending \in Seq(Events)
      /\ delivered \in Seq(Events) /\ Drain \notin Events
      /\ accepted \subseteq Events
  BY DrainAssumption DEF TypeOK, Events
<1>2. ASSUME UNCHANGED <<accepted, loop, pending, delivered>>
      PROVE  OrderInv'
  BY <1>2 DEF OrderInv, Ordered
<1>3. ASSUME NEW r \in Requests, Schedule(r) PROVE OrderInv'
  <2> DEFINE e == Event(r)
  <2>1. /\ loop' = Append(loop, e) /\ accepted' = accepted \cup {e}
        /\ pending' = pending /\ delivered' = delivered
    BY <1>3 DEF Schedule
  <2>2. e \in Events \cup {Drain} /\ e # Drain
    BY <1>1 DEF Event, Events, TypeOK
  <2>3. \A f \in accepted : Earlier(f, e)
    BY <1>1 DEF OfferInv, Earlier, Event, Events, TypeOK
  <2> HIDE DEF e
  <2>4. ToSet(loop') = ToSet(loop) \cup {e}
    BY <1>1, <2>1, <2>2, AppendToSet
  <2>5. Ordered(loop')
    <3>1. \A f \in ToSet(loop) \ {Drain} : Earlier(f, e)
      BY <2>3 DEF OrderInv
    <3>2. QED
      BY <1>1, <2>1, <2>2, <3>1, AppendOrdered DEF OrderInv
  <2>6. Ordered(pending') /\ Ordered(delivered')
    BY <2>1 DEF OrderInv
  <2>7. QED
    BY <2>1, <2>3, <2>4, <2>5, <2>6 DEF OrderInv, AllEarlier
<1>4. ASSUME UNCHANGED <<accepted, delivered>>, loop # <<>>,
             loop' = Tail(loop),
             \/ pending' = pending
             \/ /\ pending' = Append(pending, Head(loop))
                /\ Head(loop) # Drain
      PROVE  OrderInv'
  <2>1. /\ Ordered(loop') /\ ToSet(loop') \subseteq ToSet(loop)
        /\ Head(loop) \in ToSet(loop) /\ Head(loop) \in Events \cup {Drain}
    BY <1>1, <1>4, TailIsPart, HeadTailToSet DEF OrderInv
  <2>2. CASE pending' = pending
    BY <1>4, <2>1, <2>2 DEF OrderInv, AllEarlier, Ordered
  <2>3. CASE pending' = Append(pending, Head(loop)) /\ Head(loop) # Drain
    <3>1. /\ Head(loop) \in Queued
          /\ \A f \in ToSet(pending) \cup Received : Earlier(f, Head(loop))
      BY <2>1, <2>3 DEF OrderInv, AllEarlier
    <3>2. ToSet(pending') = ToSet(pending) \cup {Head(loop)}
      BY <1>1, <2>1, <2>3, AppendToSet
    <3>3. Ordered(pending')
      BY <1>1, <2>1, <2>3, <3>1, AppendOrdered DEF OrderInv
    <3>4. \A f \in ToSet(loop') \ {Drain} : Earlier(Head(loop), f)
      BY <1>1, <1>4, <2>3, TailOrdered DEF OrderInv
    <3>5. Ordered(delivered')
      BY <1>4 DEF OrderInv
    <3>6. QED
      BY <1>4, <2>1, <3>1, <3>2, <3>3, <3>4, <3>5 DEF OrderInv, AllEarlier
  <2>4. QED
    BY <1>4, <2>2, <2>3
<1>5. CASE Run
  <2>1. \/ pending' = pending
        \/ pending' = Append(pending, Head(loop)) /\ Head(loop) # Drain
    BY <1>5, Zenon DEF Run
  <2>2. QED
    BY <1>4, <1>5, <2>1 DEF Run
<1>6. CASE RunDrain
  BY <1>4, <1>6 DEF RunDrain
<1>7. CASE Close
  <2>1. /\ loop' = Append(loop, Drain)
        /\ UNCHANGED <<accepted, pending, delivered>>
    BY <1>7 DEF Close
  <2>2. Drain \in Events \cup {Drain}
    OBVIOUS
  <2>3. Queued' = Queued
    BY <1>1, <2>1, <2>2, AppendToSet
  <2>4. Ordered(loop')
    <3>1. /\ DOMAIN loop' = 1 .. Len(loop) + 1 /\ Len(loop) \in Nat
          /\ DOMAIN loop = 1 .. Len(loop) /\ loop'[Len(loop) + 1] = Drain
          /\ \A i \in 1 .. Len(loop) : loop'[i] = loop[i]
      BY <1>1, <2>1, <2>2, AppendProperties
    <3>2. \A i \in DOMAIN loop' : loop'[i] # Drain =>
             i \in DOMAIN loop /\ loop'[i] = loop[i]
      BY <3>1
    <3>3. QED
      BY <3>2 DEF OrderInv, Ordered
  <2>5. QED
    BY <2>1, <2>3, <2>4 DEF OrderInv, Ordered
<1>8. CASE Receive
  <2>1. /\ delivered' = Append(delivered, Head(pending))
        /\ pending # <<>> /\ pending' = Tail(pending)
        /\ UNCHANGED <<accepted, loop>>
    BY <1>8 DEF Receive
  <2>2. /\ Head(pending) \in ToSet(pending) /\ Head(pending) \in Events
        /\ Ordered(pending') /\ ToSet(pending') \subseteq ToSet(pending)
    BY <1>1, <2>1, TailIsPart, HeadTailToSet DEF OrderInv
  <2>3. ToSet(delivered') = ToSet(delivered) \cup {Head(pending)}
    BY <1>1, <2>1, <2>2, AppendToSet
  <2>4. Ordered(delivered')
    <3>1. \A f \in ToSet(delivered) \ {Drain} : Earlier(f, Head(pending))
      BY <2>2 DEF OrderInv, AllEarlier
    <3>2. QED
      BY <1>1, <2>1, <2>2, <3>1, AppendOrdered DEF OrderInv
  <2>5. \A f \in ToSet(pending') : Earlier(Head(pending), f)
    <3>1. Head(pending) # Drain /\ Drain \notin ToSet(pending')
      <4>1. ToSet(pending) \subseteq Events
        BY <1>1 DEF OrderInv
      <4>2. QED
        BY <1>1, <2>2, <4>1
    <3>2. QED
      BY <1>1, <2>1, <3>1, TailOrdered DEF OrderInv
  <2>6. \A f \in Queued : Earlier(Head(pending), f)
    BY <2>2 DEF OrderInv, AllEarlier
  <2>7. Ordered(loop')
    BY <2>1 DEF OrderInv
  <2>8. QED
    BY <2>1, <2>2, <2>3, <2>4, <2>5, <2>6, <2>7 DEF OrderInv, AllEarlier
<1>9. ASSUME UNCHANGED <<accepted, loop, delivered>>,
             NEW n \in 0 .. Len(pending),
             pending' = SubSeq(pending, n + 1, Len(pending))
      PROVE  OrderInv'
  <2>1. /\ DOMAIN pending' \subseteq Nat
        /\ \A i \in DOMAIN pending' : i + n \in DOMAIN pending
                                    /\ pending'[i] = pending[i + n]
    BY <1>1, <1>9, SuffixProperties
  <2>2. Ordered(pending') /\ ToSet(pending') \subseteq ToSet(pending)
    <3>1. n \in Nat
      BY <1>1, LenProperties
    <3>2. QED
      BY <2>1, <3>1, PartOrdered DEF OrderInv
  <2>3. QED
    BY <1>9, <2>2 DEF OrderInv, AllEarlier, Ordered
<1>10. ASSUME UNCHANGED <<accepted, loop, delivered>>, pending' = <<>>
       PROVE  OrderInv'
  <2>1. ToSet(pending') = {} /\ Ordered(pending')
    BY <1>10 DEF ToSet, Ordered
  <2>2. QED
    BY <1>10, <2>1 DEF OrderInv, AllEarlier, Ordered
<1>11. CASE ConnectionLost \/ GiveUp
  BY <1>9, <1>10, <1>11 DEF ConnectionLost, GiveUp
<1>12. CASE (\E r \in Requests : Begin(r) \/ Publish(r) \/ Fire(r) \/ Work(r)
                                  \/ Raise(r))
            \/ (\E k \in Hooks : Register(k))
  BY <1>2, <1>12 DEF Begin, Publish, Fire, Work, Raise, Register
<1>13. CASE Connect \/ ConnectFails \/ Reconnect \/ DrainEnds
            \/ UNCHANGED vars
  BY <1>2, <1>13 DEF Connect, ConnectFails, Reconnect, DrainEnds, vars
<1>14. QED
  BY <1>3, <1>5, <1>6, <1>7, <1>8, <1>11, <1>12, <1>13 DEF Next, Handle, Send

\* The server receives the events of a request in the order they were
\* published, and none twice.
THEOREM ReceivedInOrder == Spec => []InOrder
<1>1. Init => OfferInv /\ OrderInv
  BY DEF Init, OfferInv, NoGaps, OrderInv, Ordered, AllEarlier, Queued,
         Received, ToSet
<1>2. TypeOK /\ OrderInv => InOrder
  <2>1. TypeOK => \A i \in DOMAIN delivered : delivered[i] # Drain
    BY DrainAssumption DEF TypeOK, Events
  <2>2. QED
    BY <2>1 DEF OrderInv, Ordered, Earlier, InOrder
<1>3. QED
  BY <1>1, <1>2, OfferStep, OrderStep, PublisherTypeCorrect, PTL DEF Spec

-----------------------------------------------------------------------------
(* Honey tokens.                                                           *)

\* The step that fires the hooks for a honey token.
Alert(step) == step.do = "fire" /\ step.type = "honey_token_retrieved"

\* The alerts of a request that are behind it, by the number of steps that
\* were left when they were raised.
Raised(r) ==
    LET all == Steps(Shape[r])
    IN  {n \in Len(steps[r]) + 1 .. Len(all) : Alert(all[Len(all) - n + 1])}

\* What a handler has still to do are the last steps of its request.
Left(r) ==
    LET all == Steps(Shape[r])
    IN  /\ Len(steps[r]) <= Len(all)
        /\ \A i \in 1 .. Len(steps[r]) :
              steps[r][i] = all[Len(all) - Len(steps[r]) + i]

\* The calls of a hook for a request.
CallsOf(k, r) == {c \in calls : c[1] = k /\ c[2] = r}

\* The inductive invariant behind AlertsRaised: a hook that was registered when
\* the request began was called at each alert that is behind it.
AlertInv ==
    \A r \in Requests :
        /\ phase[r] = "idle" => \A c \in calls : c[2] # r
        /\ phase[r] \in {"running", "scheduling"} =>
              /\ Left(r)
              /\ \A k \in atBegin[r] : k[2] = "honey_token_retrieved" =>
                    CallsOf(k, r) = {<<k, r, n>> : n \in Raised(r)}

\* A request is left with the next steps when it has done one, and then has
\* raised that alert if it was one.
LEMMA StepDone ==
  ASSUME TypeOK, NEW r \in Requests, Left(r), steps[r] # <<>>, Done(r)
  PROVE  /\ Left(r)'
         /\ Raised(r)' = Raised(r) \cup
               (IF Alert(Head(steps[r])) THEN {Len(steps[r])} ELSE {})
<1> DEFINE all == Steps(Shape[r])
           old == steps[r]
           l == Len(old)
           m == Len(all)
<1>1. all \in Seq(StepType) /\ old \in Seq(StepType) /\ old # <<>>
  BY StepsType DEF TypeOK
<1>2. steps'[r] = Tail(old)
  BY DEF TypeOK, Done
<1>3. /\ l \in Nat \ {0} /\ m \in Nat /\ Head(old) = old[1]
      /\ Len(Tail(old)) = l - 1
      /\ \A i \in 1 .. l - 1 : Tail(old)[i] = old[i + 1]
  BY <1>1, HeadTailProperties, EmptySeq, LenProperties
<1>4. l <= m /\ \A i \in 1 .. l : old[i] = all[m - l + i]
  BY DEF Left
<1> HIDE DEF old, l, all, m
<1>5. Len(Tail(old)) <= m
  BY <1>3, <1>4
<1>6. ASSUME NEW i \in 1 .. Len(Tail(old))
      PROVE  Tail(old)[i] = all[m - Len(Tail(old)) + i]
  <2>1. i \in 1 .. l - 1 /\ i + 1 \in 1 .. l
    BY <1>3
  <2>2. m - Len(Tail(old)) + i = m - l + (i + 1)
    <3> DEFINE n == Len(Tail(old))
    <3>1. i \in Int /\ l \in Int /\ m \in Int /\ n = l - 1
      BY <1>3, <2>1
    <3> HIDE DEF n
    <3>2. m - n + i = m - l + (i + 1)
      BY <3>1
    <3> QED BY <3>2 DEF n
  <2>3. Tail(old)[i] = old[i + 1] /\ old[i + 1] = all[m - l + (i + 1)]
    BY <1>3, <1>4, <2>1
  <2> QED BY <2>2, <2>3
<1>7. Left(r)'
  BY <1>2, <1>5, <1>6 DEF Left, all, m
<1>8. Head(old) = all[m - l + 1]
  BY <1>3, <1>4
<1>9. l .. m = (l + 1 .. m) \cup {l}
  BY <1>3, <1>4
<1>10. (l - 1) + 1 = l
  BY <1>3
<1>11. Raised(r)' = {n \in l .. m : Alert(all[m - n + 1])}
  <2>1. Raised(r)' =
           {n \in Len(Tail(old)) + 1 .. m : Alert(all[m - n + 1])}
    BY <1>2 DEF Raised, all, m
  <2> QED BY <2>1, <1>3, <1>10
<1>12. Raised(r) = {n \in l + 1 .. m : Alert(all[m - n + 1])}
  BY DEF Raised, all, m, l, old
<1>13. {n \in l .. m : Alert(all[m - n + 1])} =
          {n \in l + 1 .. m : Alert(all[m - n + 1])}
             \cup (IF Alert(Head(old)) THEN {l} ELSE {})
  BY <1>8, <1>9, Zenon
<1> QED BY <1>7, <1>11, <1>12, <1>13 DEF l, old

\* Done with a step that raises no alert, a request has the same calls.
LEMMA QuietStep ==
  ASSUME TypeOK, AlertInv, NEW r \in Requests,
         phase[r] \in {"running", "scheduling"}, steps[r] # <<>>, Done(r),
         Head(steps[r]).do # "fire",
         UNCHANGED <<calls, atBegin>>, phase' = [phase EXCEPT ![r] = "running"]
  PROVE  AlertInv'
<1>1. Left(r)' /\ Raised(r)' = Raised(r)
  BY StepDone DEF AlertInv, Alert
<1>2. \A q \in Requests : q # r =>
         phase'[q] = phase[q] /\ steps'[q] = steps[q]
  BY DEF TypeOK, Done
<1>3. \A q \in Requests : q # r =>
         (Left(q)' <=> Left(q)) /\ Raised(q)' = Raised(q)
  BY <1>2 DEF Left, Raised
<1>4. phase'[r] = "running"
  BY DEF TypeOK
<1> QED BY <1>1, <1>2, <1>3, <1>4 DEF AlertInv, CallsOf

\* A handler that is not idle goes on without a step, or fails.
LEMMA OtherPhase ==
  ASSUME TypeOK, AlertInv, NEW r \in Requests,
         phase[r] = "running", NEW to \in {"scheduling", "failed"},
         phase' = [phase EXCEPT ![r] = to],
         to = "scheduling" => steps' = steps,
         \A q \in Requests : q # r => steps'[q] = steps[q],
         UNCHANGED <<calls, atBegin>>
  PROVE  AlertInv'
<1>1. \A q \in Requests : q # r =>
         phase'[q] = phase[q] /\ (Left(q)' <=> Left(q)) /\ Raised(q)' = Raised(q)
  BY DEF TypeOK, Left, Raised
<1>2. phase'[r] = to
  BY DEF TypeOK
<1>3. to = "scheduling" => (Left(r)' <=> Left(r)) /\ Raised(r)' = Raised(r)
  BY DEF Left, Raised
<1> QED BY <1>1, <1>2, <1>3 DEF AlertInv, CallsOf

\* Every step preserves AlertInv.
LEMMA AlertStep == TypeOK /\ AlertInv /\ [Next]_vars => AlertInv'
<1> SUFFICES ASSUME TypeOK, AlertInv, [Next]_vars PROVE AlertInv'
  OBVIOUS
<1>1. ASSUME UNCHANGED <<phase, steps, calls, atBegin>> PROVE AlertInv'
  BY <1>1 DEF AlertInv, Left, Raised, CallsOf
<1>2. ASSUME NEW r \in Requests, Begin(r) PROVE AlertInv'
  <2> DEFINE all == Steps(Shape[r])
  <2>1. /\ phase[r] = "idle" /\ phase'[r] = "running" /\ calls' = calls
        /\ steps'[r] = all
        /\ \A q \in Requests : q # r => /\ phase'[q] = phase[q]
                                        /\ steps'[q] = steps[q]
                                        /\ atBegin'[q] = atBegin[q]
    BY <1>2 DEF Begin, Goto, TypeOK
  <2>2. Len(all) \in Nat
    BY StepsType
  <2> HIDE DEF all
  <2>3. \A i \in 1 .. Len(all) : Len(all) - Len(all) + i = i
    BY <2>2
  <2>4. Left(r)'
    BY <2>1, <2>2, <2>3 DEF Left, all
  <2>5. Len(all) + 1 .. Len(all) = {}
    BY <2>2
  <2>6. Raised(r)' = {}
    BY <2>1, <2>5 DEF Raised, all
  <2>7. \A k : CallsOf(k, r)' = {}
    BY <2>1 DEF AlertInv, CallsOf
  <2>8. \A q \in Requests : q # r =>
           /\ (Left(q)' <=> Left(q)) /\ Raised(q)' = Raised(q)
           /\ \A k : CallsOf(k, q)' = CallsOf(k, q)
    BY <2>1 DEF Left, Raised, CallsOf
  <2>9. ASSUME NEW q \in Requests, q # r
        PROVE  /\ phase'[q] = "idle" => \A c \in calls' : c[2] # q
               /\ phase'[q] \in {"running", "scheduling"} =>
                    /\ Left(q)'
                    /\ \A k \in atBegin'[q] : k[2] = "honey_token_retrieved" =>
                         CallsOf(k, q)' = {<<k, q, n>> : n \in Raised(q)'}
    BY <2>1, <2>8, <2>9 DEF AlertInv
  <2> QED BY <2>1, <2>4, <2>6, <2>7, <2>9 DEF AlertInv
<1>3. ASSUME NEW r \in Requests, Publish(r) PROVE AlertInv'
  <2>1. CASE nc \in NoClient
    <3>1. phase[r] = "running" /\ phase' = [phase EXCEPT ![r] = "running"]
      BY <1>3, <2>1 DEF Publish, Now, TypeOK
    <3> QED BY <1>3, <2>1, <3>1, QuietStep
            DEF Publish, Now, connection, history
  <2>2. CASE nc \notin NoClient
    BY <1>3, <2>2, OtherPhase DEF Publish, Now, Goto
  <2> QED BY <2>1, <2>2
<1>4. ASSUME NEW r \in Requests, Schedule(r) PROVE AlertInv'
  <2>1. steps[r] # <<>> /\ Head(steps[r]).do = "publish"
    BY <1>4 DEF Schedule, TypeOK
  <2> QED BY <1>4, <2>1, QuietStep DEF Schedule, Goto
<1>5. ASSUME NEW r \in Requests, Work(r) PROVE AlertInv'
  <2>1. phase[r] = "running" /\ phase' = [phase EXCEPT ![r] = "running"]
    BY <1>5 DEF Work, Now, TypeOK
  <2> QED BY <1>5, <2>1, QuietStep DEF Work, Now
<1>6. ASSUME NEW r \in Requests, Raise(r) PROVE AlertInv'
  <2>1. \A q \in Requests : q # r => steps'[q] = steps[q]
    BY <1>6 DEF Raise, TypeOK
  <2> QED BY <1>6, <2>1, OtherPhase DEF Raise, Goto
<1>7. ASSUME NEW r \in Requests, Fire(r) PROVE AlertInv'
  <2> DEFINE l == Len(steps[r])
             step == Head(steps[r])
             new == {<<k, r, l>> : k \in {h \in registered : h[2] = step.type}}
  <2>1. /\ phase[r] = "running" /\ steps[r] # <<>> /\ step.do = "fire"
        /\ calls' = calls \cup new
        /\ Done(r) /\ phase' = phase /\ atBegin' = atBegin
    BY <1>7 DEF Fire, Now
  <2>2. Left(r) /\ \A k \in atBegin[r] : k[2] = "honey_token_retrieved" =>
                      CallsOf(k, r) = {<<k, r, n>> : n \in Raised(r)}
    BY <2>1 DEF AlertInv
  <2>3. /\ Left(r)'
        /\ Raised(r)' = Raised(r) \cup (IF Alert(step) THEN {l} ELSE {})
    BY <2>1, <2>2, StepDone
  <2>4. Alert(step) <=> step.type = "honey_token_retrieved"
    BY <2>1 DEF Alert
  <2>5. \A q \in Requests : q # r => steps'[q] = steps[q]
    BY <2>1 DEF Done, TypeOK
  <2>6. \A c \in new : c[2] = r
    OBVIOUS
  <2>7. atBegin[r] \subseteq registered
    BY DEF TypeOK
  <2>8. ASSUME NEW k \in atBegin[r], k[2] = "honey_token_retrieved"
        PROVE  CallsOf(k, r)' = {<<k, r, n>> : n \in Raised(r)'}
    <3>1. {c \in new : c[1] = k /\ c[2] = r} =
             IF Alert(step) THEN {<<k, r, l>>} ELSE {}
      <4> HIDE DEF l, step
      <4>1. CASE Alert(step)
        BY <2>4, <2>7, <2>8, <4>1
      <4>2. CASE ~ Alert(step)
        BY <2>4, <2>7, <2>8, <4>2
      <4> QED BY <4>1, <4>2
    <3> HIDE DEF l, step, new
    <3>2. CallsOf(k, r)' = CallsOf(k, r) \cup {c \in new : c[1] = k /\ c[2] = r}
      BY <2>1 DEF CallsOf
    <3>3. {<<k, r, n>> : n \in Raised(r)'} =
             {<<k, r, n>> : n \in Raised(r)} \cup
                (IF Alert(step) THEN {<<k, r, l>>} ELSE {})
      BY <2>3
    <3> QED BY <2>2, <2>8, <3>1, <3>2, <3>3
  <2> HIDE DEF l, step, new
  <2>9. ASSUME NEW q \in Requests, q # r
        PROVE  /\ phase'[q] = "idle" => \A c \in calls' : c[2] # q
               /\ phase'[q] \in {"running", "scheduling"} =>
                    /\ Left(q)'
                    /\ \A k \in atBegin'[q] : k[2] = "honey_token_retrieved" =>
                         CallsOf(k, q)' = {<<k, q, n>> : n \in Raised(q)'}
    <3>1. (Left(q)' <=> Left(q)) /\ Raised(q)' = Raised(q)
      BY <2>5, <2>9 DEF Left, Raised
    <3>2. \A k : CallsOf(k, q)' = CallsOf(k, q)
      BY <2>1, <2>6, <2>9 DEF CallsOf
    <3>3. (\A c \in calls : c[2] # q) => \A c \in calls' : c[2] # q
      BY <2>1, <2>6, <2>9
    <3> QED BY <2>1, <3>1, <3>2, <3>3 DEF AlertInv
  <2>10. phase'[r] = "running"
    BY <2>1
  <2> QED BY <2>1, <2>3, <2>8, <2>9, <2>10 DEF AlertInv
<1>8. ASSUME NEW k \in Hooks, Register(k) PROVE AlertInv'
  BY <1>1, <1>8 DEF Register
<1>9. CASE Connect \/ ConnectFails \/ ConnectionLost \/ Reconnect \/ GiveUp
  BY <1>1, <1>9 DEF Connect, ConnectFails, ConnectionLost, Reconnect, GiveUp,
                    handlers
<1>10. CASE Close \/ Send
  BY <1>1, <1>10 DEF Close, Send, Run, RunDrain, Receive, DrainEnds, handlers
<1>11. CASE UNCHANGED vars
  BY <1>1, <1>11 DEF vars, handlers
<1> QED BY <1>2, <1>3, <1>4, <1>5, <1>6, <1>7, <1>8, <1>9, <1>10, <1>11
        DEF Next, Handle

\* The elements of a sequence with another one behind it.
LEMMA ConcatElements ==
  ASSUME NEW S, NEW u \in Seq(S), NEW v \in Seq(S)
  PROVE  /\ Len(u) \in Nat /\ Len(v) \in Nat
         /\ Len(u \o v) = Len(u) + Len(v)
         /\ \A x \in 1 .. Len(u) : (u \o v)[x] = u[x]
         /\ \A x \in 1 .. Len(v) : (u \o v)[Len(u) + x] = v[x]
<1> DEFINE t == u \o v
           a == Len(u)
           b == Len(v)
<1>1. /\ a \in Nat /\ b \in Nat /\ Len(t) = a + b
      /\ \A i \in 1 .. a + b : t[i] = IF i <= a THEN u[i] ELSE v[i - a]
  BY ConcatProperties, LenProperties
<1> HIDE DEF t, a, b
<1>2. \A i \in 1 .. a : t[i] = u[i]
  <2>1. \A i \in 1 .. a : i \in 1 .. a + b /\ i <= a
    BY <1>1
  <2> QED BY <1>1, <2>1
<1>3. \A i \in 1 .. b : t[a + i] = v[i]
  <2>1. \A i \in 1 .. b : /\ a + i \in 1 .. a + b /\ ~ (a + i <= a)
                          /\ (a + i) - a = i
    BY <1>1
  <2> QED BY <1>1, <2>1
<1> QED BY <1>1, <1>2, <1>3 DEF t, a, b

\* The steps of a request that raise an alert: none, but two of three of the last
\* ones of a search.
LEMMA NoAlerts ==
  ASSUME NEW r \in Requests, Shape[r].op # "search",
         NEW i \in 1 .. Len(Steps(Shape[r]))
  PROVE  ~ Alert(Steps(Shape[r])[i])
<1> DEFINE s == Shape[r]
<1>1. /\ s.op \in {"batch_search", "embed", "batch_embed", "rerank", "agent",
                   "reindex", "steward"}
      /\ s.lineage \in Seq(Lineage)
  BY ShapeAssumption
<1> HIDE DEF s
<1>2. \A t : ~ Alert(publish(t)) /\ (Alert(fire(t)) <=> t = "honey_token_retrieved")
  BY DEF Alert, publish, fire
<1>3. ~ Alert(work)
  BY DEF Alert, work
<1>4. CASE s.op = "batch_search"
  <2> DEFINE head == Search(s)
             tail == <<work, publish("batch_search_completed"),
                       fire("batch_search_completed")>>
  <2>1. Len(s.lineage) \in Nat /\ DOMAIN s.lineage = 1 .. Len(s.lineage)
    BY <1>1
  <2>2. /\ head = [j \in 1 .. Len(s.lineage) |-> publish(s.lineage[j])]
        /\ head \in Seq({publish(s.lineage[j]) : j \in 1 .. Len(s.lineage)})
    BY <2>1, IsASeq DEF Search
  <2>3. \A j \in 1 .. Len(head) : ~ Alert(head[j])
    BY <1>2, <2>1, <2>2
  <2>4. /\ Len(tail) = 3 /\ ~ Alert(tail[1]) /\ ~ Alert(tail[2])
        /\ ~ Alert(tail[3])
    BY <1>2, <1>3
  <2>5. Steps(s) = head \o tail
    BY <1>4 DEF Steps, BatchSearchSteps
  <2> DEFINE S == {publish(s.lineage[j]) : j \in 1 .. Len(s.lineage)} \cup
                     {work, publish("batch_search_completed"),
                      fire("batch_search_completed")}
  <2>6. head \in Seq(S) /\ tail \in Seq(S)
    <3>1. head \in [1 .. Len(s.lineage) -> S]
      BY <2>2
    <3>2. head \in Seq(S)
      BY <2>1, <3>1, IsASeq
    <3>3. work \in S /\ publish("batch_search_completed") \in S
          /\ fire("batch_search_completed") \in S
      OBVIOUS
    <3> HIDE DEF S
    <3>4. tail \in Seq(S)
      BY <3>3
    <3> QED BY <3>2, <3>4
  <2> HIDE DEF head, tail, S
  <2>7. /\ Len(head) \in Nat /\ Len(head \o tail) = Len(head) + 3
        /\ \A j \in 1 .. Len(head) : (head \o tail)[j] = head[j]
        /\ \A j \in 1 .. 3 : (head \o tail)[Len(head) + j] = tail[j]
    <3>0. \A u \in Seq(S) : \A v \in Seq(S) :
             /\ Len(u) \in Nat /\ Len(u \o v) = Len(u) + Len(v)
             /\ \A x \in 1 .. Len(u) : (u \o v)[x] = u[x]
             /\ \A x \in 1 .. Len(v) : (u \o v)[Len(u) + x] = v[x]
      BY ConcatElements
    <3>1. /\ Len(head) \in Nat /\ Len(head \o tail) = Len(head) + Len(tail)
          /\ \A j \in 1 .. Len(head) : (head \o tail)[j] = head[j]
          /\ \A j \in 1 .. Len(tail) : (head \o tail)[Len(head) + j] = tail[j]
      BY <2>6, <3>0, Zenon
    <3>2. Len(tail) = 3
      BY <2>4
    <3> QED BY <3>1, <3>2, Zenon
  <2> DEFINE l == Len(head)
  <2>8. l \in Nat /\ i \in 1 .. l + 3
    BY <2>5, <2>7 DEF s
  <2> HIDE DEF l
  <2>9. CASE i <= l
    <3>1. i \in 1 .. l
      BY <2>8, <2>9
    <3> QED BY <2>3, <2>5, <2>7, <3>1 DEF s, l
  <2>10. CASE ~ (i <= l)
    <3>1. PICK j \in {1, 2, 3} : i = l + j
      <4>1. i - l \in {1, 2, 3} /\ i = l + (i - l)
        BY <2>8, <2>10
      <4> QED BY <4>1
    <3>2. ~ Alert(tail[j])
      BY <2>4
    <3>3. (head \o tail)[i] = tail[j]
      BY <2>7, <3>1 DEF l
    <3> QED BY <2>5, <3>2, <3>3 DEF s
  <2> QED BY <2>9, <2>10
<1>5. CASE s.op \in {"embed", "batch_embed", "rerank"}
  <2>1. PICK t \in {"embed_completed", "batch_embed_completed",
                    "rerank_completed"} : Steps(s) = <<work, publish(t), fire(t)>>
    BY <1>5 DEF Steps, OneEventSteps
  <2> QED BY <1>2, <1>3, <2>1 DEF s
<1>6. CASE s.op = "agent"
  <2>1. Steps(s) = <<publish("agent_generated"), fire("agent_generated")>>
    BY <1>6 DEF Steps, AgentSteps
  <2> QED BY <1>2, <2>1 DEF s
<1>7. CASE s.op \in {"reindex", "steward"}
  <2>1. PICK t : Steps(s) = <<work, publish(t)>>
    BY <1>7 DEF Steps, CuratorSteps
  <2> QED BY <1>2, <1>3, <2>1 DEF s
<1> QED BY <1>1, <1>4, <1>5, <1>6, <1>7

\* A search ends with two steps for each honey token, of which the second one
\* raises the alert; no step before them does.
LEMMA SearchAlerts ==
  ASSUME NEW r \in Requests, Shape[r].op = "search"
  PROVE  LET all == Steps(Shape[r])
             p == Len(all) - 2 * Shape[r].honey
         IN  /\ p \in Nat
             /\ \A i \in 1 .. p : ~ Alert(all[i])
             /\ \A i \in 1 .. 2 * Shape[r].honey :
                   Alert(all[p + i]) <=> i % 2 = 0
<1> DEFINE s == Shape[r]
           steps0 == Steps(s)
           start == <<publish("search_started")>>
           found == Search(s)
           answer == <<work, publish("search_completed")>>
           filter == IF s.filtered THEN <<publish("permission_filtered")>>
                     ELSE <<>>
           head == ((start \o found) \o answer) \o filter
           tail == HoneyTokens(s)
           Quiet == {x \in StepType : ~ Alert(x)}
<1>1. s.lineage \in Seq(Lineage) /\ s.honey \in Nat
  BY ShapeAssumption
<1>2. \A t \in EventTypes : publish(t) \in Quiet
  BY DEF Alert, publish, StepType
<1>3. work \in Quiet
  BY DEF Alert, work, StepType
<1>4. steps0 = head \o tail
  BY DEF Steps, SearchSteps
<1> HIDE DEF Quiet
<1>5. head \in Seq(Quiet)
  <2>1. start \in Seq(Quiet) /\ answer \in Seq(Quiet) /\ filter \in Seq(Quiet)
    BY <1>2, <1>3 DEF EventTypes
  <2>2. found \in Seq(Quiet)
    <3>1. /\ Len(s.lineage) \in Nat /\ DOMAIN s.lineage = 1 .. Len(s.lineage)
          /\ \A i \in 1 .. Len(s.lineage) : s.lineage[i] \in Lineage
      BY <1>1
    <3>2. found \in [1 .. Len(s.lineage) -> Quiet]
      BY <1>2, <3>1 DEF Search, EventTypes
    <3> QED BY <3>1, <3>2, IsASeq
  <2> HIDE DEF start, found, answer, filter
  <2> QED BY <2>1, <2>2
<1>6. /\ tail \in Seq(StepType) /\ Len(tail) = 2 * s.honey
      /\ \A i \in 1 .. 2 * s.honey : Alert(tail[i]) <=> i % 2 = 0
  <2>1. 2 * s.honey \in Nat /\ \A i \in 1 .. 2 * s.honey : i % 2 \in {0, 1}
    BY <1>1
  <2>2. "honey_token_retrieved" \in EventTypes
    BY DEF EventTypes
  <2>3. tail \in [1 .. 2 * s.honey -> StepType]
    BY <2>2 DEF HoneyTokens, publish, fire, StepType
  <2>4. tail \in Seq(StepType) /\ Len(tail) = 2 * s.honey
    BY <2>1, <2>3, IsASeq, LenProperties
  <2>5. ASSUME NEW i \in 1 .. 2 * s.honey PROVE Alert(tail[i]) <=> i % 2 = 0
    BY <2>1 DEF HoneyTokens, publish, fire, Alert
  <2> QED BY <2>4, <2>5
<1> HIDE DEF steps0, head, tail, s
<1>7. /\ Len(steps0) = Len(head) + 2 * s.honey /\ Len(head) \in Nat
      /\ \A i \in 1 .. Len(head) : steps0[i] = head[i]
      /\ \A i \in 1 .. 2 * s.honey : steps0[Len(head) + i] = tail[i]
  <2>1. head \in Seq(StepType)
    <3>1. Quiet \subseteq StepType
      BY DEF Quiet
    <3>2. /\ Len(head) \in Nat /\ DOMAIN head = 1 .. Len(head)
          /\ head \in [1 .. Len(head) -> StepType]
      BY <1>5, <3>1, LenProperties, ElementOfSeq
    <3> QED BY <3>2, IsASeq
  <2> QED BY <1>4, <1>6, <2>1, ConcatElements
<1>8. Len(steps0) - 2 * s.honey = Len(head)
  BY <1>1, <1>7
<1>9. \A i \in 1 .. Len(head) : ~ Alert(head[i])
  BY <1>5, ElementOfSeq DEF Quiet
<1> QED BY <1>6, <1>7, <1>8, <1>9 DEF steps0, s

\* When nothing is left to do, there was one alert for each honey token.
LEMMA AllRaised ==
  ASSUME NEW r \in Requests, steps[r] = <<>>
  PROVE  /\ IsFiniteSet(Raised(r))
         /\ Cardinality(Raised(r)) =
              IF Shape[r].op = "search" THEN Shape[r].honey ELSE 0
<1> DEFINE all == Steps(Shape[r])
           m == Len(all)
           h == Shape[r].honey
<1>1. m \in Nat /\ h \in Nat
  BY StepsType, ShapeAssumption
<1>2. Raised(r) = {n \in 1 .. m : Alert(all[m - n + 1])}
  BY DEF Raised
<1> HIDE DEF all, m, h
<1>3. \A n \in 1 .. m : m - n + 1 \in 1 .. m
  BY <1>1
<1>4. CASE Shape[r].op # "search"
  <2>1. \A i \in 1 .. m : ~ Alert(all[i])
    BY <1>4, NoAlerts DEF all, m
  <2>2. Raised(r) = {}
    BY <1>2, <1>3, <2>1
  <2> QED BY <1>4, <2>2, FS_EmptySet
<1>5. CASE Shape[r].op = "search"
  <2> DEFINE p == m - 2 * h
             f == [j \in 1 .. h |-> 2 * j - 1]
  <2>1. /\ p \in Nat
        /\ \A i \in 1 .. p : ~ Alert(all[i])
        /\ \A i \in 1 .. 2 * h : Alert(all[p + i]) <=> i % 2 = 0
    BY <1>5, SearchAlerts DEF all, m, h
  <2>2. ASSUME NEW j \in 1 .. h PROVE f[j] \in Raised(r)
    <3> DEFINE i == 2 * (h - j) + 2
    <3>1. f[j] = 2 * j - 1 /\ f[j] \in 1 .. m /\ m - f[j] + 1 = p + i
          /\ i \in 1 .. 2 * h /\ i % 2 = 0
      BY <1>1, <2>1
    <3> HIDE DEF i, f, p
    <3>2. Alert(all[m - f[j] + 1])
      BY <2>1, <3>1
    <3> QED BY <1>2, <3>1, <3>2
  <2>3. ASSUME NEW n \in Raised(r) PROVE \E j \in 1 .. h : f[j] = n
    <3>1. n \in 1 .. m /\ Alert(all[m - n + 1]) /\ m - n + 1 \in 1 .. m
      BY <1>2, <1>3
    <3>2. m - n + 1 > p
      BY <1>1, <2>1, <3>1
    <3> DEFINE i == m - n + 1 - p
    <3>3. i \in 1 .. 2 * h /\ p + i = m - n + 1 /\ n = 2 * h - i + 1
      BY <1>1, <2>1, <3>1, <3>2
    <3> HIDE DEF i, p
    <3>4. i % 2 = 0
      BY <2>1, <3>1, <3>3
    <3>5. PICK q \in Nat : i = 2 * q
      BY <3>3, <3>4
    <3>6. h - q + 1 \in 1 .. h /\ 2 * (h - q + 1) - 1 = n
      BY <1>1, <3>3, <3>5
    <3> QED BY <3>6
  <2>4. \A a, b \in 1 .. h : f[a] = f[b] => a = b
    BY <1>1
  <2> HIDE DEF f
  <2>5. f \in [1 .. h -> Raised(r)]
    BY <2>2 DEF f
  <2>6. f \in Bijection(1 .. h, Raised(r))
    BY <2>3, <2>4, <2>5 DEF Bijection, Injection, Surjection, IsInjective
  <2>7. ExistsBijection(1 .. h, Raised(r))
    BY <2>6 DEF ExistsBijection
  <2>8. IsFiniteSet(1 .. h) /\ Cardinality(1 .. h) = h
    BY <1>1, FS_Interval
  <2> QED BY <1>5, <2>7, <2>8, FS_Bijection DEF h
<1> QED BY <1>4, <1>5

\* When a search is answered, every hook that was registered when it began was
\* called once for every honey token among the results, whatever the client did.
THEOREM HoneyTokensAlert == Spec => []AlertsRaised
<1>1. Init => AlertInv
  BY DEF Init, AlertInv
<1>2. TypeOK /\ AlertInv => AlertsRaised
  <2> SUFFICES ASSUME AlertInv, NEW r \in Requests, Answered(r),
                      NEW k \in atBegin[r], k[2] = "honey_token_retrieved"
               PROVE  Cardinality({c \in calls : c[1] = k /\ c[2] = r}) =
                         IF Shape[r].op = "search" THEN Shape[r].honey ELSE 0
    BY DEF AlertsRaised
  <2>1. CallsOf(k, r) = {<<k, r, n>> : n \in Raised(r)}
    BY DEF AlertInv, Answered
  <2>2. /\ IsFiniteSet(Raised(r))
        /\ Cardinality(Raised(r)) =
             IF Shape[r].op = "search" THEN Shape[r].honey ELSE 0
    BY AllRaised DEF Answered
  <2> DEFINE f == [n \in Raised(r) |-> <<k, r, n>>]
  <2>3. f \in Bijection(Raised(r), {<<k, r, n>> : n \in Raised(r)})
    BY DEF Bijection, Injection, Surjection, IsInjective
  <2>4. ExistsBijection(Raised(r), {<<k, r, n>> : n \in Raised(r)})
    BY <2>3 DEF ExistsBijection
  <2>5. Cardinality({<<k, r, n>> : n \in Raised(r)}) = Cardinality(Raised(r))
    BY <2>2, <2>4, FS_Bijection
  <2> QED BY <2>1, <2>2, <2>5 DEF CallsOf
<1> QED
  BY <1>1, <1>2, AlertStep, PublisherTypeCorrect, PTL DEF Spec

=============================================================================
