----------------------------- MODULE Publisher -----------------------------
(***************************************************************************)
(* The events of requests: the handlers of the REST and gRPC servers       *)
(* publish them from their own threads; Publisher schedules each on the    *)
(* event loop of its thread, and the NATS client buffers and sends it.     *)
(* Honey tokens, embeddings and rankings also fire hooks.                  *)
(*                                                                         *)
(* One action is one step of one thread.  The NATS client and server are   *)
(* external: the client appends to its buffer and writes the buffer to the *)
(* connection; what is written and not received when the connection breaks *)
(* is lost.                                                                *)
(***************************************************************************)
EXTENDS Integers, Sequences, SequencesExt, FiniteSets

CONSTANTS
    Requests,    \* requests, each with a handler thread of its own
    Shape,       \* what each request is and finds, see ShapeAssumption
    Hooks,       \* <<handler, type>>: handlers that may be registered for a
                 \* type of hook event
    MaxPending,  \* events the client buffers while it reconnects
    Drain        \* the coroutine nc.drain()

ASSUME MaxPendingAssumption == MaxPending \in Nat
ASSUME DrainAssumption == Drain \notin Requests \X Nat

\* What the orchestrator publishes while it searches: routing, decomposition,
\* HyDE, the rounds and what they exclude, stale chunks, the results.
Lineage == {"query_routed", "query_transformed",
            "training_data_access_requested", "purpose_filtered",
            "search_iteration", "loop_completed", "chunk_stale",
            "chunk_retrieved"}

\* lineage: what the searches of the request publish, in order, as their
\* configuration, purpose and results have it; honey: the honey tokens among
\* the results; filtered: metadata.filtered_out > 0.
ASSUME ShapeAssumption ==
    Shape \in [Requests ->
        [op : {"search", "batch_search", "embed", "batch_embed", "rerank",
               "agent", "reindex", "steward"},
         lineage : Seq(Lineage), honey : Nat, filtered : BOOLEAN]]

VARIABLES
    nc,          \* Publisher._nc and the state of the client behind it
    loop,        \* coroutines the event loop has still to run
    pending,     \* the client's buffer and what it has written of it, not
                 \* yet received
    delivered,   \* events the NATS server received
    phase,       \* where each handler thread is
    steps,       \* what each handler has still to do
    offered,     \* number of events each handler has published
    registered,  \* hooks registered for the hook events
    calls,       \* hook calls that were started, each a thread
    \* History variables, read by the properties only:
    accepted,    \* events that were scheduled on the loop
    broken,      \* events an outage cost
    refused,     \* events the client refused because of close
    closed,      \* close was called; it is called once at most
    beforeClose, \* events that had been accepted when close was called
    atBegin      \* hooks that were registered when the request began

connection == <<nc, loop, pending, delivered>>
history == <<accepted, broken, refused, closed, beforeClose>>
handlers == <<phase, steps, offered, registered, calls, atBegin>>
vars == <<connection, history, handlers>>

\* None before nats.connect returned and after it failed; the client reconnects
\* by itself, and gives up after max_reconnect_attempts.
NoClient == {"disabled", "connecting"}
Client == {"open", "reconnecting", "gaveUp", "draining", "drained"}

EventTypes ==
    Lineage \cup
    {"search_started", "search_completed", "permission_filtered",
     "honey_token_retrieved", "batch_search_completed", "embed_completed",
     "batch_embed_completed", "rerank_completed", "agent_generated",
     "document_reindexed", "steward_purposes_updated"}

publish(type) == [do |-> "publish", type |-> type]
fire(type) == [do |-> "fire", type |-> type]
work == [do |-> "work"]

\* Orchestrator.search, once for each query of a batch.
Search(s) == [i \in DOMAIN s.lineage |-> publish(s.lineage[i])]

\* _fire_honey_token_events
HoneyTokens(s) ==
    [i \in 1 .. 2 * s.honey |->
        IF i % 2 = 1 THEN publish("honey_token_retrieved")
        ELSE fire("honey_token_retrieved")]

\* search, search_with_permissions, hybrid_search, and their gRPC twins.
SearchSteps(s) ==
    <<publish("search_started")>> \o Search(s)
        \o <<work, publish("search_completed")>>
        \o (IF s.filtered THEN <<publish("permission_filtered")>> ELSE <<>>)
        \o HoneyTokens(s)

\* batch_search: a search after the other, with no event of its own before.
BatchSearchSteps(s) ==
    Search(s) \o <<work, publish("batch_search_completed"),
                     fire("batch_search_completed")>>

\* embed, embed_batch, rerank.
OneEventSteps(type) == <<work, publish(type), fire(type)>>

\* delta_index_document, when the content has changed, and
\* update_document_purposes: the store has done its part.
CuratorSteps(type) == <<work, publish(type)>>

\* agent_generate: a failing model gives an empty answer, not an exception.
AgentSteps == <<publish("agent_generated"), fire("agent_generated")>>

Steps(s) ==
    CASE s.op = "search" -> SearchSteps(s)
      [] s.op = "batch_search" -> BatchSearchSteps(s)
      [] s.op = "embed" -> OneEventSteps("embed_completed")
      [] s.op = "batch_embed" -> OneEventSteps("batch_embed_completed")
      [] s.op = "rerank" -> OneEventSteps("rerank_completed")
      [] s.op = "agent" -> AgentSteps
      [] s.op = "reindex" -> CuratorSteps("document_reindexed")
      [] s.op = "steward" -> CuratorSteps("steward_purposes_updated")

Event(r) == <<r, offered[r] + 1>>

Now(r, do) == phase[r] = "running" /\ steps[r] # <<>> /\ Head(steps[r]).do = do

Answered(r) == phase[r] = "running" /\ steps[r] = <<>>

Done(r) == steps' = [steps EXCEPT ![r] = Tail(@)]

Goto(r, to) == phase' = [phase EXCEPT ![r] = to]

-----------------------------------------------------------------------------

\* Publisher.__init__: with a URL it starts the loop and connects.
Init ==
    /\ nc \in NoClient
    /\ loop = <<>> /\ pending = <<>> /\ delivered = <<>>
    /\ phase = [r \in Requests |-> "idle"]
    /\ steps = [r \in Requests |-> <<>>]
    /\ offered = [r \in Requests |-> 0]
    /\ registered = {} /\ calls = {}
    /\ accepted = {} /\ broken = {} /\ refused = {}
    /\ closed = FALSE /\ beforeClose = {}
    /\ atBegin = [r \in Requests |-> {}]

\* A request arrives.
Begin(r) ==
    /\ phase[r] = "idle"
    /\ Goto(r, "running")
    /\ steps' = [steps EXCEPT ![r] = Steps(Shape[r])]
    /\ atBegin' = [atBegin EXCEPT ![r] = registered]
    /\ UNCHANGED <<connection, history, offered, registered, calls>>

\* Mutant of Publish: no test of the client.
PublishUnchecked(r) ==
    /\ Now(r, "publish")
    /\ Goto(r, "scheduling")
    /\ UNCHANGED <<connection, history, steps, offered, registered, calls,
                   atBegin>>

\* Mutant of Publish: drops the event unless the client is connected now.
PublishIfConnected(r) ==
    /\ Now(r, "publish")
    /\ IF nc # "open"
       THEN /\ Done(r)
            /\ offered' = [offered EXCEPT ![r] = @ + 1]
            /\ UNCHANGED phase
       ELSE Goto(r, "scheduling") /\ UNCHANGED <<steps, offered>>
    /\ UNCHANGED <<connection, history, registered, calls, atBegin>>

\* if not self._loop or not self._nc: return
Publish(r) ==
    /\ Now(r, "publish")
    /\ IF nc \in NoClient
       THEN /\ Done(r)
            /\ offered' = [offered EXCEPT ![r] = @ + 1]
            /\ UNCHANGED phase
       ELSE Goto(r, "scheduling") /\ UNCHANGED <<steps, offered>>
    /\ UNCHANGED <<connection, history, registered, calls, atBegin>>

\* Mutant of Schedule: waits until the client is connected.
ScheduleConnected(r) ==
    /\ phase[r] = "scheduling" /\ nc = "open"
    /\ loop' = Append(loop, Event(r))
    /\ accepted' = accepted \cup {Event(r)}
    /\ offered' = [offered EXCEPT ![r] = @ + 1]
    /\ Done(r)
    /\ Goto(r, "running")
    /\ UNCHANGED <<nc, pending, delivered, registered, calls,
                   broken, refused, closed, beforeClose, atBegin>>

\* asyncio.run_coroutine_threadsafe(self._publish(ev), self._loop)
Schedule(r) ==
    /\ phase[r] = "scheduling"
    /\ loop' = Append(loop, Event(r))
    /\ accepted' = accepted \cup {Event(r)}
    /\ offered' = [offered EXCEPT ![r] = @ + 1]
    /\ Done(r)
    /\ Goto(r, "running")
    /\ UNCHANGED <<nc, pending, delivered, registered, calls,
                   broken, refused, closed, beforeClose, atBegin>>

\* Mutant of Fire: no hooks without a client.
FireIfClient(r) ==
    /\ Now(r, "fire")
    /\ calls' = IF nc \in NoClient THEN calls
                ELSE calls \cup {<<k, r, Len(steps[r])>> : k \in
                         {h \in registered : h[2] = Head(steps[r]).type}}
    /\ Done(r)
    /\ UNCHANGED <<connection, history, phase, offered, registered, atBegin>>

\* HookManager.fire: a thread for every handler of the event type.
Fire(r) ==
    /\ Now(r, "fire")
    /\ calls' = calls \cup {<<k, r, Len(steps[r])>> : k \in
                   {h \in registered : h[2] = Head(steps[r]).type}}
    /\ Done(r)
    /\ UNCHANGED <<connection, history, phase, offered, registered,
                   atBegin>>

\* The orchestrator has an answer,
Work(r) ==
    /\ Now(r, "work")
    /\ Done(r)
    /\ UNCHANGED <<connection, history, phase, offered, registered,
                   calls, atBegin>>

\* or raises before it has one: the server answers with an error.
Raise(r) ==
    /\ phase[r] = "running"
    /\ \E i \in DOMAIN steps[r] : steps[r][i].do = "work"
    /\ Goto(r, "failed")
    /\ steps' = [steps EXCEPT ![r] = <<>>]
    /\ UNCHANGED <<connection, history, offered, registered, calls,
                   atBegin>>

\* HookManager.register, by the code that embeds the service.
Register(k) ==
    /\ k \notin registered
    /\ registered' = registered \cup {k}
    /\ UNCHANGED <<connection, history, phase, steps, offered, calls,
                   atBegin>>

-----------------------------------------------------------------------------

\* _connect: nats.connect returns (README.md, "Seen while modelling", on whether
\* it does with every version of the client),
Connect ==
    /\ nc = "connecting"
    /\ nc' = "open"
    /\ UNCHANGED <<loop, pending, delivered, history, handlers>>

\* or raises: events are disabled.
ConnectFails ==
    /\ nc = "connecting"
    /\ nc' = "disabled"
    /\ UNCHANGED <<loop, pending, delivered, history, handlers>>

\* Mutant of Run: only when the client is connected at this moment.
RunIfConnected ==
    /\ loop # <<>> /\ Head(loop) # Drain
    /\ loop' = Tail(loop)
    /\ pending' = IF nc = "open" THEN Append(pending, Head(loop)) ELSE pending
    /\ UNCHANGED <<nc, delivered, history, handlers>>

\* Mutant of Run: the newest coroutine first.
RunNewest ==
    /\ loop # <<>> /\ Last(loop) # Drain
    /\ loop' = Front(loop)
    /\ pending' = IF nc \in {"open", "reconnecting"}
                  THEN Append(pending, Last(loop)) ELSE pending
    /\ UNCHANGED <<nc, delivered, history, handlers>>

\* Mutant of Run: scheduling does not wake the loop, the next call does.
RunWhenWoken ==
    /\ Len(loop) > 1 /\ Head(loop) # Drain
    /\ loop' = Tail(loop)
    /\ pending' = Append(pending, Head(loop))
    /\ nc \in {"open", "reconnecting"}
    /\ UNCHANGED <<nc, delivered, history, handlers>>

\* _publish: the client takes the event, or raises and the event is gone.
Run ==
    /\ loop # <<>> /\ Head(loop) # Drain
    /\ loop' = Tail(loop)
    /\ LET e == Head(loop)
           full == nc = "reconnecting" /\ Len(pending) >= MaxPending
       IN  \/ /\ nc \in {"open", "reconnecting"} /\ ~ full
              /\ pending' = Append(pending, e)
              /\ UNCHANGED <<broken, refused>>
           \/ /\ nc = "gaveUp" \/ full
              /\ broken' = broken \cup {e}
              /\ UNCHANGED <<pending, refused>>
           \/ /\ nc \in {"draining", "drained"}
              /\ refused' = refused \cup {e}
              /\ UNCHANGED <<pending, broken>>
    /\ UNCHANGED <<nc, delivered, accepted, closed, beforeClose,
                   handlers>>

\* Mutant of Close: drains at once, in the thread of the caller.
CloseAtOnce ==
    /\ nc \in Client /\ ~ closed
    /\ nc' = IF nc = "open" THEN "draining" ELSE nc
    /\ closed' = TRUE
    /\ beforeClose' = accepted
    /\ UNCHANGED <<loop, pending, delivered, accepted, broken, refused,
                   handlers>>

\* close, by the code that embeds the service; main has no call of it.
Close ==
    /\ nc \in Client
    /\ ~ closed
    /\ loop' = Append(loop, Drain)
    /\ closed' = TRUE
    /\ beforeClose' = accepted
    /\ UNCHANGED <<nc, pending, delivered, accepted, broken, refused,
                   handlers>>

\* nc.drain(): raises unless the client is connected, and nobody looks.
RunDrain ==
    /\ loop # <<>> /\ Head(loop) = Drain
    /\ loop' = Tail(loop)
    /\ nc' = IF nc = "open" THEN "draining" ELSE nc
    /\ UNCHANGED <<pending, delivered, history, handlers>>

DrainEnds ==
    /\ nc = "draining" /\ pending = <<>>
    /\ nc' = "drained"
    /\ UNCHANGED <<loop, pending, delivered, history, handlers>>

\* The server receives the next event.
Receive ==
    /\ nc \in {"open", "draining"} /\ pending # <<>>
    /\ delivered' = Append(delivered, Head(pending))
    /\ pending' = Tail(pending)
    /\ UNCHANGED <<nc, loop, history, handlers>>

\* What was written is lost; a client that drains does not reconnect, and loses
\* the rest.
ConnectionLost ==
    /\ \E written \in 0 .. Len(pending) :
          \/ /\ nc = "open" /\ nc' = "reconnecting"
             /\ pending' = SubSeq(pending, written + 1, Len(pending))
             /\ broken' = broken \cup ToSet(SubSeq(pending, 1, written))
          \/ /\ nc = "draining" /\ nc' = "gaveUp"
             /\ pending' = <<>>
             /\ broken' = broken \cup ToSet(pending)
    /\ UNCHANGED <<loop, delivered, accepted, refused, closed, beforeClose,
                   handlers>>

Reconnect ==
    /\ nc = "reconnecting"
    /\ nc' = "open"
    /\ UNCHANGED <<loop, pending, delivered, history, handlers>>

GiveUp ==
    /\ nc = "reconnecting"
    /\ nc' = "gaveUp"
    /\ broken' = broken \cup ToSet(pending)
    /\ pending' = <<>>
    /\ UNCHANGED <<loop, delivered, accepted, refused, closed, beforeClose,
                   handlers>>

-----------------------------------------------------------------------------

Handle(r) ==
    Begin(r) \/ Publish(r) \/ Schedule(r) \/ Fire(r) \/ Work(r)

Send == Run \/ RunDrain \/ Receive \/ DrainEnds

Next ==
    \/ \E r \in Requests : Handle(r) \/ Raise(r)
    \/ \E k \in Hooks : Register(k)
    \/ Connect \/ ConnectFails \/ ConnectionLost \/ Reconnect \/ GiveUp
    \/ Close \/ Send

Spec == Init /\ [][Next]_vars

\* The operating system runs every handler thread; the loop and the client run
\* what is ready.  Nothing is assumed of NATS, nor of close.
FairSpec ==
    /\ Spec
    /\ \A r \in Requests : WF_vars(Handle(r))
    /\ WF_vars(Run \/ RunDrain) /\ WF_vars(Receive)

-----------------------------------------------------------------------------

Events == Requests \X (Nat \ {0})

StepType == [do : {"publish", "fire"}, type : EventTypes] \cup {work}

\* Types: what each variable may hold; a handler waits to schedule an event
\* only while the publisher has a client.
TypeOK ==
    /\ nc \in NoClient \cup Client
    /\ loop \in Seq(Events \cup {Drain})
    /\ pending \in Seq(Events) /\ delivered \in Seq(Events)
    /\ phase \in [Requests -> {"idle", "running", "scheduling", "failed"}]
    /\ \A r \in Requests : phase[r] = "scheduling" =>
          nc \in Client /\ steps[r] # <<>> /\ Head(steps[r]).do = "publish"
    /\ steps \in [Requests -> Seq(StepType)]
    /\ offered \in [Requests -> Nat]
    /\ registered \subseteq Hooks
    /\ atBegin \in [Requests -> SUBSET registered]
    /\ accepted \subseteq Events
    /\ beforeClose \subseteq accepted

Queued == {e \in ToSet(loop) : e # Drain}

Received == ToSet(delivered)

\* No event vanishes inside the publisher: what it accepted waits in the loop,
\* in the client or on the connection, or was received, unless an outage broke
\* it off (it was written to a connection that failed, or the buffer was full,
\* or the client had given up) or it came after close.
NothingVanishes ==
    accepted \subseteq Queued \cup ToSet(pending) \cup Received
                         \cup broken \cup refused

\* The server receives the events of a request in the order the handler
\* published them, and none twice, although they cross two threads, a queue
\* and a buffer and the connection may fail in between.
InOrder ==
    \A i, j \in DOMAIN delivered :
        i < j /\ delivered[i][1] = delivered[j][1]
            => delivered[i][2] < delivered[j][2]

\* Once an event of a request was accepted, no later one is dropped by publish:
\* the events dropped for want of a connection come first.
NoGaps ==
    \A e \in accepted :
        \A n \in e[2] .. offered[e[1]] : <<e[1], n>> \in accepted

\* close loses nothing that was accepted before it: the drain queues behind.
CloseKeepsAccepted == beforeClose \cap refused = {}

\* When a request is answered, every hook that was registered when it began was
\* called once for every honey token among the results, whatever the state of
\* the connection to NATS.
AlertsRaised ==
    \A r \in Requests : Answered(r) =>
        \A k \in atBegin[r] : k[2] = "honey_token_retrieved" =>
            Cardinality({c \in calls : c[1] = k /\ c[2] = r}) =
                IF Shape[r].op = "search" THEN Shape[r].honey ELSE 0

\* Publishing never blocks a caller: every request ends, although nothing is
\* assumed of the loop, the client and NATS.
CallersEnd ==
    \A r \in Requests :
        phase[r] \in {"running", "scheduling"}
            ~> Answered(r) \/ phase[r] = "failed"

\* When the connection stays up from some time on, the server catches up with
\* every accepted event that was not lost to an outage or came after close.
EventuallyReceived ==
    <>[](nc = "open") =>
        []<>(accepted \subseteq Received \cup broken \cup refused)

=============================================================================
