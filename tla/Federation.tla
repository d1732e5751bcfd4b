----------------------------- MODULE Federation -----------------------------
(***************************************************************************)
(* Federated search (federation.py): a node that is not confident in its   *)
(* own results asks peers, which may ask theirs.  A call is named by the   *)
(* chain of nodes that led to it, the first being the node a client asked: *)
(* its last node handles it, and its length tells how many hops it made.   *)
(*                                                                         *)
(* A node handles the calls of peers in a pool of gRPC workers, and a      *)
(* worker is taken while its handler waits for peers in turn.  A caller    *)
(* waits for a peer until a timeout; what the peer answers later is lost,  *)
(* but a handler that runs is not interrupted.                             *)
(***************************************************************************)
EXTENDS Integers, Sequences, SequencesExt, FiniteSets

CONSTANTS
    Nodes,
    Peers,        \* Peers[n]: the peers n is configured with
    Asked,        \* the nodes clients ask
    MaxPeers,     \* max_peers_per_query
    MaxDepth,     \* max_depth
    PoolSize,     \* gRPC workers of a node
    MaxHops       \* bound on the hops of a chain

ASSUME PeersAssumption == Peers \in [Nodes -> SUBSET Nodes]
ASSUME NodesAssumption ==
    /\ IsFiniteSet(Nodes)
    /\ Asked \subseteq Nodes
    /\ \A n \in Nodes : n \notin Peers[n]
ASSUME LimitsAssumption ==
    /\ MaxPeers \in Nat /\ MaxDepth \in Nat /\ MaxHops \in Nat
    /\ PoolSize \in Nat \ {0}

Calls ==
    {c \in UNION {[1 .. n -> Nodes] : n \in 1 .. MaxHops + 1} :
        /\ c[1] \in Asked
        /\ \A i \in 1 .. Len(c) - 1 : c[i + 1] \in Peers[c[i]]}

VARIABLES
    status,     \* status[c]: how far call c is
    abandoned   \* calls whose caller waits no more

vars == <<status, abandoned>>

\* "queued": for a worker; "searching": its own collections; "waiting": for
\* peers; "answered" and "failed" are the ends of a handler, and "dropped" that
\* of a call that was cancelled before a worker took it.
Status == {"none", "queued", "searching", "waiting", "answered", "failed",
           "dropped"}

Ended == {"answered", "failed", "dropped"}

Handler(c) == Last(c)
Hops(c) == Len(c) - 1
PeerCalls(c) == {d \in Calls : Len(d) > 1 /\ Front(d) = c}

\* What the handler of a call tells the orchestrator of where the call comes
\* from: the gRPC handler, which peers call, passes neither of the
\* loop-prevention headers on, and a client sends none.
HopDepth(c) == 0
Origin(c) == Handler(c)

\* Calls of peers that hold a worker of node n.
Working(n) ==
    {c \in Calls : /\ Len(c) > 1
                   /\ Handler(c) = n
                   /\ status[c] \in {"searching", "waiting"}}

-----------------------------------------------------------------------------

Init ==
    /\ status = [c \in Calls |-> "none"]
    /\ abandoned = {}

\* A client asks a node; its request does not need a worker of the pool.
Ask(n) ==
    /\ status[<<n>>] = "none"
    /\ status' = [status EXCEPT ![<<n>>] = "searching"]
    /\ UNCHANGED abandoned

\* A worker of the pool takes a call.
Accept(c) ==
    /\ status[c] = "queued"
    /\ Cardinality(Working(Handler(c))) < PoolSize
    /\ status' = [status EXCEPT ![c] = "searching"]
    /\ UNCHANGED abandoned

\* The peers the router may pick: none at the depth limit, and not the origin.
MayAsk(c) ==
    {n \in Peers[Handler(c)] : n # Origin(c) /\ HopDepth(c) < MaxDepth}

\* The local search ended and its results are good enough, or no peer has an
\* affinity with the query: they are the answer.
AnswerLocally(c) ==
    /\ status[c] = "searching"
    /\ status' = [status EXCEPT ![c] = "answered"]
    /\ UNCHANGED abandoned

\* Mutant of FanOut: every peer that is near enough to the query is asked.
FanOutToAll(c) ==
    /\ status[c] = "searching"
    /\ Hops(c) < MaxHops
    /\ \E picked \in SUBSET MayAsk(c) :
          /\ picked # {}
          /\ status' = [d \in Calls |->
                           IF d = c THEN "waiting"
                           ELSE IF d \in {Append(c, n) : n \in picked} THEN "queued"
                           ELSE status[d]]
    /\ UNCHANGED abandoned

\* The local search ended with low confidence: peers are asked in parallel, the
\* nearest to the query among them.
FanOut(c) ==
    /\ status[c] = "searching"
    /\ Hops(c) < MaxHops
    /\ \E picked \in SUBSET MayAsk(c) :
          /\ picked # {}
          /\ Cardinality(picked) <= MaxPeers
          /\ status' = [d \in Calls |->
                           IF d = c THEN "waiting"
                           ELSE IF d \in {Append(c, n) : n \in picked} THEN "queued"
                           ELSE status[d]]
    /\ UNCHANGED abandoned

\* The local search raises: the handler fails.
SearchFails(c) ==
    /\ status[c] = "searching"
    /\ status' = [status EXCEPT ![c] = "failed"]
    /\ UNCHANGED abandoned

\* A call that its caller still waits for.
Awaited(c) ==
    /\ Len(c) > 1
    /\ c \notin abandoned
    /\ status[c] \in {"queued", "searching", "waiting"}

\* Mutant of TimeOut: the time runs from the moment a worker takes the call.
TimeOutRunning(c) ==
    /\ Awaited(c)
    /\ status[c] # "queued"
    /\ abandoned' = abandoned \cup {c}
    /\ UNCHANGED status

\* PeerClient.search gives up on call c.  A call that no worker has taken yet is
\* cancelled, one that is being handled goes on for nobody.
TimeOut(c) ==
    /\ Awaited(c)
    /\ abandoned' = abandoned \cup {c}
    /\ status' = [status EXCEPT ![c] = IF @ = "queued" THEN "dropped" ELSE @]

\* Every peer answered, failed or was given up: what came is merged with the
\* local results.
Merge(c) ==
    /\ status[c] = "waiting"
    /\ \A d \in PeerCalls(c) : ~Awaited(d)
    /\ status' = [status EXCEPT ![c] = "answered"]
    /\ UNCHANGED abandoned

Handle(c) ==
    \/ Accept(c)
    \/ AnswerLocally(c)
    \/ FanOut(c)
    \/ SearchFails(c)
    \/ Merge(c)

Finished ==
    /\ \A c \in Calls : status[c] \in {"none"} \cup Ended
    /\ \A n \in Asked : status[<<n>>] # "none"
    /\ UNCHANGED vars

Next ==
    \/ \E n \in Asked : Ask(n)
    \/ \E c \in Calls : Handle(c) \/ TimeOut(c)
    \/ Finished

Spec == Init /\ [][Next]_vars

\* Handlers and the workers of the pools go on, and timeouts expire.
FairSpec ==
    /\ Spec
    /\ \A c \in Calls : WF_vars(Handle(c)) /\ WF_vars(TimeOut(c))

-----------------------------------------------------------------------------

Started == {c \in Calls : status[c] # "none"}

\* Types: what each variable may hold; only calls of peers are given up, and no
\* call asks more peers than max_peers_per_query.
TypeOK ==
    /\ status \in [Calls -> Status]
    /\ abandoned \subseteq {c \in Calls : Len(c) > 1}
    /\ \A c \in Calls : Cardinality(PeerCalls(c) \cap Started) <= MaxPeers

\* No query travels further than max_depth hops (the loop-prevention headers).
DepthLimited == \A c \in Started : Hops(c) <= MaxDepth

\* Every call ends, the client's among them, although the workers of two nodes
\* can all be waiting for each other: each is released by its timeout.
EveryCallEnds ==
    \A c \in Calls :
        status[c] \in {"queued", "searching", "waiting"} ~> status[c] \in Ended

=============================================================================
