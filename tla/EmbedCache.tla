----------------------------- MODULE EmbedCache -----------------------------
(***************************************************************************)
(* CachedEmbedder.embed: a dict in front of the embedding service, with no *)
(* lock.  Search handlers, index handlers and the sub-queries of a         *)
(* decomposed search call it from threads of their own.  One action is one *)
(* operation on the dict; the interpreter switches threads between them.   *)
(* embed_batch is embed on one text after the other.                       *)
(***************************************************************************)
EXTENDS Integers, FiniteSets

CONSTANTS
    Threads,   \* threads that embed texts
    Texts,     \* the texts they embed
    MaxSize,   \* max_size; build() makes no cache when it is 0
    NoText

ASSUME ThreadsAssumption == IsFiniteSet(Threads)
ASSUME TextsAssumption == IsFiniteSet(Texts) /\ NoText \notin Texts
ASSUME MaxSizeAssumption == MaxSize \in Nat \ {0}

VARIABLES
    position,  \* position[x]: place of text x in the dict, 1 the oldest;
               \* 0 when x is not cached
    pc,        \* where each thread is
    text,      \* the text each thread embeds, or NoText
    victim,    \* the key each thread is about to evict, or NoText
    iterSize,  \* the size of the dict when the thread's iterator was made,
               \* 0 when it has none
    crossed    \* history: threads in whose call another thread has changed
               \* the keys of the dict

vars == <<position, pc, text, victim, iterSize, crossed>>

PC == {"idle", "lookup", "get", "inner", "size", "iter", "next", "pop",
       "store", "returned", "innerFailed", "cacheFailed"}

Cached == {x \in Texts : position[x] # 0}

Size == Cardinality(Cached)

Goto(t, to) == pc' = [pc EXCEPT ![t] = to]

\* Thread t changes the keys of the dict under the other calls.
Crosses(t) == crossed' = crossed \cup {s \in Threads \ {t} : pc[s] # "idle"}

\* dict.pop(x): the later keys move up.
Without(x) ==
    [y \in Texts |-> IF y = x THEN 0
                     ELSE IF position[y] > position[x] THEN position[y] - 1
                     ELSE position[y]]

\* dict[x] = vec: a new key goes to the end, a key that is there keeps its
\* place.
With(x) ==
    IF x \in Cached THEN position ELSE [position EXCEPT ![x] = Size + 1]

-----------------------------------------------------------------------------

Init ==
    /\ position = [x \in Texts |-> 0]
    /\ pc = [t \in Threads |-> "idle"]
    /\ text = [t \in Threads |-> NoText]
    /\ victim = [t \in Threads |-> NoText]
    /\ iterSize = [t \in Threads |-> 0]
    /\ crossed = {}

Call(t, x) ==
    /\ pc[t] = "idle"
    /\ text' = [text EXCEPT ![t] = x]
    /\ Goto(t, "lookup")
    /\ UNCHANGED <<position, victim, iterSize, crossed>>

\* if text in self._cache
Lookup(t) ==
    /\ pc[t] = "lookup"
    /\ Goto(t, IF text[t] \in Cached THEN "get" ELSE "inner")
    /\ UNCHANGED <<position, text, victim, iterSize, crossed>>

\* return self._cache[text]: KeyError when it was evicted since the lookup.
Get(t) ==
    /\ pc[t] = "get"
    /\ Goto(t, IF text[t] \in Cached THEN "returned" ELSE "cacheFailed")
    /\ UNCHANGED <<position, text, victim, iterSize, crossed>>

\* self._inner.embed(text): the service answers, or the call raises.
EmbedInner(t) ==
    /\ pc[t] = "inner"
    /\ \E to \in {"size", "innerFailed"} : Goto(t, to)
    /\ UNCHANGED <<position, text, victim, iterSize, crossed>>

\* Mutant of CheckSize: makes room before the limit is reached.
CheckSizeEarly(t) ==
    /\ pc[t] = "size"
    /\ Goto(t, IF Size >= MaxSize - 1 THEN "iter" ELSE "store")
    /\ UNCHANGED <<position, text, victim, iterSize, crossed>>

\* if len(self._cache) >= self._max
CheckSize(t) ==
    /\ pc[t] = "size"
    /\ Goto(t, IF Size >= MaxSize THEN "iter" ELSE "store")
    /\ UNCHANGED <<position, text, victim, iterSize, crossed>>

\* iter(self._cache)
MakeIter(t) ==
    /\ pc[t] = "iter"
    /\ iterSize' = [iterSize EXCEPT ![t] = Size]
    /\ Goto(t, "next")
    /\ UNCHANGED <<position, text, victim, crossed>>

\* Mutant of NextKey: an empty dict gives no key instead of an exception.
NextKeyOrNone(t) ==
    /\ pc[t] = "next"
    /\ IF Size # iterSize[t]
       THEN Goto(t, "cacheFailed") /\ UNCHANGED victim
       ELSE /\ victim' = [victim EXCEPT ![t] =
                  IF Size = 0 THEN NoText
                  ELSE CHOOSE x \in Cached : position[x] = 1]
            /\ Goto(t, "pop")
    /\ iterSize' = [iterSize EXCEPT ![t] = 0]
    /\ UNCHANGED <<position, text, crossed>>

\* next(...): RuntimeError when the dict changed size since, StopIteration
\* when it is empty, else the oldest key.
NextKey(t) ==
    /\ pc[t] = "next"
    /\ IF Size # iterSize[t] \/ Size = 0
       THEN Goto(t, "cacheFailed") /\ UNCHANGED victim
       ELSE \E x \in Cached :
               /\ position[x] = 1
               /\ victim' = [victim EXCEPT ![t] = x]
               /\ Goto(t, "pop")
    /\ iterSize' = [iterSize EXCEPT ![t] = 0]
    /\ UNCHANGED <<position, text, crossed>>

\* Mutant of Pop: a key that is gone already is not an error.
PopMissingIgnored(t) ==
    /\ pc[t] = "pop"
    /\ position' = IF victim[t] \in Cached THEN Without(victim[t]) ELSE position
    /\ Crosses(t)
    /\ Goto(t, "store")
    /\ victim' = [victim EXCEPT ![t] = NoText]
    /\ UNCHANGED <<text, iterSize>>

\* self._cache.pop(key): KeyError when another thread evicted it first.
Pop(t) ==
    /\ pc[t] = "pop"
    /\ IF victim[t] \in Cached
       THEN position' = Without(victim[t]) /\ Crosses(t) /\ Goto(t, "store")
       ELSE UNCHANGED <<position, crossed>> /\ Goto(t, "cacheFailed")
    /\ victim' = [victim EXCEPT ![t] = NoText]
    /\ UNCHANGED <<text, iterSize>>

\* self._cache[text] = vec; return vec
Store(t) ==
    /\ pc[t] = "store"
    /\ position' = With(text[t])
    /\ IF text[t] \in Cached THEN UNCHANGED crossed ELSE Crosses(t)
    /\ Goto(t, "returned")
    /\ UNCHANGED <<text, victim, iterSize>>

\* The caller has its vector or its exception.
Return(t) ==
    /\ pc[t] \in {"returned", "innerFailed", "cacheFailed"}
    /\ Goto(t, "idle")
    /\ text' = [text EXCEPT ![t] = NoText]
    /\ crossed' = crossed \ {t}
    /\ UNCHANGED <<position, victim, iterSize>>

Step(t) ==
    \/ \E x \in Texts : Call(t, x)
    \/ Lookup(t)
    \/ Get(t)
    \/ EmbedInner(t)
    \/ CheckSize(t)
    \/ MakeIter(t)
    \/ NextKey(t)
    \/ Pop(t)
    \/ Store(t)
    \/ Return(t)

Next == \E t \in Threads : Step(t)

Spec == Init /\ [][Next]_vars

-----------------------------------------------------------------------------

\* Types: what each variable may hold; a thread has a text while it embeds it.
TypeOK ==
    /\ position \in [Texts -> 0 .. Cardinality(Texts)]
    /\ pc \in [Threads -> PC]
    /\ text \in [Threads -> Texts \cup {NoText}]
    /\ \A t \in Threads : pc[t] # "idle" => text[t] \in Texts
    /\ victim \in [Threads -> Texts \cup {NoText}]
    /\ \A t \in Threads : pc[t] = "pop" => victim[t] \in Texts
    /\ iterSize \in [Threads -> 0 .. Cardinality(Texts)]
    /\ \A t \in crossed : t \in Threads /\ pc[t] # "idle"

\* The cache holds at most one text more than its limit for every thread
\* beyond the first: the size check and the insertion it allows are separate
\* steps, so every thread may find the last free place.
SizeBound == Size <= MaxSize + Cardinality(Threads) - 1

\* The cache makes an embedding fail only when another thread changed its keys
\* in the middle of the call: with KeyError when the text, or the key to evict,
\* is gone, with RuntimeError or StopIteration when the oldest key is looked up
\* in a dict that changed.  A thread nobody crosses gets its vector, or the
\* exception of the embedding service.
OnlyCrossedFail ==
    \A t \in Threads : pc[t] = "cacheFailed" => t \in crossed

=============================================================================
