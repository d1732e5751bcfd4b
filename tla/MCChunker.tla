----------------------------- MODULE MCChunker -----------------------------
(***************************************************************************)
(* Chunker on small documents.                                             *)
(***************************************************************************)
EXTENDS Chunker

CONSTANT MaxBlocks   \* bound: the documents have at most this many blocks

Section(n, title) == [kind |-> "heading", level |-> n, text |-> title]
Body(k, n, spaces, spans) ==
    [kind |-> k, size |-> n, gaps |-> spaces, pii |-> spans]

\* A table, a short paragraph, two of which fit in a chunk, and one that is too
\* long, of three sentences, with personal data across the first place where it
\* may be cut, more of it that overlaps with it, and more right after, across the
\* end of a sentence.
Blocks ==
    {Section(1, "A"), Section(2, "B"), Section(2, "C"),
     Body("table", 3, {2}, {}), Body("text", 2, {}, {}),
     Body("text", 20, {5, 18}, {<<6, 9>>, <<8, 12>>, <<13, 19>>})}

MCDocuments == BoundedSeq(Blocks, MaxBlocks)

\* The loop of _safe_cut computes SafeCut, over the spans in the order in which
\* _pii_spans has them.
ASSUME LoopAssumption ==
    LET pairs == {span \in (0 .. 3) \X (1 .. 4) : span[1] < span[2]}
        before(p, q) == p[1] < q[1] \/ (p[1] = q[1] /\ p[2] <= q[2])
    IN  \A p, q, r \in pairs : \A pos \in 0 .. 4 :
            SafeCutLoop(pos, SetToSortSeq({p, q, r}, before)) =
                SafeCut(pos, {p, q, r})

=============================================================================
