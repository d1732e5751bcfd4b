------------------------------- MODULE Chunker -------------------------------
(***************************************************************************)
(* chunk_document: how the text of a document becomes the chunks that are  *)
(* stored.  One action is one pass of its loop over blocks, or of the two  *)
(* loops inside it: over the parts of a block, and over the cuts of a      *)
(* block that is too long.                                                 *)
(*                                                                         *)
(* A document is the sequence of blocks that _parse_blocks finds in it.  A *)
(* character is the pair of its block and its place in it, so that it can  *)
(* be followed from the document into the chunks; white space is White.    *)
(***************************************************************************)
EXTENDS Integers, Sequences, SequencesExt, FiniteSetsExt

CONSTANTS
    Documents,     \* the documents, sequences of blocks
    MaxChars,      \* max_chars
    OverlapChars,  \* overlap_chars
    MinChars,      \* min_chars
    White

Kinds == {"heading", "table", "text"}

ASSUME SizesAssumption ==
    /\ MaxChars \in Nat /\ OverlapChars \in Nat /\ MinChars \in Nat
    /\ OverlapChars < MaxChars
\* Headings have a level, other blocks a size, gaps (where a sentence ends and
\* one white space follows) and the spans of personal data in them.  White is
\* none of their other characters.
ASSUME DocumentsAssumption ==
    \A d \in Documents :
        /\ d \in Seq(ToSet(d))
        /\ \A k \in DOMAIN d :
              /\ d[k].kind \in Kinds
              /\ d[k].kind = "heading" => d[k].level \in 1 .. 6
              /\ d[k].kind # "heading" =>
                    /\ d[k].size \in Nat \ {0}
                    /\ d[k].gaps \subseteq 2 .. d[k].size - 1
                    /\ \A g \in d[k].gaps : g + 1 \notin d[k].gaps
                    /\ d[k].pii \subseteq (1 .. d[k].size) \X (1 .. d[k].size)
                    /\ \A j \in 1 .. d[k].size : White # <<k, j>>

VARIABLES
    doc,        \* the document
    punkt,      \* NLTK's sentence tokenizer is installed
    pc,
    at,         \* the block the loop is at
    path,       \* heading_path
    remaining,  \* what is left of the block that is being cut
    subs,       \* sub_texts: the parts of the block, those placed left out
    buf,        \* buf_pieces
    overlap,
    chunks

vars == <<doc, punkt, pc, at, path, remaining, subs, buf, overlap, chunks>>

-----------------------------------------------------------------------------
(* Strings.                                                                *)

Bodies == {k \in DOMAIN doc : doc[k].kind # "heading"}

\* The characters of block k.
Text(k) ==
    [j \in 1 .. doc[k].size |-> IF j \in doc[k].gaps THEN White ELSE <<k, j>>]

Ink(s) == {i \in DOMAIN s : s[i] # White}

LStrip(s) == IF Ink(s) = {} THEN << >> ELSE SubSeq(s, Min(Ink(s)), Len(s))
Strip(s) == IF Ink(s) = {} THEN << >> ELSE SubSeq(s, Min(Ink(s)), Max(Ink(s)))

\* s[n:] and s[-n:].
From(s, n) == SubSeq(s, n + 1, Len(s))
LastChars(s, n) == From(s, Max({0, Len(s) - n}))

\* The pieces, each with a blank line after it.
Padded(pieces) ==
    FlattenSeq([i \in DOMAIN pieces |-> pieces[i] \o <<White, White>>])

\* The pieces with a blank line between them.
Join(pieces) == Strip(Padded(pieces))

\* The spans of personal data in the document, each as its characters.
Secrets ==
    UNION {{SubSeq(Text(k), span[1], span[2]) : span \in doc[k].pii}
            : k \in Bodies}

\* t is in s, from the n-th character on.
OccursAt(s, t, n) ==
    n + Len(t) - 1 <= Len(s) /\ SubSeq(s, n, n + Len(t) - 1) = t

\* _pii_spans: where s has a span of personal data, whole.
Spans(s) ==
    LET places(t) == {n \in DOMAIN s : OccursAt(s, t, n)}
    IN  UNION {{<<n - 1, n - 1 + Len(t)>> : n \in places(t)} : t \in Secrets}

\* One pass of the loop of _safe_cut: a position inside the span moves to its
\* end; the loop breaks at a span that begins behind the position.
PastSpan(now, span) ==
    IF now.broken \/ span[1] >= now.adjusted THEN [now EXCEPT !.broken = TRUE]
    ELSE IF now.adjusted < span[2] THEN [now EXCEPT !.adjusted = span[2]]
    ELSE now

\* _safe_cut, for spans sorted by their beginnings.
SafeCutLoop(pos, sorted) ==
    LET past[n \in 1 .. Len(sorted) + 1] ==
            IF n = 1 THEN [adjusted |-> pos, broken |-> FALSE]
            ELSE PastSpan(past[n - 1], sorted[n - 1])
    IN  past[Len(sorted) + 1].adjusted

\* What that loop computes (LoopIsSafeCut): the first position from pos on that
\* is inside no span.
SafeCut(pos, spans) ==
    LET inside(cut) == \E span \in spans : span[1] < cut /\ cut < span[2]
        ends == {span[2] : span \in spans}
    IN  Min({cut \in {pos} \cup ends : cut >= pos /\ ~inside(cut)})

\* Sentences end at the white space of a block.
Sentences(s) ==
    LET stop(i) == Min({Len(s) + 1} \cup {n \in i .. Len(s) : s[n] = White})
        from[i \in 1 .. Len(s) + 2] ==
            IF i > Len(s) THEN << >>
            ELSE <<SubSeq(s, i, stop(i) - 1)>> \o from[stop(i) + 1]
    IN  from[1]

\* A sentence joins the part when it fits, and otherwise begins the next one,
\* after the tail of the part.
PackSentence(packed, sent) ==
    LET longer == packed.buf \o <<White>> \o sent
        tail == LStrip(LastChars(packed.buf, OverlapChars))
    IN  IF Len(longer) > MaxChars
        THEN [parts |-> Append(packed.parts, packed.buf),
              buf |-> IF tail = << >> THEN sent ELSE tail \o <<White>> \o sent]
        ELSE [packed EXCEPT !.buf = longer]

\* _pack_sentences: as many sentences as fit in a part, and the tail of a part
\* at the head of the next.
Pack(s) ==
    LET sents == Sentences(s)
        packed[n \in 1 .. Len(sents)] ==
            IF n = 1 THEN [parts |-> << >>, buf |-> sents[1]]
            ELSE PackSentence(packed[n - 1], sents[n])
        last == packed[Len(sents)]
    IN  Append(last.parts, last.buf)

-----------------------------------------------------------------------------

Init ==
    /\ doc \in Documents
    /\ punkt \in BOOLEAN
    /\ pc = "block"
    /\ at = 1
    /\ path = << >>
    /\ remaining = << >>
    /\ subs = << >>
    /\ buf = << >>
    /\ overlap = << >>
    /\ chunks = << >>

Chunk(text, isTable) == [content |-> text, path |-> path, table |-> isTable]

\* _flush: the buffer becomes a chunk, unless there is nothing in it.
Flushed ==
    IF Join(buf) = << >> THEN chunks
    ELSE Append(chunks, Chunk(Join(buf), FALSE))

\* Mutant of Under: heading_path[:level].
UnderOwnLevel(p, heading) ==
    Append(SubSeq(p, 1, Min({heading.level, Len(p)})), heading)

\* heading_path[:level - 1] and the heading.
Under(p, heading) ==
    Append(SubSeq(p, 1, Min({heading.level - 1, Len(p)})), heading)

\* The overlap that a flush leaves: the tail of the chunk, from the end of a
\* span on when the tail would start inside it.
Carried(text) ==
    From(text, SafeCut(Max({0, Len(text) - OverlapChars}), Spans(text)))

AtBlock(kind) == pc = "block" /\ at <= Len(doc) /\ doc[at].kind = kind

\* Mutant of Heading: the path is never cut back.
HeadingKeepsPath ==
    /\ AtBlock("heading")
    /\ chunks' = Flushed
    /\ buf' = << >>
    /\ path' = Append(path, doc[at])
    /\ overlap' = << >>
    /\ at' = at + 1
    /\ UNCHANGED <<doc, punkt, pc, remaining, subs>>

\* Mutant of Heading: the overlap goes on into the next section.
HeadingKeepsOverlap ==
    /\ AtBlock("heading")
    /\ chunks' = Flushed
    /\ buf' = << >>
    /\ path' = Under(path, doc[at])
    /\ overlap' = IF buf = << >> THEN overlap ELSE Carried(Join(buf))
    /\ at' = at + 1
    /\ UNCHANGED <<doc, punkt, pc, remaining, subs>>

\* A heading ends a section: the path keeps the first level - 1 headings.
Heading ==
    /\ AtBlock("heading")
    /\ chunks' = Flushed
    /\ buf' = << >>
    /\ path' = Under(path, doc[at])
    /\ overlap' = << >>
    /\ at' = at + 1
    /\ UNCHANGED <<doc, punkt, pc, remaining, subs>>

\* A table is a chunk of its own.
Table ==
    /\ AtBlock("table")
    /\ chunks' = Append(Flushed, Chunk(Strip(Text(at)), TRUE))
    /\ buf' = << >>
    /\ overlap' = << >>
    /\ at' = at + 1
    /\ UNCHANGED <<doc, punkt, pc, path, remaining, subs>>

\* A paragraph or a code fence.  _split_oversized splits one that is too long,
\* by sentences where it can.
TextBlock ==
    LET long == Len(Text(at)) > MaxChars IN
    /\ AtBlock("text")
    /\ pc' = IF long /\ ~punkt THEN "cut" ELSE "place"
    /\ remaining' = IF long /\ ~punkt THEN Text(at) ELSE << >>
    /\ subs' = IF ~long THEN <<Text(at)>>
               ELSE IF punkt THEN Pack(Text(at)) ELSE << >>
    /\ UNCHANGED <<doc, punkt, at, path, buf, overlap, chunks>>

\* Where the first part of what remains ends.
CutAt == SafeCut(MaxChars, Spans(remaining))

\* There is more than one part left.
Long == Len(remaining) > MaxChars /\ CutAt < Len(remaining)

\* Mutant of Cut: personal data is cut.
CutAnywhere ==
    /\ pc = "cut"
    /\ Long
    /\ subs' = Append(subs, Strip(SubSeq(remaining, 1, MaxChars)))
    /\ remaining' = LStrip(From(remaining, MaxChars - OverlapChars))
    /\ UNCHANGED <<doc, punkt, pc, at, path, buf, overlap, chunks>>

\* Mutant of Cut: a part that would start inside a span starts where it does.
CutRewinds ==
    LET start == Max({0, CutAt - OverlapChars})
        inside ==
            {span \in Spans(remaining) : span[1] < start /\ start < span[2]}
    IN
    /\ pc = "cut"
    /\ Long
    /\ subs' = Append(subs, Strip(SubSeq(remaining, 1, CutAt)))
    /\ remaining' = LStrip(From(remaining,
                          Min({start} \cup {span[1] : span \in inside})))
    /\ UNCHANGED <<doc, punkt, pc, at, path, buf, overlap, chunks>>

\* The hard cut: a part, and an overlap with it at the head of what remains.
Cut ==
    /\ pc = "cut"
    /\ Long
    /\ subs' = Append(subs, Strip(SubSeq(remaining, 1, CutAt)))
    /\ remaining' = LStrip(From(remaining, Max({0, CutAt - OverlapChars})))
    /\ UNCHANGED <<doc, punkt, pc, at, path, buf, overlap, chunks>>

\* What remains is the last part.
CutEnds ==
    /\ pc = "cut"
    /\ ~Long
    /\ subs' = IF Strip(remaining) # << >> THEN Append(subs, Strip(remaining))
               ELSE IF subs = << >> THEN <<Text(at)>> ELSE subs
    /\ remaining' = << >>
    /\ pc' = "place"
    /\ UNCHANGED <<doc, punkt, at, path, buf, overlap, chunks>>

\* Mutant of Projected: the new part is not counted.
ProjectedBefore(sub) == Len(Padded(buf))

\* The length of the buffer with sub joined to it.
Projected(sub) == Len(Padded(buf)) + Len(sub)

\* _append_text_block, for one part: it joins the buffer when it fits, and
\* otherwise starts a new one, after the overlap.
Place ==
    LET sub == Head(subs)
        full == buf # << >> /\ Projected(sub) > MaxChars
        carried == IF full THEN Carried(Join(buf)) ELSE overlap
        starts == full \/ buf = << >>
    IN
    /\ pc = "place"
    /\ chunks' = IF full THEN Flushed ELSE chunks
    /\ buf' = IF ~starts THEN Append(buf, sub)
              ELSE IF carried = << >> THEN <<sub>> ELSE <<carried, sub>>
    /\ overlap' = IF starts THEN << >> ELSE overlap
    /\ subs' = Tail(subs)
    /\ pc' = IF subs' = << >> THEN "block" ELSE "place"
    /\ at' = IF subs' = << >> THEN at + 1 ELSE at
    /\ UNCHANGED <<doc, punkt, path, remaining>>

\* A last chunk that is too small joins the one before, in the same section.
MergeTail(found) ==
    LET n == Len(found) IN
    IF /\ n >= 2
       /\ Len(found[n].content) < MinChars
       /\ found[n].path = found[n - 1].path
    THEN Append(SubSeq(found, 1, n - 2),
                [content |-> found[n - 1].content \o <<White, White>>
                                \o found[n].content,
                 path |-> found[n - 1].path,
                 table |-> found[n - 1].table \/ found[n].table])
    ELSE found

\* Mutant of Finish: what is in the buffer is forgotten.
FinishUnflushed ==
    /\ pc = "block"
    /\ at > Len(doc)
    /\ chunks' = MergeTail(chunks)
    /\ pc' = "done"
    /\ UNCHANGED <<doc, punkt, at, path, remaining, subs, buf, overlap>>

Finish ==
    /\ pc = "block"
    /\ at > Len(doc)
    /\ chunks' = MergeTail(Flushed)
    /\ pc' = "done"
    /\ UNCHANGED <<doc, punkt, at, path, remaining, subs, buf, overlap>>

Done == pc = "done" /\ UNCHANGED vars

Next ==
    \/ Heading
    \/ Table
    \/ TextBlock
    \/ Cut
    \/ CutEnds
    \/ Place
    \/ Finish
    \/ Done

Spec == Init /\ [][Next]_vars

-----------------------------------------------------------------------------

Chars(s) == {s[i] : i \in Ink(s)}

\* Every character of the document, and white space.
Alphabet == {White} \cup UNION {Chars(Text(k)) : k \in Bodies}

\* Types: what each variable may hold; a heading path is at most as long as the
\* deepest heading.
TypeOK ==
    LET texts == Seq(Alphabet)
        isPath(p) == /\ p \in Seq(ToSet(doc))
                     /\ p # << >> => \E h \in ToSet(p) : Len(p) <= h.level
    IN
    /\ doc \in Documents
    /\ punkt \in BOOLEAN
    /\ pc \in {"block", "cut", "place", "done"}
    /\ at \in 1 .. Len(doc) + 1
    /\ isPath(path)
    /\ remaining \in texts /\ overlap \in texts
    /\ subs \in Seq(texts) /\ buf \in Seq(texts)
    /\ chunks \in Seq([content : texts, path : Seq(ToSet(doc)),
                       table : BOOLEAN])
    /\ \A i \in DOMAIN chunks : isPath(chunks[i].path)

\* The headings that block k is under, by the rule of Heading.
PathOf(k) ==
    LET under[n \in 1 .. Len(doc) + 1] ==
            IF n = 1 THEN << >>
            ELSE IF doc[n - 1].kind = "heading"
                 THEN Under(under[n - 1], doc[n - 1])
                 ELSE under[n - 1]
    IN  under[k]

\* Whatever a chunk has of a block, its overlap and a merged tail included, is
\* under the headings of the chunk: no text moves to another section.
Located ==
    \A i \in DOMAIN chunks : \A char \in Chars(chunks[i].content) :
        chunks[i].path = PathOf(char[1])

\* What one reads in the chunks from first to last.
Reading == FlattenSeq([i \in DOMAIN chunks |-> chunks[i].content])

\* The chunks read back as the document: what one reads, without what was read
\* before, is every character of every paragraph, fence and table in the
\* document's order, whatever was cut, carried over, flushed and merged.
ReadsBack ==
    LET new == {i \in Ink(Reading) :
                    \A n \in 1 .. i - 1 : Reading[n] # Reading[i]}
        before(a, b) == a[1] < b[1] \/ (a[1] = b[1] /\ a[2] < b[2])
    IN  pc = "done" =>
            /\ Chars(Reading) = UNION {Chars(Text(k)) : k \in Bodies}
            /\ \A i, n \in new : i < n => before(Reading[i], Reading[n])

\* Personal data that nothing takes apart: it begins and ends with a character
\* and, when blocks are split by sentences, no sentence ends in it.
Unbroken(t) ==
    /\ t # << >> /\ {1, Len(t)} \subseteq Ink(t)
    /\ punkt => Ink(t) = DOMAIN t

\* Every such span of personal data is whole in some chunk (FR-MR-12), wherever
\* the cuts are, and whatever a flush and the merged tail make of the parts.
PIIWhole ==
    pc = "done" =>
        \A t \in Secrets : Unbroken(t) => \E c \in ToSet(chunks) :
            \E n \in DOMAIN c.content : OccursAt(c.content, t, n)

\* The lengths of the stretches of personal data: where spans overlap, all of
\* them together.
Stretches ==
    LET inside(k, n) ==
            \E span \in doc[k].pii : span[1] <= n /\ n < span[2]
    IN  UNION {{n \in 1 .. doc[k].size : \E a \in 1 .. doc[k].size - n + 1 :
                    \A i \in a .. a + n - 2 : inside(k, i)}
               : k \in Bodies}

\* The longest part _split_oversized makes: a cut moved past personal data, or
\* a sentence with the tail of the part before it.
PartLimit ==
    LET span == Max({1} \cup Stretches)
        sentence == Max({0} \cup {Len(s) : s \in
                            UNION {ToSet(Sentences(Text(k))) : k \in Bodies}})
    IN  IF punkt THEN Max({MaxChars, OverlapChars + 1 + sentence})
        ELSE MaxChars + span - 1

\* A chunk of text exceeds the longest part by an overlap and a blank line at
\* most, and the last one by a merged tail.
SizeBound ==
    \A i \in DOMAIN chunks :
        chunks[i].table \/ Len(chunks[i].content) <=
            PartLimit + OverlapChars + 2
                + IF pc = "done" /\ i = Len(chunks) THEN MinChars + 1 ELSE 0

\* A long block is cut up in the end: every cut leaves less than there was,
\* although it goes back by the overlap after going forward past personal data.
CutsAdvance ==
    [][pc = "cut" /\ pc' = "cut" => Len(remaining') < Len(remaining)]_vars

Headings == {k \in DOMAIN doc : doc[k].kind = "heading"}

\* The document starts at the first level, and a heading is at most one level
\* below the one before it.
SkipsNoLevel ==
    \A k \in Headings :
        LET before == {n \in Headings : n < k}
        IN  doc[k].level <=
                IF before = {} THEN 1 ELSE doc[Max(before)].level + 1

\* The headings that the text of block k is under: those that no later heading
\* of their level or above has ended.
Open(k) ==
    {n \in Headings : n < k /\ \A m \in Headings :
        n < m /\ m < k => doc[m].level > doc[n].level}

\* p is those headings, in the document's order.
IsAncestry(p, k) ==
    \E f \in [DOMAIN p -> Open(k)] :
        /\ \A i, n \in DOMAIN p : i < n => f[i] < f[n]
        /\ ToSet(f) = Open(k)
        /\ p = [i \in DOMAIN p |-> doc[f[i]]]

\* heading_path is the ancestor heading hierarchy of a chunk (the docstring of
\* chunk_document), although it is cut back by position, and kept for chunks
\* that are flushed later or merged: in a document that skips no level, all the
\* text of a chunk is under the headings of its path, in that order.
AncestorsOnly ==
    SkipsNoLevel =>
        \A c \in ToSet(chunks) : \A char \in Chars(c.content) :
            IsAncestry(c.path, char[1])

=============================================================================
