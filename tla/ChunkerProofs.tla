--------------------------- MODULE ChunkerProofs ---------------------------
(***************************************************************************)
(* Proofs about Chunker: for documents of any length, and any max_chars,   *)
(* overlap_chars and min_chars.  Four inductive invariants, Sections,      *)
(* Lengths, Order and Whole, carry its properties.                         *)
(***************************************************************************)
EXTENDS Chunker, SequenceTheorems, WellFoundedInduction, TLAPS

-----------------------------------------------------------------------------
(* Induction and recursion, and the sequences of sequences.                *)

\* A set of numbers that has 0, and with each number the next one, has them all.
\* The least number that is not in it would contradict that: numbers are well
\* founded.
LEMMA Induction ==
    ASSUME NEW P, 0 \in P, \A n \in Nat : n \in P => n + 1 \in P
    PROVE  Nat \subseteq P
<1> DEFINE T == Nat \ P
           R == OpToRel(<, Nat)
<1>1. SUFFICES ASSUME T # {} PROVE FALSE
  OBVIOUS
<1>2. IsWellFoundedOn(R, Nat)
  BY NatLessThanWellFounded
<1>3. \E x \in T : \A y \in T : ~ (<<y, x>> \in R)
  <2> HIDE DEF R
  <2> QED BY <1>1, <1>2, WFMin, Zenon
<1>4. PICK x \in T : \A y \in T : ~ (<<y, x>> \in R)
  BY <1>3
<1>5. x # 0 /\ x - 1 \in Nat /\ x - 1 \notin P
  OBVIOUS
<1>6. <<x - 1, x>> \in R
  BY <1>5 DEF OpToRel
<1> QED BY <1>4, <1>5, <1>6

\* g is the function that the step defines by recursion, from a on.
Recurs(g, n, a, step) ==
    /\ 1 \in 1 .. n => g[1] = a
    /\ \A i \in 2 .. n : g[i] = step[<<g[i - 1], i>>]

\* There is such a function, for every step and number.
LEMMA Recursion ==
    ASSUME NEW V, NEW n \in Nat, NEW a \in V, NEW step \in [V \X (2 .. n) -> V]
    PROVE  \E g \in [1 .. n -> V] : Recurs(g, n, a, step)
<1> DEFINE P == {m \in Nat : m <= n => \E g \in [1 .. m -> V] : Recurs(g, m, a, step)}
<1>1. 0 \in P
  <2>1. [i \in 1 .. 0 |-> a] \in [1 .. 0 -> V]
    OBVIOUS
  <2>2. \A i \in 1 .. 0 : FALSE
    OBVIOUS
  <2>3. 1 \notin 1 .. 0 /\ 2 .. 0 = {}
    OBVIOUS
  <2>4. Recurs([i \in 1 .. 0 |-> a], 0, a, step)
    BY <2>3 DEF Recurs
  <2> QED BY <2>1, <2>4
<1>2. ASSUME NEW m \in Nat, m \in P PROVE m + 1 \in P
  <2> SUFFICES ASSUME m + 1 <= n
               PROVE  \E h \in [1 .. m + 1 -> V] : Recurs(h, m + 1, a, step)
    OBVIOUS
  <2>1. PICK g \in [1 .. m -> V] : Recurs(g, m, a, step)
    BY <1>2
  <2> DEFINE h == [i \in 1 .. m + 1 |->
                      IF i <= m THEN g[i]
                      ELSE IF i = 1 THEN a ELSE step[<<g[i - 1], i>>]]
  <2>2. h \in [1 .. m + 1 -> V]
    <3> SUFFICES ASSUME NEW i \in 1 .. m + 1 PROVE h[i] \in V
      BY Zenon
    <3> QED BY <2>1
  <2>3. Recurs(h, m + 1, a, step)
    BY <2>1 DEF Recurs
  <2> QED BY <2>2, <2>3
<1>3. n \in P
  <2> HIDE DEF P
  <2> QED BY <1>1, <1>2, Induction
<1> QED BY <1>3

\* A set that has the empty sequence, and with each sequence over S the ones that
\* are longer by an element, has all sequences over S.
LEMMA SeqInduction ==
    ASSUME NEW S, NEW P, << >> \in P,
           \A s \in Seq(S), e \in S : s \in P => Append(s, e) \in P
    PROVE  Seq(S) \subseteq P
<1> DEFINE Q == {n \in Nat : \A s \in Seq(S) : Len(s) = n => s \in P}
<1>1. 0 \in Q
  BY EmptySeq
<1>2. ASSUME NEW n \in Nat, n \in Q PROVE n + 1 \in Q
  <2> SUFFICES ASSUME NEW s \in Seq(S), Len(s) = n + 1 PROVE s \in P
    BY <1>2
  <2>1. s # << >>
    BY EmptySeq
  <2>2. PICK t \in Seq(S), e \in S : s = Append(t, e)
    BY <2>1, SequenceEmptyOrAppend, Zenon
  <2>3. Len(s) = Len(t) + 1
    BY <2>2
  <2>4. Len(t) = n
    BY <2>3, LenProperties
  <2> QED BY <1>2, <2>2, <2>4
<1>3. Nat \subseteq Q
  <2> HIDE DEF Q
  <2> QED BY <1>1, <1>2, Induction
<1> QED BY <1>3, LenProperties

\* g is the function that FlattenSeq(seqs) is defined by.
Flattens(g, seqs) ==
    /\ DOMAIN g = 1 .. Len(seqs) /\ g = [i \in DOMAIN g |-> g[i]]
    /\ g[1] = seqs[1]
    /\ \A i \in 2 .. Len(seqs) : g[i] = g[i - 1] \o seqs[i]

\* FlattenSeq(seqs) is its last value.
LEMMA FlattenIs ==
    ASSUME NEW S, NEW seqs \in Seq(Seq(S)), seqs # << >>, NEW g, Flattens(g, seqs)
    PROVE  FlattenSeq(seqs) = g[Len(seqs)]
<1>0. /\ DOMAIN g = 1 .. Len(seqs) /\ g = [i \in DOMAIN g |-> g[i]] /\ g[1] = seqs[1]
      /\ \A i \in 2 .. Len(seqs) : g[i] = g[i - 1] \o seqs[i]
  BY Zenon DEF Flattens
<1> DEFINE n == Len(seqs)
           Eq(h) == h = [i \in 1 .. n |-> IF i = 1 THEN seqs[i] ELSE h[i - 1] \o seqs[i]]
           f == CHOOSE h : Eq(h)
<1>1. n \in Nat /\ n > 0 /\ \A i \in 1 .. n : seqs[i] \in Seq(S)
  OBVIOUS
<1>2. Eq(g)
  <2>1. ASSUME NEW i \in 1 .. n
        PROVE  g[i] = IF i = 1 THEN seqs[i] ELSE g[i - 1] \o seqs[i]
    <3>1. CASE i = 1
      BY <1>0, <3>1, Zenon
    <3>2. CASE i # 1
      <4>1. i \in 2 .. n
        BY <1>1, <3>2
      <4> QED BY <1>0, <4>1, <3>2, Zenon
    <3> QED BY <3>1, <3>2, Zenon
  <2> QED BY <1>0, <2>1, Zenon
<1>3. Eq(f)
  BY <1>2, Zenon
<1>4. FlattenSeq(seqs) = f[n]
  BY <1>1 DEF FlattenSeq
<1> HIDE DEF f
<1> DEFINE P == {m \in Nat : m \in 1 .. n => f[m] = g[m]}
<1>5. 0 \in P
  OBVIOUS
<1>6. ASSUME NEW m \in Nat, m \in P PROVE m + 1 \in P
  <2>1. CASE m = 0
    BY <1>0, <1>1, <1>3, <2>1
  <2>2. CASE m # 0 /\ m + 1 \in 1 .. n
    <3> DEFINE i == m + 1
    <3>1. i \in 2 .. n /\ i # 1 /\ i \in 1 .. n /\ f[i - 1] = g[i - 1]
      BY <2>2, <1>6
    <3> HIDE DEF i
    <3>2. f[i] = f[i - 1] \o seqs[i]
      BY <3>1, <1>3, Zenon
    <3>3. g[i] = g[i - 1] \o seqs[i]
      BY <1>0, <3>1, Zenon
    <3>4. f[i] = g[i]
      BY <3>1, <3>2, <3>3, Zenon
    <3> QED BY <3>4 DEF i
  <2> QED BY <2>1, <2>2
<1>7. Nat \subseteq P
  <2> HIDE DEF P
  <2> QED BY <1>5, <1>6, Induction
<1> QED BY <1>1, <1>4, <1>7

\* Of no sequences, FlattenSeq makes the empty one.
LEMMA FlattenEmpty == FlattenSeq(<< >>) = << >>
BY DEF FlattenSeq

\* One more sequence extends that function.
LEMMA FlattenExtends ==
    ASSUME NEW S, NEW seqs \in Seq(Seq(S)), seqs # << >>, NEW x \in Seq(S), NEW g,
           Flattens(g, seqs)
    PROVE  \E h : Flattens(h, Append(seqs, x)) /\ h[Len(seqs) + 1] = g[Len(seqs)] \o x
<1> DEFINE n == Len(seqs)
           h == [i \in 1 .. n + 1 |-> IF i <= n THEN g[i] ELSE g[n] \o x]
           more == Append(seqs, x)
<1>1. n \in Nat /\ n > 0
  OBVIOUS
<1>2. Len(more) = n + 1 /\ more[n + 1] = x /\ \A i \in 1 .. n : more[i] = seqs[i]
  OBVIOUS
<1> HIDE DEF more
<1>3. h[1] = more[1]
  <2>1. 1 \in 1 .. n /\ 1 \in 1 .. n + 1 /\ 1 <= n
    BY <1>1
  <2>2. h[1] = g[1]
    BY <2>1, Zenon
  <2> QED BY <1>2, <2>1, <2>2, Zenon DEF Flattens
<1>4. ASSUME NEW i \in 2 .. n + 1 PROVE h[i] = h[i - 1] \o more[i]
  <2>1. CASE i = n + 1
    <3>1. h[n + 1] = g[n] \o x /\ h[n] = g[n] /\ n + 1 - 1 = n
      BY <1>1
    <3> HIDE DEF h
    <3>2. i - 1 = n
      BY <2>1, <1>1
    <3> QED BY <2>1, <3>1, <3>2, <1>2, Zenon
  <2>2. CASE i # n + 1
    <3>1. i \in 2 .. n /\ i - 1 \in 1 .. n /\ i \in 1 .. n
      BY <2>2, <1>1
    <3>2. h[i] = g[i] /\ h[i - 1] = g[i - 1] /\ more[i] = seqs[i]
      BY <3>1, <1>1, <1>2
    <3>3. g[i] = g[i - 1] \o seqs[i]
      BY <3>1, Zenon DEF Flattens
    <3> HIDE DEF h
    <3> QED BY <3>2, <3>3, Zenon
  <2> QED BY <2>1, <2>2, Zenon
<1>5. DOMAIN h = 1 .. n + 1 /\ h = [i \in DOMAIN h |-> h[i]]
  OBVIOUS
<1>6. h[n + 1] = g[n] \o x
  BY <1>1
<1> HIDE DEF h
<1>7. Flattens(h, more)
  BY <1>2, <1>3, <1>4, <1>5, Zenon DEF Flattens
<1> QED BY <1>6, <1>7, Zenon DEF more

\* FlattenSeq puts the last sequence after the others.
LEMMA FlattenAppend ==
    ASSUME NEW S, NEW seqs \in Seq(Seq(S)), NEW x \in Seq(S)
    PROVE  /\ FlattenSeq(seqs) \in Seq(S)
           /\ FlattenSeq(Append(seqs, x)) = FlattenSeq(seqs) \o x
<1> DEFINE P == {s \in Seq(Seq(S)) :
                    /\ FlattenSeq(s) \in Seq(S)
                    /\ s # << >> => \E g : Flattens(g, s)}
<1>1. << >> \in P
  BY FlattenEmpty, EmptySeq
<1>2. ASSUME NEW s \in Seq(Seq(S)), NEW e \in Seq(S), s \in P
      PROVE  /\ Append(s, e) \in P
             /\ FlattenSeq(Append(s, e)) = FlattenSeq(s) \o e
  <2> DEFINE more == Append(s, e)
  <2>1. more \in Seq(Seq(S)) /\ more # << >> /\ Len(more) = Len(s) + 1 /\ Len(s) \in Nat
    BY AppendProperties
  <2>2. CASE s = << >>
    <3> DEFINE one == [i \in 1 .. 1 |-> e]
    <3>1. more = <<e>> /\ Len(more) = 1 /\ more[1] = e /\ one[1] = e
      BY <2>2
    <3>2. Flattens(one, more)
      BY <3>1 DEF Flattens
    <3> HIDE DEF one
    <3>3. FlattenSeq(more) = e
      <4>1. FlattenSeq(more) = one[Len(more)]
        BY <2>1, <3>2, FlattenIs
      <4> QED BY <3>1, <4>1
    <3>4. FlattenSeq(s) \o e = e
      BY <2>2, FlattenEmpty, ConcatEmptySeq
    <3> QED BY <2>1, <3>2, <3>3, <3>4
  <2>3. CASE s # << >>
    <3>1. PICK g : Flattens(g, s)
      BY <1>2, <2>3
    <3>2. FlattenSeq(s) = g[Len(s)]
      BY <2>3, <3>1, FlattenIs
    <3>3. PICK h : Flattens(h, more) /\ h[Len(s) + 1] = g[Len(s)] \o e
      BY <2>3, <3>1, FlattenExtends, Zenon
    <3>4. FlattenSeq(more) = h[Len(more)]
      BY <2>1, <3>3, FlattenIs
    <3>5. FlattenSeq(more) = FlattenSeq(s) \o e
      BY <2>1, <3>2, <3>3, <3>4, Zenon
    <3>6. FlattenSeq(s) \o e \in Seq(S)
      BY <1>2
    <3> QED BY <2>1, <3>3, <3>5, <3>6, Zenon
  <2> QED BY <2>2, <2>3, Zenon
<1>3. Seq(Seq(S)) \subseteq P
  <2> HIDE DEF P
  <2> QED BY <1>1, <1>2, SeqInduction
<1> QED BY <1>2, <1>3, Zenon

\* The least and the greatest of a set of numbers.
LEMMA MinIs ==
    ASSUME NEW S \in SUBSET Nat, S # {}
    PROVE  Min(S) \in S /\ \A y \in S : Min(S) <= y
<1> DEFINE P == {n \in Nat : n \in S => \E x \in S : \A y \in S : x <= y}
           Q == {n \in Nat : \A m \in 0 .. n : m \in P}
<1>1. 0 \in Q
  OBVIOUS
<1>2. ASSUME NEW n \in Nat, n \in Q PROVE n + 1 \in Q
  <2>1. CASE \E m \in 0 .. n : m \in S
    BY <1>2, <2>1
  <2>2. CASE \A m \in 0 .. n : m \notin S
    BY <1>2, <2>2
  <2> QED BY <2>1, <2>2
<1>3. Nat \subseteq Q
  <2> HIDE DEF Q
  <2> QED BY <1>1, <1>2, Induction
<1>4. \E x \in S : \A y \in S : x <= y
  <2>1. PICK m \in S : TRUE
    OBVIOUS
  <2>2. m \in Nat /\ m \in 0 .. m /\ m \in Q
    BY <1>3
  <2>3. m \in P
    BY <2>2
  <2> QED BY <2>1, <2>3
<1> QED BY <1>4 DEF Min

\* The greatest of a set of numbers with a bound.
LEMMA MaxIs ==
    ASSUME NEW S \in SUBSET Int, S # {}, NEW b \in Int, \A y \in S : y <= b
    PROVE  Max(S) \in S /\ \A y \in S : y <= Max(S)
<1> DEFINE T == {b - y : y \in S}
<1>1. T \in SUBSET Nat /\ T # {}
  <2>1. ASSUME NEW y \in S PROVE b - y \in Nat
    OBVIOUS
  <2> QED BY <2>1
<1>2. Min(T) \in T /\ \A y \in T : Min(T) <= y
  BY <1>1, MinIs
<1>3. PICK x \in S : Min(T) = b - x
  BY <1>2
<1>4. \A y \in S : b - x <= b - y
  BY <1>2, <1>3
<1>5. \E z \in S : \A y \in S : z >= y
  BY <1>4
<1>6. Max(S) \in S /\ \A y \in S : Max(S) >= y
  BY <1>5 DEF Max
<1> QED BY <1>6

\* The greater of two numbers.
LEMMA MaxOfTwo ==
    ASSUME NEW a \in Int, NEW b \in Int
    PROVE  Max({a, b}) = IF a <= b THEN b ELSE a
<1>1. \E z \in {a, b} : \A y \in {a, b} : z >= y
  OBVIOUS
<1>2. Max({a, b}) \in {a, b} /\ \A y \in {a, b} : Max({a, b}) >= y
  BY <1>1 DEF Max
<1> QED BY <1>2

\* The lesser of two numbers.
LEMMA MinOfTwo ==
    ASSUME NEW a \in Int, NEW b \in Int
    PROVE  Min({a, b}) = IF a <= b THEN a ELSE b
<1>1. \E z \in {a, b} : \A y \in {a, b} : z =< y
  OBVIOUS
<1>2. Min({a, b}) \in {a, b} /\ \A y \in {a, b} : Min({a, b}) =< y
  BY <1>1 DEF Min
<1> QED BY <1>2

-----------------------------------------------------------------------------
(* Strings.                                                                *)

\* A part of a string has characters of it only.
LEMMA PartOfString ==
    ASSUME NEW C, NEW s \in Seq(C), NEW a \in Nat \ {0}, NEW b \in Int, b <= Len(s)
    PROVE  /\ SubSeq(s, a, b) \in Seq(C)
           /\ Len(SubSeq(s, a, b)) = IF a <= b THEN b - a + 1 ELSE 0
           /\ \A i \in 1 .. b - a + 1 : SubSeq(s, a, b)[i] = s[a + i - 1]
           /\ Chars(SubSeq(s, a, b)) = {s[i] : i \in a .. b} \ {White}
<1>1. Len(s) \in Nat /\ \A i \in a .. b : s[i] \in C
  BY LenProperties, ElementOfSeq
<1>2. /\ SubSeq(s, a, b) \in Seq(C)
      /\ Len(SubSeq(s, a, b)) = IF a <= b THEN b - a + 1 ELSE 0
      /\ \A i \in 1 .. b - a + 1 : SubSeq(s, a, b)[i] = s[a + i - 1]
  BY <1>1, SubSeqProperties
<1>3. DOMAIN SubSeq(s, a, b) = 1 .. b - a + 1
  <2>1. DOMAIN SubSeq(s, a, b) = 1 .. Len(SubSeq(s, a, b))
    BY <1>2, LenProperties
  <2> QED BY <1>2, <2>1
<1> DEFINE t == SubSeq(s, a, b)
<1> HIDE DEF t
<1>4. Chars(t) = {s[i] : i \in a .. b} \ {White}
  <2>1. ASSUME NEW i \in 1 .. b - a + 1 PROVE t[i] = s[a + i - 1] /\ a + i - 1 \in a .. b
    BY <1>2 DEF t
  <2>2. ASSUME NEW i \in a .. b PROVE i - a + 1 \in 1 .. b - a + 1 /\ t[i - a + 1] = s[i]
    <3>1. i - a + 1 \in 1 .. b - a + 1
      OBVIOUS
    <3>2. a + (i - a + 1) - 1 = i
      OBVIOUS
    <3> QED BY <3>1, <3>2, <2>1
  <2>3. Chars(t) = {t[i] : i \in 1 .. b - a + 1} \ {White}
    BY <1>3 DEF Chars, Ink, t
  <2>4. {t[i] : i \in 1 .. b - a + 1} = {s[i] : i \in a .. b}
    <3>1. ASSUME NEW x \in {t[i] : i \in 1 .. b - a + 1}
          PROVE  x \in {s[i] : i \in a .. b}
      BY <2>1, Zenon
    <3>2. ASSUME NEW x \in {s[i] : i \in a .. b}
          PROVE  x \in {t[i] : i \in 1 .. b - a + 1}
      BY <2>2, Zenon
    <3> QED BY <3>1, <3>2, Zenon
  <2> QED BY <2>3, <2>4
<1> QED BY <1>2, <1>4 DEF t

\* The first and the last character of a text that has any.
LEMMA InkIs ==
    ASSUME NEW C, NEW s \in Seq(C), Ink(s) # {}
    PROVE  /\ Min(Ink(s)) \in Ink(s) /\ Max(Ink(s)) \in Ink(s)
           /\ \A i \in Ink(s) : Min(Ink(s)) <= i /\ i <= Max(Ink(s))
           /\ Ink(s) \subseteq 1 .. Len(s)
<1>1. Ink(s) \subseteq 1 .. Len(s) /\ Len(s) \in Nat
  BY LenProperties DEF Ink
<1>2. Ink(s) \in SUBSET Nat /\ Ink(s) \in SUBSET Int /\ \A i \in Ink(s) : i <= Len(s)
  BY <1>1
<1>3. Min(Ink(s)) \in Ink(s) /\ \A i \in Ink(s) : Min(Ink(s)) <= i
  BY <1>2, MinIs
<1>4. Max(Ink(s)) \in Ink(s) /\ \A i \in Ink(s) : i <= Max(Ink(s))
  <2> DEFINE S == Ink(s)
  <2>1. S \in SUBSET Int /\ S # {} /\ Len(s) \in Int /\ \A i \in S : i <= Len(s)
    BY <1>1, <1>2
  <2> HIDE DEF S
  <2>2. Max(S) \in S /\ \A i \in S : i <= Max(S)
    BY <2>1, MaxIs
  <2> QED BY <2>2 DEF S
<1> QED BY <1>1, <1>3, <1>4

\* Stripping takes no ink away.
LEMMA StripIs ==
    ASSUME NEW C, NEW s \in Seq(C)
    PROVE  /\ Strip(s) \in Seq(C) /\ Chars(Strip(s)) = Chars(s)
           /\ Len(Strip(s)) <= Len(s)
           /\ Strip(s) = << >> <=> Ink(s) = {}
<1>1. CASE Ink(s) = {}
  BY <1>1, EmptySeq, LenProperties DEF Strip, Chars, Ink
<1>2. CASE Ink(s) # {}
  <2> DEFINE a == Min(Ink(s))
             b == Max(Ink(s))
  <2>1. /\ a \in Ink(s) /\ b \in Ink(s) /\ Ink(s) \subseteq 1 .. Len(s)
        /\ \A i \in Ink(s) : a <= i /\ i <= b
    BY <1>2, InkIs
  <2>2. Strip(s) = SubSeq(s, a, b)
    BY <1>2 DEF Strip
  <2> HIDE DEF a, b
  <2>3. a \in Nat \ {0} /\ b \in Int /\ b <= Len(s) /\ a <= b /\ Len(s) \in Nat
    BY <2>1, LenProperties
  <2>4. /\ SubSeq(s, a, b) \in Seq(C)
        /\ Len(SubSeq(s, a, b)) = b - a + 1
        /\ Chars(SubSeq(s, a, b)) = {s[i] : i \in a .. b} \ {White}
    BY <2>3, PartOfString
  <2>5. {s[i] : i \in a .. b} \ {White} = Chars(s)
    <3>1. ASSUME NEW i \in a .. b, s[i] # White PROVE i \in Ink(s)
      BY <3>1, <2>3, LenProperties DEF Ink
    <3>2. \A i \in Ink(s) : i \in a .. b /\ s[i] # White
      BY <2>1, <2>3 DEF Ink
    <3> QED BY <3>1, <3>2 DEF Chars
  <2>6. Len(SubSeq(s, a, b)) <= Len(s) /\ SubSeq(s, a, b) # << >>
    BY <2>3, <2>4, EmptySeq
  <2> QED BY <1>2, <2>2, <2>4, <2>5, <2>6
<1> QED BY <1>1, <1>2

\* Stripping white space off the start of a text takes no character away.
LEMMA LStripIs ==
    ASSUME NEW C, NEW s \in Seq(C)
    PROVE  /\ LStrip(s) \in Seq(C) /\ Chars(LStrip(s)) = Chars(s)
           /\ Len(LStrip(s)) <= Len(s)
<1>1. CASE Ink(s) = {}
  BY <1>1, EmptySeq, LenProperties DEF LStrip, Chars, Ink
<1>2. CASE Ink(s) # {}
  <2> DEFINE a == Min(Ink(s))
             b == Len(s)
  <2>1. a \in Ink(s) /\ Ink(s) \subseteq 1 .. Len(s) /\ \A i \in Ink(s) : a <= i
    BY <1>2, InkIs
  <2>2. LStrip(s) = SubSeq(s, a, b)
    BY <1>2 DEF LStrip
  <2> HIDE DEF a
  <2>3. a \in Nat \ {0} /\ b \in Nat /\ a <= b
    BY <2>1, LenProperties
  <2>4. /\ SubSeq(s, a, b) \in Seq(C)
        /\ Len(SubSeq(s, a, b)) = b - a + 1
        /\ Chars(SubSeq(s, a, b)) = {s[i] : i \in a .. b} \ {White}
    BY <2>3, PartOfString
  <2>5. {s[i] : i \in a .. b} \ {White} = Chars(s)
    <3>1. ASSUME NEW i \in a .. b, s[i] # White PROVE i \in Ink(s)
      BY <3>1, <2>3, LenProperties DEF Ink
    <3>2. \A i \in Ink(s) : i \in a .. b /\ s[i] # White
      BY <2>1, <2>3 DEF Ink
    <3> QED BY <3>1, <3>2 DEF Chars
  <2> QED BY <2>2, <2>3, <2>4, <2>5
<1> QED BY <1>1, <1>2

\* s[n:] has characters of s only, as many as are left.
LEMMA FromIs ==
    ASSUME NEW C, NEW s \in Seq(C), NEW n \in Nat
    PROVE  /\ From(s, n) \in Seq(C) /\ Chars(From(s, n)) \subseteq Chars(s)
           /\ Len(From(s, n)) = IF n <= Len(s) THEN Len(s) - n ELSE 0
<1>1. n + 1 \in Nat \ {0} /\ Len(s) \in Nat
  BY LenProperties
<1>2. /\ From(s, n) \in Seq(C)
      /\ Len(From(s, n)) = IF n + 1 <= Len(s) THEN Len(s) - (n + 1) + 1 ELSE 0
      /\ Chars(From(s, n)) = {s[i] : i \in n + 1 .. Len(s)} \ {White}
  BY <1>1, PartOfString DEF From
<1>3. {s[i] : i \in n + 1 .. Len(s)} \ {White} \subseteq Chars(s)
  BY <1>1, LenProperties DEF Chars, Ink
<1> QED BY <1>1, <1>2, <1>3

\* The characters of two texts, one after the other.
LEMMA CharsOfConcat ==
    ASSUME NEW C, NEW s \in Seq(C), NEW t \in Seq(C)
    PROVE  Chars(s \o t) = Chars(s) \cup Chars(t)
<1>1. Range(s \o t) = Range(s) \cup Range(t)
  BY RangeConcatenation
<1>2. \A u : Chars(u) = Range(u) \ {White}
  BY DEF Chars, Ink, Range
<1> QED BY <1>1, <1>2

\* The characters of a text are those it is made of.
LEMMA CharsInAlphabet ==
    ASSUME NEW C, NEW s \in Seq(C)
    PROVE  Chars(s) \subseteq C \ {White}
BY LenProperties, ElementOfSeq DEF Chars, Ink

\* _safe_cut returns the first position from pos on that is inside no span.
LEMMA SafeCutIs ==
    ASSUME NEW pos \in Nat, NEW spans, NEW b \in Nat,
           \A span \in spans :
              span[1] \in Nat /\ span[2] \in Nat /\ span[2] <= b
    PROVE  LET cut == SafeCut(pos, spans)
               inside(c) == \E span \in spans : span[1] < c /\ c < span[2]
           IN  /\ cut \in Nat /\ pos <= cut
               /\ pos <= b => cut <= b
               /\ ~inside(cut)
               /\ \A c \in pos .. cut - 1 : inside(c)
<1> DEFINE inside(c) == \E span \in spans : span[1] < c /\ c < span[2]
           ends == {span[2] : span \in spans}
           S == {c \in {pos} \cup ends : c >= pos /\ ~inside(c)}
<1>1. ends \subseteq Nat /\ \A e \in ends : e <= b
  OBVIOUS
<1>2. \A span \in spans : span[2] \in ends
  OBVIOUS
<1>3. ASSUME NEW c \in Nat, c >= pos, ~inside(c)
      PROVE  \E e \in S : e <= c
  <2> DEFINE T == {e \in {pos} \cup ends : e <= c}
  <2>1. T \in SUBSET Int /\ T # {} /\ \A e \in T : e <= c
    BY <1>1, <1>3
  <2> DEFINE e == Max(T)
  <2>2. e \in T /\ \A x \in T : x <= e
    <3> HIDE DEF T
    <3> QED BY <2>1, MaxIs
  <2> HIDE DEF e
  <2>3. e \in Nat /\ e <= c /\ pos <= e
    BY <1>1, <1>3, <2>2
  <2>4. ~inside(e)
    <3> SUFFICES ASSUME NEW span \in spans, span[1] < e, e < span[2] PROVE FALSE
      OBVIOUS
    <3>1. CASE span[2] <= c
      <4>1. span[2] \in T
        BY <3>1, <1>2
      <4> QED BY <4>1, <2>2, <2>3
    <3>2. CASE c < span[2]
      <4> HIDE DEF T
      <4>1. span[1] < c
        BY <2>3
      <4> QED BY <4>1, <3>2, <1>3
    <3> QED BY <3>1, <3>2
  <2> QED BY <2>2, <2>3, <2>4
<1>4. S \in SUBSET Nat
  BY <1>1
<1>5. S # {}
  <2> DEFINE m == IF pos <= b THEN b ELSE pos
  <2>1. m \in Nat /\ m >= pos /\ ~inside(m)
    OBVIOUS
  <2> HIDE DEF m, S
  <2> QED BY <2>1, <1>3
<1> DEFINE cut == Min(S)
<1>6. SafeCut(pos, spans) = cut
  BY DEF SafeCut
<1>7. cut \in S /\ \A e \in S : cut <= e
  <2> HIDE DEF S
  <2> QED BY <1>4, <1>5, MinIs
<1> HIDE DEF cut
<1>8. cut \in Nat /\ pos <= cut /\ (pos <= b => cut <= b) /\ ~inside(cut)
  BY <1>1, <1>7
<1>9. ASSUME NEW c \in pos .. cut - 1 PROVE inside(c)
  <2>1. c \in Nat /\ c >= pos /\ c < cut
    BY <1>8
  <2> HIDE DEF S
  <2> QED BY <2>1, <1>3, <1>4, <1>7, <1>8
<1> HIDE DEF inside
<1>10. /\ cut \in Nat /\ pos <= cut /\ (pos <= b => cut <= b) /\ ~inside(cut)
       /\ \A c \in pos .. cut - 1 : inside(c)
  BY <1>8, <1>9, Zenon
<1> QED BY <1>6, <1>10, Zenon DEF inside

\* A blank line.
Blank == <<White, White>>

\* A piece more is padded after the others.
LEMMA PaddedAppend ==
    ASSUME NEW C, White \in C, NEW pieces \in Seq(Seq(C)), NEW x \in Seq(C)
    PROVE  /\ Padded(pieces) \in Seq(C)
           /\ Padded(Append(pieces, x)) = Padded(pieces) \o (x \o Blank)
<1> DEFINE padded(p) == [i \in DOMAIN p |-> p[i] \o Blank]
           more == Append(pieces, x)
<1>1. Blank \in Seq(C)
  BY DEF Blank
<1>2. DOMAIN pieces = 1 .. Len(pieces) /\ Len(pieces) \in Nat
      /\ \A i \in 1 .. Len(pieces) : pieces[i] \in Seq(C)
  BY LenProperties, ElementOfSeq
<1>3. padded(pieces) \in Seq(Seq(C)) /\ Len(padded(pieces)) = Len(pieces)
  <2>1. \A i \in 1 .. Len(pieces) : pieces[i] \o Blank \in Seq(C)
    BY <1>1, <1>2, ConcatProperties
  <2> QED BY <1>2, <2>1
<1>4. x \o Blank \in Seq(C)
  BY <1>1, ConcatProperties
<1>5. /\ DOMAIN more = 1 .. Len(pieces) + 1
      /\ more[Len(pieces) + 1] = x
      /\ \A i \in 1 .. Len(pieces) : more[i] = pieces[i]
  BY <1>2
<1>6. padded(more) = Append(padded(pieces), x \o Blank)
  <2>1. Append(padded(pieces), x \o Blank)
            = [i \in 1 .. Len(pieces) + 1 |->
                  IF i <= Len(pieces) THEN padded(pieces)[i] ELSE x \o Blank]
    BY <1>3
  <2>2. ASSUME NEW i \in 1 .. Len(pieces) + 1
        PROVE  more[i] \o Blank
                 = IF i <= Len(pieces) THEN padded(pieces)[i] ELSE x \o Blank
    <3>1. CASE i \in 1 .. Len(pieces)
      BY <3>1, <1>2, <1>5
    <3>2. CASE i = Len(pieces) + 1
      BY <3>2, <1>2, <1>5
    <3> DEFINE l == Len(pieces)
    <3>3. l \in Nat /\ i \in 1 .. l + 1
      BY LenProperties
    <3> HIDE DEF l
    <3>4. i \in 1 .. l \/ i = l + 1
      BY <3>3
    <3> QED BY <3>1, <3>2, <3>4, Zenon DEF l
  <2> HIDE DEF more
  <2> QED BY <2>1, <2>2, <1>5
<1>7. /\ FlattenSeq(padded(pieces)) \in Seq(C)
      /\ FlattenSeq(Append(padded(pieces), x \o Blank))
            = FlattenSeq(padded(pieces)) \o (x \o Blank)
  <2> HIDE DEF padded
  <2> QED BY <1>3, <1>4, FlattenAppend
<1> QED BY <1>6, <1>7, Zenon DEF Padded, Blank

\* No pieces make no text.
LEMMA PaddedEmpty == Padded(<< >>) = << >>
<1>1. [i \in DOMAIN << >> |-> << >>[i] \o Blank] = << >>
  OBVIOUS
<1> QED BY <1>1, FlattenEmpty DEF Padded, Blank

\* A blank line adds two to the length of a text, and no character.
LEMMA BlankAfter ==
    ASSUME NEW C, White \in C, NEW z \in Seq(C)
    PROVE  /\ z \o Blank \in Seq(C) /\ Len(z \o Blank) = Len(z) + 2
           /\ Len(z) \in Nat
           /\ Chars(z \o Blank) = Chars(z)
<1>1. Blank \in Seq(C) /\ Len(Blank) = 2 /\ Chars(Blank) = {}
  BY DEF Blank, Chars, Ink
<1>2. z \o Blank \in Seq(C) /\ Len(z \o Blank) = Len(z) + 2 /\ Len(z) \in Nat
  <2>1. \A u \in Seq(C) : \A v \in Seq(C) :
           u \o v \in Seq(C) /\ Len(u \o v) = Len(u) + Len(v)
    BY ConcatProperties
  <2>2. z \o Blank \in Seq(C) /\ Len(z \o Blank) = Len(z) + Len(Blank)
    BY <1>1, <2>1, Zenon
  <2>3. Len(z) \in Nat
    BY LenProperties
  <2> QED BY <1>1, <2>2, <2>3, Zenon
<1>3. Chars(z \o Blank) = Chars(z) \cup Chars(Blank)
  <2>1. \A u \in Seq(C) : \A v \in Seq(C) : Chars(u \o v) = Chars(u) \cup Chars(v)
    BY CharsOfConcat
  <2> QED BY <1>1, <2>1
<1> QED BY <1>1, <1>2, <1>3

\* Two texts, one after the other.
LEMMA ConcatIs ==
    ASSUME NEW C, NEW s \in Seq(C), NEW t \in Seq(C)
    PROVE  /\ s \o t \in Seq(C) /\ Len(s \o t) = Len(s) + Len(t)
           /\ Len(s) \in Nat /\ Len(t) \in Nat
           /\ Chars(s \o t) = Chars(s) \cup Chars(t)
<1>1. s \o t \in Seq(C) /\ Len(s \o t) = Len(s) + Len(t)
  BY ConcatProperties
<1>2. Len(s) \in Nat /\ Len(t) \in Nat
  BY LenProperties
<1>3. Chars(s \o t) = Chars(s) \cup Chars(t)
  BY CharsOfConcat
<1> QED BY <1>1, <1>2, <1>3

\* What is added to the pieces comes after them, before a blank line.
LEMMA PaddedStep ==
    ASSUME NEW C, White \in C, NEW pieces \in Seq(Seq(C)), NEW x \in Seq(C)
    PROVE  /\ Padded(pieces) \in Seq(C)
           /\ Chars(Padded(Append(pieces, x))) = Chars(Padded(pieces)) \cup Chars(x)
           /\ Len(Padded(pieces)) \in Nat /\ Len(x) \in Nat
           /\ Len(Padded(Append(pieces, x))) = Len(Padded(pieces)) + Len(x) + 2
<1> DEFINE s == Padded(pieces)
           t == x \o Blank
<1>1. s \in Seq(C) /\ Padded(Append(pieces, x)) = s \o t
  BY PaddedAppend
<1>2. t \in Seq(C) /\ Len(t) = Len(x) + 2 /\ Len(x) \in Nat /\ Chars(t) = Chars(x)
  BY BlankAfter
<1> HIDE DEF s, t
<1>3. Len(s \o t) = Len(s) + Len(t) /\ Len(s) \in Nat /\ Chars(s \o t) = Chars(s) \cup Chars(t)
  <2>1. s \in Seq(C) /\ t \in Seq(C)
    BY <1>1, <1>2
  <2> QED BY <2>1, ConcatIs
<1>4. Len(Padded(Append(pieces, x))) = Len(s) + Len(x) + 2
  BY <1>1, <1>2, <1>3
<1> QED BY <1>1, <1>2, <1>3, <1>4, Zenon DEF s

\* One piece, padded.
LEMMA PaddedOne ==
    ASSUME NEW C, White \in C, NEW x \in Seq(C)
    PROVE  /\ Chars(Padded(<<x>>)) = Chars(x)
           /\ Len(Padded(<<x>>)) = Len(x) + 2
<1>1. << >> \in Seq(Seq(C)) /\ <<x>> = Append(<< >>, x)
  OBVIOUS
<1>2. Chars(Padded(<< >>)) = {} /\ Len(Padded(<< >>)) = 0
  BY PaddedEmpty DEF Chars, Ink
<1>3. /\ Chars(Padded(Append(<< >>, x))) = Chars(Padded(<< >>)) \cup Chars(x)
      /\ Len(Padded(Append(<< >>, x))) = Len(Padded(<< >>)) + Len(x) + 2
      /\ Len(x) \in Nat
  <2>1. \A p \in Seq(Seq(C)) : \A e \in Seq(C) :
           /\ Chars(Padded(Append(p, e))) = Chars(Padded(p)) \cup Chars(e)
           /\ Len(e) \in Nat /\ Len(Padded(Append(p, e))) = Len(Padded(p)) + Len(e) + 2
    BY PaddedStep
  <2> QED BY <1>1, <2>1, Zenon
<1>4. /\ Chars(Padded(<<x>>)) = {} \cup Chars(x)
      /\ Len(Padded(<<x>>)) = 0 + Len(x) + 2
  BY <1>1, <1>2, <1>3, Zenon
<1>5. 0 + Len(x) + 2 = Len(x) + 2
  BY <1>3
<1> QED BY <1>4, <1>5

\* Two pieces, padded.
LEMMA PaddedTwo ==
    ASSUME NEW C, White \in C, NEW x \in Seq(C), NEW y \in Seq(C)
    PROVE  /\ Chars(Padded(<<x, y>>)) = Chars(x) \cup Chars(y)
           /\ Len(Padded(<<x, y>>)) = Len(x) + Len(y) + 4
<1>1. <<x>> \in Seq(Seq(C)) /\ <<x, y>> = Append(<<x>>, y)
  OBVIOUS
<1>2. Chars(Padded(<<x>>)) = Chars(x) /\ Len(Padded(<<x>>)) = Len(x) + 2
  BY PaddedOne, Zenon
<1>3. /\ Chars(Padded(Append(<<x>>, y))) = Chars(Padded(<<x>>)) \cup Chars(y)
      /\ Len(Padded(Append(<<x>>, y))) = Len(Padded(<<x>>)) + Len(y) + 2
  <2>1. \A p \in Seq(Seq(C)) : \A e \in Seq(C) :
           /\ Chars(Padded(Append(p, e))) = Chars(Padded(p)) \cup Chars(e)
           /\ Len(e) \in Nat /\ Len(Padded(Append(p, e))) = Len(Padded(p)) + Len(e) + 2
    BY PaddedStep
  <2> QED BY <1>1, <2>1, Zenon
<1>4. /\ Chars(Padded(<<x, y>>)) = Chars(x) \cup Chars(y)
      /\ Len(Padded(<<x, y>>)) = (Len(x) + 2) + Len(y) + 2
  BY <1>1, <1>2, <1>3, Zenon
<1>5. (Len(x) + 2) + Len(y) + 2 = Len(x) + Len(y) + 4
  BY LenProperties
<1> QED BY <1>4, <1>5

-----------------------------------------------------------------------------
(* The loop of _safe_cut.                                                *)

\* Spans sorted by their beginnings, as _pii_spans returns them.
Sorted(spans) ==
    \A i, j \in 1 .. Len(spans) : i < j => spans[i][1] <= spans[j][1]

\* A cut at this position takes the span apart.
Inside(cut, span) == span[1] < cut /\ cut < span[2]

\* The loop invariant, after the first m spans: the position is pos or the end
\* of one of them, inside none of them, and all positions before it are inside
\* one; a span where the loop broke begins behind it.
Moved(now, pos, spans, m) ==
    /\ now.adjusted \in {pos} \cup {spans[i][2] : i \in 1 .. m}
    /\ pos <= now.adjusted
    /\ \A i \in 1 .. m : ~ Inside(now.adjusted, spans[i])
    /\ \A c \in Nat : pos <= c /\ c < now.adjusted =>
          \E i \in 1 .. m : Inside(c, spans[i])
    /\ now.broken => \E i \in 1 .. m : spans[i][1] >= now.adjusted

\* What the loop keeps.
LoopState == [adjusted : Nat, broken : BOOLEAN]

\* One pass gives such a state again.
LEMMA PastSpanType ==
    ASSUME NEW now \in LoopState, NEW span \in Nat \X Nat
    PROVE  PastSpan(now, span) \in LoopState
BY DEF PastSpan, LoopState

\* One pass preserves the loop invariant.
LEMMA PastSpanMoves ==
    ASSUME NEW pos \in Nat, NEW spans \in Seq(Nat \X Nat), Sorted(spans),
           NEW m \in Nat, m + 1 <= Len(spans), NEW now \in LoopState,
           Moved(now, pos, spans, m)
    PROVE  Moved(PastSpan(now, spans[m + 1]), pos, spans, m + 1)
<1> DEFINE span == spans[m + 1]
           next == PastSpan(now, span)
           x == now.adjusted
           y == next.adjusted
<1>1. /\ Len(spans) \in Nat /\ m + 1 \in 1 .. Len(spans)
      /\ \A i \in 1 .. m : i \in 1 .. Len(spans) /\ i < m + 1
      /\ 1 .. m + 1 = (1 .. m) \cup {m + 1}
  BY LenProperties
<1>2. \A i \in 1 .. Len(spans) :
         spans[i] \in Nat \X Nat /\ spans[i][1] \in Nat /\ spans[i][2] \in Nat
  <2>1. \A i \in 1 .. Len(spans) : spans[i] \in Nat \X Nat
    BY ElementOfSeq
  <2> QED BY <2>1
<1>3. /\ x \in Nat /\ span[1] \in Nat /\ span[2] \in Nat
      /\ \A i \in 1 .. m : spans[i][1] \in Nat /\ spans[i][2] \in Nat
                           /\ spans[i][1] <= span[1]
  BY <1>1, <1>2 DEF LoopState, Sorted
<1>4. /\ x \in {pos} \cup {spans[i][2] : i \in 1 .. m} /\ pos <= x
      /\ \A i \in 1 .. m : ~ Inside(x, spans[i])
      /\ \A c \in Nat : pos <= c /\ c < x => \E i \in 1 .. m : Inside(c, spans[i])
      /\ now.broken => \E i \in 1 .. m : spans[i][1] >= x
  BY DEF Moved
<1>5. CASE now.broken \/ span[1] >= x
  <2>1. y = x /\ next.broken
    BY <1>5 DEF PastSpan, LoopState
  <2>2. span[1] >= x
    <3>1. CASE now.broken
      <4>1. PICK i \in 1 .. m : spans[i][1] >= x
        BY <1>4, <3>1
      <4> DEFINE p == spans[i][1]
                 q == span[1]
      <4>2. p \in Nat /\ q \in Nat /\ p <= q /\ p >= x
        BY <1>3, <4>1
      <4> HIDE DEF p, q, x
      <4>3. q >= x
        BY <1>3, <4>2
      <4> QED BY <4>3 DEF q
    <3> QED BY <1>5, <3>1
  <2> HIDE DEF next, x, y, span
  <2>3. ~ Inside(y, span)
    BY <1>3, <2>1, <2>2 DEF Inside
  <2> QED BY <1>1, <1>4, <2>1, <2>2, <2>3 DEF Moved, next, x, y, span
<1>6. CASE ~ now.broken /\ span[1] < x /\ x < span[2]
  <2>1. y = span[2] /\ next.broken = FALSE
    BY <1>3, <1>6 DEF PastSpan, LoopState
  <2>2. \A i \in 1 .. m : ~ Inside(y, spans[i])
    <3> SUFFICES ASSUME NEW i \in 1 .. m, Inside(y, spans[i]) PROVE FALSE
      OBVIOUS
    <3> HIDE DEF next, x, y, span
    <3> DEFINE p == spans[i][1]
               q == spans[i][2]
               a == span[1]
    <3>a. /\ p \in Nat /\ q \in Nat /\ a \in Nat /\ x \in Nat /\ y \in Nat
          /\ p <= a /\ a < x /\ x < y
      BY <1>3, <1>6, <2>1
    <3>b. y < q
      BY DEF Inside
    <3>1. Inside(x, spans[i])
      <4> HIDE DEF p, q, a
      <4>1. p < x /\ x < q
        BY <3>a, <3>b
      <4> QED BY <4>1 DEF Inside, p, q
    <3> QED BY <1>4, <3>1
  <2> HIDE DEF next, x, y, span
  <2>3. ~ Inside(y, span)
    BY <1>3, <2>1 DEF Inside
  <2>4. ASSUME NEW c \in Nat, pos <= c, c < y
        PROVE  \E i \in 1 .. m + 1 : Inside(c, spans[i])
    <3>1. CASE c < x
      BY <1>1, <1>4, <2>4, <3>1
    <3>2. CASE ~ (c < x)
      <4>1. Inside(c, span)
        BY <1>3, <1>6, <2>1, <2>4, <3>2 DEF Inside
      <4> QED BY <1>1, <4>1 DEF span
    <3> QED BY <3>1, <3>2
  <2>5. pos <= y
    BY <1>3, <1>4, <1>6, <2>1
  <2>6. y \in {pos} \cup {spans[i][2] : i \in 1 .. m + 1}
    BY <1>1, <2>1 DEF span
  <2>7. \A i \in 1 .. m + 1 : ~ Inside(y, spans[i])
    BY <1>1, <2>2, <2>3 DEF span
  <2> QED BY <2>1, <2>4, <2>5, <2>6, <2>7 DEF Moved, next, y, span
<1>7. CASE ~ now.broken /\ span[1] < x /\ span[2] <= x
  <2>1. next = now
    BY <1>3, <1>7 DEF PastSpan, LoopState
  <2> HIDE DEF next, x, span
  <2>2. ~ Inside(x, span)
    BY <1>3, <1>7 DEF Inside
  <2> QED BY <1>1, <1>4, <1>7, <2>1, <2>2 DEF Moved, next, x, span
<1> QED BY <1>3, <1>5, <1>6, <1>7

\* The loop of _safe_cut computes what its docstring says: the earliest position
\* from pos on that cuts no span in two, however the spans overlap, although it
\* looks at each span once and breaks off early.
THEOREM LoopIsSafeCut ==
    ASSUME NEW pos \in Nat, NEW spans \in Seq(Nat \X Nat), Sorted(spans)
    PROVE  SafeCutLoop(pos, spans) = SafeCut(pos, ToSet(spans))
<1> DEFINE L == Len(spans)
           V == LoopState
           start == [adjusted |-> pos, broken |-> FALSE]
           step == [x \in V \X (2 .. L + 1) |-> PastSpan(x[1], spans[x[2] - 1])]
<1>1. L \in Nat /\ DOMAIN spans = 1 .. L /\ \A i \in 1 .. L : spans[i] \in Nat \X Nat
  BY LenProperties, ElementOfSeq
<1>2. start \in V
  BY DEF LoopState
<1>3. ASSUME NEW p \in V, NEW n \in 2 .. L + 1
      PROVE  PastSpan(p, spans[n - 1]) \in V
  <2>1. spans[n - 1] \in Nat \X Nat
    BY <1>1
  <2> QED BY <2>1, PastSpanType
<1>4. step \in [V \X (2 .. L + 1) -> V]
  <2> HIDE DEF V
  <2> QED BY <1>3
<1>5. PICK g \in [1 .. L + 1 -> V] : Recurs(g, L + 1, start, step)
  <2>1. L + 1 \in Nat
    BY <1>1
  <2> HIDE DEF step, V, L, start
  <2> QED BY <2>1, <1>2, <1>4, Recursion
<1>6. \A n \in 2 .. L + 1 : g[n] = PastSpan(g[n - 1], spans[n - 1])
  <2> SUFFICES ASSUME NEW n \in 2 .. L + 1
               PROVE  g[n] = PastSpan(g[n - 1], spans[n - 1])
    BY Zenon
  <2> HIDE DEF V
  <2>1. g[n] = step[<<g[n - 1], n>>]
    BY <1>5, Zenon DEF Recurs
  <2>2. n - 1 \in 1 .. L + 1
    BY <1>1
  <2>3. <<g[n - 1], n>> \in V \X (2 .. L + 1)
    BY <2>2, Zenon
  <2>4. step[<<g[n - 1], n>>] =
           PastSpan(<<g[n - 1], n>>[1], spans[<<g[n - 1], n>>[2] - 1])
    BY <2>3, Zenon
  <2> QED BY <2>1, <2>4
<1>7. g[1] = start
  BY <1>1, <1>5 DEF Recurs
<1> HIDE DEF step, V, start
<1> DEFINE Eq(h) == h = [n \in 1 .. L + 1 |->
                            IF n = 1 THEN start
                            ELSE PastSpan(h[n - 1], spans[n - 1])]
           f == CHOOSE h : Eq(h)
<1>8. Eq(g)
  <2>1. ASSUME NEW n \in 1 .. L + 1
        PROVE  g[n] = IF n = 1 THEN start ELSE PastSpan(g[n - 1], spans[n - 1])
    <3>1. n # 1 => n \in 2 .. L + 1
      BY <1>1
    <3> QED BY <3>1, <1>6, <1>7, Zenon
  <2> QED BY <2>1, Zenon
<1>9. Eq(f)
  BY <1>8, Zenon
<1>10. SafeCutLoop(pos, spans) = f[L + 1].adjusted
  BY DEF SafeCutLoop, start
<1> HIDE DEF f
<1>11. f[1] = start
  <2>1. 1 \in 1 .. L + 1
    BY <1>1
  <2> QED BY <2>1, <1>9, Zenon
<1>12. ASSUME NEW n \in 1 .. L PROVE f[n + 1] = PastSpan(f[n], spans[n])
  <2> DEFINE i == n + 1
  <2>1. i \in 1 .. L + 1 /\ i # 1 /\ i - 1 = n
    BY <1>1
  <2> HIDE DEF i
  <2>2. f[i] = PastSpan(f[i - 1], spans[i - 1])
    BY <2>1, <1>9, Zenon
  <2> QED BY <2>1, <2>2 DEF i
<1> DEFINE P == {m \in Nat : m <= L =>
                    f[m + 1] \in V /\ Moved(f[m + 1], pos, spans, m)}
<1>13. 0 \in P
  <2>1. 1 .. 0 = {} /\ 0 + 1 = 1
    OBVIOUS
  <2>2. Moved(start, pos, spans, 0)
    BY <2>1 DEF Moved, start
  <2> QED BY <1>2, <1>11, <2>1, <2>2
<1>14. ASSUME NEW m \in Nat, m \in P PROVE m + 1 \in P
  <2> SUFFICES ASSUME m + 1 <= L
               PROVE  f[m + 1 + 1] \in V /\ Moved(f[m + 1 + 1], pos, spans, m + 1)
    OBVIOUS
  <2>1. m + 1 \in 1 .. L /\ m <= L
    BY <1>1
  <2>2. f[m + 1] \in V /\ Moved(f[m + 1], pos, spans, m)
    BY <1>14, <2>1
  <2>3. f[m + 1 + 1] = PastSpan(f[m + 1], spans[m + 1])
    BY <1>12, <2>1
  <2>4. spans[m + 1] \in Nat \X Nat
    BY <1>1, <2>1
  <2> QED BY <2>2, <2>3, <2>4, PastSpanType, PastSpanMoves DEF V
<1>15. L \in P
  <2> HIDE DEF P, L
  <2> QED BY <1>1, <1>13, <1>14, Induction
<1> DEFINE a == f[L + 1].adjusted
<1>16. a \in Nat /\ Moved(f[L + 1], pos, spans, L)
  BY <1>1, <1>15 DEF V, LoopState
<1> DEFINE inside(cut) == \E span \in ToSet(spans) : span[1] < cut /\ cut < span[2]
           ends == {span[2] : span \in ToSet(spans)}
           S == {cut \in {pos} \cup ends : cut >= pos /\ ~ inside(cut)}
<1>17. /\ ToSet(spans) = {spans[i] : i \in 1 .. L}
       /\ ends \subseteq Nat
  BY <1>1 DEF ToSet
<1>18. a \in S
  BY <1>16, <1>17 DEF Moved, Inside
<1>19. ASSUME NEW c \in S PROVE a <= c
  <2>1. c \in Nat /\ pos <= c /\ ~ inside(c)
    BY <1>17, <1>19
  <2>2. c < a => \E i \in 1 .. L : Inside(c, spans[i])
    BY <1>16, <2>1 DEF Moved
  <2>3. ~ (c < a)
    BY <1>17, <2>1, <2>2 DEF Inside
  <2> HIDE DEF a
  <2> QED BY <1>16, <2>1, <2>3
<1>20. S \in SUBSET Nat
  BY <1>17
<1>21. SafeCut(pos, ToSet(spans)) = Min(S)
  BY DEF SafeCut
<1>22. Min(S) = a
  <2> HIDE DEF S, a
  <2>1. Min(S) \in S /\ Min(S) <= a
    BY <1>18, <1>20, MinIs
  <2>2. a <= Min(S)
    BY <1>19, <2>1
  <2> DEFINE b == Min(S)
  <2>3. b \in Nat /\ b <= a /\ a <= b /\ a \in Nat
    BY <1>16, <1>20, <2>1, <2>2
  <2> HIDE DEF b
  <2>4. b = a
    BY <2>3
  <2> QED BY <2>4 DEF b
<1> QED BY <1>10, <1>21, <1>22

-----------------------------------------------------------------------------
(* The sentences and the parts they are packed into.                       *)

\* The blank line that ends a text is stripped.
LEMMA StripBlank ==
    ASSUME NEW C, White \in C, NEW y \in Seq(C)
    PROVE  Len(Strip(y \o Blank)) <= Len(y)
<1> DEFINE s == y \o Blank
<1>1. s \in Seq(C) /\ Len(s) = Len(y) + 2 /\ Len(y) \in Nat
  BY BlankAfter
<1>2. s[Len(y) + 1] = White /\ s[Len(y) + 2] = White
  BY <1>1 DEF Blank
<1> HIDE DEF s
<1>3. Ink(s) \subseteq 1 .. Len(y)
  <2>1. DOMAIN s = 1 .. Len(y) + 2
    BY <1>1, LenProperties
  <2> QED BY <1>1, <1>2, <2>1 DEF Ink
<1>4. CASE Ink(s) = {}
  BY <1>1, <1>4 DEF Strip, s
<1>5. CASE Ink(s) # {}
  <2> DEFINE a == Min(Ink(s))
             b == Max(Ink(s))
  <2>1. a \in Ink(s) /\ b \in Ink(s) /\ a <= b
    BY <1>1, <1>5, InkIs
  <2>2. Strip(s) = SubSeq(s, a, b)
    BY <1>5 DEF Strip
  <2> HIDE DEF a, b
  <2>3. a \in Nat \ {0} /\ b \in Int /\ b <= Len(s) /\ b <= Len(y) /\ a <= b
    BY <1>1, <1>3, <2>1
  <2>4. Len(SubSeq(s, a, b)) = b - a + 1
    BY <1>1, <2>3, PartOfString
  <2>5. b - a + 1 <= Len(y)
    BY <1>1, <2>3
  <2> QED BY <2>2, <2>4, <2>5 DEF s
<1> QED BY <1>4, <1>5

\* Joining takes no ink away, and adds one blank line less than padding does.
LEMMA JoinIs ==
    ASSUME NEW C, White \in C, NEW pieces \in Seq(Seq(C))
    PROVE  /\ Join(pieces) \in Seq(C) /\ Chars(Join(pieces)) = Chars(Padded(pieces))
           /\ Len(Padded(pieces)) \in Nat /\ Len(Join(pieces)) \in Nat
           /\ pieces # << >> => Len(Join(pieces)) <= Len(Padded(pieces)) - 2
           /\ pieces = << >> => Join(pieces) = << >>
<1>1. Padded(pieces) \in Seq(C)
  <2>1. White \in C
    OBVIOUS
  <2> QED BY EmptySeq, PaddedAppend
<1>2. Join(pieces) \in Seq(C) /\ Chars(Join(pieces)) = Chars(Padded(pieces))
  BY <1>1, StripIs DEF Join
<1>3. Len(Padded(pieces)) \in Nat /\ Len(Join(pieces)) \in Nat
  BY <1>1, <1>2, LenProperties
<1>4. ASSUME pieces # << >> PROVE Len(Join(pieces)) <= Len(Padded(pieces)) - 2
  <2>1. PICK p \in Seq(Seq(C)), x \in Seq(C) : pieces = Append(p, x)
    BY <1>4, SequenceEmptyOrAppend
  <2> DEFINE y == Padded(p) \o x
  <2>2. Padded(p) \in Seq(C) /\ Padded(pieces) = Padded(p) \o (x \o Blank)
    BY <2>1, PaddedAppend
  <2>3. y \in Seq(C)
    BY <2>2, ConcatProperties
  <2>4. Blank \in Seq(C)
    BY DEF Blank
  <2>5. Padded(p) \o (x \o Blank) = y \o Blank
    <3>1. Padded(p) \in Seq(C)
      BY <2>2
    <3> QED BY <3>1, <2>4, ConcatAssociative
  <2> HIDE DEF y
  <2>6. Len(Strip(y \o Blank)) <= Len(y)
    BY <2>3, StripBlank
  <2>7. Len(y \o Blank) = Len(y) + 2 /\ Len(y) \in Nat
    BY <2>3, BlankAfter
  <2>8. Join(pieces) = Strip(y \o Blank) /\ Padded(pieces) = y \o Blank
    BY <2>2, <2>5 DEF Join
  <2> QED BY <2>6, <2>7, <2>8, <1>3
<1>5. ASSUME pieces = << >> PROVE Join(pieces) = << >>
  <2>1. Ink(<< >>) = {}
    BY DEF Ink
  <2> QED BY <1>5, <2>1, PaddedEmpty DEF Join, Strip
<1> QED BY <1>2, <1>3, <1>4, <1>5

\* The sentences of s from its i-th character on, up to m and the next.
Splits(from, s, i) ==
    \E m \in i .. Len(s) + 1 :
        /\ m <= Len(s) => s[m] = White
        /\ from[i] = <<SubSeq(s, i, m - 1)>> \o from[m + 1]

\* Sentences is defined by a function that splits off one sentence at each place.
LEMMA SentencesIs ==
    ASSUME NEW C, NEW s \in Seq(C)
    PROVE  \E from :
              /\ Sentences(s) = from[1]
              /\ \A i \in 1 .. Len(s) + 2 : from[i] \in Seq(Seq(C))
              /\ \A i \in Len(s) + 1 .. Len(s) + 2 : from[i] = << >>
              /\ \A i \in 1 .. Len(s) : Splits(from, s, i)
<1> DEFINE L == Len(s)
           stop(i) == Min({L + 1} \cup {n \in i .. L : s[n] = White})
           first(i) == SubSeq(s, i, stop(i) - 1)
           Good(g, k) == /\ g \in [k .. L + 2 -> Seq(Seq(C))]
                         /\ \A i \in k .. L + 2 :
                               g[i] = IF i > L THEN << >>
                                      ELSE <<first(i)>> \o g[stop(i) + 1]
<1>1. L \in Nat
  BY LenProperties
<1>2. ASSUME NEW i \in 1 .. L
      PROVE  stop(i) \in i .. L + 1 /\ (stop(i) <= L => s[stop(i)] = White)
  <2> DEFINE S == {L + 1} \cup {n \in i .. L : s[n] = White}
  <2>1. S \in SUBSET Nat /\ S # {}
    BY <1>1
  <2>2. Min(S) \in S
    <3> HIDE DEF S
    <3> QED BY <2>1, MinIs
  <2> QED BY <1>1, <2>2
<1> HIDE DEF stop
<1>3. ASSUME NEW i \in 1 .. L PROVE first(i) \in Seq(C)
  <2>1. i \in Nat \ {0} /\ stop(i) - 1 \in Int /\ stop(i) - 1 <= L
    BY <1>1, <1>2
  <2> QED BY <2>1, PartOfString
<1> HIDE DEF first
<1> DEFINE P == {n \in Nat : n <= L + 1 => \E g : Good(g, L + 2 - n)}
<1>4. 0 \in P
  <2> DEFINE g == [i \in L + 2 .. L + 2 |-> << >>]
  <2>1. Good(g, L + 2)
    BY <1>1, EmptySeq
  <2>2. L + 2 - 0 = L + 2
    BY <1>1
  <2>3. \E h : Good(h, L + 2 - 0)
    <3> HIDE DEF g
    <3> QED BY <2>1, <2>2, Zenon
  <2> QED BY <2>3, Zenon
<1>5. ASSUME NEW n \in Nat, n \in P PROVE n + 1 \in P
  <2> DEFINE k == L + 2 - (n + 1)
  <2> SUFFICES ASSUME n + 1 <= L + 1 PROVE \E h : Good(h, k)
    OBVIOUS
  <2>1. k \in 1 .. L + 1 /\ L + 2 - n = k + 1
    BY <1>1
  <2>2. PICK g : Good(g, k + 1)
    BY <1>5, <1>1, <2>1
  <2> HIDE DEF k
  <2> DEFINE new == IF k > L THEN << >> ELSE <<first(k)>> \o g[stop(k) + 1]
             h == [i \in k .. L + 2 |-> IF i = k THEN new ELSE g[i]]
  <2>3. new \in Seq(Seq(C))
    <3>1. CASE k > L
      BY <3>1, EmptySeq
    <3>2. CASE ~(k > L)
      <4>1. k \in 1 .. L /\ stop(k) + 1 \in k + 1 .. L + 2
        BY <1>1, <1>2, <2>1, <3>2
      <4>2. <<first(k)>> \in Seq(Seq(C)) /\ g[stop(k) + 1] \in Seq(Seq(C))
        <5>1. first(k) \in Seq(C)
          BY <1>3, <4>1
        <5>2. g[stop(k) + 1] \in Seq(Seq(C))
          BY <2>2, <4>1, Zenon
        <5> QED BY <5>1, <5>2
      <4> QED BY <3>2, <4>2, ConcatProperties
    <3> QED BY <3>1, <3>2
  <2>4. h \in [k .. L + 2 -> Seq(Seq(C))]
    <3> SUFFICES ASSUME NEW i \in k .. L + 2 PROVE h[i] \in Seq(Seq(C))
      BY Zenon
    <3>1. i # k => i \in k + 1 .. L + 2
      BY <1>1, <2>1
    <3> HIDE DEF new
    <3>2. i # k => g[i] \in Seq(Seq(C))
      BY <3>1, <2>2, Zenon
    <3> QED BY <3>2, <2>3, Zenon
  <2>5. ASSUME NEW i \in k .. L + 2
        PROVE  h[i] = IF i > L THEN << >> ELSE <<first(i)>> \o h[stop(i) + 1]
    <3>1. ASSUME i <= L
          PROVE  h[stop(i) + 1] = g[stop(i) + 1]
      <4>1. i \in 1 .. L
        BY <1>1, <2>1, <3>1
      <4>2. stop(i) + 1 \in k .. L + 2 /\ stop(i) + 1 # k
        BY <1>1, <1>2, <2>1, <4>1
      <4> HIDE DEF new
      <4> QED BY <4>2, Zenon
    <3>2. CASE i = k
      <4>1. h[i] = new
        <5> HIDE DEF new
        <5> QED BY <3>2, Zenon
      <4>2. i \in Int /\ L \in Int
        BY <1>1, <2>1
      <4>3. CASE i > L
        BY <4>1, <4>3, <3>2
      <4>4. CASE ~(i > L)
        <5>1. i <= L
          BY <4>2, <4>4
        <5>2. new = <<first(i)>> \o g[stop(i) + 1]
          BY <3>2, <4>4, Zenon
        <5>3. h[i] = <<first(i)>> \o h[stop(i) + 1]
          <6> HIDE DEF new, h
          <6> QED BY <5>1, <5>2, <4>1, <3>1, Zenon
        <5> QED BY <5>3, <4>4, Zenon
      <4> QED BY <4>3, <4>4
    <3>3. CASE i # k
      <4>1. i \in k + 1 .. L + 2 /\ i \in Int /\ L \in Int
        BY <1>1, <2>1, <3>3
      <4>2. h[i] = g[i]
        BY <3>3, Zenon
      <4>3. g[i] = IF i > L THEN << >> ELSE <<first(i)>> \o g[stop(i) + 1]
        BY <4>1, <2>2, Zenon
      <4>4. ~(i > L) => i <= L
        BY <4>1
      <4> HIDE DEF h
      <4> QED BY <4>2, <4>3, <4>4, <3>1, Zenon
    <3> QED BY <3>2, <3>3
  <2> HIDE DEF h
  <2>6. Good(h, k)
    BY <2>4, <2>5, Zenon
  <2> QED BY <2>6
<1>6. PICK g : Good(g, 1)
  <2>1. Nat \subseteq P
    <3> HIDE DEF P
    <3> QED BY <1>4, <1>5, Induction
  <2>2. L + 1 \in P /\ L + 2 - (L + 1) = 1 /\ L + 1 <= L + 1
    BY <1>1, <2>1
  <2>3. \E g : Good(g, L + 2 - (L + 1))
    BY <2>2
  <2> QED BY <2>2, <2>3, Zenon
<1> DEFINE Eq(h) == h = [i \in 1 .. L + 2 |-> IF i > L THEN << >>
                                 ELSE <<first(i)>> \o h[stop(i) + 1]]
           f == CHOOSE h : Eq(h)
<1>7. Eq(g)
  BY <1>6, Zenon
<1>8. Sentences(s) = f[1]
  BY DEF Sentences, first, stop
<1>9. Eq(f)
  BY <1>7, Zenon
<1> HIDE DEF f
<1> DEFINE Q == {n \in Nat : \A i \in 1 .. L + 2 : i >= L + 2 - n => f[i] = g[i]}
<1>10. 0 \in Q
  <2> SUFFICES ASSUME NEW i \in 1 .. L + 2, i >= L + 2 PROVE f[i] = g[i]
    BY <1>1
  <2>1. i > L
    BY <1>1
  <2>2. f[i] = << >>
    BY <1>9, <2>1, Zenon
  <2>3. g[i] = << >>
    BY <1>6, <2>1, Zenon
  <2> QED BY <2>2, <2>3
<1>11. ASSUME NEW n \in Nat, n \in Q PROVE n + 1 \in Q
  <2> SUFFICES ASSUME NEW i \in 1 .. L + 2, i >= L + 2 - (n + 1) PROVE f[i] = g[i]
    OBVIOUS
  <2>1. CASE i > L
    <3>1. f[i] = << >>
      BY <1>9, <2>1, Zenon
    <3>2. g[i] = << >>
      BY <1>6, <2>1, Zenon
    <3> QED BY <3>1, <3>2
  <2>2. CASE ~(i > L)
    <3>1. i \in 1 .. L
      BY <1>1, <2>2
    <3>2. stop(i) + 1 \in 1 .. L + 2 /\ stop(i) + 1 >= L + 2 - n
      BY <1>1, <1>2, <3>1
    <3>3. f[stop(i) + 1] = g[stop(i) + 1]
      BY <1>11, <3>2
    <3>4. f[i] = <<first(i)>> \o f[stop(i) + 1]
      BY <1>9, <2>2, Zenon
    <3>5. g[i] = <<first(i)>> \o g[stop(i) + 1]
      BY <1>6, <2>2, Zenon
    <3> QED BY <3>3, <3>4, <3>5, Zenon
  <2> QED BY <2>1, <2>2
<1>12. f[1] = g[1]
  <2>1. Nat \subseteq Q
    <3> HIDE DEF Q
    <3> QED BY <1>10, <1>11, Induction
  <2>2. L + 1 \in Q /\ 1 \in 1 .. L + 2 /\ 1 >= L + 2 - (L + 1)
    BY <1>1, <2>1
  <2> QED BY <2>2
<1>13. ASSUME NEW i \in 1 .. L PROVE Splits(g, s, i)
  <2>1. ~(i > L) /\ i \in 1 .. L + 2
    BY <1>1
  <2>2. g[i] = <<first(i)>> \o g[stop(i) + 1]
    BY <1>6, <2>1, Zenon
  <2>3. stop(i) \in i .. L + 1 /\ (stop(i) <= L => s[stop(i)] = White)
    BY <1>2
  <2> QED BY <2>2, <2>3, Zenon DEF Splits, first
<1>14. ASSUME NEW i \in L + 1 .. L + 2 PROVE g[i] = << >>
  <2>1. i > L /\ i \in 1 .. L + 2
    BY <1>1
  <2> QED BY <1>6, <2>1, Zenon
<1>15. ASSUME NEW i \in 1 .. L + 2 PROVE g[i] \in Seq(Seq(C))
  BY <1>6, Zenon
<1>16. Sentences(s) = g[1]
  BY <1>8, <1>12
<1> QED BY <1>13, <1>14, <1>15, <1>16, Zenon

\* What a packing of sentences holds: its parts and its buffer.
Packing(C) == [parts : Seq(Seq(C)), buf : Seq(C)]

\* One sentence more keeps the types, whatever is in the part so far.
LEMMA PackSentenceType ==
    ASSUME NEW C, White \in C, NEW v \in Packing(C), NEW sent \in Seq(C)
    PROVE  PackSentence(v, sent) \in Packing(C)
<1> DEFINE tail == LStrip(LastChars(v.buf, OverlapChars))
           longer == v.buf \o <<White>> \o sent
<1>1. v.buf \in Seq(C) /\ v.parts \in Seq(Seq(C))
  BY DEF Packing
<1>2. tail \in Seq(C)
  <2> DEFINE n == Max({0, Len(v.buf) - OverlapChars})
  <2>1. Len(v.buf) - OverlapChars \in Int
    BY <1>1, LenProperties, SizesAssumption
  <2>2. n \in Nat
    BY <2>1, MaxOfTwo
  <2> HIDE DEF n
  <2>3. From(v.buf, n) \in Seq(C)
    BY <1>1, <2>2, FromIs
  <2> QED BY <2>3, LStripIs DEF LastChars, n
<1>3. <<White>> \in Seq(C)
  OBVIOUS
<1>4. longer \in Seq(C) /\ tail \o <<White>> \o sent \in Seq(C)
  <2> HIDE DEF tail
  <2> QED BY <1>1, <1>2, <1>3, ConcatProperties
<1>5. Append(v.parts, v.buf) \in Seq(Seq(C))
  BY <1>1, AppendProperties
<1> HIDE DEF tail, longer
<1>6. CASE Len(longer) > MaxChars
  <2>1. PackSentence(v, sent) =
          [parts |-> Append(v.parts, v.buf),
           buf |-> IF tail = << >> THEN sent ELSE tail \o <<White>> \o sent]
    BY <1>6, Zenon DEF PackSentence, tail, longer
  <2> DEFINE b == IF tail = << >> THEN sent ELSE tail \o <<White>> \o sent
  <2>2. b \in Seq(C)
    BY <1>4, Zenon
  <2>3. PackSentence(v, sent) = [parts |-> Append(v.parts, v.buf), buf |-> b]
    BY <2>1, Zenon
  <2> HIDE DEF b
  <2>4. [parts |-> Append(v.parts, v.buf), buf |-> b] \in Packing(C)
    BY <2>2, <1>5 DEF Packing
  <2> QED BY <2>3, <2>4, Zenon
<1>7. CASE ~(Len(longer) > MaxChars)
  <2>1. PackSentence(v, sent) = [v EXCEPT !.buf = longer]
    BY <1>7, Zenon DEF PackSentence, longer
  <2>2. [v EXCEPT !.buf = longer] \in Packing(C)
    BY <1>4, Zenon DEF Packing
  <2> QED BY <2>1, <2>2
<1> QED BY <1>6, <1>7

\* What holds for the first sentence, and is kept by every next one, holds for
\* the parts that _pack_sentences makes.  J is a set of pairs, of a packing and
\* of the number of sentences in it.
LEMMA PackInduction ==
    ASSUME NEW C, White \in C, NEW s \in Seq(C), NEW sents, sents = Sentences(s),
           sents \in Seq(Seq(C)), sents # << >>, NEW J,
           <<[parts |-> << >>, buf |-> sents[1]], 1>> \in J,
           \A n \in 2 .. Len(sents), v \in Packing(C) :
              <<v, n - 1>> \in J => <<PackSentence(v, sents[n]), n>> \in J
    PROVE  \E v \in Packing(C) : /\ <<v, Len(sents)>> \in J
                                 /\ Pack(s) = Append(v.parts, v.buf)
<1> DEFINE N == Len(sents)
           V == Packing(C)
           a == [parts |-> << >>, buf |-> sents[1]]
           step == [x \in V \X (2 .. N) |-> PackSentence(x[1], sents[x[2]])]
<1>1. N \in Nat /\ N >= 1 /\ \A n \in 1 .. N : sents[n] \in Seq(C)
  BY LenProperties, EmptySeq, ElementOfSeq
<1>2. a \in V
  <2>1. sents[1] \in Seq(C)
    BY <1>1
  <2> QED BY <2>1 DEF Packing
<1>3. step \in [V \X (2 .. N) -> V]
  <2>1. ASSUME NEW v \in V, NEW n \in 2 .. N PROVE PackSentence(v, sents[n]) \in V
    <3>1. sents[n] \in Seq(C)
      BY <1>1
    <3> QED BY <3>1, PackSentenceType
  <2> HIDE DEF V
  <2> QED BY <2>1
<1>4. PICK g \in [1 .. N -> V] : Recurs(g, N, a, step)
  <2> HIDE DEF step, N, a, V
  <2> QED BY <1>1, <1>2, <1>3, Recursion
<1>5. \A n \in 2 .. N : g[n] = PackSentence(g[n - 1], sents[n])
  <2> SUFFICES ASSUME NEW n \in 2 .. N PROVE g[n] = PackSentence(g[n - 1], sents[n])
    BY Zenon
  <2> HIDE DEF V
  <2>1. g[n] = step[<<g[n - 1], n>>]
    BY <1>4, Zenon DEF Recurs
  <2>2. n - 1 \in 1 .. N
    BY <1>1
  <2>3. <<g[n - 1], n>> \in V \X (2 .. N)
    BY <2>2, Zenon
  <2>4. step[<<g[n - 1], n>>] = PackSentence(<<g[n - 1], n>>[1], sents[<<g[n - 1], n>>[2]])
    BY <2>3, Zenon
  <2> QED BY <2>1, <2>4
<1>6. g[1] = a
  BY <1>1, <1>4 DEF Recurs
<1> HIDE DEF step, V
<1> DEFINE Eq(h) == h = [n \in 1 .. N |-> IF n = 1 THEN a ELSE PackSentence(h[n - 1], sents[n])]
           f == CHOOSE h : Eq(h)
<1>7. Eq(g)
  <2>1. ASSUME NEW n \in 1 .. N
        PROVE  g[n] = IF n = 1 THEN a ELSE PackSentence(g[n - 1], sents[n])
    <3>1. n # 1 => n \in 2 .. N
      BY <1>1
    <3> HIDE DEF a
    <3> QED BY <3>1, <1>5, <1>6, Zenon
  <2> HIDE DEF a
  <2> QED BY <2>1, Zenon
<1>8. Eq(f)
  BY <1>7, Zenon
<1>9. Pack(s) = Append(f[N].parts, f[N].buf)
  BY DEF Pack
<1> HIDE DEF f
<1> DEFINE P == {n \in Nat : n \in 1 .. N => f[n] = g[n] /\ <<g[n], n>> \in J}
<1>10. 0 \in P
  BY <1>1
<1>11. ASSUME NEW m \in Nat, m \in P PROVE m + 1 \in P
  <2>1. CASE m = 0
    <3>1. f[1] = a
      <4> HIDE DEF a
      <4>1. 1 \in 1 .. N
        BY <1>1
      <4> QED BY <4>1, <1>8, Zenon
    <3>2. <<a, 1>> \in J
      OBVIOUS
    <3> HIDE DEF a
    <3>3. f[1] = g[1] /\ <<g[1], 1>> \in J
      BY <3>1, <3>2, <1>6, Zenon
    <3>4. m + 1 = 1
      BY <2>1
    <3>5. m + 1 \in Nat
      OBVIOUS
    <3>6. f[m + 1] = g[m + 1] /\ <<g[m + 1], m + 1>> \in J
      BY <3>3, <3>4, Zenon
    <3> HIDE DEF a, N
    <3> QED BY <3>5, <3>6, Zenon
  <2>2. CASE m # 0 /\ m + 1 \in 1 .. N
    <3> DEFINE n == m + 1
    <3>1. n \in 2 .. N /\ n # 1 /\ n \in 1 .. N /\ n - 1 \in 1 .. N /\ n - 1 = m
      BY <1>1, <2>2
    <3>2. f[n - 1] = g[n - 1] /\ <<g[n - 1], n - 1>> \in J
      BY <3>1, <1>11
    <3> HIDE DEF n, a
    <3>3. f[n] = PackSentence(f[n - 1], sents[n])
      BY <3>1, <1>8, Zenon
    <3>4. g[n] = PackSentence(g[n - 1], sents[n])
      BY <3>1, <1>5, Zenon
    <3>5. g[n - 1] \in Packing(C)
      BY <3>1 DEF V
    <3>6. <<PackSentence(g[n - 1], sents[n]), n>> \in J
      BY <3>1, <3>2, <3>5, Zenon
    <3>7. f[n] = g[n] /\ <<g[n], n>> \in J
      BY <3>2, <3>3, <3>4, <3>6, Zenon
    <3> QED BY <3>7 DEF n
  <2> QED BY <2>1, <2>2
<1>12. f[N] = g[N] /\ <<g[N], N>> \in J
  <2>1. Nat \subseteq P
    <3> HIDE DEF P
    <3> QED BY <1>10, <1>11, Induction
  <2> QED BY <1>1, <2>1
<1>13. g[N] \in Packing(C)
  <2>1. N \in 1 .. N
    BY <1>1
  <2> HIDE DEF N
  <2> QED BY <2>1, Zenon DEF V
<1> QED BY <1>9, <1>12, <1>13, Zenon

-----------------------------------------------------------------------------
(* The document.                                                           *)

\* What is assumed of a document.
LEMMA DocumentIs ==
    ASSUME doc \in Documents
    PROVE  /\ doc \in Seq(ToSet(doc)) /\ Len(doc) \in Nat /\ DOMAIN doc = 1 .. Len(doc)
           /\ \A k \in DOMAIN doc : doc[k] \in ToSet(doc)
           /\ \A k \in DOMAIN doc : doc[k].kind \in Kinds
           /\ \A k \in DOMAIN doc : doc[k].kind = "heading" => doc[k].level \in 1 .. 6
<1>1. doc \in Seq(ToSet(doc))
  BY DocumentsAssumption
<1>2. Len(doc) \in Nat /\ DOMAIN doc = 1 .. Len(doc)
  BY <1>1, LenProperties
<1>3. \A k \in DOMAIN doc : doc[k] \in ToSet(doc)
  BY DEF ToSet
<1>4. \A k \in DOMAIN doc : doc[k].kind \in Kinds
  BY DocumentsAssumption
<1>5. \A k \in DOMAIN doc : doc[k].kind = "heading" => doc[k].level \in 1 .. 6
  BY DocumentsAssumption
<1> QED BY <1>1, <1>2, <1>3, <1>4, <1>5

\* What is assumed of a block.
LEMMA BlockIs ==
    ASSUME doc \in Documents, NEW k \in Bodies
    PROVE  /\ doc[k].size \in Nat \ {0}
           /\ doc[k].gaps \subseteq 2 .. doc[k].size - 1
           /\ \A g \in doc[k].gaps : g + 1 \notin doc[k].gaps
           /\ doc[k].pii \subseteq (1 .. doc[k].size) \X (1 .. doc[k].size)
           /\ \A j \in 1 .. doc[k].size : White # <<k, j>>
<1>1. k \in DOMAIN doc /\ doc[k].kind # "heading"
  BY DEF Bodies
<1> QED BY <1>1, DocumentsAssumption

\* The text of a block: its characters at their places, and white space in the
\* gaps, not at its ends.
LEMMA TextIs ==
    ASSUME doc \in Documents, NEW k \in Bodies
    PROVE  /\ doc[k].size \in Nat \ {0} /\ k \in Nat
           /\ Text(k) \in Seq(Alphabet)
           /\ DOMAIN Text(k) = 1 .. doc[k].size /\ Len(Text(k)) = doc[k].size
           /\ Ink(Text(k)) = (1 .. doc[k].size) \ doc[k].gaps
           /\ 1 \in Ink(Text(k)) /\ doc[k].size \in Ink(Text(k))
           /\ \A i \in Ink(Text(k)) : Text(k)[i] = <<k, i>>
           /\ \A i \in 1 .. doc[k].size : Text(k)[i] \in {White, <<k, i>>}
           /\ White \in Alphabet /\ Chars(Text(k)) \subseteq Alphabet
<1>1. /\ doc[k].size \in Nat \ {0} /\ k \in Nat
      /\ doc[k].gaps \subseteq 2 .. doc[k].size - 1
      /\ \A j \in 1 .. doc[k].size : White # <<k, j>>
  BY BlockIs, DocumentIs DEF Bodies
<1> DEFINE n == doc[k].size
           t == Text(k)
<1>2. DOMAIN t = 1 .. n /\ \A i \in 1 .. n : t[i] = IF i \in doc[k].gaps THEN White ELSE <<k, i>>
  BY DEF Text
<1>3. Ink(t) = (1 .. n) \ doc[k].gaps
  BY <1>1, <1>2 DEF Ink
<1>4. 1 \in Ink(t) /\ n \in Ink(t)
  BY <1>1, <1>3
<1>5. White \in Alphabet /\ Chars(t) \subseteq Alphabet
  <2>1. Chars(Text(k)) \in {Chars(Text(j)) : j \in Bodies}
    OBVIOUS
  <2>2. Chars(Text(k)) \subseteq Alphabet
    BY <2>1, Zenon DEF Alphabet
  <2>3. White \in Alphabet
    BY Zenon DEF Alphabet
  <2> QED BY <2>2, <2>3
<1>6. \A i \in 1 .. n : t[i] \in Alphabet
  <2> SUFFICES ASSUME NEW i \in 1 .. n PROVE t[i] \in Alphabet
    OBVIOUS
  <2>1. CASE t[i] = White
    BY <2>1, <1>5
  <2>2. CASE t[i] # White
    BY <2>2, <1>2, <1>5 DEF Chars, Ink
  <2> QED BY <2>1, <2>2
<1>7. t \in Seq(Alphabet) /\ Len(t) = n
  <2>1. t \in [1 .. n -> Alphabet]
    <3>1. t = [i \in 1 .. n |-> t[i]]
      BY DEF Text
    <3> HIDE DEF t
    <3> QED BY <3>1, <1>6
  <2> HIDE DEF t
  <2> QED BY <2>1, <1>1, <1>2
<1> HIDE DEF t
<1>8. \A i \in Ink(t) : t[i] = <<k, i>>
  BY <1>2, <1>3
<1>9. \A i \in 1 .. n : t[i] \in {White, <<k, i>>}
  BY <1>2
<1>10. Text(k) = t
  BY DEF t
<1> HIDE DEF n
<1>11. doc[k].size = n
  BY DEF n
<1> QED BY <1>1, <1>2, <1>3, <1>4, <1>5, <1>7, <1>8, <1>9, <1>10, <1>11, Zenon

\* No block is white.
LEMMA TextHasInk ==
    ASSUME doc \in Documents, NEW k \in Bodies
    PROVE  Strip(Text(k)) # << >> /\ Ink(Text(k)) # {}
<1>1. Text(k) \in Seq(Alphabet) /\ Ink(Text(k)) # {}
  BY TextIs
<1> QED BY <1>1, StripIs

-----------------------------------------------------------------------------
(* Headings.                                                               *)

\* A heading path is at most as long as its deepest heading.
IsPath(p) ==
    /\ p \in Seq(ToSet(doc))
    /\ p # << >> => \E h \in ToSet(p) : Len(p) <= h.level

\* A heading cuts the path back to its level - 1, and goes to its end.
LEMMA UnderIs ==
    ASSUME doc \in Documents, NEW k \in DOMAIN doc, doc[k].kind = "heading",
           NEW p, p \in Seq(ToSet(doc))
    PROVE  LET m == IF doc[k].level - 1 <= Len(p) THEN doc[k].level - 1 ELSE Len(p)
           IN  /\ Under(p, doc[k]) \in Seq(ToSet(doc)) /\ m \in Nat
               /\ Len(Under(p, doc[k])) = m + 1
               /\ Under(p, doc[k])[m + 1] = doc[k]
               /\ \A i \in 1 .. m : Under(p, doc[k])[i] = p[i]
               /\ IsPath(Under(p, doc[k]))
<1> DEFINE h == doc[k]
           m == IF h.level - 1 <= Len(p) THEN h.level - 1 ELSE Len(p)
           S == ToSet(doc)
<1>1. h \in S /\ h.level \in 1 .. 6
  BY DocumentIs
<1>2. Len(p) \in Nat
  BY LenProperties
<1>3. Min({h.level - 1, Len(p)}) = m /\ m \in Nat /\ m <= Len(p) /\ m + 1 <= h.level
  <2> DEFINE a == h.level - 1
             b == Len(p)
  <2>1. a \in 0 .. 5 /\ b \in Nat
    BY <1>1, <1>2
  <2>2. h.level = a + 1
    BY <1>1
  <2> HIDE DEF a, b
  <2>3. Min({a, b}) = IF a <= b THEN a ELSE b
    BY <2>1, MinOfTwo
  <2>4. m = IF a <= b THEN a ELSE b
    BY DEF a, b
  <2> HIDE DEF m
  <2>5. Min({a, b}) = m /\ m \in Nat /\ m <= b /\ m + 1 <= a + 1
    BY <2>1, <2>3, <2>4
  <2> QED BY <2>2, <2>5 DEF a, b
<1> DEFINE q == SubSeq(p, 1, m)
           u == Under(p, h)
<1>4. u = Append(q, h)
  BY <1>3 DEF Under
<1> HIDE DEF S, h, m
<1>5. q \in Seq(S) /\ Len(q) = m /\ \A i \in 1 .. m : q[i] = p[i]
  <2>1. p \in Seq(S)
    BY DEF S
  <2> QED BY <1>2, <1>3, <2>1
<1> HIDE DEF q
<1>6. /\ Append(q, h) \in Seq(S) /\ Len(Append(q, h)) = m + 1
      /\ Append(q, h)[m + 1] = h /\ \A i \in 1 .. m : Append(q, h)[i] = q[i]
  BY <1>1, <1>3, <1>5, AppendProperties
<1>7. u \in Seq(S) /\ Len(u) = m + 1 /\ u[m + 1] = h /\ \A i \in 1 .. m : u[i] = p[i]
  BY <1>4, <1>5, <1>6, Zenon
<1> HIDE DEF u
<1>8. h \in ToSet(u)
  <2>1. m + 1 \in DOMAIN u
    BY <1>3, <1>7, LenProperties
  <2> QED BY <2>1, <1>7 DEF ToSet
<1>9. IsPath(u)
  <2>1. Len(u) <= h.level
    BY <1>3, <1>7
  <2> QED BY <2>1, <1>7, <1>8, Zenon DEF IsPath, S
<1> QED BY <1>3, <1>7, <1>9, Zenon DEF S, h, m, u

\* The path changes at headings only, by the rule of Heading.
LEMMA PathStep ==
    ASSUME doc \in Documents
    PROVE  /\ PathOf(1) = << >>
           /\ \A n \in 1 .. Len(doc) :
                 PathOf(n + 1) = IF doc[n].kind = "heading"
                                 THEN Under(PathOf(n), doc[n]) ELSE PathOf(n)
           /\ \A n \in 1 .. Len(doc) + 1 : IsPath(PathOf(n))
<1> DEFINE L == Len(doc)
           V == {p \in Seq(ToSet(doc)) : IsPath(p)}
           next(p, n) == IF doc[n - 1].kind = "heading" THEN Under(p, doc[n - 1]) ELSE p
           step == [x \in V \X (2 .. L + 1) |-> next(x[1], x[2])]
<1>1. L \in Nat /\ DOMAIN doc = 1 .. L
  BY DocumentIs
<1>2. << >> \in V
  BY EmptySeq DEF IsPath
<1>3. ASSUME NEW p \in V, NEW n \in 2 .. L + 1 PROVE next(p, n) \in V
  <2>1. n - 1 \in DOMAIN doc
    BY <1>1
  <2>2. CASE doc[n - 1].kind = "heading"
    <3>1. p \in Seq(ToSet(doc))
      OBVIOUS
    <3>2. Under(p, doc[n - 1]) \in Seq(ToSet(doc)) /\ IsPath(Under(p, doc[n - 1]))
      BY <2>1, <2>2, <3>1, UnderIs
    <3> QED BY <2>2, <3>2
  <2> QED BY <2>2
<1>4. step \in [V \X (2 .. L + 1) -> V]
  <2> HIDE DEF V, next
  <2> QED BY <1>3
<1>5. PICK g \in [1 .. L + 1 -> V] : Recurs(g, L + 1, << >>, step)
  <2>1. L + 1 \in Nat
    BY <1>1
  <2> HIDE DEF step, V, L
  <2> QED BY <2>1, <1>2, <1>4, Recursion
<1>6. \A n \in 2 .. L + 1 : g[n] = next(g[n - 1], n)
  <2> SUFFICES ASSUME NEW n \in 2 .. L + 1 PROVE g[n] = next(g[n - 1], n)
    BY Zenon
  <2> HIDE DEF V
  <2>1. g[n] = step[<<g[n - 1], n>>]
    BY <1>5, Zenon DEF Recurs
  <2>2. n - 1 \in 1 .. L + 1
    BY <1>1
  <2> HIDE DEF next
  <2>3. <<g[n - 1], n>> \in V \X (2 .. L + 1)
    BY <2>2, Zenon
  <2>4. step[<<g[n - 1], n>>] = next(<<g[n - 1], n>>[1], <<g[n - 1], n>>[2])
    BY <2>3, Zenon
  <2> QED BY <2>1, <2>4
<1>7. g[1] = << >>
  BY <1>1, <1>5 DEF Recurs
<1> HIDE DEF step, V
<1> DEFINE Eq(h) == h = [n \in 1 .. L + 1 |-> IF n = 1 THEN << >> ELSE next(h[n - 1], n)]
           f == CHOOSE h : Eq(h)
<1>8. Eq(g)
  <2>1. ASSUME NEW n \in 1 .. L + 1
        PROVE  g[n] = IF n = 1 THEN << >> ELSE next(g[n - 1], n)
    <3>1. n # 1 => n \in 2 .. L + 1
      BY <1>1
    <3> HIDE DEF next
    <3> QED BY <3>1, <1>6, <1>7, Zenon
  <2> HIDE DEF next
  <2> QED BY <2>1, Zenon
<1>9. Eq(f)
  BY <1>8, Zenon
<1>10. ASSUME NEW k PROVE PathOf(k) = f[k]
  BY DEF PathOf
<1> HIDE DEF f
<1>11. f[1] = << >>
  <2>1. 1 \in 1 .. L + 1
    BY <1>1
  <2> HIDE DEF next
  <2> QED BY <2>1, <1>9, Zenon
<1>12. ASSUME NEW n \in 1 .. L PROVE f[n + 1] = next(f[n], n + 1)
  <2>1. n + 1 \in 1 .. L + 1 /\ n + 1 # 1 /\ n + 1 - 1 = n
    BY <1>1
  <2> DEFINE i == n + 1
  <2> HIDE DEF next, i
  <2>2. i \in 1 .. L + 1 /\ i # 1
    BY <2>1 DEF i
  <2>3. f[i] = next(f[i - 1], i)
    BY <2>2, <1>9, Zenon
  <2>4. i - 1 = n
    BY DEF i
  <2> QED BY <2>3, <2>4 DEF i
<1>13. ASSUME NEW n \in 1 .. L PROVE next(f[n], n + 1) = IF doc[n].kind = "heading" THEN Under(f[n], doc[n]) ELSE f[n]
  <2>1. n + 1 - 1 = n
    BY <1>1
  <2> QED BY <2>1
<1> HIDE DEF next
<1> DEFINE P == {n \in Nat : n \in 1 .. L + 1 => f[n] \in V}
<1>14. 0 \in P
  BY <1>1
<1>15. ASSUME NEW m \in Nat, m \in P PROVE m + 1 \in P
  <2> SUFFICES ASSUME m + 1 \in 1 .. L + 1 PROVE f[m + 1] \in V
    OBVIOUS
  <2>1. CASE m = 0
    BY <2>1, <1>11, <1>2
  <2>2. CASE m # 0
    <3>1. m \in 1 .. L /\ m \in 1 .. L + 1 /\ m + 1 \in 2 .. L + 1
      BY <1>1, <2>2
    <3>2. f[m] \in V
      BY <3>1, <1>15
    <3>3. next(f[m], m + 1) \in V
      BY <3>1, <3>2, <1>3
    <3> QED BY <3>1, <3>3, <1>12, Zenon
  <2> QED BY <2>1, <2>2
<1>16. \A n \in 1 .. L + 1 : f[n] \in V
  <2>1. Nat \subseteq P
    <3> HIDE DEF P
    <3> QED BY <1>14, <1>15, Induction
  <2> QED BY <1>1, <2>1
<1>17. \A n \in 1 .. L + 1 : IsPath(f[n])
  BY <1>16 DEF V
<1> QED BY <1>10, <1>11, <1>12, <1>13, <1>17, Zenon

-----------------------------------------------------------------------------
(* Personal data, and where a block is cut.                                *)

\* Sequences over a set are sequences over a greater one.
LEMMA SeqMonotone ==
    ASSUME NEW S, NEW T, S \subseteq T
    PROVE  Seq(S) \subseteq Seq(T)
<1> SUFFICES ASSUME NEW s \in Seq(S) PROVE s \in Seq(T)
  OBVIOUS
<1>1. s \in [1 .. Len(s) -> T] /\ Len(s) \in Nat
  BY LenProperties, ElementOfSeq
<1> QED BY <1>1, SeqDef

\* Personal data is text of the document.
LEMMA SecretsAre ==
    ASSUME doc \in Documents, NEW t \in Secrets
    PROVE  /\ t \in Seq(Alphabet)
           /\ \E k \in Bodies : \E span \in doc[k].pii :
                 /\ span[1] \in 1 .. doc[k].size /\ span[2] \in 1 .. doc[k].size
                 /\ t = SubSeq(Text(k), span[1], span[2])
<1>1. PICK k \in Bodies : \E span \in doc[k].pii : t = SubSeq(Text(k), span[1], span[2])
  BY DEF Secrets
<1>2. PICK span \in doc[k].pii : t = SubSeq(Text(k), span[1], span[2])
  BY <1>1
<1>3. span[1] \in 1 .. doc[k].size /\ span[2] \in 1 .. doc[k].size
  <2>1. doc[k].pii \subseteq (1 .. doc[k].size) \X (1 .. doc[k].size)
    BY BlockIs
  <2> QED BY <2>1
<1>4. Text(k) \in Seq(Alphabet) /\ Len(Text(k)) = doc[k].size /\ doc[k].size \in Nat
  BY TextIs
<1>5. span[1] \in Nat \ {0} /\ span[2] \in Int /\ span[2] <= Len(Text(k))
  BY <1>3, <1>4
<1>6. SubSeq(Text(k), span[1], span[2]) \in Seq(Alphabet)
  BY <1>4, <1>5, PartOfString
<1> QED BY <1>2, <1>3, <1>6

\* Where a text has spans of personal data: within it.
LEMMA SpansAre ==
    ASSUME doc \in Documents, NEW C, NEW s \in Seq(C), NEW span \in Spans(s)
    PROVE  /\ span[1] \in Nat /\ span[2] \in Nat /\ span[2] <= Len(s)
           /\ \E t \in Secrets, n \in 1 .. Len(s) :
                 span = <<n - 1, n - 1 + Len(t)>> /\ OccursAt(s, t, n)
<1>1. PICK t \in Secrets : \E n \in DOMAIN s :
         span = <<n - 1, n - 1 + Len(t)>> /\ OccursAt(s, t, n)
  BY DEF Spans
<1>2. PICK n \in DOMAIN s : span = <<n - 1, n - 1 + Len(t)>> /\ OccursAt(s, t, n)
  BY <1>1
<1>3. t \in Seq(Alphabet)
  BY SecretsAre
<1>4. Len(t) \in Nat
  BY <1>3, LenProperties
<1>5. Len(s) \in Nat /\ DOMAIN s = 1 .. Len(s)
  BY LenProperties
<1>6. n + Len(t) - 1 <= Len(s)
  BY <1>2 DEF OccursAt
<1>7. span[1] = n - 1 /\ span[2] = n - 1 + Len(t)
  BY <1>2
<1>8. span[1] \in Nat /\ span[2] \in Nat /\ span[2] <= Len(s)
  <2> DEFINE l == Len(t)
             b == Len(s)
  <2>1. l \in Nat /\ b \in Nat /\ n \in 1 .. b /\ n + l - 1 <= b
    BY <1>4, <1>5, <1>6
  <2>2. span[1] = n - 1 /\ span[2] = n - 1 + l
    BY <1>7
  <2> HIDE DEF l, b
  <2>3. span[1] \in Nat /\ span[2] \in Nat /\ span[2] <= b
    BY <2>1, <2>2
  <2> QED BY <2>3 DEF b
<1> QED BY <1>2, <1>5, <1>8

\* Where a cut may go in s, from pos on.
LEMMA CutOf ==
    ASSUME doc \in Documents, NEW C, NEW s \in Seq(C), NEW pos \in Nat
    PROVE  LET cut == SafeCut(pos, Spans(s))
           IN  /\ cut \in Nat /\ pos <= cut /\ Len(s) \in Nat
               /\ pos <= Len(s) => cut <= Len(s)
               /\ \A span \in Spans(s) : ~(span[1] < cut /\ cut < span[2])
               /\ \A c \in pos .. cut - 1 :
                     \E span \in Spans(s) : span[1] < c /\ c < span[2]
<1>1. Len(s) \in Nat
  BY LenProperties
<1>2. \A span \in Spans(s) : span[1] \in Nat /\ span[2] \in Nat /\ span[2] <= Len(s)
  BY SpansAre
<1> DEFINE spans == Spans(s)
           b == Len(s)
<1> HIDE DEF spans, b
<1>3. b \in Nat /\ \A span \in spans : span[1] \in Nat /\ span[2] \in Nat /\ span[2] <= b
  BY <1>1, <1>2 DEF spans, b
<1>4. LET cut == SafeCut(pos, spans)
          inside(c) == \E span \in spans : span[1] < c /\ c < span[2]
      IN  /\ cut \in Nat /\ pos <= cut
          /\ pos <= b => cut <= b
          /\ ~inside(cut)
          /\ \A c \in pos .. cut - 1 : inside(c)
  BY <1>3, SafeCutIs
<1> QED BY <1>1, <1>4, Zenon DEF spans, b

\* The overlap is the end of the chunk, and not longer than overlap_chars.
LEMMA CarriedIs ==
    ASSUME doc \in Documents, NEW C, NEW s \in Seq(C)
    PROVE  /\ Carried(s) \in Seq(C) /\ Chars(Carried(s)) \subseteq Chars(s)
           /\ Len(Carried(s)) <= OverlapChars /\ Len(Carried(s)) \in Nat
<1>1. Len(s) \in Nat
  BY LenProperties
<1> DEFINE n == Max({0, Len(s) - OverlapChars})
           cut == SafeCut(n, Spans(s))
<1>2. n \in Nat /\ Len(s) - OverlapChars <= n
  <2>1. Len(s) - OverlapChars \in Int
    BY <1>1, SizesAssumption
  <2> QED BY <2>1, MaxOfTwo
<1> HIDE DEF n
<1>3. cut \in Nat /\ n <= cut
  BY <1>2, CutOf
<1>4. Carried(s) = From(s, cut)
  BY DEF Carried, cut, n
<1> HIDE DEF cut
<1>5. /\ From(s, cut) \in Seq(C) /\ Chars(From(s, cut)) \subseteq Chars(s)
      /\ Len(From(s, cut)) = IF cut <= Len(s) THEN Len(s) - cut ELSE 0
  BY <1>3, FromIs
<1>6. Len(From(s, cut)) <= OverlapChars /\ Len(From(s, cut)) \in Nat
  <2> DEFINE b == Len(s)
             l == Len(From(s, cut))
  <2>1. b \in Nat /\ b - OverlapChars <= n /\ n <= cut /\ OverlapChars \in Nat /\ n \in Nat /\ cut \in Nat
    BY <1>1, <1>2, <1>3, SizesAssumption
  <2>2. l = IF cut <= b THEN b - cut ELSE 0
    BY <1>5
  <2> HIDE DEF b, l
  <2>3. l <= OverlapChars /\ l \in Nat
    BY <2>1, <2>2
  <2> QED BY <2>3 DEF l
<1> QED BY <1>4, <1>5, <1>6, Zenon

\* Where the first part of what remains ends: not before max_chars, further than
\* the overlap, and beyond max_chars inside a span only.
LEMMA CutAtIs ==
    ASSUME doc \in Documents, NEW C, remaining \in Seq(C)
    PROVE  /\ CutAt \in Nat /\ MaxChars <= CutAt /\ Len(remaining) \in Nat
           /\ MaxChars <= Len(remaining) => CutAt <= Len(remaining)
           /\ CutAt - OverlapChars \in Nat \ {0}
           /\ Max({0, CutAt - OverlapChars}) = CutAt - OverlapChars
           /\ \A c \in MaxChars .. CutAt - 1 :
                 \E span \in Spans(remaining) : span[1] < c /\ c < span[2]
<1>1. /\ CutAt \in Nat /\ MaxChars <= CutAt /\ Len(remaining) \in Nat
      /\ MaxChars <= Len(remaining) => CutAt <= Len(remaining)
      /\ \A c \in MaxChars .. CutAt - 1 :
            \E span \in Spans(remaining) : span[1] < c /\ c < span[2]
  <2>1. MaxChars \in Nat
    BY SizesAssumption
  <2> QED BY <2>1, CutOf DEF CutAt
<1>2. CutAt - OverlapChars \in Nat \ {0}
  BY <1>1, SizesAssumption
<1>3. Max({0, CutAt - OverlapChars}) = CutAt - OverlapChars
  <2> DEFINE m == CutAt - OverlapChars
  <2>1. m \in Nat \ {0}
    BY <1>2
  <2> HIDE DEF m
  <2>2. Max({0, m}) = m
    BY <2>1, MaxOfTwo
  <2> QED BY <2>2 DEF m
<1> QED BY <1>1, <1>2, <1>3

\* A text that is not empty has sentences.
LEMMA SentencesType ==
    ASSUME NEW C, NEW s \in Seq(C), s # << >>
    PROVE  Sentences(s) \in Seq(Seq(C)) /\ Sentences(s) # << >>
<1>1. PICK from : /\ Sentences(s) = from[1]
                  /\ \A i \in 1 .. Len(s) + 2 : from[i] \in Seq(Seq(C))
                  /\ \A i \in 1 .. Len(s) : Splits(from, s, i)
  BY SentencesIs
<1>2. Len(s) \in Nat \ {0}
  BY EmptySeq, LenProperties
<1>3. PICK m \in 1 .. Len(s) + 1 : from[1] = <<SubSeq(s, 1, m - 1)>> \o from[m + 1]
  <2>1. Splits(from, s, 1)
    BY <1>1, <1>2
  <2> QED BY <2>1 DEF Splits
<1>4. m + 1 \in 1 .. Len(s) + 2 /\ m - 1 \in Int /\ m - 1 <= Len(s) /\ 1 \in 1 .. Len(s) + 2
  BY <1>2
<1>5. from[1] \in Seq(Seq(C)) /\ from[m + 1] \in Seq(Seq(C))
  BY <1>1, <1>4
<1>6. SubSeq(s, 1, m - 1) \in Seq(C)
  BY <1>4, PartOfString
<1>7. from[1] # << >>
  <2> DEFINE x == SubSeq(s, 1, m - 1)
             y == from[m + 1]
             D == Seq(C)
  <2>1. x \in D /\ y \in Seq(D)
    BY <1>5, <1>6
  <2>2. from[1] = <<x>> \o y
    BY <1>3
  <2> HIDE DEF x, y, D
  <2>3. <<x>> \o y # << >>
    BY <2>1
  <2> QED BY <2>2, <2>3
<1> QED BY <1>1, <1>5, <1>7

\* A text that is not empty has parts.
LEMMA PackType ==
    ASSUME NEW C, White \in C, NEW s \in Seq(C), s # << >>
    PROVE  Pack(s) \in Seq(Seq(C)) /\ Pack(s) # << >>
<1> DEFINE sents == Sentences(s)
           J == Packing(C) \X Nat
<1>1. sents \in Seq(Seq(C)) /\ sents # << >>
  BY SentencesType
<1>2. Len(sents) \in Nat /\ Len(sents) >= 1 /\ \A n \in 1 .. Len(sents) : sents[n] \in Seq(C)
  BY <1>1, LenProperties, EmptySeq, ElementOfSeq
<1>3. sents = Sentences(s)
  OBVIOUS
<1> HIDE DEF sents
<1>4. <<[parts |-> << >>, buf |-> sents[1]], 1>> \in J
  <2>1. sents[1] \in Seq(C)
    BY <1>2
  <2>2. [parts |-> << >>, buf |-> sents[1]] \in Packing(C)
    BY <2>1 DEF Packing
  <2> QED BY <2>2
<1>5. \A n \in 2 .. Len(sents), v \in Packing(C) :
         <<v, n - 1>> \in J => <<PackSentence(v, sents[n]), n>> \in J
  <2> SUFFICES ASSUME NEW n \in 2 .. Len(sents), NEW v \in Packing(C)
               PROVE  <<PackSentence(v, sents[n]), n>> \in J
    BY Zenon
  <2>1. sents[n] \in Seq(C) /\ n \in Nat
    BY <1>2
  <2>2. PackSentence(v, sents[n]) \in Packing(C)
    BY <2>1, PackSentenceType
  <2> QED BY <2>1, <2>2
<1> HIDE DEF J
<1>6. PICK v \in Packing(C) : Pack(s) = Append(v.parts, v.buf)
  BY <1>1, <1>3, <1>4, <1>5, PackInduction
<1>7. v.parts \in Seq(Seq(C)) /\ v.buf \in Seq(C)
  BY DEF Packing
<1> DEFINE D == Seq(C)
<1> HIDE DEF D
<1>8. v.parts \in Seq(D) /\ v.buf \in D
  BY <1>7 DEF D
<1>9. Append(v.parts, v.buf) \in Seq(D) /\ Append(v.parts, v.buf) # << >>
  BY <1>8, AppendProperties
<1> QED BY <1>6, <1>9 DEF D

-----------------------------------------------------------------------------
(* Sections: types, and the headings of a chunk.                           *)

\* The characters of the blocks under the headings p, and white space.
SectionChars(p) == {White} \cup {c \in Alphabet \ {White} : PathOf(c[1]) = p}

\* The texts from under the headings p.
Strings(p) == Seq(SectionChars(p))

\* The chunks whose text is from under the headings of their path.
Placed ==
    {c \in [content : Seq(Alphabet), path : Seq(ToSet(doc)), table : BOOLEAN] :
        IsPath(c.path) /\ c.content \in Strings(c.path)}

\* The inductive invariant of types and of Located: the path is the one of the
\* block the loop is at, and all that is in hand, the buffer and the parts and
\* what remains, is text from under it; what is in a chunk is from under the path
\* of the chunk.
Sections ==
    /\ doc \in Documents /\ punkt \in BOOLEAN
    /\ pc \in {"block", "cut", "place", "done"}
    /\ at \in 1 .. Len(doc) + 1
    /\ pc \in {"cut", "place"} => at \in Bodies
    /\ overlap = << >>
    /\ path = PathOf(at)
    /\ pc # "cut" => remaining = << >>
    /\ pc \in {"block", "done"} => subs = << >>
    /\ pc = "place" => subs # << >>
    /\ remaining \in Strings(path)
    /\ subs \in Seq(Strings(path)) /\ buf \in Seq(Strings(path))
    /\ chunks \in Seq(Placed)

\* The texts from under a path are texts of the document.
LEMMA SectionCharsAre ==
    ASSUME doc \in Documents, NEW p
    PROVE  /\ White \in SectionChars(p) /\ SectionChars(p) \subseteq Alphabet
           /\ Strings(p) \subseteq Seq(Alphabet)
<1>1. White \in SectionChars(p) /\ SectionChars(p) \subseteq Alphabet
  BY DEF SectionChars, Alphabet
<1> QED BY <1>1, SeqMonotone DEF Strings

\* A block is under its headings.
LEMMA TextInSection ==
    ASSUME doc \in Documents, NEW k \in Bodies
    PROVE  Text(k) \in Strings(PathOf(k)) /\ Text(k) # << >>
<1>1. /\ Text(k) \in Seq(Alphabet) /\ doc[k].size \in Nat \ {0}
      /\ Len(Text(k)) = doc[k].size
      /\ \A i \in 1 .. doc[k].size : Text(k)[i] \in {White, <<k, i>>}
  BY TextIs
<1>2. ASSUME NEW i \in 1 .. doc[k].size PROVE Text(k)[i] \in SectionChars(PathOf(k))
  <2>1. Text(k)[i] \in Alphabet
    BY <1>1, ElementOfSeq
  <2>2. CASE Text(k)[i] = White
    BY <2>2 DEF SectionChars
  <2>3. CASE Text(k)[i] # White
    <3>1. Text(k)[i] = <<k, i>>
      BY <1>1, <2>3
    <3>2. Text(k)[i][1] = k
      BY <3>1
    <3> QED BY <2>1, <2>3, <3>2 DEF SectionChars
  <2> QED BY <2>2, <2>3
<1> DEFINE t == Text(k)
           n == doc[k].size
           C == SectionChars(PathOf(k))
<1>3. t \in [1 .. n -> Alphabet]
  BY <1>1, LenProperties
<1>4. \A i \in 1 .. n : t[i] \in C
  BY <1>2
<1>5. n \in Nat
  BY <1>1
<1> HIDE DEF t, n, C
<1>6. t \in Seq(C)
  <2>1. t \in [1 .. n -> C]
    BY <1>3, <1>4
  <2> QED BY <2>1, <1>5, SeqDef
<1>7. Text(k) # << >>
  BY <1>1, EmptySeq
<1> QED BY <1>6, <1>7 DEF t, C, Strings

\* What is in a section stays in it when the document does not change.
LEMMA SectionsStable ==
    ASSUME doc' = doc
    PROVE  /\ \A p : Strings(p)' = Strings(p) /\ IsPath(p)' = IsPath(p)
           /\ \A k : PathOf(k)' = PathOf(k) /\ Text(k)' = Text(k)
           /\ Placed' = Placed /\ Alphabet' = Alphabet /\ Bodies' = Bodies
<1>1. Alphabet' = Alphabet /\ Bodies' = Bodies
  BY SMT DEF Text, Alphabet, Bodies, Chars, Ink
<1>2. ASSUME NEW k PROVE PathOf(k)' = PathOf(k)
  BY Zenon DEF PathOf
<1>3. ASSUME NEW k PROVE Text(k)' = Text(k)
  BY SMT DEF Text
<1>4. ASSUME NEW p PROVE IsPath(p)' = IsPath(p)
  BY SMT DEF IsPath
<1>5. ASSUME NEW p PROVE Strings(p)' = Strings(p)
  BY <1>1, <1>2 DEF Strings, SectionChars
<1>6. Placed' = Placed
  BY <1>1, <1>4, <1>5 DEF Placed
<1> QED BY <1>1, <1>2, <1>3, <1>4, <1>5, <1>6

\* A chunk of text from under the path is placed right.
LEMMA ChunkPlaced ==
    ASSUME Sections, NEW text, text \in Strings(path), NEW isTable \in BOOLEAN
    PROVE  Chunk(text, isTable) \in Placed
<1>1. IsPath(path) /\ path \in Seq(ToSet(doc))
  <2>1. IsPath(PathOf(at))
    BY PathStep DEF Sections
  <2> QED BY <2>1 DEF Sections, IsPath
<1>2. text \in Seq(Alphabet)
  BY SectionCharsAre DEF Sections
<1> DEFINE c == [content |-> text, path |-> path, table |-> isTable]
<1>3. c \in [content : Seq(Alphabet), path : Seq(ToSet(doc)), table : BOOLEAN]
  BY <1>1, <1>2
<1>4. c.path = path /\ c.content = text
  OBVIOUS
<1> HIDE DEF c
<1>5. c \in Placed
  BY <1>1, <1>3, <1>4 DEF Placed
<1> QED BY <1>5 DEF Chunk, c

\* So is the chunk that a flush makes.
LEMMA BufIs ==
    ASSUME Sections
    PROVE  Join(buf) \in Strings(path) /\ Flushed \in Seq(Placed)
<1>1. Join(buf) \in Strings(path)
  <2>1. doc \in Documents /\ buf \in Seq(Strings(path))
    BY DEF Sections
  <2>2. White \in SectionChars(path)
    BY <2>1, SectionCharsAre
  <2> QED BY <2>1, <2>2, JoinIs DEF Strings
<1>2. Flushed \in Seq(Placed)
  <2>1. Chunk(Join(buf), FALSE) \in Placed
    BY <1>1, ChunkPlaced
  <2>2. chunks \in Seq(Placed)
    BY DEF Sections
  <2> QED BY <2>1, <2>2, AppendProperties DEF Flushed
<1> QED BY <1>1, <1>2

\* Merging two chunks of the same section makes one of that section.
LEMMA MergeTailPlaced ==
    ASSUME doc \in Documents, NEW found \in Seq(Placed)
    PROVE  MergeTail(found) \in Seq(Placed)
<1> DEFINE n == Len(found)
           small == /\ n >= 2 /\ Len(found[n].content) < MinChars
                    /\ found[n].path = found[n - 1].path
           text == found[n - 1].content \o <<White, White>> \o found[n].content
           c == [content |-> text, path |-> found[n - 1].path,
                 table |-> found[n - 1].table \/ found[n].table]
<1>1. n \in Nat
  BY LenProperties
<1>2. CASE ~small
  <2>1. MergeTail(found) = found
    BY <1>2, Zenon DEF MergeTail
  <2> QED BY <2>1
<1>3. CASE small
  <2>1. MergeTail(found) = Append(SubSeq(found, 1, n - 2), c)
    BY <1>3, Zenon DEF MergeTail
  <2>2. found[n] \in Placed /\ found[n - 1] \in Placed
    <3>1. n \in 1 .. n /\ n - 1 \in 1 .. n
      BY <1>1, <1>3
    <3> QED BY <3>1, ElementOfSeq
  <2>3. c \in Placed
    <3> DEFINE a == found[n - 1]
               b == found[n]
               S == Strings(a.path)
    <3>1. /\ IsPath(a.path) /\ a.path \in Seq(ToSet(doc))
          /\ a.content \in S /\ b.content \in S
          /\ a.table \in BOOLEAN /\ b.table \in BOOLEAN
      <4> HIDE DEF n, S
      <4>1. /\ a \in [content : Seq(Alphabet), path : Seq(ToSet(doc)), table : BOOLEAN]
            /\ IsPath(a.path) /\ a.content \in Strings(a.path)
        BY <2>2, Zenon DEF Placed
      <4>2. /\ b \in [content : Seq(Alphabet), path : Seq(ToSet(doc)), table : BOOLEAN]
            /\ IsPath(b.path) /\ b.content \in Strings(b.path)
        BY <2>2, Zenon DEF Placed
      <4>3. b.path = a.path
        BY <1>3
      <4> HIDE DEF a, b
      <4> QED BY <4>1, <4>2, <4>3 DEF S
    <3>2. text \in S
      <4>1. White \in SectionChars(a.path)
        BY SectionCharsAre
      <4>2. <<White, White>> \in Seq(SectionChars(a.path))
        BY <4>1
      <4> DEFINE x == a.content
                 y == b.content
                 C == SectionChars(a.path)
      <4>3. x \in Seq(C) /\ y \in Seq(C) /\ <<White, White>> \in Seq(C)
        BY <3>1, <4>2 DEF Strings
      <4> HIDE DEF x, y, C
      <4>4. x \o <<White, White>> \o y \in Seq(C)
        BY <4>3, ConcatProperties
      <4> QED BY <4>4, Zenon DEF x, y, C, Strings
    <3>3. S \subseteq Seq(Alphabet)
      BY SectionCharsAre
    <3> DEFINE d == [content |-> text, path |-> a.path, table |-> a.table \/ b.table]
    <3>4. c = d
      OBVIOUS
    <3> HIDE DEF S, text, a, b, n
    <3>5. (a.table \/ b.table) \in BOOLEAN
      BY Zenon
    <3>6. d \in [content : Seq(Alphabet), path : Seq(ToSet(doc)), table : BOOLEAN]
      <4> DEFINE flag == a.table \/ b.table
      <4>1. flag \in BOOLEAN
        BY <3>5
      <4> HIDE DEF flag
      <4>2. [content |-> text, path |-> a.path, table |-> flag] \in
              [content : Seq(Alphabet), path : Seq(ToSet(doc)), table : BOOLEAN]
        BY <3>1, <3>2, <3>3, <4>1
      <4> QED BY <4>2 DEF flag
    <3>7. d.content = text /\ d.path = a.path
      OBVIOUS
    <3> HIDE DEF d
    <3>8. d \in Placed
      BY <3>1, <3>2, <3>6, <3>7 DEF Placed, S
    <3> QED BY <3>8, <3>4 DEF d, a, b, n
  <2>4. SubSeq(found, 1, n - 2) \in Seq(Placed)
    <3>1. n - 2 \in Int /\ n - 2 <= n
      BY <1>1
    <3> DEFINE m == n - 2
    <3> HIDE DEF m
    <3>2. SubSeq(found, 1, m) \in Seq(Placed)
      <4>1. m \in Int /\ m <= Len(found)
        BY <3>1 DEF m
      <4> QED BY <4>1, PartOfString
    <3> QED BY <3>2 DEF m
  <2> HIDE DEF c, n
  <2> QED BY <2>1, <2>3, <2>4, AppendProperties
<1> QED BY <1>2, <1>3

\* Sections holds at the start.
LEMMA SectionsInit == Init => Sections
<1> SUFFICES ASSUME Init PROVE Sections
  OBVIOUS
<1>1. doc \in Documents /\ at = 1 /\ path = << >>
  BY DEF Init
<1>2. PathOf(1) = << >> /\ Len(doc) \in Nat
  BY <1>1, PathStep, DocumentIs
<1>3. \A S : << >> \in Seq(S)
  BY EmptySeq
<1>4. remaining \in Strings(path) /\ subs \in Seq(Strings(path)) /\ buf \in Seq(Strings(path))
  BY <1>3 DEF Init, Strings
<1>5. chunks \in Seq(Placed)
  BY <1>3 DEF Init
<1> QED BY <1>1, <1>2, <1>4, <1>5 DEF Init, Sections

\* Heading preserves it: the buffer is flushed before the path changes.
LEMMA SectionsHeading ==
    ASSUME Sections, Heading
    PROVE  Sections'
<1>1. doc' = doc /\ doc \in Documents
  BY DEF Heading, Sections
<1>2. /\ at \in 1 .. Len(doc) /\ doc[at].kind = "heading" /\ at' = at + 1 /\ pc = "block"
      /\ pc' = pc /\ Len(doc) \in Nat
  BY DocumentIs DEF Heading, AtBlock, Sections
<1>3. path' = PathOf(at')
  <2>1. path' = Under(PathOf(at), doc[at])
    BY DEF Heading, Sections
  <2>2. PathOf(at + 1) = Under(PathOf(at), doc[at])
    BY <1>1, <1>2, PathStep
  <2> QED BY <2>1, <2>2, <1>2
<1>4. PathOf(at)' = PathOf(at')
  BY <1>1 DEF PathOf
<1>5. /\ Strings(path)' = Seq(SectionChars(path)') /\ Placed' = Placed
  BY <1>1, SectionsStable DEF Strings
<1>6. \A S : << >> \in Seq(S)
  BY EmptySeq
<1>7. overlap' = << >> /\ buf' = << >> /\ remaining' = << >> /\ subs' = << >>
  BY <1>2 DEF Heading, Sections
<1>8. remaining' \in Strings(path)' /\ subs' \in Seq(Strings(path)') /\ buf' \in Seq(Strings(path)')
  BY <1>5, <1>6, <1>7
<1>9. chunks' \in Seq(Placed')
  BY <1>5, BufIs DEF Heading
<1>10. punkt' \in BOOLEAN /\ pc' = "block" /\ at' \in 1 .. Len(doc') + 1
  BY <1>1, <1>2 DEF Heading, Sections
<1> QED BY <1>1, <1>3, <1>4, <1>7, <1>8, <1>9, <1>10 DEF Sections

\* The path changes at headings only, and with it what may be in a text.
LEMMA SectionStays ==
    ASSUME Sections, doc' = doc, path' = path
    PROVE  /\ Strings(path)' = Strings(path) /\ Placed' = Placed
           /\ Bodies' = Bodies
           /\ at' = at => PathOf(at)' = path
           /\ at \in Bodies /\ at' = at + 1 => PathOf(at)' = path /\ at' \in 1 .. Len(doc) + 1
<1>1. Alphabet' = Alphabet /\ Bodies' = Bodies /\ Placed' = Placed
  BY SectionsStable
<1>2. Strings(path)' = Strings(path)
  <2>1. SectionChars(path)' = SectionChars(path)
    BY <1>1 DEF SectionChars, PathOf
  <2> QED BY <2>1 DEF Strings
<1>3. PathOf(at)' = PathOf(at')
  BY DEF PathOf
<1>4. at' = at => PathOf(at)' = path
  BY <1>3 DEF Sections
<1>5. ASSUME at \in Bodies, at' = at + 1 PROVE PathOf(at)' = path /\ at' \in 1 .. Len(doc) + 1
  <2>1. at \in 1 .. Len(doc) /\ doc[at].kind # "heading" /\ Len(doc) \in Nat
    BY <1>5, DocumentIs DEF Bodies, Sections
  <2>2. PathOf(at + 1) = PathOf(at)
    BY <2>1, PathStep DEF Sections
  <2> QED BY <1>3, <1>5, <2>1, <2>2 DEF Sections
<1> QED BY <1>1, <1>2, <1>4, <1>5

\* What is known where the loop is at a table or a text.
LEMMA AtBodies ==
    ASSUME Sections, NEW kind, kind # "heading", AtBlock(kind)
    PROVE  /\ at \in Bodies /\ pc = "block" /\ remaining = << >> /\ subs = << >>
           /\ doc[at].kind = kind
           /\ Text(at) \in Strings(path) /\ Text(at) # << >>
<1>1. at \in Bodies /\ pc = "block" /\ remaining = << >> /\ subs = << >> /\ doc[at].kind = kind
  BY DocumentIs DEF AtBlock, Sections, Bodies
<1> QED BY <1>1, TextInSection DEF Sections

\* Table preserves Sections.
LEMMA SectionsTable ==
    ASSUME Sections, Table
    PROVE  Sections'
<1>1. doc' = doc /\ doc \in Documents /\ path' = path
  BY DEF Table, Sections
<1>2. /\ at \in Bodies /\ pc = "block" /\ remaining = << >> /\ subs = << >>
      /\ Text(at) \in Strings(path)
  BY AtBodies DEF Table
<1>3. /\ Strings(path)' = Strings(path) /\ Placed' = Placed
      /\ PathOf(at)' = path /\ at' \in 1 .. Len(doc) + 1
  BY <1>1, <1>2, SectionStays DEF Table
<1>4. \A S : << >> \in Seq(S)
  BY EmptySeq
<1>5. overlap' = << >> /\ buf' = << >> /\ remaining' = << >> /\ subs' = << >>
  BY <1>2 DEF Table
<1>6. remaining' \in Strings(path) /\ subs' \in Seq(Strings(path)) /\ buf' \in Seq(Strings(path))
  BY <1>4, <1>5 DEF Strings
<1>7. chunks' \in Seq(Placed)
  <2>1. Strip(Text(at)) \in Strings(path)
    BY <1>2, StripIs DEF Strings
  <2>2. Chunk(Strip(Text(at)), TRUE) \in Placed
    BY <2>1, ChunkPlaced
  <2> QED BY <2>2, BufIs, AppendProperties DEF Table
<1>8. punkt' \in BOOLEAN /\ pc' = "block"
  BY <1>2 DEF Table, Sections
<1> QED BY <1>1, <1>3, <1>5, <1>6, <1>7, <1>8 DEF Sections

\* TextBlock preserves Sections: the sentences of a block are of its section.
LEMMA SectionsTextBlock ==
    ASSUME Sections, TextBlock
    PROVE  Sections'
<1>1. doc' = doc /\ doc \in Documents /\ path' = path /\ at' = at
  BY DEF TextBlock, Sections
<1>2. at \in Bodies /\ Text(at) \in Strings(path) /\ Text(at) # << >>
  BY AtBodies DEF TextBlock
<1>3. /\ Strings(path)' = Strings(path) /\ Placed' = Placed /\ Bodies' = Bodies
      /\ PathOf(at)' = path
  BY <1>1, SectionStays
<1>4. \A S : << >> \in Seq(S)
  BY EmptySeq
<1>5. Pack(Text(at)) \in Seq(Strings(path)) /\ Pack(Text(at)) # << >>
  <2>1. White \in SectionChars(path)
    BY <1>1, SectionCharsAre
  <2> QED BY <1>2, <2>1, PackType DEF Strings
<1>6. <<Text(at)>> \in Seq(Strings(path)) /\ <<Text(at)>> # << >>
  <2> DEFINE t == Text(at)
             D == Strings(path)
  <2>1. t \in D
    BY <1>2
  <2> HIDE DEF t, D
  <2>2. <<t>> \in Seq(D) /\ <<t>> # << >>
    BY <2>1
  <2> QED BY <2>2 DEF t, D
<1>7. remaining' \in Strings(path) /\ subs' \in Seq(Strings(path))
  <2>1. remaining' = Text(at) \/ remaining' = << >>
    BY DEF TextBlock
  <2>2. subs' = <<Text(at)>> \/ subs' = Pack(Text(at)) \/ subs' = << >>
    BY DEF TextBlock
  <2> QED BY <2>1, <2>2, <1>2, <1>4, <1>5, <1>6 DEF Strings
<1>8. /\ pc' \in {"cut", "place"} /\ (pc' # "cut" => remaining' = << >>)
      /\ pc' = "place" => subs' # << >>
  BY <1>5, <1>6 DEF TextBlock
<1>9. /\ overlap' = << >> /\ buf' \in Seq(Strings(path)) /\ chunks' \in Seq(Placed)
      /\ punkt' \in BOOLEAN /\ at' \in 1 .. Len(doc') + 1
  BY <1>1 DEF TextBlock, Sections
<1> QED BY <1>1, <1>2, <1>3, <1>7, <1>8, <1>9 DEF Sections

\* Cut preserves Sections.
LEMMA SectionsCut ==
    ASSUME Sections, Cut
    PROVE  Sections'
<1>1. doc' = doc /\ doc \in Documents /\ path' = path /\ at' = at /\ pc = "cut" /\ pc' = "cut"
  BY DEF Cut, Sections
<1>2. at \in Bodies /\ remaining \in Strings(path) /\ subs \in Seq(Strings(path))
  BY <1>1 DEF Sections
<1>3. /\ Strings(path)' = Strings(path) /\ Placed' = Placed /\ Bodies' = Bodies
      /\ PathOf(at)' = path
  BY <1>1, SectionStays
<1> DEFINE C == SectionChars(path)
           n == CutAt - OverlapChars
<1>4. remaining \in Seq(C)
  BY <1>2 DEF Strings
<1>5. CutAt \in Nat /\ n \in Nat /\ Max({0, CutAt - OverlapChars}) = n /\ CutAt < Len(remaining)
  <2> HIDE DEF C
  <2> QED BY <1>1, <1>4, CutAtIs DEF Cut, Long
<1>6. SubSeq(remaining, 1, CutAt) \in Seq(C)
  BY <1>4, <1>5, PartOfString
<1>7. Strip(SubSeq(remaining, 1, CutAt)) \in Seq(C)
  BY <1>6, StripIs
<1> HIDE DEF n
<1>8. LStrip(From(remaining, n)) \in Seq(C)
  BY <1>4, <1>5, FromIs, LStripIs
<1>9. remaining' \in Strings(path)
  BY <1>5, <1>8 DEF Cut, Strings
<1>10. subs' \in Seq(Strings(path))
  <2> DEFINE D == Strings(path)
             x == Strip(SubSeq(remaining, 1, CutAt))
  <2>1. subs \in Seq(D) /\ x \in D /\ subs' = Append(subs, x)
    BY <1>2, <1>7 DEF Cut, Strings
  <2> HIDE DEF D, x
  <2>2. subs' \in Seq(D)
    BY <2>1, AppendProperties
  <2> QED BY <2>2 DEF D
<1>11. /\ overlap' = << >> /\ buf' \in Seq(Strings(path)) /\ chunks' \in Seq(Placed)
       /\ punkt' \in BOOLEAN /\ at' \in 1 .. Len(doc') + 1
  BY <1>1 DEF Cut, Sections
<1> QED BY <1>1, <1>2, <1>3, <1>9, <1>10, <1>11 DEF Sections

\* CutEnds preserves Sections.
LEMMA SectionsCutEnds ==
    ASSUME Sections, CutEnds
    PROVE  Sections'
<1>1. doc' = doc /\ doc \in Documents /\ path' = path /\ at' = at /\ pc = "cut" /\ pc' = "place"
  BY DEF CutEnds, Sections
<1>2. at \in Bodies /\ remaining \in Strings(path) /\ subs \in Seq(Strings(path))
  BY <1>1 DEF Sections
<1>3. /\ Strings(path)' = Strings(path) /\ Placed' = Placed /\ Bodies' = Bodies
      /\ PathOf(at)' = path
  BY <1>1, SectionStays
<1>4. Strip(remaining) \in Strings(path)
  BY <1>2, StripIs DEF Strings
<1>5. Text(at) \in Strings(path)
  BY <1>2, TextInSection DEF Sections
<1>6. subs' \in Seq(Strings(path)) /\ subs' # << >>
  <2> DEFINE D == Strings(path)
             x == Strip(remaining)
             t == Text(at)
  <2>1. /\ subs \in Seq(D) /\ x \in D /\ t \in D
        /\ subs' = IF x # << >> THEN Append(subs, x)
                   ELSE IF subs = << >> THEN <<t>> ELSE subs
    BY <1>2, <1>4, <1>5 DEF CutEnds
  <2> HIDE DEF D, x, t
  <2>2. Append(subs, x) \in Seq(D) /\ Append(subs, x) # << >>
    BY <2>1, AppendProperties
  <2>3. <<t>> \in Seq(D) /\ <<t>> # << >>
    BY <2>1
  <2>4. subs' \in Seq(D) /\ subs' # << >>
    BY <2>1, <2>2, <2>3
  <2> QED BY <2>4 DEF D
<1>7. /\ overlap' = << >> /\ buf' \in Seq(Strings(path)) /\ chunks' \in Seq(Placed)
      /\ punkt' \in BOOLEAN /\ at' \in 1 .. Len(doc') + 1 /\ remaining' = << >>
  BY <1>1 DEF CutEnds, Sections
<1>8. remaining' \in Strings(path)
  BY <1>7, EmptySeq DEF Strings
<1> QED BY <1>1, <1>2, <1>3, <1>6, <1>7, <1>8 DEF Sections

\* What Place puts in the buffer.
LEMMA PlaceIs ==
    ASSUME Sections, Place
    PROVE  /\ pc = "place" /\ at \in Bodies /\ subs \in Seq(Strings(path)) /\ subs # << >>
           /\ Head(subs) \in Strings(path) /\ Tail(subs) \in Seq(Strings(path))
           /\ subs' = Tail(subs) /\ buf \in Seq(Strings(path))
           /\ Join(buf) \in Strings(path) /\ Carried(Join(buf)) \in Strings(path)
           /\ \/ /\ buf # << >> /\ Projected(Head(subs)) <= MaxChars
                 /\ chunks' = chunks /\ buf' = Append(buf, Head(subs))
              \/ /\ buf = << >> /\ chunks' = chunks /\ buf' = <<Head(subs)>>
              \/ /\ buf # << >> /\ chunks' = Flushed
                 /\ \/ buf' = <<Head(subs)>>
                    \/ buf' = <<Carried(Join(buf)), Head(subs)>>
<1>1. /\ pc = "place" /\ at \in Bodies /\ subs \in Seq(Strings(path)) /\ subs # << >>
      /\ subs' = Tail(subs) /\ overlap = << >> /\ doc \in Documents
      /\ buf \in Seq(Strings(path))
  BY DEF Place, Sections
<1>2. Head(subs) \in Strings(path) /\ Tail(subs) \in Seq(Strings(path))
  <2> DEFINE D == Strings(path)
  <2>1. subs \in Seq(D) /\ subs # << >>
    BY <1>1
  <2> HIDE DEF D
  <2>2. Head(subs) \in D /\ Tail(subs) \in Seq(D)
    BY <2>1, HeadTailProperties
  <2> QED BY <2>2 DEF D
<1>3. Join(buf) \in Strings(path) /\ Carried(Join(buf)) \in Strings(path)
  BY <1>1, BufIs, CarriedIs DEF Strings
<1> DEFINE sub == Head(subs)
           p == Projected(sub)
           carried == Carried(Join(buf))
<1>4. p \in Int
  <2> DEFINE C == SectionChars(path)
  <2>1. White \in C /\ buf \in Seq(Seq(C)) /\ sub \in Seq(C)
    BY <1>1, <1>2, SectionCharsAre DEF Strings
  <2> HIDE DEF C
  <2>2. Len(Padded(buf)) \in Nat /\ Len(sub) \in Nat
    BY <2>1, JoinIs, LenProperties
  <2> QED BY <2>2 DEF Projected
<1>5. CASE buf = << >>
  BY <1>1, <1>2, <1>3, <1>5 DEF Place
<1>6. CASE buf # << >> /\ p > MaxChars
  <2>1. chunks' = Flushed /\ buf' = IF carried = << >> THEN <<sub>> ELSE <<carried, sub>>
    <3> HIDE DEF carried
    <3> QED BY <1>6, Zenon DEF Place, carried
  <2> QED BY <1>1, <1>2, <1>3, <1>6, <2>1
<1>7. CASE buf # << >> /\ ~(p > MaxChars)
  <2>1. chunks' = chunks /\ buf' = Append(buf, sub)
    BY <1>7, Zenon DEF Place
  <2>2. p <= MaxChars
    BY <1>4, <1>7, SizesAssumption
  <2> QED BY <1>1, <1>2, <1>3, <1>7, <2>1, <2>2
<1> QED BY <1>5, <1>6, <1>7

\* Place preserves Sections: the overlap is carried within the section.
LEMMA SectionsPlace ==
    ASSUME Sections, Place
    PROVE  Sections'
<1>1. /\ pc = "place" /\ at \in Bodies /\ subs # << >>
      /\ Head(subs) \in Strings(path) /\ Tail(subs) \in Seq(Strings(path))
      /\ subs' = Tail(subs) /\ buf \in Seq(Strings(path))
      /\ Carried(Join(buf)) \in Strings(path)
  BY PlaceIs
<1>2. doc' = doc /\ doc \in Documents /\ path' = path
  BY DEF Place, Sections
<1>3. buf' \in Seq(Strings(path))
  <2> DEFINE D == Strings(path)
             sub == Head(subs)
             carried == Carried(Join(buf))
  <2>1. sub \in D /\ carried \in D /\ buf \in Seq(D)
    BY <1>1
  <2>2. buf' = Append(buf, sub) \/ buf' = <<sub>> \/ buf' = <<carried, sub>>
    BY PlaceIs
  <2> HIDE DEF D, sub, carried
  <2>3. Append(buf, sub) \in Seq(D) /\ <<sub>> \in Seq(D) /\ <<carried, sub>> \in Seq(D)
    BY <2>1
  <2>4. buf' \in Seq(D)
    BY <2>2, <2>3
  <2> QED BY <2>4 DEF D
<1>4. chunks' \in Seq(Placed)
  <2>1. chunks' = chunks \/ chunks' = Flushed
    BY PlaceIs
  <2> QED BY <2>1, BufIs DEF Sections
<1>5. /\ Strings(path)' = Strings(path) /\ Placed' = Placed /\ Bodies' = Bodies
      /\ PathOf(at)' = path /\ at' \in 1 .. Len(doc') + 1
  <2>1. at' = at \/ at' = at + 1
    BY DEF Place
  <2>2. at \in 1 .. Len(doc) + 1
    BY DEF Sections
  <2> QED BY <1>1, <1>2, <2>1, <2>2, SectionStays
<1>6. /\ pc' \in {"block", "place"} /\ (pc' = "block" => subs' = << >>)
      /\ pc' = "place" => subs' # << >> /\ at' = at
  BY DEF Place
<1>7. overlap' = << >> /\ remaining' = << >> /\ punkt' \in BOOLEAN
  BY <1>1 DEF Place, Sections
<1>8. remaining' \in Strings(path)
  BY <1>7, EmptySeq DEF Strings
<1> QED BY <1>1, <1>2, <1>3, <1>4, <1>5, <1>6, <1>7, <1>8 DEF Sections

\* Finish preserves Sections: only chunks with the same path are merged.
LEMMA SectionsFinish ==
    ASSUME Sections, Finish
    PROVE  Sections'
<1>1. doc' = doc /\ doc \in Documents /\ path' = path /\ at' = at /\ pc = "block" /\ pc' = "done"
  BY DEF Finish, Sections
<1>2. Strings(path)' = Strings(path) /\ Placed' = Placed /\ PathOf(at)' = path
  BY <1>1, SectionStays
<1>3. chunks' \in Seq(Placed)
  BY <1>1, BufIs, MergeTailPlaced DEF Finish
<1>4. /\ overlap' = << >> /\ remaining' = << >> /\ subs' = << >> /\ punkt' \in BOOLEAN
      /\ at' \in 1 .. Len(doc') + 1 /\ remaining' \in Strings(path)
      /\ subs' \in Seq(Strings(path)) /\ buf' \in Seq(Strings(path))
  BY <1>1 DEF Finish, Sections
<1> QED BY <1>1, <1>2, <1>3, <1>4 DEF Sections

\* Every step preserves Sections.
LEMMA SectionsStep == Sections /\ [Next]_vars => Sections'
<1> SUFFICES ASSUME Sections, [Next]_vars PROVE Sections'
  OBVIOUS
<1>1. CASE UNCHANGED vars
  <2>1. doc' = doc /\ path' = path /\ at' = at
    BY <1>1 DEF vars
  <2>2. /\ Strings(path)' = Strings(path) /\ Placed' = Placed /\ Bodies' = Bodies
        /\ PathOf(at)' = path
    BY <2>1, SectionStays
  <2> QED BY <1>1, <2>2 DEF Sections, vars
<1>2. CASE Next
  BY <1>1, <1>2, SectionsHeading, SectionsTable, SectionsTextBlock, SectionsCut,
     SectionsCutEnds, SectionsPlace, SectionsFinish DEF Next, Done
<1> QED BY <1>1, <1>2

\* Sections is an invariant.
LEMMA SectionsHold == Spec => []Sections
<1> QED BY SectionsInit, SectionsStep, PTL DEF Spec

\* Every variable holds what it may hold, in the chunks of any document.
THEOREM ChunkerTypeCorrect == Spec => []TypeOK
<1>1. ASSUME Sections PROVE TypeOK
  <2>1. Strings(path) \subseteq Seq(Alphabet) /\ doc \in Documents
    BY <1>1, SectionCharsAre DEF Sections
  <2>2. remaining \in Seq(Alphabet) /\ overlap \in Seq(Alphabet)
    BY <1>1, <2>1, EmptySeq DEF Sections
  <2>3. Seq(Strings(path)) \subseteq Seq(Seq(Alphabet))
    BY <2>1, SeqMonotone
  <2>4. subs \in Seq(Seq(Alphabet)) /\ buf \in Seq(Seq(Alphabet))
    BY <1>1, <2>3 DEF Sections
  <2>5. IsPath(path)
    <3>1. IsPath(PathOf(at))
      BY <1>1, PathStep DEF Sections
    <3> QED BY <1>1, <3>1 DEF Sections
  <2> DEFINE R == [content : Seq(Alphabet), path : Seq(ToSet(doc)), table : BOOLEAN]
  <2>6. chunks \in Seq(R)
    <3>1. Placed \subseteq R
      BY DEF Placed
    <3> HIDE DEF R
    <3> QED BY <1>1, <3>1, SeqMonotone DEF Sections
  <2>7. \A i \in DOMAIN chunks : IsPath(chunks[i].path)
    <3> SUFFICES ASSUME NEW i \in DOMAIN chunks PROVE IsPath(chunks[i].path)
      OBVIOUS
    <3>1. chunks \in Seq(Placed)
      BY <1>1 DEF Sections
    <3>2. chunks[i] \in Placed
      BY <3>1, ElementOfSeq, LenProperties
    <3> QED BY <3>2 DEF Placed
  <2> QED BY <1>1, <2>2, <2>4, <2>5, <2>6, <2>7 DEF TypeOK, Sections, IsPath
<1> QED BY <1>1, SectionsHold, PTL

\* No text moves to another section: all of a chunk is from under its headings,
\* whatever is carried over and merged.
THEOREM TextStaysInSection == Spec => []Located
<1>1. ASSUME Sections PROVE Located
  <2> SUFFICES ASSUME NEW i \in DOMAIN chunks, NEW char \in Chars(chunks[i].content)
               PROVE  chunks[i].path = PathOf(char[1])
    BY DEF Located
  <2>1. chunks \in Seq(Placed)
    BY <1>1 DEF Sections
  <2>2. chunks[i] \in Placed
    BY <2>1, ElementOfSeq, LenProperties
  <2>3. chunks[i].content \in Seq(SectionChars(chunks[i].path))
    BY <2>2 DEF Placed, Strings
  <2>4. char \in SectionChars(chunks[i].path) \ {White}
    BY <2>3, CharsInAlphabet
  <2> QED BY <2>4 DEF SectionChars
<1> QED BY <1>1, SectionsHold, PTL

-----------------------------------------------------------------------------
(* Cuts.                                                                   *)

\* Every cut of a long block leaves less than there was, so that the hard cut
\* of _split_oversized ends.
THEOREM EveryCutAdvances == Spec => CutsAdvance
<1>1. ASSUME Sections, Cut PROVE Len(remaining') < Len(remaining)
  <2> DEFINE C == SectionChars(path)
             n == CutAt - OverlapChars
             rest == From(remaining, n)
  <2>1. remaining \in Seq(C) /\ doc \in Documents
    BY <1>1 DEF Sections, Strings
  <2> HIDE DEF C
  <2>2. /\ n \in Nat \ {0} /\ Max({0, CutAt - OverlapChars}) = n /\ CutAt \in Nat
        /\ CutAt < Len(remaining) /\ Len(remaining) \in Nat
    BY <1>1, <2>1, CutAtIs DEF Cut, Long
  <2>3. n <= Len(remaining)
    BY <2>2, SizesAssumption
  <2>4. remaining' = LStrip(rest)
    BY <1>1, <2>2 DEF Cut
  <2> HIDE DEF n
  <2>5. rest \in Seq(C) /\ Len(rest) = Len(remaining) - n
    BY <2>1, <2>2, <2>3, FromIs
  <2> HIDE DEF rest
  <2>6. Len(LStrip(rest)) <= Len(rest) /\ LStrip(rest) \in Seq(C)
    BY <2>5, LStripIs
  <2>7. Len(LStrip(rest)) \in Nat
    BY <2>6, LenProperties
  <2> QED BY <2>2, <2>4, <2>5, <2>6, <2>7
<1> DEFINE Advance == pc = "cut" /\ pc' = "cut" => Len(remaining') < Len(remaining)
<1>2. ASSUME Sections, [Next]_vars PROVE [Advance]_vars
  <2>1. CASE Cut
    BY <1>1, <1>2, <2>1
  <2>2. CASE UNCHANGED vars
    BY <2>2
  <2>3. CASE Heading \/ Table \/ TextBlock \/ CutEnds \/ Place \/ Finish
    BY <2>3 DEF Heading, Table, TextBlock, AtBlock, CutEnds, Place, Finish
  <2>4. CASE Done
    BY <2>4 DEF Done
  <2> QED BY <1>2, <2>1, <2>2, <2>3, <2>4 DEF Next
<1> HIDE DEF Advance
<1>3. CutsAdvance <=> [][Advance]_vars
  BY DEF CutsAdvance, Advance
<1> QED BY <1>2, <1>3, SectionsHold, PTL DEF Spec

-----------------------------------------------------------------------------
(* Lengths.                                                                *)

\* What holds past the end of s, and is kept by every next sentence before the
\* ones that are found, holds for all of them.
LEMMA SentencesInduction ==
    ASSUME NEW C, NEW s \in Seq(C), NEW J,
           \A i \in Len(s) + 1 .. Len(s) + 2 : <<(<< >>), i>> \in J,
           \A i \in 1 .. Len(s) : \A m \in i .. Len(s) + 1, rest \in Seq(Seq(C)) :
              (m <= Len(s) => s[m] = White) /\ <<rest, m + 1>> \in J
                 => <<(<<SubSeq(s, i, m - 1)>> \o rest), i>> \in J
    PROVE  <<Sentences(s), 1>> \in J
<1> DEFINE L == Len(s)
<1>1. L \in Nat
  BY LenProperties
<1>2. PICK from : /\ Sentences(s) = from[1]
                  /\ \A i \in 1 .. Len(s) + 2 : from[i] \in Seq(Seq(C))
                  /\ \A i \in Len(s) + 1 .. Len(s) + 2 : from[i] = << >>
                  /\ \A i \in 1 .. Len(s) : Splits(from, s, i)
  BY SentencesIs
<1> DEFINE P == {n \in Nat : \A i \in 1 .. L + 2 : i >= L + 2 - n => <<from[i], i>> \in J}
<1>3. \A i \in L + 1 .. L + 2 : <<from[i], i>> \in J
  <2> SUFFICES ASSUME NEW i \in L + 1 .. L + 2 PROVE <<from[i], i>> \in J
    BY Zenon
  <2>1. from[i] = << >>
    BY <1>2
  <2>2. <<(<< >>), i>> \in J
    OBVIOUS
  <2> QED BY <2>1, <2>2, Zenon
<1>4. 0 \in P
  <2> SUFFICES ASSUME NEW i \in 1 .. L + 2, i >= L + 2 PROVE <<from[i], i>> \in J
    BY <1>1
  <2>1. i \in L + 1 .. L + 2
    BY <1>1
  <2> QED BY <2>1, <1>3, Zenon
<1>5. ASSUME NEW n \in Nat, n \in P PROVE n + 1 \in P
  <2> SUFFICES ASSUME NEW i \in 1 .. L + 2, i >= L + 2 - (n + 1)
               PROVE  <<from[i], i>> \in J
    OBVIOUS
  <2>1. CASE i > L
    <3>1. i \in L + 1 .. L + 2
      BY <1>1, <2>1
    <3> QED BY <3>1, <1>3, Zenon
  <2>2. CASE ~(i > L)
    <3>1. i \in 1 .. L
      BY <1>1, <2>2
    <3>2. PICK m \in i .. L + 1 : /\ m <= L => s[m] = White
                                  /\ from[i] = <<SubSeq(s, i, m - 1)>> \o from[m + 1]
      <4>1. Splits(from, s, i)
        BY <1>2, <3>1
      <4> QED BY <4>1 DEF Splits
    <3>3. m + 1 \in 1 .. L + 2 /\ m + 1 >= L + 2 - n
      BY <1>1, <3>1
    <3>4. <<from[m + 1], m + 1>> \in J
      BY <3>3, <1>5
    <3>5. from[m + 1] \in Seq(Seq(C))
      BY <1>2, <3>3
    <3>6. <<(<<SubSeq(s, i, m - 1)>> \o from[m + 1]), i>> \in J
      BY <3>1, <3>2, <3>4, <3>5, Zenon
    <3> QED BY <3>2, <3>6, Zenon
  <2> QED BY <2>1, <2>2
<1>6. Nat \subseteq P
  <2> HIDE DEF P
  <2> QED BY <1>4, <1>5, Induction
<1>7. <<from[1], 1>> \in J
  <2>1. L + 1 \in Nat /\ 1 \in 1 .. L + 2 /\ 1 >= L + 2 - (L + 1)
    BY <1>1
  <2>2. L + 1 \in P
    <3> HIDE DEF P
    <3> QED BY <2>1, <1>6
  <2> QED BY <2>1, <2>2, Zenon
<1> QED BY <1>2, <1>7, Zenon

\* A sentence is not longer than the text it is in.
LEMMA SentenceLength ==
    ASSUME NEW C, NEW s \in Seq(C), NEW x \in ToSet(Sentences(s))
    PROVE  x \in Seq(C) /\ Len(x) \in Nat /\ Len(x) <= Len(s)
<1> DEFINE W == {y \in Seq(C) : Len(y) <= Len(s)}
           J == Seq(W) \X Nat
<1>1. Len(s) \in Nat
  BY LenProperties
<1>2. \A i \in Len(s) + 1 .. Len(s) + 2 : <<(<< >>), i>> \in J
  <2>1. << >> \in Seq(W)
    BY EmptySeq
  <2> HIDE DEF W
  <2>2. ASSUME NEW i \in Len(s) + 1 .. Len(s) + 2 PROVE i \in Nat
    BY <1>1
  <2> QED BY <2>1, <2>2, Zenon
<1>3. ASSUME NEW i \in 1 .. Len(s), NEW m \in i .. Len(s) + 1, NEW rest, <<rest, m + 1>> \in J
      PROVE  <<(<<SubSeq(s, i, m - 1)>> \o rest), i>> \in J
  <2> DEFINE y == SubSeq(s, i, m - 1)
  <2>1. y \in Seq(C) /\ Len(y) <= Len(s)
    <3>1. i \in Nat \ {0} /\ m - 1 \in Int /\ m - 1 <= Len(s)
      BY <1>1
    <3>2. Len(y) = IF i <= m - 1 THEN m - 1 - i + 1 ELSE 0
      BY <3>1, PartOfString
    <3>3. y \in Seq(C)
      BY <3>1, PartOfString
    <3> HIDE DEF y
    <3>4. Len(y) <= Len(s)
      BY <3>1, <3>2, <1>1
    <3> QED BY <3>3, <3>4
  <2> HIDE DEF y
  <2>2. y \in W
    BY <2>1
  <2> HIDE DEF W
  <2>3. <<y>> \in Seq(W) /\ rest \in Seq(W)
    BY <1>3, <2>2
  <2>4. <<y>> \o rest \in Seq(W)
    BY <2>3, ConcatProperties
  <2>5. i \in Nat
    OBVIOUS
  <2> HIDE DEF y
  <2>6. <<(<<y>> \o rest), i>> \in J
    BY <2>4, <2>5
  <2> QED BY <2>6 DEF y
<1>4. <<Sentences(s), 1>> \in J
  <2> HIDE DEF J
  <2> QED BY <1>2, <1>3, SentencesInduction
<1>5. Sentences(s) \in Seq(W)
  <2> HIDE DEF W
  <2> QED BY <1>4
<1>6. x \in W
  <2> HIDE DEF W
  <2>1. PICK j \in DOMAIN Sentences(s) : x = Sentences(s)[j]
    BY DEF ToSet
  <2>2. j \in 1 .. Len(Sentences(s))
    BY <1>5, LenProperties
  <2> QED BY <1>5, <2>1, <2>2, ElementOfSeq
<1> QED BY <1>6, LenProperties

\* Packed sentences are not longer than max_chars, or than the longest of them
\* after an overlap.
LEMMA PackLength ==
    ASSUME NEW C, White \in C, NEW s \in Seq(C), s # << >>, NEW limit \in Nat,
           MaxChars <= limit,
           \A x \in ToSet(Sentences(s)) : OverlapChars + 1 + Len(x) <= limit
    PROVE  Pack(s) \in Seq({x \in Seq(C) : Len(x) <= limit})
<1> DEFINE W == {x \in Seq(C) : Len(x) <= limit}
           sents == Sentences(s)
           J == [parts : Seq(W), buf : W] \X Nat
<1>1. sents \in Seq(Seq(C)) /\ sents # << >>
  BY SentencesType
<1>2. Len(sents) \in Nat /\ Len(sents) >= 1 /\ \A n \in 1 .. Len(sents) : sents[n] \in Seq(C)
  BY <1>1, LenProperties, EmptySeq, ElementOfSeq
<1>3. \A n \in 1 .. Len(sents) : OverlapChars + 1 + Len(sents[n]) <= limit
  <2> SUFFICES ASSUME NEW n \in 1 .. Len(sents) PROVE OverlapChars + 1 + Len(sents[n]) <= limit
    OBVIOUS
  <2>1. DOMAIN sents = 1 .. Len(sents)
    BY <1>1, LenProperties
  <2>2. sents[n] \in ToSet(sents)
    BY <2>1 DEF ToSet
  <2> QED BY <2>2
<1>4. \A n \in 1 .. Len(sents) : sents[n] \in W
  <2> SUFFICES ASSUME NEW n \in 1 .. Len(sents) PROVE sents[n] \in W
    OBVIOUS
  <2> DEFINE x == sents[n]
  <2>1. x \in Seq(C) /\ OverlapChars + 1 + Len(x) <= limit
    BY <1>2, <1>3
  <2> HIDE DEF x
  <2>2. Len(x) \in Nat
    BY <2>1, LenProperties
  <2>3. x \in W
    BY <2>1, <2>2, SizesAssumption
  <2> QED BY <2>3 DEF x
<1>5. sents = Sentences(s)
  OBVIOUS
<1> HIDE DEF sents, W
<1>6. <<[parts |-> << >>, buf |-> sents[1]], 1>> \in J
  <2>1. sents[1] \in W /\ << >> \in Seq(W)
    BY <1>2, <1>4, EmptySeq
  <2> QED BY <2>1
<1>7. ASSUME NEW n \in 2 .. Len(sents), NEW v \in Packing(C), <<v, n - 1>> \in J
      PROVE  <<PackSentence(v, sents[n]), n>> \in J
  <2> DEFINE sent == sents[n]
             longer == v.buf \o <<White>> \o sent
             tail == LStrip(LastChars(v.buf, OverlapChars))
             after == tail \o <<White>> \o sent
  <2>1. n \in 1 .. Len(sents) /\ n \in Nat
    BY <1>2
  <2>2. sent \in Seq(C) /\ OverlapChars + 1 + Len(sent) <= limit /\ sent \in W
    BY <1>2, <1>3, <1>4, <2>1
  <2>3. v.buf \in Seq(C) /\ v.parts \in Seq(W) /\ v.buf \in W
    BY <1>7 DEF Packing
  <2> HIDE DEF sent
  <2>4. tail \in Seq(C) /\ Len(tail) <= OverlapChars /\ Len(tail) \in Nat
    <3> DEFINE b == v.buf
               m == Max({0, Len(b) - OverlapChars})
    <3>1. b \in Seq(C) /\ Len(b) \in Nat
      BY <2>3, LenProperties
    <3>2. m \in Nat /\ Len(b) - OverlapChars <= m
      <4> HIDE DEF b
      <4>1. Len(b) - OverlapChars \in Int
        BY <3>1, SizesAssumption
      <4> QED BY <4>1, MaxOfTwo
    <3> HIDE DEF m
    <3>3. From(b, m) \in Seq(C) /\ Len(From(b, m)) = IF m <= Len(b) THEN Len(b) - m ELSE 0
      BY <3>1, <3>2, FromIs
    <3> DEFINE f == From(b, m)
    <3>4. tail = LStrip(f)
      BY DEF LastChars, m
    <3> HIDE DEF f, b
    <3>5. f \in Seq(C) /\ Len(f) = IF m <= Len(b) THEN Len(b) - m ELSE 0
      BY <3>3 DEF f
    <3> HIDE DEF tail
    <3>6. Len(f) <= OverlapChars
      BY <3>1, <3>2, <3>5, SizesAssumption
    <3>7. LStrip(f) \in Seq(C) /\ Len(LStrip(f)) <= Len(f)
      BY <3>5, LStripIs
    <3>8. tail \in Seq(C) /\ Len(tail) <= Len(f)
      BY <3>4, <3>7
    <3>9. Len(tail) \in Nat /\ Len(f) \in Nat
      BY <3>8, <3>5, LenProperties
    <3> QED BY <3>6, <3>8, <3>9, SizesAssumption
  <2> HIDE DEF tail
  <2>5. <<White>> \in Seq(C) /\ Len(<<White>>) = 1
    OBVIOUS
  <2>6. after \in Seq(C) /\ Len(after) = Len(tail) + 1 + Len(sent) /\ Len(sent) \in Nat
    <3> DEFINE w == <<White>>
    <3>1. w \in Seq(C) /\ Len(w) = 1
      BY <2>5
    <3> HIDE DEF w
    <3>2. tail \o w \in Seq(C) /\ Len(tail \o w) = Len(tail) + 1
      BY <2>4, <3>1, ConcatIs
    <3>3. (tail \o w) \o sent \in Seq(C) /\ Len((tail \o w) \o sent) = Len(tail \o w) + Len(sent) /\ Len(sent) \in Nat
      BY <2>2, <3>2, ConcatIs
    <3>4. after = (tail \o w) \o sent
      BY DEF w
    <3> HIDE DEF after
    <3> QED BY <3>2, <3>3, <3>4
  <2>7. longer \in Seq(C) /\ Len(longer) \in Nat
    <3>1. longer \in Seq(C)
      BY <2>2, <2>3, <2>5, ConcatProperties
    <3> QED BY <3>1, LenProperties
  <2> HIDE DEF after, longer
  <2>8. after \in W
    <3>1. Len(after) <= limit
      BY <2>2, <2>4, <2>6, SizesAssumption
    <3> QED BY <2>6, <3>1 DEF W
  <2>9. CASE Len(longer) > MaxChars
    <3> DEFINE b == IF tail = << >> THEN sent ELSE after
    <3>1. PackSentence(v, sent) = [parts |-> Append(v.parts, v.buf), buf |-> b]
      BY <2>9, Zenon DEF PackSentence, tail, longer, after
    <3>2. b \in W
      BY <2>2, <2>8
    <3> HIDE DEF b
    <3>3. Append(v.parts, v.buf) \in Seq(W)
      BY <2>3, AppendProperties
    <3>4. [parts |-> Append(v.parts, v.buf), buf |-> b] \in [parts : Seq(W), buf : W]
      BY <3>2, <3>3
    <3>5. PackSentence(v, sent) \in [parts : Seq(W), buf : W]
      BY <3>1, <3>4, Zenon
    <3> QED BY <2>1, <3>5 DEF sent
  <2>10. CASE ~(Len(longer) > MaxChars)
    <3>1. PackSentence(v, sent) = [v EXCEPT !.buf = longer]
      BY <2>10, Zenon DEF PackSentence, longer
    <3>2. longer \in W
      BY <2>7, <2>10, SizesAssumption DEF W
    <3>3. v \in [parts : Seq(W), buf : W]
      BY <1>7
    <3>4. [v EXCEPT !.buf = longer] \in [parts : Seq(W), buf : W]
      BY <3>2, <3>3
    <3>5. PackSentence(v, sent) \in [parts : Seq(W), buf : W]
      BY <3>1, <3>4, Zenon
    <3> QED BY <2>1, <3>5 DEF sent
  <2> QED BY <2>9, <2>10
<1>8. PICK v \in Packing(C) : /\ <<v, Len(sents)>> \in J
                              /\ Pack(s) = Append(v.parts, v.buf)
  <2> HIDE DEF J
  <2>1. \A n \in 2 .. Len(sents), v \in Packing(C) :
           <<v, n - 1>> \in J => <<PackSentence(v, sents[n]), n>> \in J
    BY <1>7, Zenon
  <2> QED BY <1>1, <1>5, <1>6, <2>1, PackInduction
<1>9. v.parts \in Seq(W) /\ v.buf \in W
  BY <1>8
<1>10. Append(v.parts, v.buf) \in Seq(W)
  BY <1>9, AppendProperties
<1> QED BY <1>8, <1>10, Zenon DEF W

\* A document is finite, and so its blocks are not longer than some length.
LEMMA SizesBounded ==
    ASSUME doc \in Documents
    PROVE  \E b \in Nat : \A k \in Bodies : doc[k].size <= b
<1> DEFINE Bounds(n, b) == \A k \in Bodies : k <= n => doc[k].size <= b
           P == {n \in Nat : \E b \in Nat : Bounds(n, b)}
<1>1. \A k \in Bodies : k \in Nat \ {0} /\ k <= Len(doc) /\ doc[k].size \in Nat
  <2> SUFFICES ASSUME NEW k \in Bodies
               PROVE  k \in Nat \ {0} /\ k <= Len(doc) /\ doc[k].size \in Nat
    OBVIOUS
  <2>1. k \in 1 .. Len(doc) /\ Len(doc) \in Nat
    BY DocumentIs DEF Bodies
  <2>2. doc[k].size \in Nat
    BY BlockIs
  <2> QED BY <2>1, <2>2
<1>2. 0 \in P
  <2>1. Bounds(0, 0)
    BY <1>1
  <2> QED BY <2>1
<1>3. ASSUME NEW n \in Nat, n \in P PROVE n + 1 \in P
  <2>1. PICK b \in Nat : Bounds(n, b)
    BY <1>3
  <2>2. CASE n + 1 \in Bodies
    <3> DEFINE c == IF b <= doc[n + 1].size THEN doc[n + 1].size ELSE b
    <3>1. c \in Nat /\ b <= c /\ doc[n + 1].size <= c
      BY <1>1, <2>2
    <3>2. ASSUME NEW k \in Bodies, k <= n + 1 PROVE doc[k].size <= c
      <4>1. CASE k = n + 1
        BY <3>1, <4>1
      <4>2. CASE k # n + 1
        <5>1. k <= n
          BY <1>1, <3>2, <4>2
        <5>2. doc[k].size <= b /\ doc[k].size \in Nat
          BY <1>1, <2>1, <5>1
        <5> HIDE DEF c
        <5> QED BY <3>1, <5>2
      <4> QED BY <4>1, <4>2
    <3> HIDE DEF c
    <3>3. Bounds(n + 1, c)
      BY <3>2
    <3> QED BY <3>1, <3>3
  <2>3. CASE n + 1 \notin Bodies
    <3>1. ASSUME NEW k \in Bodies, k <= n + 1 PROVE doc[k].size <= b
      <4>1. k <= n
        BY <1>1, <2>3, <3>1
      <4> QED BY <2>1, <4>1
    <3>2. Bounds(n + 1, b)
      BY <3>1
    <3> QED BY <3>2
  <2> QED BY <2>2, <2>3
<1>4. Len(doc) \in P
  <2>1. Nat \subseteq P
    <3> HIDE DEF P
    <3> QED BY <1>2, <1>3, Induction
  <2>2. Len(doc) \in Nat
    BY DocumentIs
  <2> QED BY <2>1, <2>2
<1>5. PICK b \in Nat : Bounds(Len(doc), b)
  BY <1>4
<1> QED BY <1>1, <1>5

\* PartLimit is what its name says.
LEMMA PartLimitIs ==
    ASSUME doc \in Documents, punkt \in BOOLEAN
    PROVE  /\ PartLimit \in Nat /\ MaxChars <= PartLimit
           /\ punkt => \A k \in Bodies : \A s \in ToSet(Sentences(Text(k))) :
                          OverlapChars + 1 + Len(s) <= PartLimit
           /\ ~punkt => \A n \in Stretches : MaxChars + n - 1 <= PartLimit
<1>1. PICK b \in Nat : \A k \in Bodies : doc[k].size <= b
  BY SizesBounded
<1> DEFINE Found == UNION {ToSet(Sentences(Text(k))) : k \in Bodies}
           A == {1} \cup Stretches
           B == {0} \cup {Len(s) : s \in Found}
           span == Max(A)
           sentence == Max(B)
<1>2. span \in Nat /\ 1 <= span /\ \A n \in Stretches : n <= span
  <2>1. ASSUME NEW n \in Stretches PROVE n \in Nat /\ n <= b
    <3>1. PICK k \in Bodies : n \in 1 .. doc[k].size
      BY DEF Stretches
    <3>2. doc[k].size \in Nat /\ doc[k].size <= b
      BY <1>1, BlockIs
    <3> QED BY <3>1, <3>2
  <2>2. A \in SUBSET Int /\ A # {} /\ b + 1 \in Int /\ \A y \in A : y <= b + 1 /\ y \in Nat
    BY <2>1
  <2> HIDE DEF A
  <2>3. Max(A) \in A /\ \A y \in A : y <= Max(A)
    BY <2>2, MaxIs
  <2>4. 1 \in A /\ \A n \in Stretches : n \in A
    BY DEF A
  <2> QED BY <2>2, <2>3, <2>4
<1>3. ASSUME NEW k \in Bodies, NEW s \in ToSet(Sentences(Text(k)))
      PROVE  Len(s) \in Nat /\ Len(s) <= b
  <2>1. Text(k) \in Seq(Alphabet) /\ Len(Text(k)) = doc[k].size /\ doc[k].size \in Nat
    BY TextIs
  <2>2. Len(s) \in Nat /\ Len(s) <= Len(Text(k))
    BY <2>1, SentenceLength
  <2>3. doc[k].size <= b
    BY <1>1
  <2> QED BY <2>1, <2>2, <2>3
<1>4. /\ sentence \in Nat
      /\ \A k \in Bodies : \A s \in ToSet(Sentences(Text(k))) : Len(s) <= sentence
  <2>1. ASSUME NEW y \in B PROVE y \in Nat /\ y <= b
    <3>1. CASE y = 0
      BY <3>1
    <3>2. CASE y \in {Len(s) : s \in Found}
      <4>1. PICK s \in Found : y = Len(s)
        BY <3>2
      <4>2. PICK k \in Bodies : s \in ToSet(Sentences(Text(k)))
        OBVIOUS
      <4> QED BY <4>1, <4>2, <1>3
    <3> QED BY <3>1, <3>2
  <2>2. B \in SUBSET Int /\ B # {} /\ \A y \in B : y <= b
    <3>1. 0 \in B
      OBVIOUS
    <3> HIDE DEF B
    <3> QED BY <2>1, <3>1
  <2>3. Max(B) \in B /\ \A y \in B : y <= Max(B)
    <3> HIDE DEF B
    <3> QED BY <2>2, MaxIs
  <2>4. ASSUME NEW k \in Bodies, NEW s \in ToSet(Sentences(Text(k))) PROVE Len(s) \in B
    <3>1. s \in Found
      OBVIOUS
    <3> HIDE DEF Found
    <3> QED BY <3>1
  <2> HIDE DEF B
  <2> QED BY <2>1, <2>3, <2>4
<1>5. PartLimit = IF punkt THEN Max({MaxChars, OverlapChars + 1 + sentence})
                  ELSE MaxChars + span - 1
  BY Zenon DEF PartLimit
<1> HIDE DEF span, sentence, Found, A, B
<1>6. ASSUME punkt
      PROVE  PartLimit \in Nat /\ MaxChars <= PartLimit /\ OverlapChars + 1 + sentence <= PartLimit
  <2>1. OverlapChars + 1 + sentence \in Nat /\ MaxChars \in Nat
    BY <1>4, SizesAssumption
  <2> DEFINE o == OverlapChars + 1 + sentence
  <2>2. o \in Nat
    BY <2>1
  <2>3. PartLimit = Max({MaxChars, o})
    BY <1>5, <1>6
  <2> HIDE DEF o
  <2>4. Max({MaxChars, o}) = IF MaxChars <= o THEN o ELSE MaxChars
    BY <2>1, <2>2, MaxOfTwo
  <2>5. PartLimit \in Nat /\ MaxChars <= PartLimit /\ o <= PartLimit
    BY <2>1, <2>2, <2>3, <2>4
  <2> QED BY <2>5 DEF o
<1>7. ASSUME ~punkt PROVE PartLimit = MaxChars + span - 1
  BY <1>5, <1>7
<1>8. PartLimit \in Nat /\ MaxChars <= PartLimit
  <2>1. CASE punkt
    BY <1>6, <2>1
  <2>2. CASE ~punkt
    BY <1>2, <1>7, <2>2, SizesAssumption
  <2> QED BY <2>1, <2>2
<1>9. ASSUME punkt, NEW k \in Bodies, NEW s \in ToSet(Sentences(Text(k)))
      PROVE  OverlapChars + 1 + Len(s) <= PartLimit
  <2>1. Len(s) \in Nat /\ Len(s) <= sentence
    BY <1>3, <1>4
  <2> DEFINE l == Len(s)
  <2> HIDE DEF l
  <2>2. l \in Nat /\ l <= sentence
    BY <2>1 DEF l
  <2>3. OverlapChars + 1 + l <= PartLimit
    BY <1>4, <1>6, <1>9, <2>2, SizesAssumption
  <2> QED BY <2>3 DEF l
<1>10. ASSUME ~punkt, NEW n \in Stretches PROVE MaxChars + n - 1 <= PartLimit
  <2>1. n \in Nat /\ n <= span
    <3>1. PICK k \in Bodies : n \in 1 .. doc[k].size
      BY DEF Stretches
    <3>2. doc[k].size \in Nat
      BY BlockIs
    <3> QED BY <1>2, <3>1, <3>2
  <2> QED BY <1>2, <1>7, <1>10, <2>1, SizesAssumption
<1> QED BY <1>8, <1>9, <1>10

\* s is what is left of block k.
LeftOf(k, s) ==
    /\ s \in Seq(Alphabet) /\ Len(s) <= doc[k].size
    /\ \A i \in DOMAIN s : s[i] = Text(k)[doc[k].size - Len(s) + i]

\* Personal data that is found in what is left of a block is that of the block,
\* at the same place: characters are told apart.
LEMMA SpanPlace ==
    ASSUME doc \in Documents, NEW k \in Bodies, NEW s, LeftOf(k, s),
           NEW span \in Spans(s), NEW c \in Nat, span[1] < c, c < span[2]
    PROVE  \E q \in doc[k].pii : q[1] <= doc[k].size - Len(s) + c
                                 /\ doc[k].size - Len(s) + c < q[2]
<1>1. s \in Seq(Alphabet) /\ Len(s) <= doc[k].size
  BY DEF LeftOf
<1>2. PICK t \in Secrets, n \in 1 .. Len(s) :
         span = <<n - 1, n - 1 + Len(t)>> /\ OccursAt(s, t, n)
  BY <1>1, SpansAre
<1>3. PICK h \in Bodies : \E q \in doc[h].pii :
         /\ q[1] \in 1 .. doc[h].size /\ q[2] \in 1 .. doc[h].size
         /\ t = SubSeq(Text(h), q[1], q[2])
  BY SecretsAre
<1>4. PICK q \in doc[h].pii :
         /\ q[1] \in 1 .. doc[h].size /\ q[2] \in 1 .. doc[h].size
         /\ t = SubSeq(Text(h), q[1], q[2])
  BY <1>3
<1> DEFINE a == q[1]
           b == q[2]
           off == doc[k].size - Len(s)
           l == Len(t)
<1>5. /\ doc[k].size \in Nat /\ doc[h].size \in Nat /\ Len(s) \in Nat
      /\ a \in 1 .. doc[h].size /\ b \in 1 .. doc[h].size /\ off \in Nat
  BY <1>1, <1>4, BlockIs, LenProperties
<1>6. /\ l = IF a <= b THEN b - a + 1 ELSE 0
      /\ \A i \in 1 .. b - a + 1 : t[i] = Text(h)[a + i - 1]
  <2>1. Text(h) \in Seq(Alphabet) /\ Len(Text(h)) = doc[h].size
    BY TextIs
  <2>2. a \in Nat \ {0} /\ b \in Int /\ b <= Len(Text(h))
    BY <1>5, <2>1
  <2> HIDE DEF a, b
  <2>3. /\ Len(SubSeq(Text(h), a, b)) = IF a <= b THEN b - a + 1 ELSE 0
        /\ \A i \in 1 .. b - a + 1 : SubSeq(Text(h), a, b)[i] = Text(h)[a + i - 1]
    BY <2>1, <2>2, PartOfString
  <2>4. t = SubSeq(Text(h), a, b)
    BY <1>4 DEF a, b
  <2> QED BY <2>3, <2>4
<1>7. n - 1 < c /\ c < n - 1 + l /\ n \in Nat /\ n >= 1
  <2>1. span[1] = n - 1 /\ span[2] = n - 1 + l
    BY <1>2
  <2> QED BY <2>1, <1>5
<1>8. n + l - 1 <= Len(s) /\ SubSeq(s, n, n + l - 1) = t
  BY <1>2 DEF OccursAt
<1> HIDE DEF a, b, l
<1>9. a + 1 <= b /\ l = b - a + 1 /\ 2 <= l
  BY <1>5, <1>6, <1>7
<1>10. \A i \in 1 .. l : t[i] = s[n + i - 1]
  <2>1. n \in Nat \ {0} /\ n + l - 1 \in Int
    BY <1>5, <1>7, <1>9
  <2>2. \A i \in 1 .. (n + l - 1) - n + 1 : SubSeq(s, n, n + l - 1)[i] = s[n + i - 1]
    BY <1>1, <1>8, <2>1, PartOfString
  <2>3. (n + l - 1) - n + 1 = l
    BY <2>1, <1>5, <1>9
  <2> QED BY <1>8, <2>2, <2>3
<1>11. PICK i \in 1 .. 2 : a + i - 1 \notin doc[h].gaps
  <2>1. a \in doc[h].gaps => a + 1 \notin doc[h].gaps
    BY BlockIs
  <2>2. a + 1 - 1 = a /\ a + 2 - 1 = a + 1
    BY <1>5
  <2> QED BY <2>1, <2>2
<1>12. t[i] = <<h, a + i - 1>> /\ t[i] # White
  <2>1. a + i - 1 \in 1 .. doc[h].size /\ i \in 1 .. b - a + 1
    BY <1>5, <1>9
  <2>2. a + i - 1 \in Ink(Text(h))
    BY <1>11, <2>1, TextIs
  <2>3. Text(h)[a + i - 1] = <<h, a + i - 1>>
    BY <2>2, TextIs
  <2>4. White # <<h, a + i - 1>>
    BY <2>1, BlockIs
  <2> QED BY <1>6, <2>1, <2>3, <2>4
<1>13. t[i] = <<k, off + (n + i - 1)>>
  <2>1. i \in 1 .. l /\ n + i - 1 \in 1 .. Len(s)
    BY <1>5, <1>7, <1>8, <1>9
  <2>2. t[i] = s[n + i - 1]
    BY <1>10, <2>1
  <2>3. s[n + i - 1] = Text(k)[off + (n + i - 1)]
    <3>1. n + i - 1 \in DOMAIN s
      BY <1>1, <2>1, LenProperties
    <3> QED BY <3>1 DEF LeftOf
  <2>4. off + (n + i - 1) \in 1 .. doc[k].size
    <3> DEFINE b2 == Len(s)
               j == n + i - 1
    <3>1. b2 \in Nat /\ off + b2 = doc[k].size /\ j \in 1 .. b2 /\ off \in Nat
      BY <1>5, <2>1
    <3> HIDE DEF b2, j, off
    <3>2. off + j \in 1 .. doc[k].size
      BY <3>1
    <3> QED BY <3>2 DEF j
  <2>5. Text(k)[off + (n + i - 1)] \in {White, <<k, off + (n + i - 1)>>}
    BY <2>4, TextIs
  <2> QED BY <1>12, <2>2, <2>3, <2>5
<1>14. h = k /\ a = off + n
  <2>1. <<h, a + i - 1>> = <<k, off + (n + i - 1)>>
    BY <1>12, <1>13
  <2>2. h = k /\ a + i - 1 = off + (n + i - 1)
    BY <2>1
  <2> HIDE DEF off
  <2> QED BY <2>2, <1>5, <1>7
<1> HIDE DEF off
<1>15. a <= off + c /\ off + c < b
  BY <1>5, <1>7, <1>9, <1>14
<1> QED BY <1>4, <1>14, <1>15 DEF a, b, off

\* A cut goes past one stretch of personal data at most.
LEMMA CutLength ==
    ASSUME doc \in Documents, punkt = FALSE, NEW k \in Bodies, LeftOf(k, remaining),
           MaxChars <= Len(remaining)
    PROVE  CutAt <= PartLimit
<1>1. remaining \in Seq(Alphabet) /\ Len(remaining) <= doc[k].size
  BY DEF LeftOf
<1>2. /\ CutAt \in Nat /\ MaxChars <= CutAt /\ Len(remaining) \in Nat
      /\ CutAt <= Len(remaining)
      /\ \A c \in MaxChars .. CutAt - 1 :
            \E span \in Spans(remaining) : span[1] < c /\ c < span[2]
  BY <1>1, CutAtIs
<1>3. /\ PartLimit \in Nat /\ MaxChars <= PartLimit
      /\ \A n \in Stretches : MaxChars + n - 1 <= PartLimit
  BY PartLimitIs
<1>4. doc[k].size \in Nat /\ MaxChars \in Nat \ {0}
  BY BlockIs, SizesAssumption
<1> DEFINE l == Len(remaining)
           cut == CutAt
           z == doc[k].size
           off == z - l
           n == cut - MaxChars + 1
           a == off + MaxChars
           inside(j) == \E q \in doc[k].pii : q[1] <= j /\ j < q[2]
<1>n. /\ l \in Nat /\ cut \in Nat /\ z \in Nat /\ MaxChars \in Nat \ {0}
      /\ l <= z /\ MaxChars <= cut /\ cut <= l
  BY <1>1, <1>2, <1>4
<1>s. \A c \in MaxChars .. cut - 1 :
         \E span \in Spans(remaining) : span[1] < c /\ c < span[2]
  BY <1>2
<1>p. \A c \in Nat : \A span \in Spans(remaining) :
         span[1] < c /\ c < span[2] =>
            \E q \in doc[k].pii : q[1] <= off + c /\ off + c < q[2]
  BY SpanPlace
<1> HIDE DEF l, cut, z, inside
<1>5. ASSUME NEW i \in a .. a + n - 2 PROVE inside(i)
  <2> DEFINE c == i - off
  <2>1. c \in MaxChars .. cut - 1
    BY <1>n
  <2>2. c \in Nat /\ off + c = i
    BY <1>n
  <2> HIDE DEF c, off
  <2>3. PICK span \in Spans(remaining) : span[1] < c /\ c < span[2]
    BY <1>s, <2>1
  <2>4. \E q \in doc[k].pii : q[1] <= off + c /\ off + c < q[2]
    BY <1>p, <2>2, <2>3
  <2> QED BY <2>2, <2>4 DEF inside
<1>6. n \in 1 .. z /\ a \in 1 .. z - n + 1
  BY <1>n
<1>7. n \in Stretches
  <2> HIDE DEF a, n
  <2>1. n \in {m \in 1 .. z : \E x \in 1 .. z - m + 1 :
                  \A i \in x .. x + m - 2 : inside(i)}
    BY <1>5, <1>6
  <2> QED BY <2>1 DEF Stretches, z, inside
<1>8. MaxChars + n - 1 <= PartLimit
  BY <1>3, <1>7
<1>9. cut <= PartLimit
  BY <1>n, <1>3, <1>8
<1> QED BY <1>9 DEF cut

\* What may be a part of a block, and what may be a chunk before a tail is
\* merged into it.
Parts == {x \in Seq(Alphabet) : Len(x) <= PartLimit}
\* What may be a chunk before a tail is merged into it.
Bounded ==
    {c \in Placed : c.table \/ Len(c.content) <= PartLimit + OverlapChars + 2}

\* All chunks are so.
AllBounded == chunks \in Seq(Bounded)

\* The inductive invariant of SizeBound: a part is at most as long as PartLimit,
\* the buffer exceeds it by an overlap and its blank lines, and what remains of a
\* block that is cut is its end, so that personal data is where the block has it.
Lengths ==
    /\ subs \in Seq(Parts)
    /\ buf # << >> => Len(Padded(buf)) <= PartLimit + OverlapChars + 4
    /\ pc = "cut" => /\ punkt = FALSE
                     /\ LeftOf(at, remaining)
                     /\ subs = << >> => remaining = Text(at)
    /\ pc # "done" => AllBounded
    /\ SizeBound

\* The bounds do not change with the loop.
LEMMA LengthsStable ==
    ASSUME doc' = doc, punkt' = punkt
    PROVE  /\ PartLimit' = PartLimit /\ Parts' = Parts /\ Bounded' = Bounded
           /\ at' = at => LeftOf(at, remaining)' = LeftOf(at, remaining')
<1>1. PartLimit' = PartLimit
  BY SMT DEF Text, PartLimit, Bodies, Stretches, Sentences
<1>2. Placed' = Placed /\ Alphabet' = Alphabet
  BY SectionsStable
<1>3. Parts' = Parts
  BY <1>1, <1>2 DEF Parts
<1>4. Bounded' = Bounded
  BY <1>1, <1>2 DEF Bounded
<1>5. ASSUME at' = at PROVE LeftOf(at, remaining)' = LeftOf(at, remaining')
  BY <1>2, <1>5 DEF LeftOf, Text
<1> QED BY <1>1, <1>3, <1>4, <1>5

\* What is left of a block is its end.
LEMMA RestOf ==
    ASSUME doc \in Documents, NEW k \in Bodies, NEW s, LeftOf(k, s)
    PROVE  /\ \A n \in Nat : n <= Len(s) => LeftOf(k, From(s, n))
           /\ LeftOf(k, LStrip(s))
<1>1. /\ s \in Seq(Alphabet) /\ Len(s) <= doc[k].size /\ Len(s) \in Nat /\ DOMAIN s = 1 .. Len(s)
      /\ doc[k].size \in Nat
  BY BlockIs, LenProperties DEF LeftOf
<1>2. ASSUME NEW a \in 1 .. Len(s) + 1 PROVE LeftOf(k, SubSeq(s, a, Len(s)))
  <2> DEFINE r == SubSeq(s, a, Len(s))
             b == Len(s)
             z == doc[k].size
  <2>1. a \in Nat \ {0} /\ b \in Int /\ b <= Len(s)
    BY <1>1
  <2>2. /\ r \in Seq(Alphabet) /\ Len(r) = IF a <= b THEN b - a + 1 ELSE 0
        /\ \A i \in 1 .. b - a + 1 : r[i] = s[a + i - 1]
    <3> HIDE DEF b
    <3>1. /\ SubSeq(s, a, b) \in Seq(Alphabet)
          /\ Len(SubSeq(s, a, b)) = IF a <= b THEN b - a + 1 ELSE 0
          /\ \A i \in 1 .. b - a + 1 : SubSeq(s, a, b)[i] = s[a + i - 1]
      BY <1>1, <2>1, PartOfString
    <3> QED BY <3>1 DEF b
  <2>3. DOMAIN r = 1 .. Len(r)
    BY <2>2, LenProperties
  <2> HIDE DEF r
  <2>4. b \in Nat /\ b <= z /\ z \in Nat /\ a \in 1 .. b + 1
        /\ \A i \in 1 .. b : s[i] = Text(k)[z - b + i]
    BY <1>1 DEF LeftOf
  <2> HIDE DEF b, z
  <2>5. Len(r) = b - a + 1
    BY <2>2, <2>4
  <2>6. ASSUME NEW i \in 1 .. Len(r) PROVE r[i] = Text(k)[z - Len(r) + i]
    <3>1. i \in 1 .. b - a + 1 /\ a + i - 1 \in 1 .. b /\ z - b + (a + i - 1) = z - Len(r) + i
      BY <2>4, <2>5
    <3>2. r[i] = s[a + i - 1]
      BY <2>2, <3>1
    <3>3. s[a + i - 1] = Text(k)[z - b + (a + i - 1)]
      BY <2>4, <3>1
    <3> QED BY <3>1, <3>2, <3>3
  <2>7. Len(r) <= z
    BY <2>4, <2>5
  <2>8. LeftOf(k, r)
    BY <2>2, <2>3, <2>6, <2>7 DEF LeftOf, z
  <2> QED BY <2>8 DEF r
<1>3. ASSUME NEW n \in Nat, n <= Len(s) PROVE LeftOf(k, From(s, n))
  <2>1. n + 1 \in 1 .. Len(s) + 1
    BY <1>1, <1>3
  <2> QED BY <1>2, <2>1 DEF From
<1>4. LeftOf(k, LStrip(s))
  <2>1. CASE Ink(s) = {}
    <3>1. LStrip(s) = << >>
      BY <2>1 DEF LStrip
    <3>2. << >> \in Seq(Alphabet) /\ Len(<< >>) = 0 /\ DOMAIN << >> = {}
      BY EmptySeq
    <3> QED BY <1>1, <3>1, <3>2 DEF LeftOf
  <2>2. CASE Ink(s) # {}
    <3>1. Min(Ink(s)) \in Ink(s) /\ Ink(s) \subseteq 1 .. Len(s)
      BY <1>1, <2>2, InkIs
    <3>2. Min(Ink(s)) \in 1 .. Len(s) + 1
      BY <1>1, <3>1
    <3> QED BY <1>2, <2>2, <3>2 DEF LStrip
  <2> QED BY <2>1, <2>2
<1> QED BY <1>3, <1>4

\* At first all of a block is left.
LEMMA WholeIsLeft ==
    ASSUME doc \in Documents, NEW k \in Bodies
    PROVE  LeftOf(k, Text(k))
<1>1. /\ Text(k) \in Seq(Alphabet) /\ Len(Text(k)) = doc[k].size /\ doc[k].size \in Nat
      /\ DOMAIN Text(k) = 1 .. doc[k].size
  BY TextIs
<1>2. ASSUME NEW i \in DOMAIN Text(k)
      PROVE  Text(k)[i] = Text(k)[doc[k].size - Len(Text(k)) + i]
  <2>1. doc[k].size - Len(Text(k)) + i = i
    BY <1>1
  <2> QED BY <2>1
<1> QED BY <1>1, <1>2 DEF LeftOf

\* A flush leaves the chunks bounded: the blank lines that pad the buffer are
\* stripped.
LEMMA FlushedBounded ==
    ASSUME Sections, Lengths, pc # "done"
    PROVE  Flushed \in Seq(Bounded)
<1>1. chunks \in Seq(Bounded)
  BY DEF Lengths, AllBounded
<1>2. ASSUME Join(buf) # << >> PROVE Chunk(Join(buf), FALSE) \in Bounded
  <2>1. White \in SectionChars(path) /\ buf \in Seq(Seq(SectionChars(path)))
    BY SectionCharsAre DEF Sections, Strings
  <2>2. buf # << >>
    BY <1>2, <2>1, JoinIs
  <2>3. Len(Join(buf)) <= Len(Padded(buf)) - 2 /\ Len(Padded(buf)) \in Nat /\ Len(Join(buf)) \in Nat
    BY <2>1, <2>2, JoinIs
  <2>4. Len(Padded(buf)) <= PartLimit + OverlapChars + 4 /\ PartLimit \in Nat
    BY <2>2, PartLimitIs DEF Lengths, Sections
  <2>5. Len(Join(buf)) <= PartLimit + OverlapChars + 2
    <3> DEFINE j == Len(Join(buf))
               p == Len(Padded(buf))
    <3>1. j \in Nat /\ p \in Nat /\ j <= p - 2 /\ p <= PartLimit + OverlapChars + 4
      BY <2>3, <2>4
    <3> HIDE DEF j, p
    <3>2. j <= PartLimit + OverlapChars + 2
      BY <3>1, <2>4, SizesAssumption
    <3> QED BY <3>2 DEF j
  <2>6. Chunk(Join(buf), FALSE) \in Placed
    BY BufIs, ChunkPlaced
  <2>7. Chunk(Join(buf), FALSE).content = Join(buf)
    BY DEF Chunk
  <2> QED BY <2>5, <2>6, <2>7 DEF Bounded
<1> QED BY <1>1, <1>2, AppendProperties DEF Flushed

\* Chunks that are bounded meet SizeBound.
LEMMA BoundedMeansSizes ==
    Sections /\ AllBounded => SizeBound
<1> SUFFICES ASSUME Sections, chunks \in Seq(Bounded) PROVE SizeBound
  BY DEF AllBounded
<1> SUFFICES ASSUME NEW i \in DOMAIN chunks, ~chunks[i].table
             PROVE  Len(chunks[i].content) <= PartLimit + OverlapChars + 2
                      + IF pc = "done" /\ i = Len(chunks) THEN MinChars + 1 ELSE 0
  BY DEF SizeBound
<1>1. chunks[i] \in Bounded
  BY ElementOfSeq, LenProperties
<1> DEFINE l == Len(chunks[i].content)
           x == IF pc = "done" /\ i = Len(chunks) THEN MinChars + 1 ELSE 0
<1>2. l <= PartLimit + OverlapChars + 2
  BY <1>1 DEF Bounded
<1>3. l \in Nat
  <2>1. chunks[i].content \in Seq(Alphabet)
    BY <1>1 DEF Bounded, Placed
  <2> QED BY <2>1, LenProperties
<1>4. PartLimit \in Nat /\ x \in Nat
  BY PartLimitIs, SizesAssumption DEF Sections
<1> HIDE DEF l, x
<1>5. l <= PartLimit + OverlapChars + 2 + x
  BY <1>2, <1>3, <1>4, SizesAssumption
<1> QED BY <1>5 DEF l, x

\* Lengths holds at the start.
LEMMA LengthsInit == Init => Lengths
<1> SUFFICES ASSUME Init PROVE Lengths
  OBVIOUS
<1>1. Sections
  BY SectionsInit
<1>2. subs \in Seq(Parts) /\ chunks \in Seq(Bounded)
  BY EmptySeq DEF Init
<1>3. SizeBound
  BY <1>1, <1>2, BoundedMeansSizes DEF AllBounded
<1> QED BY <1>2, <1>3 DEF Init, Lengths, AllBounded

\* A step that leaves the chunks bounded and does not end.
LEMMA LengthsOf ==
    ASSUME Sections', doc' = doc, punkt' = punkt, pc' # "done",
           subs' \in Seq(Parts), chunks' \in Seq(Bounded),
           buf' # << >> => Len(Padded(buf')) <= PartLimit + OverlapChars + 4,
           pc' = "cut" => /\ at' = at /\ punkt = FALSE /\ LeftOf(at, remaining')
                          /\ subs' = << >> => remaining' = Text(at)
    PROVE  Lengths'
<1>1. PartLimit' = PartLimit /\ Parts' = Parts /\ Bounded' = Bounded
      /\ (at' = at => LeftOf(at, remaining)' = LeftOf(at, remaining'))
  BY LengthsStable
<1>2. SizeBound'
  <2>1. AllBounded'
    BY <1>1 DEF AllBounded
  <2> QED BY <2>1, BoundedMeansSizes, PTL
<1>3. at' = at => Text(at)' = Text(at)
  BY DEF Text
<1> QED BY <1>1, <1>2, <1>3 DEF Lengths, AllBounded

\* The parts that TextBlock makes.
LEMMA PartsOfText ==
    ASSUME Sections, NEW k \in Bodies
    PROVE  /\ Len(Text(k)) <= MaxChars => Text(k) \in Parts
           /\ punkt => Pack(Text(k)) \in Seq(Parts)
<1>1. Text(k) \in Seq(Alphabet) /\ White \in Alphabet /\ doc \in Documents
      /\ Len(Text(k)) \in Nat
  BY TextIs, LenProperties DEF Sections
<1>2. PartLimit \in Nat /\ MaxChars <= PartLimit
  BY PartLimitIs DEF Sections
<1>3. ASSUME Len(Text(k)) <= MaxChars PROVE Text(k) \in Parts
  <2> DEFINE l == Len(Text(k))
  <2>1. l \in Nat /\ l <= MaxChars
    BY <1>1, <1>3
  <2> HIDE DEF l
  <2>2. l <= PartLimit
    BY <1>2, <2>1, SizesAssumption
  <2> QED BY <1>1, <2>2 DEF Parts, l
<1>4. ASSUME punkt PROVE Pack(Text(k)) \in Seq(Parts)
  <2>1. \A x \in ToSet(Sentences(Text(k))) : OverlapChars + 1 + Len(x) <= PartLimit
    BY <1>4, PartLimitIs DEF Sections
  <2>2. Text(k) # << >>
    BY TextInSection DEF Sections
  <2> QED BY <1>1, <1>2, <2>1, <2>2, PackLength DEF Parts
<1> QED BY <1>3, <1>4

\* TextBlock preserves Lengths.
LEMMA LengthsTextBlock ==
    ASSUME Sections, Lengths, Sections', TextBlock
    PROVE  Lengths'
<1>1. at \in Bodies /\ pc = "block"
  BY AtBodies DEF TextBlock
<1>2. doc' = doc /\ punkt' = punkt /\ at' = at /\ pc' # "done" /\ buf' = buf
  BY DEF TextBlock
<1>3. Len(Text(at)) \in Nat /\ MaxChars \in Nat /\ punkt \in BOOLEAN
  BY <1>1, TextIs, LenProperties, SizesAssumption DEF Sections
<1>4. subs' \in Seq(Parts)
  <2>1. << >> \in Seq(Parts)
    BY EmptySeq
  <2>2. CASE Len(Text(at)) > MaxChars
    BY <2>1, <2>2, <1>1, PartsOfText DEF TextBlock
  <2>3. CASE ~(Len(Text(at)) > MaxChars)
    <3>1. Text(at) \in Parts
      BY <1>1, <1>3, <2>3, PartsOfText
    <3>2. subs' = <<Text(at)>>
      BY <2>3 DEF TextBlock
    <3> DEFINE t == Text(at)
    <3> HIDE DEF t
    <3>3. <<t>> \in Seq(Parts)
      BY <3>1 DEF t
    <3> QED BY <3>2, <3>3 DEF t
  <2> QED BY <2>2, <2>3
<1>5. chunks' \in Seq(Bounded) /\ (buf' # << >> => Len(Padded(buf')) <= PartLimit + OverlapChars + 4)
  BY <1>1 DEF TextBlock, Lengths, AllBounded
<1>6. ASSUME pc' = "cut" PROVE punkt = FALSE /\ LeftOf(at, remaining') /\ remaining' = Text(at)
  <2>1. ~punkt /\ remaining' = Text(at)
    BY <1>6 DEF TextBlock
  <2> QED BY <1>1, <1>3, <2>1, WholeIsLeft DEF Sections
<1> QED BY <1>2, <1>4, <1>5, <1>6, LengthsOf

\* Heading and Table preserve Lengths.
LEMMA LengthsSection ==
    ASSUME Sections, Lengths, Sections', Heading \/ Table
    PROVE  Lengths'
<1>1. /\ doc' = doc /\ punkt' = punkt /\ pc' = "block" /\ pc = "block" /\ buf' = << >>
      /\ subs' = subs
  BY DEF Heading, Table, AtBlock
<1>2. subs' \in Seq(Parts)
  BY <1>1 DEF Lengths
<1>3. Flushed \in Seq(Bounded)
  BY <1>1, FlushedBounded
<1>4. chunks' \in Seq(Bounded)
  <2>1. CASE Heading
    BY <1>3, <2>1 DEF Heading
  <2>2. CASE Table
    <3> DEFINE c == Chunk(Strip(Text(at)), TRUE)
    <3>1. Text(at) \in Strings(path)
      BY <2>2, AtBodies DEF Table
    <3>2. Strip(Text(at)) \in Strings(path)
      BY <3>1, StripIs DEF Strings
    <3>3. c \in Placed
      BY <3>2, ChunkPlaced
    <3>4. c.table = TRUE
      BY DEF Chunk
    <3>5. chunks' = Append(Flushed, c)
      BY <2>2 DEF Table
    <3> HIDE DEF c
    <3>6. c \in Bounded
      BY <3>3, <3>4 DEF Bounded
    <3> QED BY <1>3, <3>5, <3>6, AppendProperties
  <2> QED BY <2>1, <2>2
<1> QED BY <1>1, <1>2, <1>4, LengthsOf

\* Cut preserves Lengths: a cut passes one stretch of personal data at most.
LEMMA LengthsCut ==
    ASSUME Sections, Lengths, Sections', Cut
    PROVE  Lengths'
<1>1. /\ doc' = doc /\ punkt' = punkt /\ pc' = "cut" /\ pc = "cut" /\ buf' = buf
      /\ chunks' = chunks /\ at' = at
  BY DEF Cut
<1>2. /\ at \in Bodies /\ doc \in Documents /\ punkt = FALSE /\ LeftOf(at, remaining)
      /\ remaining \in Seq(Alphabet)
  BY <1>1 DEF Sections, Lengths, LeftOf
<1>3. /\ Len(remaining) \in Nat /\ CutAt \in Nat /\ MaxChars <= Len(remaining)
      /\ CutAt < Len(remaining)
      /\ CutAt - OverlapChars \in Nat
      /\ Max({0, CutAt - OverlapChars}) = CutAt - OverlapChars
  <2>1. Len(remaining) > MaxChars /\ CutAt < Len(remaining)
    BY DEF Cut, Long
  <2>2. /\ Len(remaining) \in Nat /\ CutAt \in Nat
        /\ CutAt - OverlapChars \in Nat
        /\ Max({0, CutAt - OverlapChars}) = CutAt - OverlapChars
    BY <1>2, CutAtIs
  <2>3. MaxChars <= Len(remaining)
    BY <2>1, <2>2, SizesAssumption
  <2> QED BY <2>1, <2>2, <2>3
<1> DEFINE part == Strip(SubSeq(remaining, 1, CutAt))
<1>4. part \in Parts
  <2> DEFINE x == SubSeq(remaining, 1, CutAt)
  <2>1. x \in Seq(Alphabet) /\ Len(x) = IF 1 <= CutAt THEN CutAt - 1 + 1 ELSE 0
    <3>1. CutAt \in Int /\ CutAt <= Len(remaining) /\ 1 \in Nat \ {0}
      BY <1>3
    <3> QED BY <1>2, <3>1, PartOfString
  <2>2. CutAt <= PartLimit
    BY <1>2, <1>3, CutLength
  <2>3. PartLimit \in Nat
    BY PartLimitIs DEF Sections
  <2> HIDE DEF x
  <2>4. Len(x) <= PartLimit /\ Len(x) \in Nat
    BY <1>3, <2>1, <2>2, <2>3
  <2>5. Strip(x) \in Seq(Alphabet) /\ Len(Strip(x)) <= Len(x)
    BY <2>1, StripIs
  <2>6. Len(Strip(x)) \in Nat
    BY <2>5, LenProperties
  <2>7. Len(Strip(x)) <= PartLimit
    BY <2>3, <2>4, <2>5, <2>6
  <2> QED BY <2>5, <2>7 DEF x, Parts
<1>5. subs' = Append(subs, part) /\ subs \in Seq(Parts)
  BY DEF Cut, Lengths
<1> HIDE DEF part
<1>6. subs' \in Seq(Parts) /\ subs' # << >>
  BY <1>4, <1>5, AppendProperties
<1>7. LeftOf(at, remaining')
  <2> DEFINE n == CutAt - OverlapChars
  <2>1. n \in Nat /\ n <= Len(remaining)
    BY <1>3, SizesAssumption
  <2>2. remaining' = LStrip(From(remaining, n))
    BY <1>3 DEF Cut
  <2> HIDE DEF n
  <2>3. LeftOf(at, From(remaining, n))
    BY <1>2, <2>1, RestOf
  <2> QED BY <1>2, <2>2, <2>3, RestOf
<1>8. /\ chunks' \in Seq(Bounded)
      /\ (buf' # << >> => Len(Padded(buf')) <= PartLimit + OverlapChars + 4)
  BY <1>1 DEF Lengths, AllBounded
<1> QED BY <1>1, <1>2, <1>6, <1>7, <1>8, LengthsOf

\* CutEnds preserves Lengths: the last part ends before the next possible cut.
LEMMA LengthsCutEnds ==
    ASSUME Sections, Lengths, Sections', CutEnds
    PROVE  Lengths'
<1>1. /\ doc' = doc /\ punkt' = punkt /\ pc' = "place" /\ pc = "cut" /\ buf' = buf
      /\ chunks' = chunks /\ at' = at
  BY DEF CutEnds
<1>2. /\ at \in Bodies /\ doc \in Documents /\ punkt = FALSE /\ LeftOf(at, remaining)
      /\ remaining \in Seq(Alphabet)
  BY <1>1 DEF Sections, Lengths, LeftOf
<1>3. Len(remaining) \in Nat /\ CutAt \in Nat
  BY <1>2, CutAtIs
<1>4. PartLimit \in Nat /\ MaxChars <= PartLimit
  BY PartLimitIs DEF Sections
<1>5. Len(remaining) <= PartLimit
  <2>1. CASE Len(remaining) <= MaxChars
    BY <1>3, <1>4, <2>1, SizesAssumption
  <2>2. CASE ~(Len(remaining) <= MaxChars)
    <3>1. MaxChars <= Len(remaining) /\ Len(remaining) <= CutAt
      BY <1>3, <2>2, SizesAssumption DEF CutEnds, Long
    <3>2. CutAt <= PartLimit
      BY <1>2, <3>1, CutLength
    <3> QED BY <1>3, <1>4, <3>1, <3>2
  <2> QED BY <2>1, <2>2
<1> DEFINE x == Strip(remaining)
<1>6. x \in Parts
  <2>1. x \in Seq(Alphabet) /\ Len(x) <= Len(remaining)
    BY <1>2, StripIs
  <2>2. Len(x) \in Nat
    BY <2>1, LenProperties
  <2> HIDE DEF x
  <2> QED BY <1>3, <1>4, <1>5, <2>1, <2>2 DEF Parts
<1>7. ASSUME x = << >> PROVE subs # << >>
  <2> SUFFICES ASSUME subs = << >> PROVE FALSE
    OBVIOUS
  <2>1. remaining = Text(at)
    BY <1>1 DEF Lengths
  <2> QED BY <1>2, <1>7, <2>1, TextHasInk
<1>8. subs' = Append(subs, x) \/ subs' = subs
  BY <1>7 DEF CutEnds
<1>9. subs' \in Seq(Parts)
  <2>1. subs \in Seq(Parts)
    BY DEF Lengths
  <2> HIDE DEF x
  <2> QED BY <1>6, <1>8, <2>1, AppendProperties
<1>10. /\ chunks' \in Seq(Bounded)
       /\ (buf' # << >> => Len(Padded(buf')) <= PartLimit + OverlapChars + 4)
  BY <1>1 DEF Lengths, AllBounded
<1> QED BY <1>1, <1>9, <1>10, LengthsOf

\* Place preserves Lengths: the buffer is flushed when a part does not fit, and
\* is then an overlap and a part.
LEMMA LengthsPlace ==
    ASSUME Sections, Lengths, Sections', Place
    PROVE  Lengths'
<1>1. doc' = doc /\ punkt' = punkt /\ pc = "place" /\ pc' # "done" /\ pc' # "cut"
  BY DEF Place
<1> DEFINE sub == Head(subs)
           D == Seq(SectionChars(path))
           carried == Carried(Join(buf))
<1>2. /\ subs # << >> /\ subs' = Tail(subs) /\ sub \in D /\ buf \in Seq(D)
      /\ Join(buf) \in D
      /\ \/ /\ buf # << >> /\ Projected(sub) <= MaxChars
            /\ chunks' = chunks /\ buf' = Append(buf, sub)
         \/ /\ buf = << >> /\ chunks' = chunks /\ buf' = <<sub>>
         \/ /\ buf # << >> /\ chunks' = Flushed
            /\ buf' = <<sub>> \/ buf' = <<carried, sub>>
  BY PlaceIs DEF Strings
<1>3. White \in SectionChars(path) /\ doc \in Documents
  BY SectionCharsAre DEF Sections
<1>4. PartLimit \in Nat /\ MaxChars <= PartLimit
  BY PartLimitIs DEF Sections
<1>5. sub \in Parts /\ Tail(subs) \in Seq(Parts)
  BY <1>2, HeadTailProperties DEF Lengths
<1>6. Len(sub) \in Nat /\ Len(sub) <= PartLimit
  BY <1>5, LenProperties DEF Parts
<1>7. carried \in D /\ Len(carried) \in Nat /\ Len(carried) <= OverlapChars
  BY <1>2, <1>3, CarriedIs
<1> HIDE DEF sub, carried, D
<1>8. buf' # << >> => Len(Padded(buf')) <= PartLimit + OverlapChars + 4
  <2>1. ASSUME buf' = <<sub>> PROVE Len(Padded(buf')) = Len(sub) + 2
    BY <1>2, <1>3, <2>1, PaddedOne DEF D
  <2>2. ASSUME buf' = <<carried, sub>> PROVE Len(Padded(buf')) = Len(carried) + Len(sub) + 4
    BY <1>2, <1>3, <1>7, <2>2, PaddedTwo DEF D
  <2>3. ASSUME buf' = Append(buf, sub), Projected(sub) <= MaxChars
        PROVE  Len(Padded(buf')) <= MaxChars + 2 /\ Len(Padded(buf')) \in Nat
    <3> DEFINE p == Len(Padded(buf))
               q == Len(Padded(Append(buf, sub)))
    <3>1. p \in Nat /\ q = p + Len(sub) + 2
      BY <1>2, <1>3, PaddedStep DEF D
    <3>2. p + Len(sub) <= MaxChars
      BY <2>3 DEF Projected
    <3> HIDE DEF p, q
    <3>3. q <= MaxChars + 2 /\ q \in Nat
      BY <1>6, <3>1, <3>2, SizesAssumption
    <3> QED BY <2>3, <3>3 DEF q
  <2> DEFINE r == Len(Padded(buf'))
             l == Len(sub)
             o == Len(carried)
  <2>4. r = l + 2 \/ r = o + l + 4 \/ (r <= MaxChars + 2 /\ r \in Nat)
    BY <1>2, <2>1, <2>2, <2>3
  <2>5. l \in Nat /\ l <= PartLimit /\ o \in Nat /\ o <= OverlapChars
    BY <1>6, <1>7
  <2> HIDE DEF r, l, o
  <2>6. r <= PartLimit + OverlapChars + 4
    BY <1>4, <2>4, <2>5, SizesAssumption
  <2> QED BY <2>6 DEF r
<1>9. chunks' \in Seq(Bounded)
  <2>1. Flushed \in Seq(Bounded) /\ chunks \in Seq(Bounded)
    BY <1>1, FlushedBounded DEF Lengths, AllBounded
  <2> QED BY <1>2, <2>1
<1> QED BY <1>1, <1>2, <1>5, <1>8, <1>9, LengthsOf

\* Finish preserves Lengths: a tail that is merged is shorter than min_chars.
LEMMA LengthsFinish ==
    ASSUME Sections, Lengths, Sections', Finish
    PROVE  Lengths'
<1>1. /\ doc' = doc /\ punkt' = punkt /\ pc = "block" /\ pc' = "done" /\ buf' = buf
      /\ subs' = subs /\ chunks' = MergeTail(Flushed)
  BY DEF Finish
<1>2. PartLimit' = PartLimit /\ Parts' = Parts /\ Bounded' = Bounded
  BY <1>1, LengthsStable
<1> DEFINE found == Flushed
           n == Len(found)
           B == PartLimit + OverlapChars + 2
<1>3. found \in Seq(Bounded) /\ n \in Nat
  <2>1. found \in Seq(Bounded)
    BY <1>1, FlushedBounded
  <2> QED BY <2>1, LenProperties
<1>4. PartLimit \in Nat /\ B \in Nat /\ MinChars \in Nat
  <2>1. PartLimit \in Nat
    BY PartLimitIs DEF Sections
  <2> QED BY <2>1, SizesAssumption
<1> HIDE DEF found, B
<1>5. \A i \in 1 .. n : /\ found[i].table \/ Len(found[i].content) <= B
                        /\ found[i].content \in Seq(Alphabet)
                        /\ found[i].table \in BOOLEAN
  <2> SUFFICES ASSUME NEW i \in 1 .. n
               PROVE  /\ found[i].table \/ Len(found[i].content) <= B
                      /\ found[i].content \in Seq(Alphabet)
                      /\ found[i].table \in BOOLEAN
    OBVIOUS
  <2>1. found[i] \in Bounded
    BY <1>3, ElementOfSeq
  <2> QED BY <2>1 DEF Bounded, Placed, B
<1> DEFINE small == /\ n >= 2 /\ Len(found[n].content) < MinChars
                    /\ found[n].path = found[n - 1].path
           text == found[n - 1].content \o <<White, White>> \o found[n].content
           c == [content |-> text, path |-> found[n - 1].path,
                 table |-> found[n - 1].table \/ found[n].table]
           merged == MergeTail(found)
           Fits(i) == merged[i].table \/ Len(merged[i].content) <= B
                        + IF i = Len(merged) THEN MinChars + 1 ELSE 0
<1>6. \A i \in DOMAIN merged : Fits(i)
  <2>1. CASE ~small
    <3>1. merged = found
      BY <2>1, Zenon DEF MergeTail
    <3> HIDE DEF merged
    <3> SUFFICES ASSUME NEW i \in 1 .. n PROVE Fits(i)
      BY <1>3, <3>1, LenProperties
    <3> DEFINE l == Len(found[i].content)
    <3>2. l \in Nat /\ (found[i].table \/ l <= B)
      BY <1>5, LenProperties
    <3> HIDE DEF l, n
    <3> DEFINE e == IF i = Len(merged) THEN MinChars + 1 ELSE 0
    <3>3. e \in Nat
      BY <1>4
    <3> HIDE DEF e
    <3>4. found[i].table \/ l <= B + e
      BY <1>4, <3>2, <3>3
    <3> QED BY <3>1, <3>4 DEF l, e
  <2>2. CASE small
    <3>1. merged = Append(SubSeq(found, 1, n - 2), c)
      BY <2>2, Zenon DEF MergeTail
    <3> DEFINE first == SubSeq(found, 1, n - 2)
    <3>2. first \in Seq(Bounded) /\ Len(first) = n - 2 /\ \A i \in 1 .. n - 2 : first[i] = found[i]
      <4>1. n - 2 \in Nat /\ n - 2 <= n
        BY <1>3, <2>2
      <4> DEFINE m == n - 2
      <4>2. m \in Nat /\ m <= Len(found)
        BY <4>1
      <4> HIDE DEF m
      <4>3. /\ SubSeq(found, 1, m) \in Seq(Bounded)
            /\ Len(SubSeq(found, 1, m)) = IF 1 <= m THEN m - 1 + 1 ELSE 0
            /\ \A i \in 1 .. m - 1 + 1 : SubSeq(found, 1, m)[i] = found[1 + i - 1]
        <5>1. 1 \in Nat \ {0} /\ m \in Int
          BY <4>2
        <5> QED BY <1>3, <4>2, <5>1, PartOfString
      <4>4. m - 1 + 1 = m /\ (~(1 <= m) => m = 0) /\ \A i \in 1 .. m : 1 + i - 1 = i
        BY <4>2
      <4>5. /\ SubSeq(found, 1, m) \in Seq(Bounded) /\ Len(SubSeq(found, 1, m)) = m
            /\ \A i \in 1 .. m : SubSeq(found, 1, m)[i] = found[i]
        BY <4>3, <4>4
      <4> QED BY <4>5 DEF m
    <3> HIDE DEF first, c, merged
    <3>3. /\ Len(merged) = n - 2 + 1 /\ DOMAIN merged = 1 .. n - 2 + 1
          /\ merged[n - 2 + 1] = c
          /\ \A i \in 1 .. n - 2 : merged[i] = found[i]
      <4> DEFINE U == Bounded \cup {c}
      <4>1. first \in Seq(U) /\ c \in U
        BY <3>2, SeqMonotone
      <4> HIDE DEF U
      <4>2. /\ Append(first, c) \in Seq(U)
            /\ Len(Append(first, c)) = Len(first) + 1
            /\ \A i \in 1 .. Len(first) : Append(first, c)[i] = first[i]
            /\ Append(first, c)[Len(first) + 1] = c
        BY <4>1, AppendProperties
      <4>3. merged = Append(first, c)
        BY <3>1 DEF first
      <4>4. merged \in Seq(U) /\ Len(merged) = n - 2 + 1
        BY <3>2, <4>2, <4>3
      <4>5. DOMAIN merged = 1 .. n - 2 + 1
        BY <4>4, LenProperties
      <4> QED BY <3>2, <4>2, <4>3, <4>4, <4>5
    <3>4. ASSUME NEW i \in 1 .. n - 2 PROVE Fits(i)
      <4>1. i \in 1 .. n /\ i # n - 2 + 1 /\ B + 0 = B
        BY <1>3, <1>4, <2>2
      <4> HIDE DEF n
      <4> QED BY <1>5, <3>3, <4>1
    <3>5. Fits(n - 2 + 1)
      <4> SUFFICES ASSUME ~c.table PROVE Len(c.content) <= B + (MinChars + 1)
        BY <3>3
      <4>1. n \in 1 .. n /\ n - 1 \in 1 .. n
        BY <1>3, <2>2
      <4> DEFINE x == found[n - 1].content
                 y == found[n].content
      <4>2. /\ x \in Seq(Alphabet) /\ y \in Seq(Alphabet)
            /\ found[n - 1].table \/ Len(x) <= B
            /\ found[n - 1].table \in BOOLEAN
        BY <1>5, <4>1
      <4>3. ~found[n - 1].table /\ c.content = text
        BY DEF c
      <4>4. Len(y) < MinChars
        BY <2>2
      <4>5. text = x \o <<White, White>> \o y
        OBVIOUS
      <4> HIDE DEF x, y, text, n
      <4>6. Len(text) = Len(x) + 2 + Len(y) /\ Len(x) \in Nat /\ Len(y) \in Nat
        <5>1. White \in Alphabet
          BY DEF Alphabet
        <5>2. x \o Blank \in Seq(Alphabet) /\ Len(x \o Blank) = Len(x) + 2 /\ Len(x) \in Nat
          BY <4>2, <5>1, BlankAfter
        <5>3. Len((x \o Blank) \o y) = Len(x \o Blank) + Len(y) /\ Len(y) \in Nat
          BY <4>2, <5>2, ConcatIs
        <5>4. text = (x \o Blank) \o y
          BY <4>5 DEF Blank
        <5> QED BY <5>2, <5>3, <5>4
      <4>7. Len(text) <= B + (MinChars + 1)
        BY <1>4, <4>2, <4>3, <4>4, <4>6
      <4> QED BY <4>3, <4>7
    <3> SUFFICES ASSUME NEW i \in 1 .. n - 2 + 1 PROVE Fits(i)
      BY <3>3
    <3>6. i \in 1 .. n - 2 \/ i = n - 2 + 1
      BY <1>3, <2>2
    <3> HIDE DEF n
    <3> QED BY <3>4, <3>5, <3>6
  <2> QED BY <2>1, <2>2
<1>7. SizeBound'
  <2>1. chunks' = merged
    BY <1>1 DEF found
  <2> HIDE DEF merged
  <2>2. \A i \in DOMAIN chunks' : \/ chunks'[i].table
           \/ Len(chunks'[i].content) <= PartLimit' + OverlapChars + 2
                + IF pc' = "done" /\ i = Len(chunks') THEN MinChars + 1 ELSE 0
    BY <1>1, <1>2, <1>6, <2>1 DEF B
  <2> QED BY <2>2 DEF SizeBound
<1>8. subs' \in Seq(Parts')
  BY <1>1, <1>2 DEF Lengths
<1>9. buf' # << >> => Len(Padded(buf')) <= PartLimit' + OverlapChars + 4
  BY <1>1, <1>2 DEF Lengths
<1> QED BY <1>1, <1>7, <1>8, <1>9 DEF Lengths

\* Every step preserves Lengths.
LEMMA LengthsStep == Sections /\ Sections' /\ Lengths /\ [Next]_vars => Lengths'
<1> SUFFICES ASSUME Sections, Sections', Lengths, [Next]_vars PROVE Lengths'
  OBVIOUS
<1>1. CASE UNCHANGED vars
  <2>1. PartLimit' = PartLimit /\ Parts' = Parts /\ Bounded' = Bounded
        /\ LeftOf(at, remaining)' = LeftOf(at, remaining')
    BY <1>1, LengthsStable DEF vars
  <2>2. SizeBound' = SizeBound /\ Text(at)' = Text(at)
    BY <1>1, <2>1 DEF SizeBound, vars, Text
  <2> QED BY <1>1, <2>1, <2>2 DEF Lengths, AllBounded, vars
<1>2. CASE Next
  BY <1>1, <1>2, LengthsSection, LengthsTextBlock, LengthsCut, LengthsCutEnds,
     LengthsPlace, LengthsFinish DEF Next, Done
<1> QED BY <1>1, <1>2

\* A chunk of text exceeds the longest part by an overlap and a blank line at
\* most, and the last one by a merged tail, for any sizes and any document.
THEOREM ChunkSizesBounded == Spec => []SizeBound
<1>1. Lengths => SizeBound
  BY DEF Lengths
<1> QED BY <1>1, LengthsInit, LengthsStep, SectionsHold, PTL DEF Spec

-----------------------------------------------------------------------------
(* The ancestors of a block.                                               *)

\* The characters of the document are those of its blocks.
LEMMA AlphabetIs ==
    ASSUME doc \in Documents, NEW char \in Alphabet \ {White}
    PROVE  \E k \in Bodies : /\ char \in Chars(Text(k)) /\ char[1] = k
                             /\ \E j \in Ink(Text(k)) : char = <<k, j>>
<1>1. PICK k \in Bodies : char \in Chars(Text(k))
  BY DEF Alphabet
<1>2. PICK j \in Ink(Text(k)) : char = Text(k)[j]
  BY <1>1 DEF Chars
<1>3. char = <<k, j>>
  BY <1>2, TextIs
<1> QED BY <1>1, <1>3

\* The path p is f, the open headings at block k, the i-th one of level i, and
\* as deep as the last heading.
Hierarchy(p, k, f) ==
    /\ f \in [DOMAIN p -> Open(k)]
    /\ \A i, n \in DOMAIN p : i < n => f[i] < f[n]
    /\ \A n \in Open(k) : \E i \in DOMAIN p : f[i] = n
    /\ \A i \in DOMAIN p : p[i] = doc[f[i]] /\ doc[f[i]].level = i
    /\ \A h \in Headings :
          h < k /\ (\A g \in Headings : ~(h < g /\ g < k)) => doc[h].level = Len(p)
    /\ (\A h \in Headings : ~(h < k)) => p = << >>

\* Headings have a level from 1 to 6.
LEMMA HeadingsAre ==
    ASSUME doc \in Documents, NEW h \in Headings
    PROVE  h \in 1 .. Len(doc) /\ Len(doc) \in Nat /\ doc[h].level \in 1 .. 6
           /\ doc[h].kind = "heading"
<1>1. h \in DOMAIN doc /\ doc[h].kind = "heading"
  BY DEF Headings
<1> QED BY <1>1, DocumentIs

\* A document that skips no level has no heading deeper than the path and one.
LEMMA NextLevel ==
    ASSUME doc \in Documents, SkipsNoLevel, NEW k \in Headings, NEW p, NEW f,
           Hierarchy(p, k, f), Len(p) \in Nat
    PROVE  doc[k].level <= Len(p) + 1
<1> DEFINE before == {n \in Headings : n < k}
<1>1. doc[k].level <= IF before = {} THEN 1 ELSE doc[Max(before)].level + 1
  BY DEF SkipsNoLevel
<1>2. CASE before = {}
  <2>1. p = << >>
    BY <1>2 DEF Hierarchy
  <2>2. Len(p) = 0
    BY <2>1
  <2> QED BY <1>1, <1>2, <2>2
<1>3. CASE before # {}
  <2>1. before \in SUBSET Int /\ k \in Int /\ \A y \in before : y <= k
    BY HeadingsAre
  <2>2. Max(before) \in before /\ \A y \in before : y <= Max(before)
    <3> HIDE DEF before
    <3> QED BY <1>3, <2>1, MaxIs
  <2> DEFINE h == Max(before)
  <2>3. h \in Headings /\ h < k
    BY <2>2
  <2>4. \A g \in Headings : ~(h < g /\ g < k)
    <3> SUFFICES ASSUME NEW g \in Headings, h < g, g < k PROVE FALSE
      OBVIOUS
    <3>1. g \in before
      BY Zenon
    <3>2. g <= h
      BY <2>2, <3>1
    <3>3. g \in Int /\ h \in Int
      BY <2>3, HeadingsAre
    <3> HIDE DEF h
    <3> QED BY <3>2, <3>3
  <2>5. doc[h].level = Len(p)
    <3> HIDE DEF h
    <3> QED BY <2>3, <2>4, Zenon DEF Hierarchy
  <2> QED BY <1>1, <1>3, <2>5
<1> QED BY <1>2, <1>3

\* The path remains the hierarchy of the open headings, at every block.
LEMMA HierarchyStep ==
    ASSUME doc \in Documents, SkipsNoLevel, NEW k \in 1 .. Len(doc), NEW p, NEW f,
           p \in Seq(ToSet(doc)), Hierarchy(p, k, f)
    PROVE  LET q == IF doc[k].kind = "heading" THEN Under(p, doc[k]) ELSE p
           IN  \E g : Hierarchy(q, k + 1, g)
<1>1. Len(p) \in Nat /\ DOMAIN p = 1 .. Len(p) /\ Len(doc) \in Nat /\ k \in DOMAIN doc
  BY DocumentIs, LenProperties
<1>2. \A h \in Headings : h \in Int /\ h \in 1 .. Len(doc)
  BY HeadingsAre
<1>3. CASE doc[k].kind # "heading"
  <2>1. k \notin Headings
    BY <1>3 DEF Headings
  <2>2. \A h \in Headings : h < k + 1 <=> h < k
    BY <1>2, <2>1
  <2>3. Open(k + 1) = Open(k)
    BY <2>2 DEF Open
  <2>4. Hierarchy(p, k + 1, f)
    BY <2>2, <2>3 DEF Hierarchy
  <2> QED BY <1>3, <2>4
<1>4. CASE doc[k].kind = "heading"
  <2> DEFINE l == doc[k].level
             q == Under(p, doc[k])
             g == [i \in 1 .. l |-> IF i < l THEN f[i] ELSE k]
  <2>1. k \in Headings /\ l \in 1 .. 6
    BY <1>1, <1>4, DocumentIs DEF Headings
  <2>2. l <= Len(p) + 1
    BY <1>1, <2>1, NextLevel
  <2>3. /\ q \in Seq(ToSet(doc)) /\ Len(q) = l /\ q[l] = doc[k]
        /\ \A i \in 1 .. l - 1 : q[i] = p[i]
    <3> DEFINE m == IF doc[k].level - 1 <= Len(p) THEN doc[k].level - 1 ELSE Len(p)
    <3>1. /\ q \in Seq(ToSet(doc)) /\ Len(q) = m + 1 /\ q[m + 1] = doc[k]
          /\ \A i \in 1 .. m : q[i] = p[i]
      BY <1>1, <1>4, UnderIs
    <3>2. m = l - 1 /\ m + 1 = l
      BY <1>1, <2>1, <2>2
    <3> HIDE DEF m, q, l
    <3> QED BY <3>1, <3>2
  <2> HIDE DEF q
  <2>4. DOMAIN q = 1 .. l
    BY <2>3, LenProperties
  <2>5. \A h \in Headings : h < k + 1 <=> h < k \/ h = k
    BY <1>2
  <2>6. \A n \in Open(k) : n \in Headings /\ n < k /\ n \in Int
    BY <1>2 DEF Open
  <2>7. \A i \in 1 .. l - 1 : i \in DOMAIN p /\ f[i] \in Open(k) /\ doc[f[i]].level = i
                              /\ p[i] = doc[f[i]]
    <3>1. \A i \in 1 .. l - 1 : i \in DOMAIN p
      BY <1>1, <2>1, <2>2
    <3> QED BY <3>1, Zenon DEF Hierarchy
  <2>8. \A n : n \in Open(k + 1) <=> n = k \/ (n \in Open(k) /\ l > doc[n].level)
    <3>1. k \in Open(k + 1)
      BY <1>2, <2>1 DEF Open
    <3>2. ASSUME NEW n, n \in Open(k + 1), n # k PROVE n \in Open(k) /\ l > doc[n].level
      <4>1. n \in Headings /\ n < k
        BY <2>5, <3>2 DEF Open
      <4>2. \A m \in Headings : n < m /\ m < k => doc[m].level > doc[n].level
        BY <2>5, <3>2 DEF Open
      <4>3. doc[k].level > doc[n].level
        BY <2>1, <2>5, <3>2, <4>1 DEF Open
      <4> QED BY <4>1, <4>2, <4>3 DEF Open
    <3>3. ASSUME NEW n \in Open(k), l > doc[n].level PROVE n \in Open(k + 1)
      <4>1. n \in Headings /\ n < k + 1
        BY <2>5, <2>6
      <4>2. ASSUME NEW m \in Headings, n < m, m < k + 1 PROVE doc[m].level > doc[n].level
        <5>1. CASE m = k
          BY <3>3, <5>1
        <5>2. CASE m < k
          BY <4>2, <5>2 DEF Open
        <5> QED BY <2>5, <4>2, <5>1, <5>2
      <4> QED BY <4>1, <4>2 DEF Open
    <3> QED BY <3>1, <3>2, <3>3
  <2> HIDE DEF l
  <2>9. l \in 1 .. 6
    BY <2>1 DEF l
  <2>10. ASSUME NEW i \in 1 .. l - 1 PROVE f[i] \in Open(k + 1)
    <3>1. f[i] \in Open(k) /\ doc[f[i]].level = i
      BY <2>7
    <3>2. l > i
      BY <2>9
    <3> QED BY <2>8, <3>1, <3>2
  <2>11. \A i \in 1 .. l : (i < l => i \in 1 .. l - 1) /\ (~(i < l) => i = l)
    BY <2>9
  <2>12. \A i \in 1 .. l : g[i] = IF i < l THEN f[i] ELSE k
    OBVIOUS
  <2>13. g \in [1 .. l -> Open(k + 1)]
    <3>1. k \in Open(k + 1)
      BY <2>8
    <3> SUFFICES ASSUME NEW i \in 1 .. l PROVE (IF i < l THEN f[i] ELSE k) \in Open(k + 1)
      BY Zenon
    <3> QED BY <2>10, <2>11, <3>1
  <2> HIDE DEF g
  <2>14. ASSUME NEW i \in 1 .. l, NEW n \in 1 .. l, i < n PROVE g[i] < g[n]
    <3>1. i < l /\ i \in 1 .. l - 1 /\ g[i] = f[i]
      BY <2>9, <2>12, <2>14
    <3>2. CASE n < l
      <4>1. n \in 1 .. l - 1 /\ g[n] = f[n]
        BY <2>11, <2>12, <3>2
      <4>2. i \in DOMAIN p /\ n \in DOMAIN p
        BY <2>7, <3>1, <4>1
      <4>3. f[i] < f[n]
        BY <2>14, <4>2 DEF Hierarchy
      <4> QED BY <3>1, <4>1, <4>3
    <3>3. CASE ~(n < l)
      <4>1. g[n] = k
        BY <2>12, <3>3
      <4>2. f[i] < k
        BY <2>6, <2>7, <3>1
      <4> QED BY <3>1, <4>1, <4>2
    <3> QED BY <3>2, <3>3
  <2>15. ASSUME NEW n \in Open(k + 1) PROVE \E i \in 1 .. l : g[i] = n
    <3>1. CASE n = k
      <4>1. l \in 1 .. l /\ ~(l < l)
        BY <2>9
      <4> QED BY <2>12, <3>1, <4>1
    <3>2. CASE n # k
      <4>1. n \in Open(k) /\ l > doc[n].level
        BY <2>8, <3>2
      <4>2. PICK i \in DOMAIN p : f[i] = n
        BY <4>1 DEF Hierarchy
      <4>3. doc[n].level = i
        BY <4>2 DEF Hierarchy
      <4>4. i \in 1 .. l /\ i < l
        BY <1>1, <2>9, <4>1, <4>2, <4>3
      <4> QED BY <2>12, <4>2, <4>4
    <3> QED BY <3>1, <3>2
  <2>16. ASSUME NEW i \in 1 .. l PROVE q[i] = doc[g[i]] /\ doc[g[i]].level = i
    <3>1. CASE i < l
      <4>1. i \in 1 .. l - 1 /\ g[i] = f[i]
        BY <2>11, <2>12, <3>1
      <4> QED BY <2>3, <2>7, <4>1
    <3>2. CASE ~(i < l)
      <4>1. i = l /\ g[i] = k
        BY <2>11, <2>12, <3>2
      <4> QED BY <2>3, <4>1 DEF l
    <3> QED BY <3>1, <3>2
  <2>17. ASSUME NEW h \in Headings, h < k + 1,
                \A x \in Headings : ~(h < x /\ x < k + 1)
         PROVE  doc[h].level = Len(q)
    <3>1. k < k + 1
      OBVIOUS
    <3>2. h = k
      BY <2>1, <2>5, <2>17, <3>1
    <3> QED BY <2>3, <3>2 DEF l
  <2>18. ~(\A h \in Headings : ~(h < k + 1))
    BY <2>1
  <2>19. Hierarchy(q, k + 1, g)
    BY <2>4, <2>13, <2>14, <2>15, <2>16, <2>17, <2>18, Zenon DEF Hierarchy
  <2> QED BY <1>4, <2>19 DEF q
<1> QED BY <1>3, <1>4

\* The path of a block is the hierarchy of the headings above it.
LEMMA PathIsAncestry ==
    ASSUME doc \in Documents, SkipsNoLevel, NEW k \in 1 .. Len(doc) + 1
    PROVE  IsAncestry(PathOf(k), k)
<1> DEFINE P == {n \in Nat : n \in 1 .. Len(doc) + 1 => \E f : Hierarchy(PathOf(n), n, f)}
<1>1. Len(doc) \in Nat
  BY DocumentIs
<1>2. \A h \in Headings : h \in 1 .. Len(doc)
  BY HeadingsAre
<1>3. 0 \in P
  BY <1>1
<1>4. ASSUME NEW n \in Nat, n \in P PROVE n + 1 \in P
  <2> SUFFICES ASSUME n + 1 \in 1 .. Len(doc) + 1
               PROVE  \E f : Hierarchy(PathOf(n + 1), n + 1, f)
    OBVIOUS
  <2>1. CASE n = 0
    <3>1. PathOf(n + 1) = << >> /\ n + 1 = 1
      BY <2>1, PathStep
    <3>2. Open(1) = {}
      BY <1>2 DEF Open
    <3>3. Hierarchy(<< >>, 1, << >>)
      <4>1. DOMAIN << >> = {} /\ << >> \in [{} -> {}]
        OBVIOUS
      <4>2. \A h \in Headings : ~(h < 1)
        BY <1>2
      <4> QED BY <3>2, <4>1, <4>2 DEF Hierarchy
    <3> QED BY <3>1, <3>3
  <2>2. CASE n # 0
    <3>1. n \in 1 .. Len(doc) /\ n \in 1 .. Len(doc) + 1
      BY <1>1, <2>2
    <3>2. PICK f : Hierarchy(PathOf(n), n, f)
      BY <1>4, <3>1
    <3>3. PathOf(n) \in Seq(ToSet(doc))
      BY <3>1, PathStep DEF IsPath
    <3> DEFINE q == IF doc[n].kind = "heading" THEN Under(PathOf(n), doc[n]) ELSE PathOf(n)
    <3>4. \E g : Hierarchy(q, n + 1, g)
      BY <3>1, <3>2, <3>3, HierarchyStep
    <3>5. PathOf(n + 1) = q
      BY <3>1, PathStep
    <3> HIDE DEF q
    <3> QED BY <3>4, <3>5
  <2> QED BY <2>1, <2>2
<1>5. PICK f : Hierarchy(PathOf(k), k, f)
  <2>1. Nat \subseteq P
    <3> HIDE DEF P
    <3> QED BY <1>3, <1>4, Induction
  <2>2. k \in P
    BY <1>1, <2>1
  <2> QED BY <2>2
<1> DEFINE p == PathOf(k)
<1>6. p = [i \in DOMAIN p |-> doc[f[i]]]
  <2>1. p \in Seq(ToSet(doc))
    BY PathStep DEF IsPath
  <2>2. p = [i \in DOMAIN p |-> p[i]]
    <3> HIDE DEF p
    <3> QED BY <2>1, LenProperties
  <2>3. \A i \in DOMAIN p : p[i] = doc[f[i]]
    BY <1>5 DEF Hierarchy
  <2> HIDE DEF p
  <2> QED BY <2>2, <2>3
<1>7. /\ f \in [DOMAIN p -> Open(k)]
      /\ \A i, n \in DOMAIN p : i < n => f[i] < f[n]
      /\ \A n \in Open(k) : \E i \in DOMAIN p : f[i] = n
  BY <1>5 DEF Hierarchy
<1> HIDE DEF p
<1>8. ToSet(f) = Open(k)
  BY <1>7 DEF ToSet
<1>9. IsAncestry(p, k)
  BY <1>6, <1>7, <1>8, Zenon DEF IsAncestry
<1> QED BY <1>9 DEF p

\* In a document that skips no level, a chunk has all the headings its text is
\* under, and no others.
THEOREM PathsAreAncestors == Spec => []AncestorsOnly
<1>1. ASSUME Sections PROVE AncestorsOnly
  <2> SUFFICES ASSUME SkipsNoLevel, NEW c \in ToSet(chunks), NEW char \in Chars(c.content)
               PROVE  IsAncestry(c.path, char[1])
    BY DEF AncestorsOnly
  <2>1. chunks \in Seq(Placed) /\ doc \in Documents
    BY <1>1 DEF Sections
  <2>2. c \in Placed
    BY <2>1, ElementOfSeq, LenProperties DEF ToSet
  <2>3. c.content \in Seq(SectionChars(c.path))
    BY <2>2 DEF Placed, Strings
  <2>4. char \in SectionChars(c.path) \ {White}
    BY <2>3, CharsInAlphabet
  <2>5. char \in Alphabet \ {White} /\ PathOf(char[1]) = c.path
    BY <2>4 DEF SectionChars
  <2>6. char[1] \in Bodies
    BY <2>1, <2>5, AlphabetIs
  <2>7. char[1] \in 1 .. Len(doc) + 1
    BY <2>1, <2>6, DocumentIs DEF Bodies
  <2> QED BY <2>1, <2>5, <2>7, PathIsAncestry
<1> QED BY <1>1, SectionsHold, PTL

-----------------------------------------------------------------------------
(* Reading in the order of the document.                                   *)

\* The document's order.
Before(a, b) == a[1] < b[1] \/ (a[1] = b[1] /\ a[2] < b[2])

\* Whatever of D comes before a character of A is in A.
Closed(A, D) == \A a \in A, c \in D : Before(c, a) => c \in A

\* Reading t after A, no character of D is read before the ones before it are.
Orderly(t, A, D) ==
    \A i \in Ink(t) : \A c \in D :
        Before(c, t[i]) => c \in A \/ \E n \in 1 .. i - 1 : t[n] = c

\* What is in order after A is so after more than A.
LEMMA OrderlyAfterMore ==
    ASSUME NEW D, NEW t, NEW A, NEW B, A \subseteq B, Orderly(t, A, D)
    PROVE  Orderly(t, B, D)
BY DEF Orderly

\* What was read before may be read again.
LEMMA OrderlyAgain ==
    ASSUME NEW D, NEW t, NEW A, Closed(A, D), Chars(t) \subseteq A
    PROVE  Orderly(t, A, D)
BY DEF Orderly, Closed, Chars

\* Nothing is in order.
LEMMA OrderlyNothing ==
    ASSUME NEW D, NEW t, Chars(t) = {}, NEW A
    PROVE  Orderly(t, A, D)
BY DEF Orderly, Chars

\* Reading in order keeps what was read closed.
LEMMA OrderlyCloses ==
    ASSUME NEW D, White \notin D, NEW C, NEW t \in Seq(C), NEW A, Closed(A, D), Orderly(t, A, D)
    PROVE  Closed(A \cup Chars(t), D)
<1> SUFFICES ASSUME NEW a \in A \cup Chars(t), NEW c \in D, Before(c, a)
             PROVE  c \in A \cup Chars(t)
  BY DEF Closed
<1>1. CASE a \in A
  BY <1>1 DEF Closed
<1>2. CASE a \in Chars(t)
  <2>1. PICK i \in Ink(t) : a = t[i]
    BY <1>2 DEF Chars
  <2>2. c \in A \/ \E n \in 1 .. i - 1 : t[n] = c
    BY <2>1 DEF Orderly
  <2>3. ASSUME NEW n \in 1 .. i - 1, t[n] = c PROVE c \in Chars(t)
    <3>1. DOMAIN t = 1 .. Len(t) /\ Len(t) \in Nat
      BY LenProperties
    <3>2. n \in DOMAIN t
      BY <3>1 DEF Ink
    <3> QED BY <2>3, <3>2 DEF Chars, Ink
  <2> QED BY <2>2, <2>3
<1> QED BY <1>1, <1>2

\* A part of t is read in order after what is before it in t.
LEMMA OrderlyPart ==
    ASSUME NEW D, White \notin D, NEW C, NEW t \in Seq(C), NEW A, Orderly(t, A, D),
           NEW a \in Nat \ {0}, NEW b \in Int, b <= Len(t)
    PROVE  Orderly(SubSeq(t, a, b), A \cup {t[i] : i \in Ink(t) \cap (1 .. a - 1)}, D)
<1> DEFINE s == SubSeq(t, a, b)
           E == {t[i] : i \in Ink(t) \cap (1 .. a - 1)}
<1>1. /\ s \in Seq(C) /\ Len(s) = IF a <= b THEN b - a + 1 ELSE 0
      /\ \A i \in 1 .. b - a + 1 : s[i] = t[a + i - 1]
  BY PartOfString
<1>2. DOMAIN s = 1 .. Len(s) /\ DOMAIN t = 1 .. Len(t) /\ Len(t) \in Nat
  BY <1>1, LenProperties
<1> HIDE DEF s
<1> SUFFICES ASSUME NEW i \in Ink(s), NEW c \in D, Before(c, s[i])
             PROVE  c \in A \cup E \/ \E n \in 1 .. i - 1 : s[n] = c
  BY DEF Orderly, s
<1>3. i \in 1 .. b - a + 1 /\ a + i - 1 \in 1 .. Len(t) /\ s[i] # White
  BY <1>1, <1>2 DEF Ink
<1>4. s[i] = t[a + i - 1]
  BY <1>1, <1>3
<1>5. a + i - 1 \in Ink(t)
  BY <1>2, <1>3, <1>4 DEF Ink
<1>6. c \in A \/ \E n \in 1 .. (a + i - 1) - 1 : t[n] = c
  BY <1>4, <1>5 DEF Orderly
<1>7. ASSUME NEW n \in 1 .. (a + i - 1) - 1, t[n] = c
      PROVE  c \in E \/ \E m \in 1 .. i - 1 : s[m] = c
  <2>1. CASE n < a
    <3>1. n \in Ink(t) \cap (1 .. a - 1)
      BY <1>2, <1>3, <1>7, <2>1 DEF Ink
    <3> QED BY <1>7, <3>1
  <2>2. CASE ~(n < a)
    <3> DEFINE m == n - a + 1
    <3>1. m \in 1 .. i - 1 /\ m \in 1 .. b - a + 1 /\ a + m - 1 = n
      BY <1>3, <2>2
    <3> HIDE DEF m
    <3>2. s[m] = c
      BY <1>1, <1>7, <3>1
    <3> QED BY <3>1, <3>2
  <2> QED BY <2>1, <2>2
<1> QED BY <1>6, <1>7

\* Two texts are in order when the second is, after the first.
LEMMA OrderlyConcat ==
    ASSUME NEW D, White \notin D, NEW C, NEW s \in Seq(C), NEW t \in Seq(C), NEW A
    PROVE  Orderly(s \o t, A, D) <=> Orderly(s, A, D) /\ Orderly(t, A \cup Chars(s), D)
<1> DEFINE u == s \o t
<1>1. /\ u \in Seq(C) /\ Len(u) = Len(s) + Len(t) /\ Len(s) \in Nat /\ Len(t) \in Nat
      /\ \A i \in 1 .. Len(s) : u[i] = s[i]
      /\ \A i \in 1 .. Len(t) : u[Len(s) + i] = t[i]
  BY ConcatProperties, LenProperties
<1>2. DOMAIN u = 1 .. Len(u) /\ DOMAIN s = 1 .. Len(s) /\ DOMAIN t = 1 .. Len(t)
  BY <1>1, LenProperties
<1> HIDE DEF u
<1>3. ASSUME Orderly(u, A, D) PROVE Orderly(s, A, D)
  <2> SUFFICES ASSUME NEW i \in Ink(s), NEW c \in D, Before(c, s[i])
               PROVE  c \in A \/ \E n \in 1 .. i - 1 : s[n] = c
    BY DEF Orderly
  <2>1. i \in 1 .. Len(s) /\ s[i] # White /\ u[i] = s[i]
    BY <1>1, <1>2 DEF Ink
  <2>2. i \in Ink(u)
    BY <1>1, <1>2, <2>1 DEF Ink
  <2>3. c \in A \/ \E n \in 1 .. i - 1 : u[n] = c
    BY <1>3, <2>1, <2>2 DEF Orderly
  <2>4. \A n \in 1 .. i - 1 : u[n] = s[n]
    BY <1>1, <2>1
  <2> QED BY <2>3, <2>4
<1>4. ASSUME Orderly(u, A, D) PROVE Orderly(t, A \cup Chars(s), D)
  <2> SUFFICES ASSUME NEW i \in Ink(t), NEW c \in D, Before(c, t[i])
               PROVE  c \in A \cup Chars(s) \/ \E n \in 1 .. i - 1 : t[n] = c
    BY DEF Orderly
  <2>1. i \in 1 .. Len(t) /\ t[i] # White /\ u[Len(s) + i] = t[i]
    BY <1>1, <1>2 DEF Ink
  <2>2. Len(s) + i \in Ink(u)
    BY <1>1, <1>2, <2>1 DEF Ink
  <2>3. c \in A \/ \E n \in 1 .. Len(s) + i - 1 : u[n] = c
    BY <1>4, <2>1, <2>2 DEF Orderly
  <2>4. ASSUME NEW n \in 1 .. Len(s) + i - 1, u[n] = c
        PROVE  c \in Chars(s) \/ \E m \in 1 .. i - 1 : t[m] = c
    <3>1. CASE n <= Len(s)
      <4>1. n \in 1 .. Len(s) /\ u[n] = s[n]
        BY <1>1, <3>1
      <4>2. n \in Ink(s)
        BY <1>2, <2>4, <4>1 DEF Ink
      <4> QED BY <2>4, <4>1, <4>2 DEF Chars
    <3>2. CASE ~(n <= Len(s))
      <4> DEFINE m == n - Len(s)
      <4>1. m \in 1 .. i - 1 /\ m \in 1 .. Len(t) /\ Len(s) + m = n
        BY <1>1, <2>1, <3>2
      <4> HIDE DEF m
      <4>2. t[m] = c
        BY <1>1, <2>4, <4>1
      <4> QED BY <4>1, <4>2
    <3> QED BY <3>1, <3>2
  <2> QED BY <2>3, <2>4
<1>5. ASSUME Orderly(s, A, D), Orderly(t, A \cup Chars(s), D) PROVE Orderly(u, A, D)
  <2> SUFFICES ASSUME NEW i \in Ink(u), NEW c \in D, Before(c, u[i])
               PROVE  c \in A \/ \E n \in 1 .. i - 1 : u[n] = c
    BY DEF Orderly
  <2>0. i \in 1 .. Len(s) + Len(t) /\ u[i] # White
    BY <1>1, <1>2 DEF Ink
  <2>1. CASE i <= Len(s)
    <3>1. i \in 1 .. Len(s) /\ u[i] = s[i]
      BY <1>1, <2>0, <2>1
    <3>2. i \in Ink(s)
      BY <1>2, <2>0, <3>1 DEF Ink
    <3>3. c \in A \/ \E n \in 1 .. i - 1 : s[n] = c
      BY <1>5, <3>1, <3>2 DEF Orderly
    <3>4. \A n \in 1 .. i - 1 : u[n] = s[n]
      BY <1>1, <3>1
    <3> QED BY <3>3, <3>4
  <2>2. CASE ~(i <= Len(s))
    <3> DEFINE j == i - Len(s)
    <3>1. j \in 1 .. Len(t) /\ Len(s) + j = i
      BY <1>1, <2>0, <2>2
    <3> HIDE DEF j
    <3>2. u[i] = t[j]
      BY <1>1, <3>1
    <3>3. j \in Ink(t)
      BY <1>2, <2>0, <3>1, <3>2 DEF Ink
    <3>4. c \in A \cup Chars(s) \/ \E m \in 1 .. j - 1 : t[m] = c
      BY <1>5, <3>2, <3>3 DEF Orderly
    <3>5. ASSUME c \in Chars(s) PROVE \E n \in 1 .. i - 1 : u[n] = c
      <4>1. PICK n \in Ink(s) : c = s[n]
        BY <3>5 DEF Chars
      <4>2. n \in 1 .. Len(s) /\ n \in 1 .. i - 1
        BY <1>1, <1>2, <3>1 DEF Ink
      <4>3. u[n] = c
        BY <1>1, <4>1, <4>2
      <4> QED BY <4>2, <4>3
    <3>6. ASSUME NEW m \in 1 .. j - 1, t[m] = c PROVE \E n \in 1 .. i - 1 : u[n] = c
      <4>1. m \in 1 .. Len(t) /\ Len(s) + m \in 1 .. i - 1
        BY <1>1, <3>1
      <4>2. u[Len(s) + m] = c
        BY <1>1, <3>6, <4>1
      <4> QED BY <4>1, <4>2
    <3> QED BY <3>4, <3>5, <3>6
  <2> QED BY <2>1, <2>2
<1> QED BY <1>3, <1>4, <1>5 DEF u

\* Stripping white space keeps the order.
LEMMA OrderlyStrip ==
    ASSUME NEW D, White \notin D, NEW C, NEW t \in Seq(C), NEW A, Orderly(t, A, D)
    PROVE  Orderly(Strip(t), A, D) /\ Orderly(LStrip(t), A, D)
<1>1. CASE Ink(t) = {}
  <2>1. Strip(t) = << >> /\ LStrip(t) = << >> /\ Chars(<< >>) = {}
    BY <1>1 DEF Strip, LStrip, Chars, Ink
  <2> QED BY <2>1, OrderlyNothing
<1>2. CASE Ink(t) # {}
  <2> DEFINE a == Min(Ink(t))
  <2>1. /\ a \in Ink(t) /\ Max(Ink(t)) \in Ink(t)
        /\ \A i \in Ink(t) : a <= i
        /\ Ink(t) \subseteq 1 .. Len(t) /\ Len(t) \in Nat
    BY <1>2, InkIs, LenProperties
  <2> HIDE DEF a
  <2>2. {t[i] : i \in Ink(t) \cap (1 .. a - 1)} = {}
    BY <2>1
  <2>3. a \in Nat \ {0} /\ Max(Ink(t)) \in Int /\ Max(Ink(t)) <= Len(t) /\ Len(t) \in Int
    BY <2>1
  <2>4. ASSUME NEW b \in Int, b <= Len(t) PROVE Orderly(SubSeq(t, a, b), A, D)
    <3> DEFINE E == {t[i] : i \in Ink(t) \cap (1 .. a - 1)}
    <3>1. Orderly(SubSeq(t, a, b), A \cup E, D)
      BY <2>3, <2>4, OrderlyPart
    <3>2. A \cup E = A
      BY <2>2
    <3> HIDE DEF E
    <3> QED BY <3>1, <3>2, Zenon
  <2>5. Orderly(SubSeq(t, a, Max(Ink(t))), A, D)
    BY <2>3, <2>4
  <2>6. Orderly(SubSeq(t, a, Len(t)), A, D)
    <3>1. Len(t) <= Len(t)
      BY <2>3
    <3> QED BY <2>3, <2>4, <3>1
  <2> QED BY <1>2, <2>5, <2>6 DEF Strip, LStrip, a
<1> QED BY <1>1, <1>2

\* A blank line has no characters.
LEMMA BlankHasNone ==
    ASSUME NEW C, White \in C
    PROVE  Blank \in Seq(C) /\ <<White>> \in Seq(C) /\ Chars(Blank) = {} /\ Chars(<<White>>) = {}
BY DEF Blank, Chars, Ink

\* Pieces are in order when the last one is, after the others.
LEMMA OrderlyPadded ==
    ASSUME NEW D, White \notin D, NEW C, White \in C, NEW pieces \in Seq(Seq(C)),
           NEW x \in Seq(C), NEW A
    PROVE  Orderly(Padded(Append(pieces, x)), A, D) <=>
              /\ Orderly(Padded(pieces), A, D)
              /\ Orderly(x, A \cup Chars(Padded(pieces)), D)
<1> DEFINE p == Padded(pieces)
           y == x \o Blank
<1>1. p \in Seq(C) /\ Padded(Append(pieces, x)) = p \o y
  BY PaddedAppend
<1>2. y \in Seq(C) /\ Blank \in Seq(C) /\ Chars(Blank) = {}
  BY BlankAfter, BlankHasNone
<1> HIDE DEF p
<1>3. ASSUME NEW B PROVE Orderly(y, B, D) <=> Orderly(x, B, D)
  <2>1. Orderly(y, B, D) <=> Orderly(x, B, D) /\ Orderly(Blank, B \cup Chars(x), D)
    BY <1>2, OrderlyConcat
  <2> QED BY <1>2, <2>1, OrderlyNothing
<1> HIDE DEF y
<1>4. Orderly(p \o y, A, D) <=> Orderly(p, A, D) /\ Orderly(y, A \cup Chars(p), D)
  BY <1>1, <1>2, OrderlyConcat
<1> QED BY <1>1, <1>3, <1>4 DEF p

\* The first piece is padded before the others.
LEMMA PaddedCons ==
    ASSUME NEW C, White \in C, NEW x \in Seq(C), NEW rest \in Seq(Seq(C))
    PROVE  Padded(<<x>> \o rest) = (x \o Blank) \o Padded(rest)
<1> DEFINE S == Seq(C)
           P == {r \in Seq(S) : Padded(<<x>> \o r) = (x \o Blank) \o Padded(r)}
           b == x \o Blank
<1>1. b \in Seq(C)
  BY BlankAfter
<1>2. << >> \in P
  <2>1. <<x>> \o << >> = Append(<< >>, x) /\ << >> \in Seq(S)
    BY EmptySeq
  <2>2. Padded(Append(<< >>, x)) = Padded(<< >>) \o b
    BY <2>1, PaddedAppend
  <2> HIDE DEF b, S
  <2>3. Padded(<< >>) \o b = b /\ b \o Padded(<< >>) = b
    <3>1. << >> \o b = b /\ b \o << >> = b
      BY <1>1, ConcatEmptySeq, Zenon
    <3> QED BY <3>1, PaddedEmpty, Zenon
  <2>4. Padded(<<x>> \o << >>) = b \o Padded(<< >>)
    BY <2>1, <2>2, <2>3, Zenon
  <2> QED BY <2>1, <2>4 DEF b
<1>3. ASSUME NEW r \in Seq(S), NEW e \in S, r \in P PROVE Append(r, e) \in P
  <2> DEFINE y == e \o Blank
             q == <<x>> \o r
             p == Padded(r)
  <2>1. y \in Seq(C)
    BY BlankAfter
  <2>2. q \in Seq(S) /\ <<x>> \o Append(r, e) = Append(q, e)
    <3>1. x \in S
      OBVIOUS
    <3> HIDE DEF S
    <3> QED BY <3>1
  <2>3. Padded(Append(q, e)) = Padded(q) \o y
    BY <2>2, PaddedAppend
  <2>4. p \in Seq(C) /\ Padded(Append(r, e)) = p \o y
    BY PaddedAppend
  <2>5. Padded(q) = b \o p
    BY <1>3
  <2> HIDE DEF y, p, b, q, S
  <2>6. (b \o p) \o y = b \o (p \o y)
    <3>1. \A k \in Seq(C) : \A m \in Seq(C) : \A n \in Seq(C) :
             (k \o m) \o n = k \o (m \o n)
      BY ConcatAssociative, SMTT(30)
    <3> QED BY <1>1, <2>1, <2>4, <3>1, Zenon
  <2>7. Padded(<<x>> \o Append(r, e)) = b \o Padded(Append(r, e))
    BY <2>2, <2>3, <2>4, <2>5, <2>6, Zenon
  <2>8. Append(r, e) \in Seq(S)
    BY AppendProperties
  <2> QED BY <2>7, <2>8 DEF b
<1>4. Seq(S) \subseteq P
  <2> HIDE DEF P, S
  <2> QED BY <1>2, <1>3, SeqInduction
<1> QED BY <1>4

\* Pieces are in order when the others are, after the first one.
LEMMA OrderlyCons ==
    ASSUME NEW D, White \notin D, NEW C, White \in C, NEW x \in Seq(C), NEW rest \in Seq(Seq(C)),
           NEW A
    PROVE  /\ Orderly(Padded(<<x>> \o rest), A, D) <=>
                 Orderly(x, A, D) /\ Orderly(Padded(rest), A \cup Chars(x), D)
           /\ Chars(Padded(<<x>> \o rest)) = Chars(x) \cup Chars(Padded(rest))
<1> DEFINE p == Padded(rest)
           b == x \o Blank
<1>1. Padded(<<x>> \o rest) = b \o p
  BY PaddedCons
<1>2. b \in Seq(C) /\ Blank \in Seq(C) /\ Chars(Blank) = {} /\ Chars(b) = Chars(x)
  BY BlankAfter, BlankHasNone
<1>3. p \in Seq(C)
  BY PaddedAppend
<1>4. Orderly(b, A, D) <=> Orderly(x, A, D)
  <2>1. Orderly(b, A, D) <=> Orderly(x, A, D) /\ Orderly(Blank, A \cup Chars(x), D)
    BY <1>2, OrderlyConcat
  <2> QED BY <1>2, <2>1, OrderlyNothing
<1> HIDE DEF p, b
<1>5. Orderly(b \o p, A, D) <=> Orderly(b, A, D) /\ Orderly(p, A \cup Chars(b), D)
  BY <1>2, <1>3, OrderlyConcat
<1>6. Chars(b \o p) = Chars(b) \cup Chars(p)
  BY <1>2, <1>3, CharsOfConcat
<1> QED BY <1>1, <1>2, <1>4, <1>5, <1>6 DEF p

\* In pieces that are in order, each is so after the ones before it.
LEMMA PaddedParts ==
    ASSUME NEW D, White \notin D, NEW C, White \in C, NEW pieces \in Seq(Seq(C)), NEW A
    PROVE  /\ Chars(Padded(pieces)) = UNION {Chars(pieces[i]) : i \in 1 .. Len(pieces)}
           /\ Orderly(Padded(pieces), A, D) => \A n \in 1 .. Len(pieces) :
                 Orderly(pieces[n], A \cup UNION {Chars(pieces[i]) : i \in 1 .. n - 1}, D)
<1> DEFINE S == Seq(C)
           Upto(p, n) == UNION {Chars(p[i]) : i \in 1 .. n}
           P == {p \in Seq(S) :
                   /\ Chars(Padded(p)) = Upto(p, Len(p))
                   /\ Orderly(Padded(p), A, D) => \A n \in 1 .. Len(p) :
                         Orderly(p[n], A \cup Upto(p, n - 1), D)}
<1>1. << >> \in P
  <2>1. Chars(Padded(<< >>)) = {} /\ << >> \in Seq(S) /\ 1 .. Len(<< >>) = {}
    BY PaddedEmpty, EmptySeq DEF Chars, Ink
  <2>2. UNION {Chars(<< >>[i]) : i \in 1 .. Len(<< >>)} = {}
    BY <2>1, Zenon
  <2> QED BY <2>1, <2>2, Zenon
<1>2. ASSUME NEW p \in Seq(S), NEW e \in S, p \in P PROVE Append(p, e) \in P
  <2> DEFINE q == Append(p, e)
             l == Len(p)
  <2>1. l \in Nat /\ q \in Seq(S) /\ Len(q) = l + 1 /\ q[l + 1] = e
        /\ \A i \in 1 .. l : q[i] = p[i]
    BY AppendProperties, LenProperties
  <2>2. Chars(Padded(q)) = Chars(Padded(p)) \cup Chars(e)
    BY PaddedStep
  <2>3. Orderly(Padded(q), A, D) => /\ Orderly(Padded(p), A, D)
                                    /\ Orderly(e, A \cup Chars(Padded(p)), D)
    BY OrderlyPadded
  <2>4. Chars(Padded(p)) = Upto(p, l)
    BY <1>2
  <2>5. Orderly(Padded(p), A, D) => \A n \in 1 .. l : Orderly(p[n], A \cup Upto(p, n - 1), D)
    BY <1>2
  <2> HIDE DEF q, l
  <2>6. ASSUME NEW n \in 0 .. l PROVE Upto(q, n) = Upto(p, n)
    <3>1. \A i \in 1 .. n : q[i] = p[i]
      BY <2>1
    <3> QED BY <3>1
  <2>7. Upto(q, l + 1) = Upto(q, l) \cup Chars(e)
    <3>1. 1 .. l + 1 = (1 .. l) \cup {l + 1}
      BY <2>1
    <3>2. Chars(q[l + 1]) = Chars(e)
      BY <2>1
    <3> QED BY <3>1, <3>2
  <2>8. Chars(Padded(q)) = Upto(q, Len(q))
    <3>1. l \in 0 .. l
      BY <2>1
    <3>2. Upto(q, l) = Upto(p, l)
      BY <2>6, <3>1
    <3> HIDE DEF Upto
    <3> QED BY <2>1, <2>2, <2>4, <2>7, <3>2
  <2>9. ASSUME Orderly(Padded(q), A, D), NEW n \in 1 .. Len(q)
        PROVE  Orderly(q[n], A \cup Upto(q, n - 1), D)
    <3>1. CASE n = l + 1
      <4>1. n - 1 = l /\ l \in 0 .. l
        BY <2>1, <3>1
      <4>2. Upto(q, n - 1) = Chars(Padded(p)) /\ q[n] = e
        BY <2>1, <2>4, <2>6, <3>1, <4>1
      <4> HIDE DEF Upto
      <4> QED BY <2>3, <2>9, <4>2
    <3>2. CASE n # l + 1
      <4>1. n \in 1 .. l /\ n - 1 \in 0 .. l
        BY <2>1, <3>2
      <4>2. Upto(q, n - 1) = Upto(p, n - 1) /\ q[n] = p[n]
        BY <2>1, <2>6, <4>1
      <4> HIDE DEF Upto
      <4> QED BY <2>3, <2>5, <2>9, <4>1, <4>2
    <3> QED BY <3>1, <3>2
  <2> HIDE DEF Upto
  <2> QED BY <2>1, <2>8, <2>9 DEF q
<1>3. Seq(S) \subseteq P
  <2> HIDE DEF P, S
  <2> QED BY <1>1, <1>2, SeqInduction
<1> QED BY <1>3

\* What is in a part of a text.
LEMMA PartIs ==
    ASSUME NEW C, NEW s \in Seq(C), NEW i \in Nat \ {0}, NEW m \in Nat, m - 1 <= Len(s)
    PROVE  /\ SubSeq(s, i, m - 1) \in Seq(C)
           /\ Chars(SubSeq(s, i, m - 1)) = {s[n] : n \in i .. m - 1} \ {White}
<1> DEFINE b == m - 1
<1>1. b \in Int /\ b <= Len(s)
  OBVIOUS
<1> HIDE DEF b
<1> QED BY <1>1, PartOfString DEF b

\* Two texts with a white space between them are read one after the other.
LEMMA SpacedIs ==
    ASSUME NEW D, White \notin D, NEW C, White \in C, NEW x \in Seq(C), NEW t \in Seq(C),
           NEW E, Orderly(x, E, D), Orderly(t, E \cup Chars(x), D)
    PROVE  /\ x \o <<White>> \o t \in Seq(C)
           /\ Orderly(x \o <<White>> \o t, E, D)
           /\ Chars(x \o <<White>> \o t) = Chars(x) \cup Chars(t)
<1> DEFINE w == <<White>>
           u == x \o w
<1>1. w \in Seq(C) /\ Chars(w) = {}
  BY BlankHasNone
<1> HIDE DEF w
<1>2. u \in Seq(C) /\ Chars(u) = Chars(x)
  <2>1. u \in Seq(C) /\ Chars(u) = Chars(x) \cup Chars(w)
    <3>1. \A p \in Seq(C) : \A q \in Seq(C) :
             p \o q \in Seq(C) /\ Chars(p \o q) = Chars(p) \cup Chars(q)
      BY ConcatIs
    <3> QED BY <1>1, <3>1, Zenon
  <2>2. Chars(x) \cup {} = Chars(x)
    OBVIOUS
  <2> QED BY <1>1, <2>1, <2>2, Zenon
<1>3. Orderly(u, E, D)
  <2>1. Orderly(w, E \cup Chars(x), D)
    BY <1>1, OrderlyNothing
  <2> QED BY <1>1, <2>1, OrderlyConcat
<1> HIDE DEF u
<1>4. u \o t \in Seq(C) /\ Chars(u \o t) = Chars(u) \cup Chars(t)
  BY <1>2, ConcatIs
<1>5. Orderly(u \o t, E, D)
  BY <1>2, <1>3, OrderlyConcat
<1> QED BY <1>2, <1>4, <1>5 DEF u, w

\* What is in pieces.
LEMMA CharsOfCons ==
    ASSUME NEW C, White \in C, NEW x \in Seq(C), NEW rest \in Seq(Seq(C))
    PROVE  Chars(Padded(<<x>> \o rest)) = Chars(x) \cup Chars(Padded(rest))
<1> DEFINE p == Padded(rest)
           b == x \o Blank
<1>1. p \in Seq(C) /\ b \in Seq(C) /\ Chars(b) = Chars(x)
  BY PaddedAppend, BlankAfter
<1>2. Padded(<<x>> \o rest) = b \o p
  BY PaddedCons
<1> HIDE DEF b, p
<1>3. Chars(b \o p) = Chars(b) \cup Chars(p)
  BY <1>1, CharsOfConcat
<1> QED BY <1>1, <1>2, <1>3 DEF p

\* The characters of pieces are those of each.
LEMMA CharsOfParts ==
    ASSUME NEW C, White \in C, NEW pieces \in Seq(Seq(C))
    PROVE  Chars(Padded(pieces)) = UNION {Chars(pieces[i]) : i \in 1 .. Len(pieces)}
<1>1. White \notin {}
  OBVIOUS
<1> QED BY <1>1, PaddedParts

\* In pieces that are in order, each one is.
LEMMA OrderlyParts ==
    ASSUME NEW D, White \notin D, NEW C, White \in C, NEW pieces \in Seq(Seq(C)), NEW A,
           Orderly(Padded(pieces), A, D), NEW n \in 1 .. Len(pieces)
    PROVE  Orderly(pieces[n], A \cup UNION {Chars(pieces[i]) : i \in 1 .. n - 1}, D)
BY PaddedParts

\* The sentences of a text are read as the text is.
LEMMA SentencesOrderly ==
    ASSUME NEW D, White \notin D, NEW C, White \in C, NEW s \in Seq(C), NEW A, Orderly(s, A, D)
    PROVE  /\ Orderly(Padded(Sentences(s)), A, D)
           /\ Chars(Padded(Sentences(s))) = Chars(s)
<1> DEFINE L == Len(s)
           Upto(j) == {s[n] : n \in Ink(s) \cap (1 .. j)}
           Rest(i) == {s[n] : n \in {h \in Ink(s) : h >= i}}
           Good(x, i) == Orderly(Padded(x), A \cup Upto(i - 1), D) /\ Chars(Padded(x)) = Rest(i)
           J == {t \in Seq(Seq(C)) \X Nat : Good(t[1], t[2])}
<1>1. L \in Nat /\ Ink(s) = {i \in 1 .. L : s[i] # White}
  BY LenProperties DEF Ink
<1>2. \A i \in L + 1 .. L + 2 : <<(<< >>), i>> \in J
  <2> SUFFICES ASSUME NEW i \in L + 1 .. L + 2 PROVE <<(<< >>), i>> \in J
    OBVIOUS
  <2>1. Chars(Padded(<< >>)) = {} /\ << >> \in Seq(Seq(C)) /\ i \in Nat
    BY <1>1, PaddedEmpty, EmptySeq DEF Chars, Ink
  <2>2. Rest(i) = {}
    BY <1>1
  <2>3. Good(<< >>, i)
    BY <2>1, <2>2, OrderlyNothing
  <2> HIDE DEF Good
  <2> QED BY <2>1, <2>3
<1>3. ASSUME NEW i \in 1 .. L, NEW m \in i .. L + 1, NEW rest \in Seq(Seq(C)),
             m <= L => s[m] = White, <<rest, m + 1>> \in J
      PROVE  <<(<<SubSeq(s, i, m - 1)>> \o rest), i>> \in J
  <2> DEFINE y == SubSeq(s, i, m - 1)
  <2>1. i \in Nat \ {0} /\ m - 1 \in Int /\ m - 1 <= Len(s) /\ m + 1 - 1 = m
    BY <1>1
  <2>2. y \in Seq(C) /\ Chars(y) = {s[n] : n \in i .. m - 1} \ {White}
    <3>1. i \in Nat \ {0} /\ m \in Nat /\ m - 1 <= Len(s)
      BY <1>1
    <3> HIDE DEF L, Upto, Rest, Good, J
    <3>2. SubSeq(s, i, m - 1) \in Seq(C)
      BY <3>1, PartIs
    <3>3. Chars(SubSeq(s, i, m - 1)) = {s[n] : n \in i .. m - 1} \ {White}
      BY <3>1, PartIs
    <3> QED BY <3>2, <3>3, Zenon
  <2>3. Orderly(y, A \cup Upto(i - 1), D)
    BY <2>1, OrderlyPart
  <2>4. Good(rest, m + 1)
    <3> HIDE DEF Good
    <3> QED BY <1>3
  <2> HIDE DEF y
  <2>5. (A \cup Upto(i - 1)) \cup Chars(y) = A \cup Upto(m)
    <3>1. Upto(m) = Upto(i - 1) \cup Chars(y)
      <4>1. ASSUME NEW c \in Upto(m) PROVE c \in Upto(i - 1) \cup Chars(y)
        <5>1. PICK n \in Ink(s) \cap (1 .. m) : c = s[n]
          OBVIOUS
        <5>2. n # m
          BY <1>1, <1>3, <5>1
        <5>3. n \in 1 .. i - 1 \/ n \in i .. m - 1
          BY <1>1, <5>2
        <5> QED BY <1>1, <2>2, <5>1, <5>3
      <4>2. Upto(i - 1) \subseteq Upto(m)
        BY <1>1
      <4>3. ASSUME NEW c \in Chars(y) PROVE c \in Upto(m)
        <5>1. PICK n \in i .. m - 1 : c = s[n] /\ c # White
          BY <2>2
        <5>2. n \in Ink(s) \cap (1 .. m)
          BY <1>1, <5>1
        <5> QED BY <5>1, <5>2
      <4> HIDE DEF Upto
      <4> QED BY <4>1, <4>2, <4>3
    <3> HIDE DEF Upto
    <3> QED BY <3>1
  <2>6. Orderly(Padded(rest), (A \cup Upto(i - 1)) \cup Chars(y), D)
    <3>1. Orderly(Padded(rest), A \cup Upto((m + 1) - 1), D)
      BY <2>4, Zenon
    <3>2. A \cup Upto((m + 1) - 1) = (A \cup Upto(i - 1)) \cup Chars(y)
      <4>1. (m + 1) - 1 = m
        BY <2>1
      <4> HIDE DEF Upto
      <4> QED BY <2>5, <4>1, Zenon
    <3> HIDE DEF Upto
    <3> QED BY <3>1, <3>2, Zenon
  <2>7. Orderly(Padded(<<y>> \o rest), A \cup Upto(i - 1), D)
    <3> HIDE DEF Upto
    <3> QED BY <2>2, <2>3, <2>6, OrderlyCons
  <2>8. Chars(Padded(<<y>> \o rest)) = Chars(y) \cup Rest(m + 1)
    <3>1. Chars(Padded(<<y>> \o rest)) = Chars(y) \cup Chars(Padded(rest))
      <4> HIDE DEF Rest, Upto, Good, J, L
      <4> QED BY <2>2, CharsOfCons
    <3>2. Chars(Padded(rest)) = Rest(m + 1)
      BY <2>4, Zenon
    <3> HIDE DEF Rest, Upto
    <3> QED BY <3>1, <3>2
  <2>9. Chars(y) \cup Rest(m + 1) = Rest(i)
    <3>1. ASSUME NEW c \in Rest(i) PROVE c \in Chars(y) \cup Rest(m + 1)
      <4>1. PICK n \in Ink(s) : n >= i /\ c = s[n]
        OBVIOUS
      <4>2. n # m
        BY <1>1, <1>3, <4>1
      <4>3. n \in i .. m - 1 \/ n >= m + 1
        BY <1>1, <4>1, <4>2
      <4> QED BY <1>1, <2>2, <4>1, <4>3
    <3>2. Rest(m + 1) \subseteq Rest(i)
      BY <1>1
    <3>3. ASSUME NEW c \in Chars(y) PROVE c \in Rest(i)
      <4>1. PICK n \in i .. m - 1 : c = s[n] /\ c # White
        BY <2>2
      <4>2. n \in Ink(s) /\ n >= i
        BY <1>1, <4>1
      <4> QED BY <4>1, <4>2
    <3> HIDE DEF Rest
    <3> QED BY <3>1, <3>2, <3>3
  <2>10. <<y>> \o rest \in Seq(Seq(C)) /\ i \in Nat
    <3> DEFINE S == Seq(C)
    <3>1. y \in S /\ rest \in Seq(S)
      BY <2>2
    <3> HIDE DEF S
    <3>2. <<y>> \o rest \in Seq(S)
      BY <3>1
    <3> QED BY <3>2 DEF S
  <2>11. Good(<<y>> \o rest, i)
    <3> HIDE DEF Rest, Upto
    <3> QED BY <2>7, <2>8, <2>9
  <2> HIDE DEF Good
  <2>12. <<(<<y>> \o rest), i>> \in J
    BY <2>10, <2>11
  <2> QED BY <2>12 DEF y
<1>4. <<Sentences(s), 1>> \in J
  <2> HIDE DEF J
  <2>1. \A i \in 1 .. Len(s) : \A m \in i .. Len(s) + 1, rest \in Seq(Seq(C)) :
           (m <= Len(s) => s[m] = White) /\ <<rest, m + 1>> \in J
              => <<(<<SubSeq(s, i, m - 1)>> \o rest), i>> \in J
    BY <1>3, Zenon
  <2> QED BY <1>2, <2>1, SentencesInduction
<1>5. Good(Sentences(s), 1)
  <2> HIDE DEF Good
  <2> QED BY <1>4
<1>6. A \cup Upto(1 - 1) = A
  BY <1>1
<1>7. Rest(1) = Chars(s)
  BY <1>1 DEF Chars
<1> HIDE DEF Upto, Rest
<1> QED BY <1>5, <1>6, <1>7

\* So are the parts that are packed from them.
LEMMA PackOrderly ==
    ASSUME NEW D, White \notin D, NEW C, White \in C, NEW s \in Seq(C), s # << >>,
           NEW A, Closed(A, D), Orderly(s, A, D)
    PROVE  /\ Orderly(Padded(Pack(s)), A, D)
           /\ Chars(Padded(Pack(s))) = Chars(s)
<1> DEFINE sents == Sentences(s)
           Upto(n) == UNION {Chars(sents[i]) : i \in 1 .. n}
           All(v) == Padded(Append(v.parts, v.buf))
           Good(v, n) == Orderly(All(v), A, D) /\ Chars(All(v)) = Upto(n)
           J == {t \in Packing(C) \X Nat : Good(t[1], t[2])}
<1>1. sents \in Seq(Seq(C)) /\ sents # << >> /\ sents = Sentences(s)
  BY SentencesType
<1>2. Len(sents) \in Nat /\ Len(sents) >= 1 /\ \A n \in 1 .. Len(sents) : sents[n] \in Seq(C)
  BY <1>1, LenProperties, EmptySeq, ElementOfSeq
<1>3. Orderly(Padded(sents), A, D) /\ Chars(Padded(sents)) = Chars(s)
  BY SentencesOrderly
<1> HIDE DEF sents
<1>4. /\ Chars(s) = Upto(Len(sents))
      /\ \A n \in 1 .. Len(sents) : Orderly(sents[n], A \cup Upto(n - 1), D)
  <2>1. Chars(Padded(sents)) = Upto(Len(sents))
    BY <1>1, CharsOfParts
  <2>2. \A n \in 1 .. Len(sents) : Orderly(sents[n], A \cup Upto(n - 1), D)
    <3>1. \A p \in Seq(Seq(C)) : Orderly(Padded(p), A, D) =>
             \A n \in 1 .. Len(p) :
                Orderly(p[n], A \cup UNION {Chars(p[i]) : i \in 1 .. n - 1}, D)
      BY OrderlyParts
    <3> QED BY <1>1, <1>3, <3>1, Zenon
  <2> HIDE DEF Upto
  <2> QED BY <1>3, <2>1, <2>2
<1>5. <<[parts |-> << >>, buf |-> sents[1]], 1>> \in J
  <2> DEFINE v == [parts |-> << >>, buf |-> sents[1]]
             x == sents[1]
  <2>1. x \in Seq(C) /\ 1 \in 1 .. Len(sents)
    BY <1>2
  <2>2. v \in Packing(C)
    BY <2>1 DEF Packing
  <2>3. v.parts = << >> /\ v.buf = x
    OBVIOUS
  <2>4. Upto(0) = {} /\ Upto(1) = Chars(x) /\ 1 - 1 = 0
    OBVIOUS
  <2>5. Orderly(x, A, D)
    <3>1. A \cup Upto(1 - 1) = A
      BY <2>4
    <3>2. Orderly(x, A \cup Upto(1 - 1), D)
      BY <1>4, <2>1
    <3> HIDE DEF Upto
    <3> QED BY <3>1, <3>2
  <2>6. << >> \in Seq(Seq(C)) /\ Padded(<< >>) = << >> /\ Chars(<< >>) = {}
    BY EmptySeq, PaddedEmpty DEF Chars, Ink
  <2> HIDE DEF x, v, Upto
  <2>7. Orderly(Padded(Append(<< >>, x)), A, D)
    <3>1. Orderly(Padded(<< >>), A, D)
      BY <2>6, OrderlyNothing
    <3>2. A \cup Chars(Padded(<< >>)) = A
      BY <2>6
    <3>3. Orderly(x, A \cup Chars(Padded(<< >>)), D)
      BY <2>5, <3>2
    <3>4. << >> \in Seq(Seq(C))
      BY <2>6
    <3> QED BY <2>1, <3>1, <3>3, <3>4, OrderlyPadded
  <2>8. Chars(Padded(Append(<< >>, x))) = Chars(x)
    <3>1. Chars(Padded(Append(<< >>, x))) = Chars(Padded(<< >>)) \cup Chars(x)
      <4>1. \A p \in Seq(Seq(C)) : \A e \in Seq(C) :
               Chars(Padded(Append(p, e))) = Chars(Padded(p)) \cup Chars(e)
        BY PaddedStep
      <4> QED BY <2>1, <2>6, <4>1, Zenon
    <3> QED BY <2>6, <3>1
  <2>9. Good(v, 1)
    BY <2>3, <2>4, <2>7, <2>8
  <2> HIDE DEF Good
  <2>10. <<v, 1>> \in J
    BY <2>2, <2>9
  <2> QED BY <2>10 DEF v
<1>6. ASSUME NEW n \in 2 .. Len(sents), NEW v \in Packing(C), <<v, n - 1>> \in J
      PROVE  <<PackSentence(v, sents[n]), n>> \in J
  <2> DEFINE sent == sents[n]
             b == v.buf
             p == v.parts
             w == <<White>>
             longer == b \o w \o sent
             tail == LStrip(LastChars(b, OverlapChars))
             after == tail \o w \o sent
             P == Chars(Padded(p))
             next == PackSentence(v, sent)
  <2>1. n \in 1 .. Len(sents) /\ n \in Nat /\ sent \in Seq(C)
    BY <1>2
  <2>2. b \in Seq(C) /\ p \in Seq(Seq(C))
    BY DEF Packing
  <2>3. Good(v, n - 1)
    <3> HIDE DEF Good
    <3> QED BY <1>6
  <2>4. Orderly(sent, A \cup Upto(n - 1), D)
    BY <1>4, <2>1
  <2>5. Upto(n) = Upto(n - 1) \cup Chars(sent)
    <3>1. 1 .. n = (1 .. n - 1) \cup {n}
      BY <2>1
    <3> QED BY <3>1
  <2> HIDE DEF sent, Upto
  <2>6. /\ Orderly(Padded(Append(p, b)), A, D) /\ Chars(Padded(Append(p, b))) = Upto(n - 1)
        /\ Orderly(Padded(p), A, D) /\ Orderly(b, A \cup P, D)
        /\ P \cup Chars(b) = Upto(n - 1)
    <3>1. Orderly(Padded(Append(p, b)), A, D) /\ Chars(Padded(Append(p, b))) = Upto(n - 1)
      BY <2>3
    <3> HIDE DEF b, p
    <3>2. Orderly(Padded(p), A, D) /\ Orderly(b, A \cup P, D)
      BY <2>2, <3>1, OrderlyPadded
    <3>3. Chars(Padded(Append(p, b))) = P \cup Chars(b)
      BY <2>2, PaddedStep
    <3> QED BY <3>1, <3>2, <3>3
  <2>7. w \in Seq(C) /\ Chars(w) = {}
    BY BlankHasNone
  <2>8. tail \in Seq(C) /\ Chars(tail) \subseteq Chars(b)
    <3> DEFINE m == Max({0, Len(b) - OverlapChars})
    <3>1. m \in Nat
      <4>1. Len(b) \in Nat
        BY <2>2, LenProperties
      <4>2. Len(b) - OverlapChars \in Int
        BY <4>1, SizesAssumption
      <4> QED BY <4>2, MaxOfTwo
    <3> HIDE DEF m, b
    <3>2. From(b, m) \in Seq(C) /\ Chars(From(b, m)) \subseteq Chars(b)
      BY <2>2, <3>1, FromIs
    <3>3. tail = LStrip(From(b, m))
      BY DEF LastChars, m
    <3> HIDE DEF tail
    <3> QED BY <3>2, <3>3, LStripIs
  <2> HIDE DEF tail, w
  <2>9. ASSUME NEW x \in Seq(C), NEW E, Orderly(x, E, D), Orderly(sent, E \cup Chars(x), D)
        PROVE  /\ x \o w \o sent \in Seq(C)
               /\ Orderly(x \o w \o sent, E, D)
               /\ Chars(x \o w \o sent) = Chars(x) \cup Chars(sent)
    <3> HIDE DEF longer, after, b, p, P, next
    <3>1. \A u \in Seq(C) : \A y \in Seq(C) : \A F :
             Orderly(u, F, D) /\ Orderly(y, F \cup Chars(u), D) =>
                /\ u \o w \o y \in Seq(C)
                /\ Orderly(u \o w \o y, F, D)
                /\ Chars(u \o w \o y) = Chars(u) \cup Chars(y)
      BY SpacedIs DEF w
    <3> QED BY <2>1, <2>9, <3>1, Zenon
  <2>10. longer \in Seq(C) /\ Orderly(longer, A \cup P, D)
         /\ Chars(longer) = Chars(b) \cup Chars(sent)
    <3>1. A \cup Upto(n - 1) = (A \cup P) \cup Chars(b)
      BY <2>6
    <3>2. Orderly(sent, (A \cup P) \cup Chars(b), D)
      BY <2>4, <3>1
    <3> HIDE DEF P, b, p
    <3> QED BY <2>2, <2>6, <2>9, <3>2
  <2>11. after \in Seq(C) /\ Orderly(after, A \cup Upto(n - 1), D)
         /\ Chars(after) \cup Upto(n - 1) = Upto(n)
    <3> DEFINE E == A \cup Upto(n - 1)
    <3>1. Closed(E, D)
      <4> DEFINE q == Padded(Append(p, b))
      <4>1. q \in Seq(C)
        <5>1. Append(p, b) \in Seq(Seq(C))
          BY <2>2, AppendProperties
        <5> HIDE DEF p, b
        <5> QED BY <5>1, PaddedAppend, EmptySeq
      <4>2. Orderly(q, A, D) /\ Chars(q) = Upto(n - 1)
        BY <2>6
      <4> HIDE DEF q
      <4>3. Closed(A \cup Chars(q), D)
        BY <4>1, <4>2, OrderlyCloses
      <4> QED BY <4>2, <4>3
    <3>2. Chars(tail) \subseteq E
      BY <2>6, <2>8
    <3>3. Orderly(tail, E, D)
      BY <3>1, <3>2, OrderlyAgain
    <3>4. Orderly(sent, E \cup Chars(tail), D)
      <4>1. E \subseteq E \cup Chars(tail)
        OBVIOUS
      <4> HIDE DEF E
      <4>2. Orderly(sent, E, D)
        BY <2>4 DEF E
      <4> QED BY <4>1, <4>2, OrderlyAfterMore
    <3>5. after \in Seq(C) /\ Orderly(after, E, D) /\ Chars(after) = Chars(tail) \cup Chars(sent)
      <4> HIDE DEF E
      <4> QED BY <2>8, <2>9, <3>3, <3>4
    <3>6. Chars(tail) \subseteq Upto(n - 1)
      BY <2>6, <2>8
    <3> HIDE DEF after
    <3> QED BY <2>5, <3>5, <3>6
  <2> HIDE DEF after, longer
  <2>12. CASE Len(longer) > MaxChars
    <3> DEFINE e == IF tail = << >> THEN sent ELSE after
               q == Append(p, b)
    <3>1. next = [parts |-> q, buf |-> e]
      BY <2>12, Zenon DEF PackSentence, tail, longer, after, w
    <3>2. e \in Seq(C) /\ Orderly(e, A \cup Upto(n - 1), D) /\ Chars(e) \cup Upto(n - 1) = Upto(n)
      BY <2>1, <2>4, <2>5, <2>11
    <3>3. q \in Seq(Seq(C))
      BY <2>2, AppendProperties
    <3>4. Orderly(Padded(q), A, D) /\ Chars(Padded(q)) = Upto(n - 1)
      BY <2>6
    <3> HIDE DEF e, q
    <3>5. Orderly(Padded(Append(q, e)), A, D)
      BY <3>2, <3>3, <3>4, OrderlyPadded
    <3>6. Chars(Padded(Append(q, e))) = Upto(n)
      <4>1. Chars(Padded(Append(q, e))) = Chars(Padded(q)) \cup Chars(e)
        BY <3>2, <3>3, PaddedStep
      <4> QED BY <3>2, <3>4, <4>1
    <3> DEFINE u == [parts |-> q, buf |-> e]
    <3>7. u \in Packing(C) /\ u.parts = q /\ u.buf = e
      BY <3>2, <3>3 DEF Packing
    <3> HIDE DEF u
    <3>8. Good(u, n)
      BY <3>5, <3>6, <3>7
    <3> HIDE DEF Good
    <3>9. <<u, n>> \in J
      BY <2>1, <3>7, <3>8
    <3> QED BY <3>1, <3>9 DEF u, sent
  <2>13. CASE ~(Len(longer) > MaxChars)
    <3>1. next = [v EXCEPT !.buf = longer]
      BY <2>13, Zenon DEF PackSentence, longer, w
    <3> DEFINE u == [v EXCEPT !.buf = longer]
    <3>2. u \in Packing(C) /\ u.parts = p /\ u.buf = longer
      BY <2>10 DEF Packing
    <3> HIDE DEF u, p, b
    <3>3. Orderly(Padded(Append(p, longer)), A, D)
      BY <2>2, <2>6, <2>10, OrderlyPadded
    <3>4. Chars(Padded(Append(p, longer))) = Upto(n)
      <4>1. Chars(Padded(Append(p, longer))) = P \cup Chars(longer)
        BY <2>2, <2>10, PaddedStep
      <4> HIDE DEF P
      <4> QED BY <2>5, <2>6, <2>10, <4>1
    <3>5. Good(u, n)
      BY <3>2, <3>3, <3>4
    <3> HIDE DEF Good
    <3>6. <<u, n>> \in J
      BY <2>1, <3>2, <3>5
    <3> QED BY <3>1, <3>6 DEF u, sent
  <2> QED BY <2>12, <2>13
<1>7. PICK v \in Packing(C) : /\ <<v, Len(sents)>> \in J
                              /\ Pack(s) = Append(v.parts, v.buf)
  <2> HIDE DEF J
  <2>1. \A n \in 2 .. Len(sents), v \in Packing(C) :
           <<v, n - 1>> \in J => <<PackSentence(v, sents[n]), n>> \in J
    BY <1>6, Zenon
  <2> QED BY <1>1, <1>5, <2>1, PackInduction
<1>8. Good(v, Len(sents))
  <2> HIDE DEF Good
  <2> QED BY <1>7
<1> HIDE DEF Upto
<1> QED BY <1>4, <1>7, <1>8

\* What one reads in chunks from first to last.
ReadingOf(found) == FlattenSeq([i \in DOMAIN found |-> found[i].content])

\* The chunks of K have characters of C.
Readable(K, C) == \A c \in K : c.content \in Seq(C)

\* A chunk is read after the ones before it.
LEMMA ReadingAppend ==
    ASSUME NEW C, NEW K, Readable(K, C)
    PROVE  \A found \in Seq(K) : \A c \in K :
              /\ ReadingOf(found) \in Seq(C) /\ c.content \in Seq(C)
              /\ Append(found, c) \in Seq(K)
              /\ ReadingOf(Append(found, c)) = ReadingOf(found) \o c.content
              /\ Chars(ReadingOf(Append(found, c)))
                    = Chars(ReadingOf(found)) \cup Chars(c.content)
<1> SUFFICES ASSUME NEW found \in Seq(K), NEW c \in K
             PROVE  /\ ReadingOf(found) \in Seq(C) /\ c.content \in Seq(C)
                    /\ Append(found, c) \in Seq(K)
                    /\ ReadingOf(Append(found, c)) = ReadingOf(found) \o c.content
                    /\ Chars(ReadingOf(Append(found, c)))
                          = Chars(ReadingOf(found)) \cup Chars(c.content)
  OBVIOUS
<1> DEFINE contents(f) == [i \in DOMAIN f |-> f[i].content]
           more == Append(found, c)
           x == c.content
<1>1. DOMAIN found = 1 .. Len(found) /\ Len(found) \in Nat
      /\ \A i \in 1 .. Len(found) : found[i] \in K
  BY LenProperties, ElementOfSeq
<1>2. x \in Seq(C) /\ \A i \in 1 .. Len(found) : found[i].content \in Seq(C)
  BY <1>1 DEF Readable
<1>3. contents(found) \in Seq(Seq(C)) /\ Len(contents(found)) = Len(found)
  <2> DEFINE S == Seq(C)
  <2>1. \A i \in 1 .. Len(found) : found[i].content \in S
    BY <1>2
  <2> HIDE DEF S
  <2>2. contents(found) \in Seq(S) /\ Len(contents(found)) = Len(found)
    BY <1>1, <2>1
  <2> QED BY <2>2 DEF S
<1>4. /\ DOMAIN more = 1 .. Len(found) + 1
      /\ more[Len(found) + 1] = c
      /\ \A i \in 1 .. Len(found) : more[i] = found[i]
  BY <1>1
<1>5. contents(more) = Append(contents(found), x)
  <2>1. Append(contents(found), x)
            = [i \in 1 .. Len(found) + 1 |->
                  IF i <= Len(found) THEN contents(found)[i] ELSE x]
    BY <1>3
  <2>2. ASSUME NEW i \in 1 .. Len(found) + 1
        PROVE  more[i].content = IF i <= Len(found) THEN contents(found)[i] ELSE x
    <3>1. CASE i \in 1 .. Len(found)
      BY <3>1, <1>1, <1>4
    <3>2. CASE i = Len(found) + 1
      BY <3>2, <1>1, <1>4
    <3> QED BY <3>1, <3>2, <1>1
  <2> HIDE DEF more, x
  <2> QED BY <2>1, <2>2, <1>4
<1>6. /\ FlattenSeq(contents(found)) \in Seq(C)
      /\ FlattenSeq(Append(contents(found), x)) = FlattenSeq(contents(found)) \o x
  <2> HIDE DEF contents, x
  <2> QED BY <1>2, <1>3, FlattenAppend
<1>7. ReadingOf(found) \in Seq(C) /\ ReadingOf(more) = ReadingOf(found) \o x
  BY <1>5, <1>6, Zenon DEF ReadingOf
<1>8. Append(found, c) \in Seq(K)
  BY AppendProperties
<1> HIDE DEF contents, x
<1>9. Chars(ReadingOf(found) \o x) = Chars(ReadingOf(found)) \cup Chars(x)
  BY <1>2, <1>7, CharsOfConcat
<1> QED BY <1>2, <1>7, <1>8, <1>9 DEF x

\* In no chunks one reads nothing.
LEMMA ReadingEmpty == ReadingOf(<< >>) = << >>
<1>1. [i \in DOMAIN << >> |-> << >>[i].content] = << >>
  OBVIOUS
<1> QED BY <1>1, FlattenEmpty DEF ReadingOf

\* The order of two chunks with a blank line between them.
LEMMA MergedIs ==
    ASSUME NEW D, White \notin D, NEW C, White \in C,
           NEW r \in Seq(C), NEW x \in Seq(C), NEW y \in Seq(C),
           Orderly((r \o x) \o y, {}, D)
    PROVE  /\ Orderly(r \o ((x \o Blank) \o y), {}, D)
           /\ Chars(r \o ((x \o Blank) \o y)) = Chars((r \o x) \o y)
           /\ (x \o Blank) \o y \in Seq(C)
<1> DEFINE b == x \o Blank
           m == b \o y
           u == r \o x
<1>1. Blank \in Seq(C) /\ b \in Seq(C) /\ Chars(Blank) = {} /\ Chars(b) = Chars(x)
  BY BlankAfter, BlankHasNone
<1>2. u \in Seq(C) /\ Chars(u) = Chars(r) \cup Chars(x)
  BY ConcatIs
<1>3. Orderly(u, {}, D) /\ Orderly(y, {} \cup Chars(u), D)
  <2> HIDE DEF u
  <2> QED BY <1>2, OrderlyConcat DEF u
<1>4. Orderly(r, {}, D) /\ Orderly(x, {} \cup Chars(r), D)
  BY <1>3, OrderlyConcat
<1>5. Orderly(b, {} \cup Chars(r), D)
  <2> DEFINE A == {} \cup Chars(r)
  <2>1. Orderly(Blank, A \cup Chars(x), D)
    BY <1>1, OrderlyNothing
  <2> HIDE DEF A
  <2> QED BY <1>1, <1>4, <2>1, OrderlyConcat DEF A
<1> HIDE DEF b, u
<1>6. m \in Seq(C) /\ Chars(m) = Chars(x) \cup Chars(y)
  <2>1. m \in Seq(C) /\ Chars(m) = Chars(b) \cup Chars(y)
    BY <1>1, ConcatIs
  <2> QED BY <1>1, <2>1
<1>7. Orderly(m, {} \cup Chars(r), D)
  <2> DEFINE A == {} \cup Chars(r)
  <2>1. A \cup Chars(b) = {} \cup Chars(u)
    BY <1>1, <1>2
  <2> HIDE DEF A
  <2>2. Orderly(y, A \cup Chars(b), D)
    BY <1>3, <2>1
  <2> QED BY <1>1, <1>5, <2>2, OrderlyConcat DEF A
<1> HIDE DEF m
<1>8. Orderly(r \o m, {}, D)
  BY <1>4, <1>6, <1>7, OrderlyConcat
<1>9. Chars(r \o m) = Chars(u \o y)
  <2>1. Chars(r \o m) = Chars(r) \cup Chars(m)
    BY <1>6, CharsOfConcat
  <2>2. Chars(u \o y) = Chars(u) \cup Chars(y)
    BY <1>2, CharsOfConcat
  <2> QED BY <1>2, <1>6, <2>1, <2>2
<1> QED BY <1>6, <1>8, <1>9 DEF m, b, u

\* Merging the last two chunks changes neither what one reads nor its order.
LEMMA MergeReads ==
    ASSUME NEW D, White \notin D, NEW C, White \in C, NEW K, Readable(K, C),
           NEW found \in Seq(K), MergeTail(found) \in Seq(K), Orderly(ReadingOf(found), {}, D)
    PROVE  /\ Orderly(ReadingOf(MergeTail(found)), {}, D)
           /\ Chars(ReadingOf(MergeTail(found))) = Chars(ReadingOf(found))
<1> DEFINE n == Len(found)
           a == found[n - 1]
           b == found[n]
           small == /\ n >= 2 /\ Len(b.content) < MinChars
                    /\ b.path = a.path
           text == a.content \o <<White, White>> \o b.content
           made == [content |-> text, path |-> a.path, table |-> a.table \/ b.table]
           front == SubSeq(found, 1, n - 2)
<1>0. \A f \in Seq(K) : \A e \in K :
         ReadingOf(f) \in Seq(C) /\ e.content \in Seq(C)
         /\ ReadingOf(Append(f, e)) = ReadingOf(f) \o e.content
  BY ReadingAppend
<1>1. n \in Nat
  BY LenProperties
<1>2. CASE ~small
  <2>1. MergeTail(found) = found
    BY <1>2, Zenon DEF MergeTail
  <2> QED BY <2>1
<1>3. CASE small
  <2>1. MergeTail(found) = Append(front, made)
    BY <1>3, Zenon DEF MergeTail
  <2>2. a \in K /\ b \in K
    <3>1. n \in 1 .. n /\ n - 1 \in 1 .. n
      BY <1>1, <1>3
    <3> QED BY <3>1, ElementOfSeq
  <2>3. front \in Seq(K) /\ Len(front) = n - 2 /\ \A i \in 1 .. n - 2 : front[i] = found[i]
    <3> DEFINE m == n - 2
    <3>1. m \in Nat /\ m <= Len(found)
      BY <1>1, <1>3
    <3> HIDE DEF m, n
    <3>2. /\ SubSeq(found, 1, m) \in Seq(K) /\ Len(SubSeq(found, 1, m)) = m
          /\ \A i \in 1 .. m : SubSeq(found, 1, m)[i] = found[i]
      <4>1. \A i \in 1 .. m : found[i] \in K
        BY <3>1, ElementOfSeq, LenProperties
      <4> QED BY <3>1, <4>1, SubSeqProperties
    <3> QED BY <3>2 DEF m
  <2>4. found = Append(Append(front, a), b)
    <3> DEFINE g == Append(Append(front, a), b)
    <3>1. g \in Seq(K) /\ Len(g) = n /\ \A i \in 1 .. n : g[i] = found[i]
      <4> HIDE DEF front, a, b, n
      <4>1. Append(front, a) \in Seq(K) /\ Len(Append(front, a)) = n - 1 /\ n - 2 \in Nat
        BY <1>1, <1>3, <2>2, <2>3 DEF n
      <4>2. g \in Seq(K) /\ Len(g) = n
        BY <1>1, <2>2, <4>1
      <4>3. ASSUME NEW i \in 1 .. n PROVE g[i] = found[i]
        <5>1. CASE i \in 1 .. n - 2
          BY <1>1, <2>2, <2>3, <4>1, <5>1
        <5>2. CASE i = n - 1
          BY <1>1, <2>2, <2>3, <4>1, <5>2 DEF a
        <5>3. CASE i = n
          BY <1>1, <2>2, <2>3, <4>1, <5>3 DEF b
        <5>4. i \in 1 .. n - 2 \/ i = n - 1 \/ i = n
          BY <1>1
        <5> QED BY <5>1, <5>2, <5>3, <5>4, Zenon
      <4> QED BY <4>2, <4>3
    <3> HIDE DEF g, front, a, b
    <3>2. g = [i \in 1 .. n |-> g[i]] /\ found = [i \in 1 .. n |-> found[i]]
      BY <3>1, LenProperties
    <3>3. g = found
      BY <3>1, <3>2
    <3> QED BY <3>3 DEF g
  <2> DEFINE r == ReadingOf(front)
             x == a.content
             y == b.content
             one == Append(front, a)
  <2> HIDE DEF front, a, b, n
  <2>5. r \in Seq(C) /\ x \in Seq(C) /\ one \in Seq(K) /\ ReadingOf(one) = r \o x
    BY <1>0, <2>2, <2>3
  <2>6. y \in Seq(C) /\ ReadingOf(found) = (r \o x) \o y
    <3> HIDE DEF one, x, r
    <3>1. y \in Seq(C) /\ ReadingOf(Append(one, b)) = ReadingOf(one) \o y
      <4> HIDE DEF made, text
      <4>1. b \in K /\ one \in Seq(K)
        BY <2>2, <2>5
      <4> QED BY <1>0, <4>1, Zenon
    <3>2. found = Append(one, b)
      BY <2>4 DEF one
    <3> QED BY <2>5, <3>1, <3>2
  <2> DEFINE t == (x \o Blank) \o y
  <2>7. made.content = t
    <3>1. made.content = text
      OBVIOUS
    <3> HIDE DEF made
    <3> QED BY <3>1, Zenon DEF Blank
  <2>8. made \in K
    <3>1. Append(front, made) \in Seq(K) /\ Len(front) \in Nat
      BY <2>1, <2>3, LenProperties
    <3> HIDE DEF made
    <3>2. Len(Append(front, made)) = Len(front) + 1 /\ Append(front, made)[Len(front) + 1] = made
      BY <2>3, AppendProperties
    <3> QED BY <3>1, <3>2, ElementOfSeq
  <2> HIDE DEF r, x, y, t, made
  <2>9. ReadingOf(MergeTail(found)) = r \o t
    <3>1. ReadingOf(Append(front, made)) = ReadingOf(front) \o made.content
      <4>1. made \in K /\ front \in Seq(K)
        BY <2>3, <2>8
      <4> QED BY <1>0, <4>1, Zenon
    <3> QED BY <2>1, <2>7, <3>1 DEF r
  <2>10. Orderly(r \o t, {}, D) /\ Chars(r \o t) = Chars((r \o x) \o y)
    BY <2>5, <2>6, MergedIs DEF t
  <2> QED BY <2>6, <2>9, <2>10
<1> QED BY <1>2, <1>3

-----------------------------------------------------------------------------
(* ReadsBack.                                                              *)

\* The characters of the document.
AllInk == Alphabet \ {White}

\* Every one of them is of a block, at its place.
LEMMA AllInkIs ==
    ASSUME doc \in Documents
    PROVE  /\ AllInk = UNION {Chars(Text(k)) : k \in Bodies}
           /\ White \notin AllInk /\ White \in Alphabet
           /\ \A c \in AllInk : /\ c[1] \in Bodies /\ c[1] \in Nat /\ c[2] \in Nat
                                /\ c = <<c[1], c[2]>> /\ c \in Chars(Text(c[1]))
           /\ \A k \in Bodies : Chars(Text(k)) \subseteq AllInk
<1>1. \A k \in Bodies : Chars(Text(k)) \subseteq AllInk
  <2> SUFFICES ASSUME NEW k \in Bodies PROVE Chars(Text(k)) \subseteq AllInk
    OBVIOUS
  <2>1. Chars(Text(k)) \subseteq Alphabet
    BY TextIs
  <2>2. White \notin Chars(Text(k))
    BY DEF Chars, Ink
  <2> QED BY <2>1, <2>2 DEF AllInk
<1>2. ASSUME NEW c \in AllInk
      PROVE  /\ c[1] \in Bodies /\ c[1] \in Nat /\ c[2] \in Nat
             /\ c = <<c[1], c[2]>> /\ c \in Chars(Text(c[1]))
  <2>1. PICK k \in Bodies : /\ c \in Chars(Text(k)) /\ c[1] = k
                            /\ \E j \in Ink(Text(k)) : c = <<k, j>>
    BY AlphabetIs DEF AllInk
  <2>2. PICK j \in Ink(Text(k)) : c = <<k, j>>
    BY <2>1
  <2>3. j \in Nat /\ k \in Nat
    <3>1. Ink(Text(k)) \subseteq 1 .. doc[k].size /\ doc[k].size \in Nat /\ k \in Nat
      BY TextIs
    <3> QED BY <3>1
  <2> QED BY <2>1, <2>2, <2>3
<1>3. AllInk \subseteq UNION {Chars(Text(k)) : k \in Bodies}
  BY <1>2
<1>4. UNION {Chars(Text(k)) : k \in Bodies} \subseteq AllInk
  BY <1>1
<1>5. White \in Alphabet
  BY Zenon DEF Alphabet
<1> QED BY <1>1, <1>2, <1>3, <1>4, <1>5 DEF AllInk

\* A block is read in order after the blocks before it.
LEMMA TextOrderly ==
    ASSUME doc \in Documents, NEW k \in Bodies, NEW A,
           \A h \in Bodies : h < k => Chars(Text(h)) \subseteq A
    PROVE  Orderly(Text(k), A, AllInk)
<1> SUFFICES ASSUME NEW i \in Ink(Text(k)), NEW c \in AllInk, Before(c, Text(k)[i])
             PROVE  c \in A \/ \E n \in 1 .. i - 1 : Text(k)[n] = c
  BY DEF Orderly
<1>1. /\ Text(k)[i] = <<k, i>> /\ i \in 1 .. doc[k].size /\ doc[k].size \in Nat /\ k \in Nat
      /\ \A j \in Ink(Text(k)) : Text(k)[j] = <<k, j>>
  <2>1. /\ \A j \in Ink(Text(k)) : Text(k)[j] = <<k, j>>
        /\ Ink(Text(k)) \subseteq 1 .. doc[k].size /\ doc[k].size \in Nat /\ k \in Nat
    BY TextIs
  <2> QED BY <2>1
<1>2. /\ c[1] \in Bodies /\ c[1] \in Nat /\ c[2] \in Nat
      /\ c = <<c[1], c[2]>> /\ c \in Chars(Text(c[1]))
  BY AllInkIs
<1>3. c[1] < k \/ (c[1] = k /\ c[2] < i)
  BY <1>1 DEF Before
<1>4. CASE c[1] < k
  BY <1>2, <1>4
<1>5. CASE c[1] = k /\ c[2] < i
  <2>1. PICK j \in Ink(Text(k)) : c = Text(k)[j]
    BY <1>2, <1>5 DEF Chars
  <2>2. c = <<k, j>>
    BY <1>1, <2>1
  <2>3. j = c[2]
    BY <2>2
  <2>4. j \in 1 .. i - 1
    <3>1. j \in 1 .. doc[k].size
      BY TextIs
    <3> QED BY <1>1, <1>5, <2>3, <3>1
  <2> QED BY <2>1, <2>4
<1> QED BY <1>3, <1>4, <1>5

\* Reading in order, each character is new after the ones before it.
LEMMA OrderlyReads ==
    ASSUME doc \in Documents, NEW t \in Seq(Alphabet), Orderly(t, {}, AllInk),
           NEW i \in Ink(t), NEW n \in Ink(t), i < n,
           \A m \in 1 .. n - 1 : t[m] # t[n]
    PROVE  Before(t[i], t[n])
<1>1. DOMAIN t = 1 .. Len(t) /\ Len(t) \in Nat
  BY LenProperties
<1>2. i \in 1 .. n - 1 /\ n \in Nat /\ i \in Nat
  BY <1>1 DEF Ink
<1>3. t[i] \in AllInk /\ t[n] \in AllInk
  BY <1>1, ElementOfSeq DEF Ink, AllInk
<1> DEFINE a == t[i]
           b == t[n]
<1>4. /\ a[1] \in Nat /\ a[2] \in Nat /\ a = <<a[1], a[2]>>
      /\ b[1] \in Nat /\ b[2] \in Nat /\ b = <<b[1], b[2]>>
  BY <1>3, AllInkIs
<1>5. a # b
  BY <1>2
<1>6. ~Before(b, a)
  <2> SUFFICES ASSUME Before(b, a) PROVE FALSE
    OBVIOUS
  <2>1. b \in {} \/ \E m \in 1 .. i - 1 : t[m] = b
    BY <1>3 DEF Orderly
  <2>2. PICK m \in 1 .. i - 1 : t[m] = b
    BY <2>1
  <2>3. m \in 1 .. n - 1
    BY <1>2
  <2> QED BY <2>2, <2>3
<1> HIDE DEF a, b
<1>7. Before(a, b)
  BY <1>4, <1>5, <1>6 DEF Before
<1> QED BY <1>7 DEF a, b

\* Reading is what one reads in the chunks.
LEMMA ReadingIs == Reading = ReadingOf(chunks)
BY DEF Reading, ReadingOf

\* The characters of the document do not change with the loop.
LEMMA AllInkStays ==
    ASSUME doc' = doc
    PROVE  AllInk' = AllInk /\ Bodies' = Bodies /\ \A k : Chars(Text(k))' = Chars(Text(k))
<1>1. Alphabet' = Alphabet /\ Bodies' = Bodies /\ \A k : Text(k)' = Text(k)
  BY SectionsStable
<1>2. AllInk' = AllInk
  BY <1>1 DEF AllInk
<1>3. \A k : Chars(Text(k))' = Chars(Text(k))
  BY <1>1 DEF Chars, Ink
<1> QED BY <1>1, <1>2, <1>3

\* A document that was read in order, all of it, reads back.
LEMMA OrderlyIsBack ==
    ASSUME doc \in Documents, Reading \in Seq(Alphabet),
           Orderly(Reading, {}, AllInk), AllInk \subseteq Chars(Reading)
    PROVE  ReadsBack
<1>1. Chars(Reading) = UNION {Chars(Text(k)) : k \in Bodies}
  <2>1. Chars(Reading) \subseteq AllInk
    BY CharsInAlphabet DEF AllInk
  <2> QED BY <2>1, AllInkIs
<1> DEFINE new == {i \in Ink(Reading) : \A n \in 1 .. i - 1 : Reading[n] # Reading[i]}
<1>2. ASSUME NEW i \in new, NEW n \in new, i < n PROVE Before(Reading[i], Reading[n])
  <2>1. i \in Ink(Reading) /\ n \in Ink(Reading) /\ \A m \in 1 .. n - 1 : Reading[m] # Reading[n]
    OBVIOUS
  <2> DEFINE t == Reading
  <2>2. t \in Seq(Alphabet) /\ Orderly(t, {}, AllInk)
    OBVIOUS
  <2> HIDE DEF t, new
  <2>3. i \in Ink(t) /\ n \in Ink(t) /\ \A m \in 1 .. n - 1 : t[m] # t[n]
    BY <2>1 DEF t
  <2>4. Before(t[i], t[n])
    BY <1>2, <2>2, <2>3, OrderlyReads
  <2> QED BY <2>4 DEF t
<1> QED BY <1>1, <1>2, Zenon DEF ReadsBack, Before

\* Chunks that are in their sections are read one after the other.
LEMMA PlacedReads ==
    \A f \in Seq(Placed) : \A c \in Placed :
        /\ ReadingOf(f) \in Seq(Alphabet) /\ c.content \in Seq(Alphabet)
        /\ Append(f, c) \in Seq(Placed)
        /\ ReadingOf(Append(f, c)) = ReadingOf(f) \o c.content
        /\ Chars(ReadingOf(Append(f, c))) = Chars(ReadingOf(f)) \cup Chars(c.content)
<1>1. Readable(Placed, Alphabet)
  BY DEF Readable, Placed
<1> QED BY <1>1, ReadingAppend

\* What one reads in them.
LEMMA PlacedReading ==
    ASSUME NEW f \in Seq(Placed)
    PROVE  ReadingOf(f) \in Seq(Alphabet)
<1>1. \A g \in Seq(Placed) : \A e \in Placed : ReadingOf(g) \in Seq(Alphabet)
  BY PlacedReads
<1>2. CASE Placed = {}
  <2>1. f = << >>
    BY <1>2, EmptySeq, LenProperties, ElementOfSeq
  <2> QED BY <2>1, ReadingEmpty, EmptySeq
<1> QED BY <1>1, <1>2

\* A flush puts what is in the buffer at the end of the reading.
LEMMA FlushReads ==
    ASSUME Sections, Orderly(Reading, {}, AllInk), Orderly(Padded(buf), Chars(Reading), AllInk)
    PROVE  LET t == ReadingOf(Flushed)
           IN  /\ t \in Seq(Alphabet) /\ Orderly(t, {}, AllInk)
               /\ Chars(t) = Chars(Reading) \cup Chars(Padded(buf))
<1> DEFINE x == Join(buf)
           p == Padded(buf)
           r == Reading
<1>1. doc \in Documents /\ chunks \in Seq(Placed) /\ Flushed \in Seq(Placed)
  BY BufIs DEF Sections
<1>2. White \in Alphabet /\ White \notin AllInk
  BY <1>1, AllInkIs
<1>3. r \in Seq(Alphabet)
  BY <1>1, PlacedReading, ReadingIs
<1>4. buf \in Seq(Seq(Alphabet))
  <2>1. Strings(path) \subseteq Seq(Alphabet) /\ buf \in Seq(Strings(path))
    BY <1>1, SectionCharsAre DEF Sections
  <2> QED BY <2>1, SeqMonotone
<1>5. p \in Seq(Alphabet) /\ x = Strip(p) /\ x \in Seq(Alphabet) /\ Chars(x) = Chars(p)
      /\ (x = << >> <=> Ink(p) = {})
  <2>1. p \in Seq(Alphabet)
    BY <1>2, <1>4, PaddedAppend, EmptySeq
  <2>2. x = Strip(p)
    BY DEF Join
  <2> HIDE DEF x, p
  <2> QED BY <2>1, <2>2, StripIs
<1>6. Orderly(x, Chars(r), AllInk)
  <2> HIDE DEF x, p, r
  <2>1. Orderly(p, Chars(r), AllInk)
    BY DEF p, r
  <2> QED BY <1>2, <1>5, <2>1, OrderlyStrip
<1>7. CASE x = << >>
  <2>1. Flushed = chunks
    BY <1>7 DEF Flushed
  <2>2. Chars(p) = {}
    BY <1>5, <1>7 DEF Chars
  <2> HIDE DEF p
  <2>3. Chars(r) \cup Chars(p) = Chars(r)
    BY <2>2
  <2> QED BY <1>3, <2>1, <2>3, ReadingIs DEF p
<1>8. CASE x # << >>
  <2> DEFINE e == Chunk(x, FALSE)
  <2>1. Flushed = Append(chunks, e)
    BY <1>8 DEF Flushed
  <2>2. e.content = x /\ e \in Placed
    <3>1. x \in Strings(path)
      BY BufIs
    <3>2. e \in Placed
      BY <3>1, ChunkPlaced
    <3> QED BY <3>2 DEF Chunk
  <2> HIDE DEF e
  <2>3. ReadingOf(Append(chunks, e)) = ReadingOf(chunks) \o e.content
    BY <1>1, <2>2, PlacedReads, Zenon
  <2>4. ReadingOf(Flushed) = r \o x
    BY <2>1, <2>2, <2>3, ReadingIs
  <2> HIDE DEF x
  <2>5. r \o x \in Seq(Alphabet) /\ Chars(r \o x) = Chars(r) \cup Chars(x)
    BY <1>3, <1>5, ConcatIs
  <2>6. Orderly(r \o x, {}, AllInk)
    <3>1. {} \cup Chars(r) = Chars(r)
      OBVIOUS
    <3> HIDE DEF r
    <3>2. Orderly(x, {} \cup Chars(r), AllInk)
      BY <1>6, <3>1
    <3>3. Orderly(r, {}, AllInk)
      BY DEF r
    <3> QED BY <1>2, <1>3, <1>5, <3>2, <3>3, OrderlyConcat
  <2> QED BY <1>5, <2>4, <2>5, <2>6
<1> QED BY <1>7, <1>8

\* What one has read in the chunks.
Read == Chars(Reading)
\* With the buffer.
Buffered == Read \cup Chars(Padded(buf))
\* And with the parts.
Split == Buffered \cup Chars(Padded(subs))

\* The chunks, the buffer, the parts and what remains, one after the other, are
\* in the document's order, and have all the blocks the loop is past.
InOrder ==
    /\ Orderly(Reading, {}, AllInk)
    /\ Orderly(Padded(buf), Read, AllInk)
    /\ Orderly(Padded(subs), Buffered, AllInk)
    /\ Orderly(remaining, Split, AllInk)
    /\ \A k \in Bodies :
          k < at \/ (k = at /\ pc \in {"cut", "place"})
             => Chars(Text(k)) \subseteq Split \cup Chars(remaining)

\* The inductive invariant of ReadsBack.
Order == (pc # "done" => InOrder) /\ ReadsBack

\* Nothing is in order after anything.
LEMMA NoneRead ==
    /\ Chars(<< >>) = {} /\ Padded(<< >>) = << >>
    /\ \A A, D : Orderly(<< >>, A, D)
<1>1. Chars(<< >>) = {}
  BY DEF Chars, Ink
<1> QED BY <1>1, PaddedEmpty, OrderlyNothing

\* Order holds at the start.
LEMMA OrderInit == Init => Order
<1> SUFFICES ASSUME Init PROVE Order
  OBVIOUS
<1>1. /\ pc = "block" /\ at = 1 /\ remaining = << >> /\ subs = << >> /\ buf = << >>
      /\ chunks = << >> /\ doc \in Documents
  BY DEF Init
<1>2. Reading = << >>
  BY <1>1, ReadingIs, ReadingEmpty
<1>3. \A k \in Bodies : ~(k < 1)
  BY <1>1, DocumentIs DEF Bodies
<1>4. ReadsBack
  BY <1>1 DEF ReadsBack
<1>5. InOrder
  <2>1. /\ Orderly(Reading, {}, AllInk) /\ Orderly(Padded(buf), Read, AllInk)
        /\ Orderly(Padded(subs), Buffered, AllInk) /\ Orderly(remaining, Split, AllInk)
    BY <1>1, <1>2, NoneRead
  <2> QED BY <1>1, <1>3, <2>1 DEF InOrder
<1> QED BY <1>4, <1>5 DEF Order

\* What one has read, with the buffer and the parts, is closed: whatever comes
\* before a character of it is in it.
LEMMA ClosedSoFar ==
    ASSUME Sections, InOrder
    PROVE  /\ Closed({}, AllInk) /\ Closed(Read, AllInk) /\ Closed(Buffered, AllInk)
           /\ Closed(Split, AllInk)
           /\ White \in Alphabet /\ White \notin AllInk
           /\ buf \in Seq(Seq(Alphabet)) /\ subs \in Seq(Seq(Alphabet))
           /\ remaining \in Seq(Alphabet) /\ Reading \in Seq(Alphabet)
           /\ Padded(buf) \in Seq(Alphabet) /\ Padded(subs) \in Seq(Alphabet)
           /\ doc \in Documents
<1>1. doc \in Documents /\ White \in Alphabet /\ White \notin AllInk
  BY AllInkIs DEF Sections
<1>2. Strings(path) \subseteq Seq(Alphabet)
  BY <1>1, SectionCharsAre
<1>3. Seq(Strings(path)) \subseteq Seq(Seq(Alphabet))
  BY <1>2, SeqMonotone
<1>4. /\ buf \in Seq(Seq(Alphabet)) /\ subs \in Seq(Seq(Alphabet))
      /\ remaining \in Seq(Alphabet)
  BY <1>2, <1>3 DEF Sections
<1>5. Reading \in Seq(Alphabet)
  BY PlacedReading, ReadingIs DEF Sections
<1>6. Padded(buf) \in Seq(Alphabet) /\ Padded(subs) \in Seq(Alphabet)
  BY <1>1, <1>4, PaddedAppend, EmptySeq
<1>7. Closed({}, AllInk)
  BY DEF Closed
<1>8. Closed(Read, AllInk)
  <2>1. Closed({} \cup Chars(Reading), AllInk)
    BY <1>1, <1>5, <1>7, OrderlyCloses DEF InOrder
  <2>2. {} \cup Chars(Reading) = Read
    BY DEF Read
  <2> QED BY <2>1, <2>2
<1>9. Closed(Buffered, AllInk)
  BY <1>1, <1>6, <1>8, OrderlyCloses DEF InOrder, Buffered
<1>10. Closed(Split, AllInk)
  BY <1>1, <1>6, <1>9, OrderlyCloses DEF InOrder, Split
<1> QED BY <1>1, <1>4, <1>5, <1>6, <1>7, <1>8, <1>9, <1>10

\* How the invariant is shown again after a step.
LEMMA OrderAfter ==
    ASSUME doc' = doc, pc' # "done",
           Orderly(Reading', {}, AllInk),
           NEW r, Chars(Reading)' = r, Orderly(Padded(buf)', r, AllInk),
           NEW b, Chars(Padded(buf))' = b, Orderly(Padded(subs)', r \cup b, AllInk),
           NEW s, Chars(Padded(subs))' = s, Orderly(remaining', (r \cup b) \cup s, AllInk),
           \A k \in Bodies :
              k < at' \/ (k = at' /\ pc' \in {"cut", "place"})
                 => Chars(Text(k)) \subseteq ((r \cup b) \cup s) \cup Chars(remaining)'
    PROVE  Order'
<1>1. AllInk' = AllInk /\ Bodies' = Bodies /\ \A k : Chars(Text(k))' = Chars(Text(k))
  BY AllInkStays
<1>2. Read' = r /\ Buffered' = r \cup b /\ Split' = (r \cup b) \cup s
  BY DEF Read, Buffered, Split
<1>3. /\ Orderly(Reading, {}, AllInk)' /\ Orderly(Padded(buf), Read, AllInk)'
      /\ Orderly(Padded(subs), Buffered, AllInk)' /\ Orderly(remaining, Split, AllInk)'
  BY <1>1, <1>2 DEF Orderly
<1>4. InOrder'
  BY <1>1, <1>2, <1>3 DEF InOrder
<1>5. ReadsBack'
  BY DEF ReadsBack
<1> QED BY <1>4, <1>5 DEF Order

\* What one reads after a step.
LEMMA ReadingAfter ==
    ASSUME NEW f, chunks' = f
    PROVE  Reading' = ReadingOf(f) /\ Chars(Reading)' = Chars(ReadingOf(f))
<1>1. Reading' = ReadingOf(chunks')
  BY DEF Reading, ReadingOf
<1>2. Chars(Reading)' = Chars(Reading')
  BY DEF Chars, Ink
<1> QED BY <1>1, <1>2

\* The characters of the buffer, the parts and what remains, after a step.
LEMMA CharsAfter ==
    /\ Chars(Padded(buf))' = Chars(Padded(buf')) /\ Padded(buf)' = Padded(buf')
    /\ Chars(Padded(subs))' = Chars(Padded(subs')) /\ Padded(subs)' = Padded(subs')
    /\ Chars(remaining)' = Chars(remaining')
BY DEF Chars, Ink, Padded

\* Heading preserves Order: what was in the buffer is in the chunks.
LEMMA OrderHeading ==
    ASSUME Sections, Order, Heading
    PROVE  Order'
<1>1. /\ doc' = doc /\ pc = "block" /\ pc' = "block" /\ at' = at + 1 /\ chunks' = Flushed
      /\ buf' = << >> /\ subs' = << >> /\ remaining' = << >> /\ subs = << >> /\ remaining = << >>
  BY DEF Heading, AtBlock, Sections
<1>2. InOrder
  BY <1>1 DEF Order
<1> DEFINE t == ReadingOf(Flushed)
<1>3. Orderly(t, {}, AllInk) /\ Chars(t) = Buffered
  BY <1>2, FlushReads DEF InOrder, Read, Buffered
<1>4. Reading' = t /\ Chars(Reading)' = Buffered
  BY <1>1, <1>3, ReadingAfter
<1> HIDE DEF t
<1>5. /\ Orderly(Padded(buf)', Buffered, AllInk) /\ Chars(Padded(buf))' = {}
      /\ Orderly(Padded(subs)', Buffered \cup {}, AllInk) /\ Chars(Padded(subs))' = {}
      /\ Orderly(remaining', (Buffered \cup {}) \cup {}, AllInk)
  BY <1>1, NoneRead, CharsAfter
<1>6. \A k \in Bodies :
         k < at' \/ (k = at' /\ pc' \in {"cut", "place"})
            => Chars(Text(k)) \subseteq ((Buffered \cup {}) \cup {}) \cup Chars(remaining)'
  <2> SUFFICES ASSUME NEW k \in Bodies, k < at'
               PROVE  Chars(Text(k)) \subseteq Buffered
    BY <1>1
  <2>1. k \in Nat /\ at \in Nat /\ doc[at].kind = "heading" /\ doc[k].kind # "heading"
    BY DocumentIs DEF Sections, Bodies, Heading, AtBlock
  <2>2. k < at
    BY <1>1, <2>1
  <2>3. Chars(Text(k)) \subseteq Split \cup Chars(remaining)
    BY <1>2, <2>2 DEF InOrder
  <2>4. Split \cup Chars(remaining) = Buffered
    BY <1>1, NoneRead DEF Split
  <2> QED BY <2>3, <2>4
<1>7. Orderly(Reading', {}, AllInk)
  BY <1>3, <1>4
<1>8. pc' # "done"
  BY <1>1
<1> QED BY <1>1, <1>4, <1>5, <1>6, <1>7, <1>8, OrderAfter

\* Table preserves Order: the buffer is flushed before the table is added.
LEMMA OrderTable ==
    ASSUME Sections, Order, Table
    PROVE  Order'
<1>1. /\ doc' = doc /\ pc = "block" /\ pc' = "block" /\ at' = at + 1
      /\ chunks' = Append(Flushed, Chunk(Strip(Text(at)), TRUE))
      /\ buf' = << >> /\ subs' = << >> /\ remaining' = << >> /\ subs = << >> /\ remaining = << >>
  BY DEF Table, AtBlock, Sections
<1>2. InOrder /\ doc \in Documents
  BY <1>1 DEF Order, Sections
<1>3. at \in Bodies /\ Text(at) \in Strings(path)
  BY AtBodies DEF Table
<1> DEFINE t == ReadingOf(Flushed)
           x == Strip(Text(at))
           new == Chunk(x, TRUE)
           all == Buffered \cup Chars(Text(at))
<1>4. t \in Seq(Alphabet) /\ Orderly(t, {}, AllInk) /\ Chars(t) = Buffered
  BY <1>2, FlushReads DEF InOrder, Read, Buffered
<1>5. White \in Alphabet /\ White \notin AllInk
  BY <1>2, AllInkIs
<1>6. \A k \in Bodies : k < at => Chars(Text(k)) \subseteq Buffered
  <2> SUFFICES ASSUME NEW k \in Bodies, k < at
               PROVE  Chars(Text(k)) \subseteq Buffered
    OBVIOUS
  <2>1. Chars(Text(k)) \subseteq Split \cup Chars(remaining)
    BY <1>2 DEF InOrder
  <2>2. Split \cup Chars(remaining) = Buffered
    BY <1>1, NoneRead DEF Split
  <2> QED BY <2>1, <2>2
<1>7. /\ x \in Seq(Alphabet) /\ Chars(x) = Chars(Text(at)) /\ Orderly(x, Buffered, AllInk)
      /\ new \in Placed /\ new.content = x
  <2>1. Text(at) \in Seq(Alphabet) /\ Orderly(Text(at), Buffered, AllInk)
    BY <1>2, <1>3, <1>6, TextIs, TextOrderly
  <2>2. x \in Seq(Alphabet) /\ Chars(x) = Chars(Text(at)) /\ Orderly(x, Buffered, AllInk)
    BY <1>5, <2>1, StripIs, OrderlyStrip
  <2>3. x \in Strings(path)
    BY <1>3, StripIs DEF Strings
  <2>4. new \in Placed
    BY <2>3, ChunkPlaced
  <2> QED BY <2>2, <2>4 DEF Chunk
<1>8. Flushed \in Seq(Placed)
  BY BufIs
<1>9. Reading' = t \o x /\ Chars(Reading)' = all
  <2> HIDE DEF x, new
  <2>1. chunks' = Append(Flushed, new)
    BY <1>1 DEF new, x
  <2>2. /\ ReadingOf(Append(Flushed, new)) = t \o new.content
        /\ Chars(ReadingOf(Append(Flushed, new))) = Chars(t) \cup Chars(new.content)
    BY <1>7, <1>8, PlacedReads, Zenon
  <2>3. Reading' = ReadingOf(Append(Flushed, new))
        /\ Chars(Reading)' = Chars(ReadingOf(Append(Flushed, new)))
    BY <2>1, ReadingAfter
  <2> HIDE DEF t
  <2> QED BY <1>4, <1>7, <2>2, <2>3
<1> HIDE DEF t, x, new
<1>10. Orderly(Reading', {}, AllInk)
  <2>1. {} \cup Chars(t) = Buffered
    BY <1>4
  <2>2. Orderly(x, {} \cup Chars(t), AllInk)
    BY <1>7, <2>1
  <2>3. Orderly(t \o x, {}, AllInk)
    BY <1>4, <1>5, <1>7, <2>2, OrderlyConcat
  <2> QED BY <1>9, <2>3
<1>11. /\ Orderly(Padded(buf)', all, AllInk) /\ Chars(Padded(buf))' = {}
       /\ Orderly(Padded(subs)', all \cup {}, AllInk) /\ Chars(Padded(subs))' = {}
       /\ Orderly(remaining', (all \cup {}) \cup {}, AllInk)
  BY <1>1, NoneRead, CharsAfter
<1>12. \A k \in Bodies :
         k < at' \/ (k = at' /\ pc' \in {"cut", "place"})
            => Chars(Text(k)) \subseteq ((all \cup {}) \cup {}) \cup Chars(remaining)'
  <2> SUFFICES ASSUME NEW k \in Bodies, k < at'
               PROVE  Chars(Text(k)) \subseteq all
    BY <1>1
  <2>1. k \in Nat /\ at \in Nat
    BY <1>2, TextIs DEF Sections
  <2>2. k < at \/ k = at
    BY <1>1, <2>1
  <2> QED BY <1>6, <2>2
<1> HIDE DEF all
<1>13. pc' # "done"
  BY <1>1
<1> QED BY <1>1, <1>9, <1>10, <1>11, <1>12, <1>13, OrderAfter

\* A block that is split into sentences, or not at all, is in order; one that is
\* cut is what remains.
LEMMA OrderTextBlock ==
    ASSUME Sections, Order, TextBlock
    PROVE  Order'
<1>1. /\ doc' = doc /\ pc = "block" /\ pc' \in {"cut", "place"} /\ at' = at
      /\ chunks' = chunks /\ buf' = buf /\ subs = << >> /\ remaining = << >>
      /\ \/ subs' = << >> /\ remaining' = Text(at)
         \/ subs' = <<Text(at)>> /\ remaining' = << >>
         \/ subs' = Pack(Text(at)) /\ remaining' = << >>
  BY DEF TextBlock, AtBlock, Sections
<1>2. InOrder /\ doc \in Documents
  BY <1>1 DEF Order, Sections
<1>3. at \in Bodies /\ Text(at) # << >>
  BY AtBodies DEF TextBlock
<1> DEFINE x == Text(at)
<1>4. White \in Alphabet /\ White \notin AllInk /\ Closed(Buffered, AllInk)
  BY <1>2, ClosedSoFar
<1>5. \A k \in Bodies : k < at => Chars(Text(k)) \subseteq Buffered
  <2> SUFFICES ASSUME NEW k \in Bodies, k < at
               PROVE  Chars(Text(k)) \subseteq Buffered
    OBVIOUS
  <2>1. Chars(Text(k)) \subseteq Split \cup Chars(remaining)
    BY <1>2 DEF InOrder
  <2>2. Split \cup Chars(remaining) = Buffered
    BY <1>1, NoneRead DEF Split
  <2> QED BY <2>1, <2>2
<1>6. x \in Seq(Alphabet) /\ Orderly(x, Buffered, AllInk) /\ x # << >>
  BY <1>2, <1>3, <1>5, TextIs, TextOrderly
<1>7. Reading' = Reading /\ Chars(Reading)' = Read
  <2>1. Reading' = ReadingOf(chunks) /\ Chars(Reading)' = Chars(ReadingOf(chunks))
    BY <1>1, ReadingAfter
  <2> QED BY <2>1, ReadingIs DEF Read
<1> DEFINE b == Chars(Padded(buf))
<1>8. Padded(buf)' = Padded(buf) /\ Chars(Padded(buf))' = b
  BY <1>1, CharsAfter
<1>9. Buffered = Read \cup b
  BY DEF Buffered
<1> HIDE DEF x, b
<1>10. \E s : /\ Chars(Padded(subs))' = s
              /\ Orderly(Padded(subs)', Read \cup b, AllInk)
              /\ Orderly(remaining', (Read \cup b) \cup s, AllInk)
              /\ s \cup Chars(remaining)' = Chars(x)
  <2>1. CASE subs' = << >> /\ remaining' = x
    <3>1. Chars(Padded(subs))' = {} /\ Orderly(Padded(subs)', Read \cup b, AllInk)
      BY <2>1, NoneRead, CharsAfter
    <3>2. (Read \cup b) \cup {} = Buffered
      BY <1>9
    <3>3. Orderly(remaining', (Read \cup b) \cup {}, AllInk)
      BY <1>6, <2>1, <3>2
    <3>4. {} \cup Chars(remaining)' = Chars(x)
      BY <2>1, CharsAfter
    <3> QED BY <3>1, <3>3, <3>4
  <2>2. ASSUME NEW p, subs' = p, remaining' = << >>,
               Chars(Padded(p)) = Chars(x), Orderly(Padded(p), Buffered, AllInk)
        PROVE  \E s : /\ Chars(Padded(subs))' = s
                      /\ Orderly(Padded(subs)', Read \cup b, AllInk)
                      /\ Orderly(remaining', (Read \cup b) \cup s, AllInk)
                      /\ s \cup Chars(remaining)' = Chars(x)
    <3>1. Chars(Padded(subs))' = Chars(x) /\ Orderly(Padded(subs)', Read \cup b, AllInk)
      BY <1>9, <2>2, CharsAfter
    <3>2. Orderly(remaining', (Read \cup b) \cup Chars(x), AllInk)
      BY <2>2, NoneRead
    <3>3. Chars(x) \cup Chars(remaining)' = Chars(x)
      BY <2>2, NoneRead, CharsAfter
    <3> QED BY <3>1, <3>2, <3>3
  <2>3. CASE subs' = <<x>> /\ remaining' = << >>
    <3>1. <<x>> = Append(<< >>, x) /\ << >> \in Seq(Seq(Alphabet))
      BY EmptySeq
    <3>2. Orderly(Padded(Append(<< >>, x)), Buffered, AllInk)
      <4>1. Buffered \cup Chars(Padded(<< >>)) = Buffered
        BY NoneRead
      <4>2. Orderly(x, Buffered \cup Chars(Padded(<< >>)), AllInk)
        BY <1>6, <4>1
      <4>3. Orderly(Padded(<< >>), Buffered, AllInk)
        BY NoneRead
      <4> QED BY <1>4, <1>6, <3>1, <4>2, <4>3, OrderlyPadded
    <3>3. Chars(Padded(<<x>>)) = Chars(x)
      BY <1>4, <1>6, PaddedOne
    <3> QED BY <2>2, <2>3, <3>1, <3>2, <3>3
  <2>4. CASE subs' = Pack(x) /\ remaining' = << >>
    <3>1. Orderly(Padded(Pack(x)), Buffered, AllInk) /\ Chars(Padded(Pack(x))) = Chars(x)
      BY <1>4, <1>6, PackOrderly
    <3> QED BY <2>2, <2>4, <3>1
  <2> QED BY <1>1, <2>1, <2>3, <2>4 DEF x
<1>11. PICK s : /\ Chars(Padded(subs))' = s
                /\ Orderly(Padded(subs)', Read \cup b, AllInk)
                /\ Orderly(remaining', (Read \cup b) \cup s, AllInk)
                /\ s \cup Chars(remaining)' = Chars(x)
  BY <1>10
<1>12. \A k \in Bodies :
         k < at' \/ (k = at' /\ pc' \in {"cut", "place"})
            => Chars(Text(k)) \subseteq ((Read \cup b) \cup s) \cup Chars(remaining)'
  BY <1>1, <1>5, <1>9, <1>11 DEF x
<1>13. pc' # "done" /\ Orderly(Reading', {}, AllInk) /\ Orderly(Padded(buf)', Read, AllInk)
  BY <1>1, <1>2, <1>7, <1>8 DEF InOrder
<1> QED BY <1>1, <1>7, <1>8, <1>11, <1>12, <1>13, OrderAfter

\* A part, and what remains after it with an overlap, are read as what remained
\* before.
LEMMA CutOrderly ==
    ASSUME NEW D, White \notin D, NEW C, NEW t \in Seq(C), NEW A, Orderly(t, A, D),
           NEW cut \in Nat, cut <= Len(t), NEW start \in Nat, start <= cut
    PROVE  LET x == Strip(SubSeq(t, 1, cut))
               y == LStrip(From(t, start))
           IN  /\ x \in Seq(C) /\ y \in Seq(C)
               /\ Orderly(x, A, D) /\ Orderly(y, A \cup Chars(x), D)
               /\ Chars(t) \subseteq Chars(x) \cup Chars(y)
<1> DEFINE first == SubSeq(t, 1, cut)
           second == From(t, start)
           E == {t[i] : i \in Ink(t) \cap (1 .. start)}
           l == Len(t)
<1>1. l \in Nat /\ DOMAIN t = 1 .. l /\ cut <= l /\ start + 1 \in Nat \ {0}
  BY LenProperties
<1>2. first \in Seq(C) /\ Chars(first) = {t[i] : i \in 1 .. cut} \ {White}
  BY <1>1, PartOfString
<1>3. second \in Seq(C) /\ Chars(second) = {t[i] : i \in start + 1 .. l} \ {White}
  <2> DEFINE a == start + 1
  <2>1. a \in Nat \ {0} /\ Len(t) \in Int /\ Len(t) <= Len(t)
    BY <1>1
  <2> HIDE DEF a
  <2>2. SubSeq(t, a, Len(t)) \in Seq(C)
        /\ Chars(SubSeq(t, a, Len(t))) = {t[i] : i \in a .. Len(t)} \ {White}
    BY <2>1, PartOfString
  <2> QED BY <2>2 DEF a, From
<1>4. Orderly(first, A, D)
  <2>1. Orderly(first, A \cup {t[i] : i \in Ink(t) \cap (1 .. 1 - 1)}, D)
    BY <1>1, OrderlyPart
  <2>2. A \cup {t[i] : i \in Ink(t) \cap (1 .. 1 - 1)} = A
    OBVIOUS
  <2> HIDE DEF first
  <2> QED BY <2>1, <2>2, Zenon
<1>5. Orderly(second, A \cup E, D)
  <2> DEFINE a == start + 1
  <2>1. a \in Nat \ {0} /\ Len(t) \in Int /\ Len(t) <= Len(t) /\ a - 1 = start
    BY <1>1
  <2> HIDE DEF a
  <2>2. Orderly(SubSeq(t, a, Len(t)), A \cup {t[i] : i \in Ink(t) \cap (1 .. a - 1)}, D)
    BY <2>1, OrderlyPart
  <2>3. A \cup {t[i] : i \in Ink(t) \cap (1 .. a - 1)} = A \cup E
    BY <2>1
  <2>4. Orderly(SubSeq(t, a, Len(t)), A \cup E, D)
    BY <2>2, <2>3, Zenon
  <2> QED BY <2>4 DEF a, From
<1>6. E \subseteq Chars(first)
  <2> SUFFICES ASSUME NEW i \in Ink(t) \cap (1 .. start) PROVE t[i] \in Chars(first)
    OBVIOUS
  <2>1. i \in 1 .. cut /\ t[i] # White
    BY <1>1 DEF Ink
  <2> QED BY <1>2, <2>1
<1>7. Chars(t) \subseteq Chars(first) \cup Chars(second)
  <2> SUFFICES ASSUME NEW i \in Ink(t) PROVE t[i] \in Chars(first) \cup Chars(second)
    BY DEF Chars
  <2>1. i \in 1 .. l /\ t[i] # White
    BY <1>1 DEF Ink
  <2>2. i \in 1 .. cut \/ i \in start + 1 .. l
    BY <1>1, <2>1
  <2> QED BY <1>2, <1>3, <2>1, <2>2
<1> DEFINE x == Strip(first)
           y == LStrip(second)
<1> HIDE DEF first, second, E
<1>8. x \in Seq(C) /\ Chars(x) = Chars(first) /\ Orderly(x, A, D)
  BY <1>2, <1>4, StripIs, OrderlyStrip
<1>9. y \in Seq(C) /\ Chars(y) = Chars(second) /\ Orderly(y, A \cup E, D)
  BY <1>3, <1>5, LStripIs, OrderlyStrip
<1>10. A \cup E \subseteq A \cup Chars(x)
  BY <1>6, <1>8
<1> HIDE DEF x, y
<1>11. Orderly(y, A \cup Chars(x), D)
  <2> DEFINE B == A \cup E
             F == A \cup Chars(x)
  <2>1. B \subseteq F /\ Orderly(y, B, D)
    BY <1>9, <1>10
  <2> HIDE DEF B, F
  <2>2. Orderly(y, F, D)
    BY <2>1, OrderlyAfterMore
  <2> QED BY <2>2 DEF F
<1>12. Chars(t) \subseteq Chars(x) \cup Chars(y)
  BY <1>7, <1>8, <1>9
<1> QED BY <1>8, <1>9, <1>11, <1>12 DEF x, y, first, second

\* Cut preserves Order: the overlap was read before.
LEMMA OrderCut ==
    ASSUME Sections, Order, Cut
    PROVE  Order'
<1>1. /\ doc' = doc /\ pc = "cut" /\ pc' = "cut" /\ at' = at /\ chunks' = chunks /\ buf' = buf
  BY DEF Cut
<1>2. InOrder /\ doc \in Documents
  BY <1>1 DEF Order, Sections
<1>3. /\ White \in Alphabet /\ White \notin AllInk
      /\ subs \in Seq(Seq(Alphabet)) /\ remaining \in Seq(Alphabet)
  BY <1>2, ClosedSoFar
<1> DEFINE x == Strip(SubSeq(remaining, 1, CutAt))
           start == CutAt - OverlapChars
           y == LStrip(From(remaining, start))
           b == Chars(Padded(buf))
           old == Chars(Padded(subs))
           s == old \cup Chars(x)
<1>4. subs' = Append(subs, x) /\ remaining' = y
  BY <1>3, <1>2, CutAtIs DEF Cut
<1>5. CutAt \in Nat /\ CutAt <= Len(remaining) /\ start \in Nat /\ start <= CutAt
  <2>1. CutAt \in Nat /\ start \in Nat /\ Len(remaining) \in Nat
    BY <1>2, <1>3, CutAtIs
  <2>2. CutAt < Len(remaining)
    BY DEF Cut, Long
  <2> QED BY <2>1, <2>2, SizesAssumption
<1>6. Orderly(remaining, Split, AllInk)
  BY <1>2 DEF InOrder
<1>7. /\ x \in Seq(Alphabet) /\ y \in Seq(Alphabet)
      /\ Orderly(x, Split, AllInk) /\ Orderly(y, Split \cup Chars(x), AllInk)
      /\ Chars(remaining) \subseteq Chars(x) \cup Chars(y)
  <2> DEFINE m == CutAt
  <2> HIDE DEF start, m
  <2>1. /\ Strip(SubSeq(remaining, 1, m)) \in Seq(Alphabet)
        /\ LStrip(From(remaining, start)) \in Seq(Alphabet)
        /\ Orderly(Strip(SubSeq(remaining, 1, m)), Split, AllInk)
        /\ Orderly(LStrip(From(remaining, start)),
                   Split \cup Chars(Strip(SubSeq(remaining, 1, m))), AllInk)
        /\ Chars(remaining) \subseteq Chars(Strip(SubSeq(remaining, 1, m)))
                                        \cup Chars(LStrip(From(remaining, start)))
    <3>1. m \in Nat /\ m <= Len(remaining) /\ start \in Nat /\ start <= m
      BY <1>5 DEF m
    <3> QED BY <1>3, <1>6, <3>1, CutOrderly
  <2> QED BY <2>1 DEF m
<1>8. Split = (Read \cup b) \cup old /\ Buffered = Read \cup b
  BY DEF Split, Buffered
<1> HIDE DEF x, y, start
<1>9. /\ Orderly(Padded(Append(subs, x)), Buffered, AllInk)
      /\ Chars(Padded(Append(subs, x))) = s
  <2>1. Orderly(Padded(subs), Buffered, AllInk)
    BY <1>2 DEF InOrder
  <2>2. Orderly(x, Buffered \cup old, AllInk)
    BY <1>7 DEF Split
  <2> QED BY <1>3, <1>7, <2>1, <2>2, OrderlyPadded, PaddedStep
<1>10. Chars(Padded(subs))' = s /\ Orderly(Padded(subs)', Read \cup b, AllInk)
  BY <1>4, <1>8, <1>9, CharsAfter
<1>11. Orderly(remaining', (Read \cup b) \cup s, AllInk)
  <2>1. Split \cup Chars(x) = (Read \cup b) \cup s
    BY <1>8
  <2> HIDE DEF b, s
  <2> QED BY <1>4, <1>7, <2>1
<1>12. Reading' = Reading /\ Chars(Reading)' = Read
  <2>1. Reading' = ReadingOf(chunks) /\ Chars(Reading)' = Chars(ReadingOf(chunks))
    BY <1>1, ReadingAfter
  <2> QED BY <2>1, ReadingIs DEF Read
<1>13. Padded(buf)' = Padded(buf) /\ Chars(Padded(buf))' = b
  BY <1>1, CharsAfter
<1>14. \A k \in Bodies :
         k < at' \/ (k = at' /\ pc' \in {"cut", "place"})
            => Chars(Text(k)) \subseteq ((Read \cup b) \cup s) \cup Chars(remaining)'
  <2>1. Split \cup Chars(remaining) \subseteq ((Read \cup b) \cup s) \cup Chars(y)
    BY <1>7, <1>8
  <2>2. Chars(remaining)' = Chars(y)
    BY <1>4, CharsAfter
  <2> HIDE DEF b, s
  <2>3. \A k \in Bodies :
           k < at \/ (k = at /\ pc \in {"cut", "place"})
              => Chars(Text(k)) \subseteq Split \cup Chars(remaining)
    BY <1>2 DEF InOrder
  <2> QED BY <1>1, <2>1, <2>2, <2>3
<1>15. pc' # "done" /\ Orderly(Reading', {}, AllInk) /\ Orderly(Padded(buf)', Read, AllInk)
  BY <1>1, <1>2, <1>12, <1>13 DEF InOrder
<1> HIDE DEF b, s
<1> QED BY <1>1, <1>10, <1>11, <1>12, <1>13, <1>14, <1>15, OrderAfter

\* CutEnds preserves Order.
LEMMA OrderCutEnds ==
    ASSUME Sections, Order, CutEnds
    PROVE  Order'
<1>1. /\ doc' = doc /\ pc = "cut" /\ pc' = "place" /\ at' = at /\ chunks' = chunks
      /\ buf' = buf /\ remaining' = << >>
  BY DEF CutEnds
<1>2. InOrder /\ doc \in Documents /\ at \in Bodies
  BY <1>1 DEF Order, Sections
<1>3. /\ White \in Alphabet /\ White \notin AllInk /\ Closed(Buffered, AllInk)
      /\ subs \in Seq(Seq(Alphabet)) /\ remaining \in Seq(Alphabet)
  BY <1>2, ClosedSoFar
<1> DEFINE x == Strip(remaining)
           t == Text(at)
           b == Chars(Padded(buf))
           old == Chars(Padded(subs))
           s == old \cup Chars(remaining)
<1>4. subs' = IF x # << >> THEN Append(subs, x)
              ELSE IF subs = << >> THEN <<t>> ELSE subs
  BY DEF CutEnds
<1>5. /\ x \in Seq(Alphabet) /\ Chars(x) = Chars(remaining) /\ Orderly(x, Split, AllInk)
      /\ x = << >> => Chars(remaining) = {}
  <2>1. Orderly(remaining, Split, AllInk)
    BY <1>2 DEF InOrder
  <2>2. x = << >> => Chars(remaining) = {}
    BY <1>3, StripIs DEF Chars
  <2> QED BY <1>3, <2>1, <2>2, StripIs, OrderlyStrip
<1>6. Split = (Read \cup b) \cup old /\ Buffered = Read \cup b
  BY DEF Split, Buffered
<1>7. \A k \in Bodies : k < at \/ k = at => Chars(Text(k)) \subseteq Split \cup Chars(remaining)
  BY <1>1, <1>2 DEF InOrder
<1>8. Orderly(Padded(subs), Buffered, AllInk)
  BY <1>2 DEF InOrder
<1> HIDE DEF x
<1>9. Chars(Padded(subs')) \cup Buffered = Buffered \cup s /\ Orderly(Padded(subs'), Buffered, AllInk)
  <2>1. CASE x # << >>
    <3>1. subs' = Append(subs, x)
      BY <1>4, <2>1
    <3>2. Orderly(x, Buffered \cup old, AllInk)
      BY <1>5 DEF Split
    <3>3. Orderly(Padded(Append(subs, x)), Buffered, AllInk)
          /\ Chars(Padded(Append(subs, x))) = old \cup Chars(x)
      BY <1>3, <1>5, <1>8, <3>2, OrderlyPadded, PaddedStep
    <3> QED BY <1>5, <3>1, <3>3
  <2>2. CASE x = << >> /\ subs # << >>
    <3>1. subs' = subs
      BY <1>4, <2>2
    <3> QED BY <1>5, <1>8, <2>2, <3>1
  <2>3. CASE x = << >> /\ subs = << >>
    <3>1. subs' = <<t>>
      BY <1>4, <2>3
    <3>2. t \in Seq(Alphabet)
      BY <1>2, TextIs
    <3>3. old = {} /\ Chars(remaining) = {} /\ Chars(t) \subseteq Buffered
      <4>1. old = {} /\ Chars(remaining) = {}
        BY <1>5, <2>3, NoneRead
      <4>2. Chars(t) \subseteq Split \cup Chars(remaining)
        BY <1>2, <1>7
      <4> QED BY <1>6, <4>1, <4>2
    <3> HIDE DEF t, old
    <3>4. Orderly(t, Buffered, AllInk)
      BY <1>3, <3>3, OrderlyAgain
    <3>5. <<t>> = Append(<< >>, t) /\ << >> \in Seq(Seq(Alphabet))
      BY EmptySeq
    <3>6. Orderly(Padded(Append(<< >>, t)), Buffered, AllInk)
      <4>1. Buffered \cup Chars(Padded(<< >>)) = Buffered
        BY NoneRead
      <4>2. Orderly(t, Buffered \cup Chars(Padded(<< >>)), AllInk)
        BY <3>4, <4>1
      <4>3. Orderly(Padded(<< >>), Buffered, AllInk)
        BY NoneRead
      <4> QED BY <1>3, <3>2, <3>5, <4>2, <4>3, OrderlyPadded
    <3>7. Chars(Padded(<<t>>)) = Chars(t)
      BY <1>3, <3>2, PaddedOne
    <3> QED BY <3>1, <3>3, <3>5, <3>6, <3>7
  <2> QED BY <2>1, <2>2, <2>3
<1> DEFINE z == Chars(Padded(subs'))
<1>10. Chars(Padded(subs))' = z /\ Orderly(Padded(subs)', Read \cup b, AllInk)
  BY <1>6, <1>9, CharsAfter
<1>11. Orderly(remaining', (Read \cup b) \cup z, AllInk)
  BY <1>1, NoneRead
<1>12. Reading' = Reading /\ Chars(Reading)' = Read
  <2>1. Reading' = ReadingOf(chunks) /\ Chars(Reading)' = Chars(ReadingOf(chunks))
    BY <1>1, ReadingAfter
  <2> QED BY <2>1, ReadingIs DEF Read
<1>13. Padded(buf)' = Padded(buf) /\ Chars(Padded(buf))' = b
  BY <1>1, CharsAfter
<1>14. \A k \in Bodies :
         k < at' \/ (k = at' /\ pc' \in {"cut", "place"})
            => Chars(Text(k)) \subseteq ((Read \cup b) \cup z) \cup Chars(remaining)'
  <2>1. Split \cup Chars(remaining) \subseteq (Read \cup b) \cup z
    BY <1>6, <1>9
  <2> HIDE DEF b, z
  <2> QED BY <1>1, <1>7, <2>1
<1>15. pc' # "done" /\ Orderly(Reading', {}, AllInk) /\ Orderly(Padded(buf)', Read, AllInk)
  BY <1>1, <1>2, <1>12, <1>13 DEF InOrder
<1> HIDE DEF b, z
<1> QED BY <1>1, <1>10, <1>11, <1>12, <1>13, <1>14, <1>15, OrderAfter

\* A sequence is its head and its tail.
LEMMA HeadAndTail ==
    ASSUME NEW S, NEW s \in Seq(S), s # << >>
    PROVE  s = <<Head(s)>> \o Tail(s) /\ Head(s) \in S /\ Tail(s) \in Seq(S)
<1>1. Head(s) \in S /\ Tail(s) \in Seq(S)
  BY HeadTailProperties
<1>2. s = <<Head(s)>> \o Tail(s)
  OBVIOUS
<1> QED BY <1>1, <1>2

\* Place preserves Order: the overlap that is carried was read before.
LEMMA OrderPlace ==
    ASSUME Sections, Order, Place
    PROVE  Order'
<1> DEFINE sub == Head(subs)
           rest == Tail(subs)
           carried == Carried(Join(buf))
           b == Chars(Padded(buf))
           s == Chars(Padded(rest))
<1>1. /\ doc' = doc /\ pc = "place" /\ pc' \in {"place", "block"} /\ subs' = rest /\ subs # << >>
      /\ remaining' = << >> /\ remaining = << >> /\ at \in Bodies
      /\ pc' = "place" => at' = at
      /\ at' = at \/ at' = at + 1
  BY DEF Place, Sections
<1>2. InOrder /\ doc \in Documents
  BY <1>1 DEF Order, Sections
<1>3. /\ White \in Alphabet /\ White \notin AllInk /\ Closed(Buffered, AllInk)
      /\ subs \in Seq(Seq(Alphabet)) /\ buf \in Seq(Seq(Alphabet))
  BY <1>2, ClosedSoFar
<1>4. sub \in Seq(Alphabet) /\ rest \in Seq(Seq(Alphabet)) /\ subs = <<sub>> \o rest
  <2> DEFINE S == Seq(Alphabet)
  <2>1. subs \in Seq(S) /\ subs # << >>
    BY <1>1, <1>3
  <2> HIDE DEF S
  <2>2. sub \in S /\ rest \in Seq(S) /\ subs = <<sub>> \o rest
    BY <2>1, HeadAndTail
  <2> QED BY <2>2 DEF S
<1>5. \/ chunks' = chunks /\ buf' = Append(buf, sub)
      \/ chunks' = Flushed /\ buf' = <<sub>>
      \/ chunks' = Flushed /\ buf' = <<carried, sub>>
  <2>1. \/ chunks' = chunks /\ buf' = Append(buf, sub)
        \/ buf = << >> /\ chunks' = chunks /\ buf' = <<sub>>
        \/ chunks' = Flushed /\ buf' = <<sub>>
        \/ chunks' = Flushed /\ buf' = <<carried, sub>>
    BY PlaceIs, Zenon
  <2>2. Append(<< >>, sub) = <<sub>>
    OBVIOUS
  <2> HIDE DEF sub, carried
  <2> QED BY <2>1, <2>2
<1>6. carried \in Seq(Alphabet) /\ Chars(carried) \subseteq b
  <2>1. Join(buf) \in Seq(Alphabet) /\ Chars(Join(buf)) = b
    BY <1>3, JoinIs
  <2> DEFINE j == Join(buf)
  <2> HIDE DEF j
  <2>2. Carried(j) \in Seq(Alphabet) /\ Chars(Carried(j)) \subseteq Chars(j)
    <3>1. j \in Seq(Alphabet)
      BY <2>1 DEF j
    <3> QED BY <1>2, <3>1, CarriedIs
  <2> QED BY <2>1, <2>2 DEF j
<1>7. Buffered = Read \cup b
  BY DEF Buffered
<1> HIDE DEF sub, rest, carried
<1>8. /\ Orderly(sub, Buffered, AllInk) /\ Orderly(Padded(rest), Buffered \cup Chars(sub), AllInk)
      /\ Chars(Padded(subs)) = Chars(sub) \cup s
  <2>1. Orderly(Padded(<<sub>> \o rest), Buffered, AllInk)
    BY <1>2, <1>4 DEF InOrder
  <2>2. Chars(Padded(<<sub>> \o rest)) = Chars(sub) \cup s
    BY <1>3, <1>4, CharsOfCons
  <2> QED BY <1>3, <1>4, <2>1, <2>2, OrderlyCons
<1>9. \E r, c : /\ Orderly(Reading', {}, AllInk) /\ Chars(Reading)' = r
                /\ Orderly(Padded(buf'), r, AllInk) /\ Chars(Padded(buf')) = c
                /\ r \cup c = Buffered \cup Chars(sub)
  <2>1. CASE chunks' = chunks /\ buf' = Append(buf, sub)
    <3>1. Reading' = Reading /\ Chars(Reading)' = Read
      <4>1. Reading' = ReadingOf(chunks) /\ Chars(Reading)' = Chars(ReadingOf(chunks))
        BY <2>1, ReadingAfter
      <4> QED BY <4>1, ReadingIs DEF Read
    <3>2. Orderly(Padded(buf), Read, AllInk) /\ Orderly(Reading, {}, AllInk)
      BY <1>2 DEF InOrder
    <3>3. Orderly(sub, Read \cup b, AllInk)
      BY <1>7, <1>8
    <3>4. Orderly(Padded(Append(buf, sub)), Read, AllInk)
          /\ Chars(Padded(Append(buf, sub))) = b \cup Chars(sub)
      BY <1>3, <1>4, <3>2, <3>3, OrderlyPadded, PaddedStep
    <3>5. Read \cup (b \cup Chars(sub)) = Buffered \cup Chars(sub)
      BY <1>7
    <3> HIDE DEF b
    <3> QED BY <2>1, <3>1, <3>2, <3>4, <3>5
  <2>2. CASE chunks' = Flushed
    <3> DEFINE t == ReadingOf(Flushed)
    <3>1. Orderly(t, {}, AllInk) /\ Chars(t) = Buffered
      BY <1>2, FlushReads DEF InOrder, Read, Buffered
    <3>2. Reading' = t /\ Chars(Reading)' = Buffered
      BY <2>2, <3>1, ReadingAfter
    <3> HIDE DEF t
    <3>3. << >> \in Seq(Seq(Alphabet))
      BY EmptySeq
    <3>4. ASSUME NEW x \in Seq(Alphabet), Orderly(x, Buffered, AllInk)
          PROVE  /\ Orderly(Padded(<<x>>), Buffered, AllInk)
                 /\ Chars(Padded(<<x>>)) = Chars(x)
                 /\ <<x>> \in Seq(Seq(Alphabet))
      <4>1. <<x>> = Append(<< >>, x)
        OBVIOUS
      <4>2. Buffered \cup Chars(Padded(<< >>)) = Buffered
        BY NoneRead
      <4>3. Orderly(x, Buffered \cup Chars(Padded(<< >>)), AllInk)
        BY <3>4, <4>2
      <4>4. Orderly(Padded(<< >>), Buffered, AllInk)
        BY NoneRead
      <4>5. Orderly(Padded(Append(<< >>, x)), Buffered, AllInk)
        BY <1>3, <3>3, <4>3, <4>4, OrderlyPadded
      <4>6. Chars(Padded(<<x>>)) = Chars(x)
        BY <1>3, PaddedOne
      <4>7. <<x>> \in Seq(Seq(Alphabet))
        <5> DEFINE S == Seq(Alphabet)
        <5>1. x \in S
          OBVIOUS
        <5> HIDE DEF S
        <5>2. <<x>> \in Seq(S)
          BY <5>1
        <5> QED BY <5>2 DEF S
      <4> QED BY <4>1, <4>5, <4>6, <4>7
    <3>5. CASE buf' = <<sub>>
      <4>1. Orderly(Padded(<<sub>>), Buffered, AllInk) /\ Chars(Padded(<<sub>>)) = Chars(sub)
        BY <1>4, <1>8, <3>4
      <4> QED BY <3>1, <3>2, <3>5, <4>1
    <3>6. CASE buf' = <<carried, sub>>
      <4>1. Orderly(carried, Buffered, AllInk)
        <5>1. Chars(carried) \subseteq Buffered
          BY <1>6, <1>7
        <5> QED BY <1>3, <5>1, OrderlyAgain
      <4>2. /\ Orderly(Padded(<<carried>>), Buffered, AllInk)
            /\ Chars(Padded(<<carried>>)) = Chars(carried)
            /\ <<carried>> \in Seq(Seq(Alphabet))
        BY <1>6, <3>4, <4>1
      <4> DEFINE one == <<carried>>
                 B == Buffered
      <4>3. <<carried, sub>> = Append(one, sub)
        OBVIOUS
      <4> HIDE DEF one, B
      <4>4. Orderly(sub, B \cup Chars(Padded(one)), AllInk)
        <5>1. B \subseteq B \cup Chars(Padded(one))
          OBVIOUS
        <5>2. Orderly(sub, B, AllInk)
          BY <1>8 DEF B
        <5> QED BY <5>1, <5>2, OrderlyAfterMore
      <4>5. one \in Seq(Seq(Alphabet)) /\ Orderly(Padded(one), B, AllInk)
            /\ Chars(Padded(one)) = Chars(carried)
        BY <4>2 DEF one, B
      <4>6. Orderly(Padded(Append(one, sub)), B, AllInk)
            /\ Chars(Padded(Append(one, sub))) = Chars(carried) \cup Chars(sub)
        <5>1. Orderly(Padded(Append(one, sub)), B, AllInk)
          BY <1>3, <1>4, <4>4, <4>5, OrderlyPadded
        <5>2. Chars(Padded(Append(one, sub))) = Chars(Padded(one)) \cup Chars(sub)
          <6>1. \A p \in Seq(Seq(Alphabet)) : \A e \in Seq(Alphabet) :
                   Chars(Padded(Append(p, e))) = Chars(Padded(p)) \cup Chars(e)
            BY <1>3, PaddedStep
          <6> QED BY <1>4, <4>5, <6>1, Zenon
        <5> QED BY <4>5, <5>1, <5>2
      <4>7. Buffered \cup (Chars(carried) \cup Chars(sub)) = Buffered \cup Chars(sub)
        BY <1>6, <1>7
      <4>8. /\ Orderly(Padded(buf'), Buffered, AllInk)
            /\ Chars(Padded(buf')) = Chars(carried) \cup Chars(sub)
        BY <3>6, <4>3, <4>6 DEF B
      <4> QED BY <3>1, <3>2, <4>7, <4>8
    <3> QED BY <1>5, <2>1, <3>5, <3>6, <2>2
  <2> QED BY <1>5, <2>1, <2>2
<1>10. PICK r, c : /\ Orderly(Reading', {}, AllInk) /\ Chars(Reading)' = r
                   /\ Orderly(Padded(buf'), r, AllInk) /\ Chars(Padded(buf')) = c
                   /\ r \cup c = Buffered \cup Chars(sub)
  BY <1>9
<1> HIDE DEF b, s
<1>11. /\ Orderly(Padded(buf)', r, AllInk) /\ Chars(Padded(buf))' = c
  BY <1>10, CharsAfter
<1>12. Orderly(Padded(subs)', r \cup c, AllInk) /\ Chars(Padded(subs))' = s
  <2>1. Padded(subs)' = Padded(rest)
    BY <1>1, CharsAfter
  <2>2. Chars(Padded(subs))' = Chars(Padded(rest))
    BY <1>1, CharsAfter
  <2> QED BY <1>8, <1>10, <2>1, <2>2 DEF s
<1>13. Orderly(remaining', (r \cup c) \cup s, AllInk)
  BY <1>1, NoneRead
<1>14. \A k \in Bodies :
         k < at' \/ (k = at' /\ pc' \in {"cut", "place"})
            => Chars(Text(k)) \subseteq ((r \cup c) \cup s) \cup Chars(remaining)'
  <2> SUFFICES ASSUME NEW k \in Bodies, k < at' \/ (k = at' /\ pc' = "place")
               PROVE  Chars(Text(k)) \subseteq (r \cup c) \cup s
    BY <1>1
  <2>1. k \in Nat /\ at \in Nat
    BY <1>2, TextIs DEF Sections
  <2>2. k < at \/ k = at
    BY <1>1, <2>1
  <2>3. Chars(Text(k)) \subseteq Split \cup Chars(remaining)
    BY <1>1, <1>2, <2>2 DEF InOrder
  <2>4. Split \cup Chars(remaining) = (Buffered \cup Chars(sub)) \cup s
    BY <1>1, <1>8, NoneRead DEF Split
  <2> QED BY <1>10, <2>3, <2>4
<1>15. pc' # "done"
  BY <1>1
<1> QED BY <1>1, <1>10, <1>11, <1>12, <1>13, <1>14, <1>15, OrderAfter

\* All of the document was read, in order.
AllRead ==
    /\ doc \in Documents /\ Reading \in Seq(Alphabet)
    /\ Orderly(Reading, {}, AllInk) /\ AllInk \subseteq Chars(Reading)

\* That is ReadsBack.
LEMMA AllReadIsBack == AllRead => ReadsBack
BY OrderlyIsBack DEF AllRead

\* Finish preserves Order: at the end of the loop nothing is left in hand, and
\* the merged tail reads as the two chunks.
LEMMA OrderFinish ==
    ASSUME Sections, Sections', Order, Finish
    PROVE  Order'
<1>1. /\ doc' = doc /\ pc = "block" /\ pc' = "done" /\ chunks' = MergeTail(Flushed)
      /\ at > Len(doc) /\ subs = << >> /\ remaining = << >>
  BY DEF Finish, Sections
<1>2. InOrder /\ doc \in Documents
  BY <1>1 DEF Order, Sections
<1>3. White \in Alphabet /\ White \notin AllInk
  BY <1>2, AllInkIs
<1> DEFINE t == ReadingOf(Flushed)
           u == ReadingOf(MergeTail(Flushed))
<1>4. Orderly(t, {}, AllInk) /\ Chars(t) = Buffered
  BY <1>2, FlushReads DEF InOrder, Read, Buffered
<1>5. Flushed \in Seq(Placed) /\ MergeTail(Flushed) \in Seq(Placed)
  BY <1>2, BufIs, MergeTailPlaced
<1>6. Orderly(u, {}, AllInk) /\ Chars(u) = Buffered
  <2> DEFINE f == Flushed
  <2>1. Readable(Placed, Alphabet)
    BY DEF Readable, Placed
  <2>2. f \in Seq(Placed) /\ MergeTail(f) \in Seq(Placed) /\ Orderly(ReadingOf(f), {}, AllInk)
        /\ Chars(ReadingOf(f)) = Buffered
    BY <1>4, <1>5
  <2> HIDE DEF f, t, u
  <2>3. Orderly(ReadingOf(MergeTail(f)), {}, AllInk)
        /\ Chars(ReadingOf(MergeTail(f))) = Chars(ReadingOf(f))
    BY <1>3, <2>1, <2>2, MergeReads
  <2> QED BY <2>2, <2>3 DEF f, u
<1>7. AllInk \subseteq Buffered
  <2>1. ASSUME NEW k \in Bodies PROVE Chars(Text(k)) \subseteq Buffered
    <3>1. k < at
      BY <1>1, <1>2, DocumentIs DEF Bodies, Sections
    <3>2. Chars(Text(k)) \subseteq Split \cup Chars(remaining)
      BY <1>2, <3>1 DEF InOrder
    <3>3. Split \cup Chars(remaining) = Buffered
      BY <1>1, NoneRead DEF Split
    <3> QED BY <3>2, <3>3
  <2>2. AllInk = UNION {Chars(Text(k)) : k \in Bodies}
    BY <1>2, AllInkIs
  <2> QED BY <2>1, <2>2
<1>8. Reading' = u /\ Chars(Reading)' = Buffered
  BY <1>1, <1>6, ReadingAfter
<1>9. AllInk' = AllInk
  BY <1>1, AllInkStays
<1> HIDE DEF t, u
<1>10. Orderly(Reading, {}, AllInk)' /\ (AllInk \subseteq Chars(Reading))'
  BY <1>6, <1>7, <1>8, <1>9 DEF Orderly
<1>11. Reading' \in Seq(Alphabet')
  <2>1. ReadingOf(MergeTail(Flushed)) \in Seq(Alphabet)
    BY <1>5, PlacedReading
  <2>2. Alphabet' = Alphabet
    BY <1>1, SectionsStable
  <2> QED BY <1>8, <2>1, <2>2 DEF u
<1>12. AllRead'
  BY <1>1, <1>2, <1>10, <1>11 DEF AllRead
<1>13. ReadsBack'
  BY <1>12, AllReadIsBack, PTL
<1> QED BY <1>1, <1>13 DEF Order

\* Every step preserves Order.
LEMMA OrderStep == Sections /\ Sections' /\ Order /\ [Next]_vars => Order'
<1> SUFFICES ASSUME Sections, Sections', Order, [Next]_vars PROVE Order'
  OBVIOUS
<1>1. CASE UNCHANGED vars
  <2>1. /\ doc' = doc /\ pc' = pc /\ at' = at /\ chunks' = chunks /\ buf' = buf
        /\ subs' = subs /\ remaining' = remaining
    BY <1>1 DEF vars
  <2>2. Reading' = Reading /\ Chars(Reading)' = Read /\ Ink(Reading)' = Ink(Reading)
    BY <2>1 DEF Reading, Read, Chars, Ink
  <2>3. AllInk' = AllInk /\ Bodies' = Bodies /\ \A k : Chars(Text(k))' = Chars(Text(k))
    BY <2>1, AllInkStays
  <2>4. ReadsBack' = ReadsBack
    BY <2>1, <2>2, <2>3 DEF ReadsBack, Read
  <2>5. CASE pc = "done"
    BY <2>1, <2>4, <2>5 DEF Order
  <2>6. CASE pc # "done"
    <3> DEFINE b == Chars(Padded(buf))
               s == Chars(Padded(subs))
    <3>1. InOrder
      BY <2>6 DEF Order
    <3>2. /\ Padded(buf)' = Padded(buf) /\ Chars(Padded(buf))' = b
          /\ Padded(subs)' = Padded(subs) /\ Chars(Padded(subs))' = s
          /\ Chars(remaining)' = Chars(remaining)
      BY <2>1, CharsAfter
    <3>3. /\ Orderly(Padded(subs)', Read \cup b, AllInk)
          /\ Orderly(remaining', (Read \cup b) \cup s, AllInk)
          /\ Orderly(Padded(buf)', Read, AllInk) /\ Orderly(Reading', {}, AllInk)
      BY <2>1, <2>2, <3>1, <3>2 DEF InOrder, Buffered, Split
    <3>4. \A k \in Bodies :
             k < at' \/ (k = at' /\ pc' \in {"cut", "place"})
                => Chars(Text(k)) \subseteq ((Read \cup b) \cup s) \cup Chars(remaining)'
      BY <2>1, <3>1, <3>2 DEF InOrder, Buffered, Split
    <3> HIDE DEF b, s
    <3> QED BY <2>1, <2>2, <2>6, <3>2, <3>3, <3>4, OrderAfter
  <2> QED BY <2>5, <2>6
<1>2. CASE Next
  BY <1>1, <1>2, OrderHeading, OrderTable, OrderTextBlock, OrderCut, OrderCutEnds, OrderPlace,
     OrderFinish DEF Next, Done
<1> QED BY <1>1, <1>2

\* The chunks of any document, read from first to last and without what was read
\* before, are its characters in their order, for any sizes and either splitter.
THEOREM ChunksReadBack == Spec => []ReadsBack
<1>1. Order => ReadsBack
  BY DEF Order
<1> QED BY <1>1, SectionsHold, OrderInit, OrderStep, PTL DEF Spec

-----------------------------------------------------------------------------
(* Where a text has personal data.                                         *)

\* t is somewhere in s.
Found(t, s) == \E n \in DOMAIN s : OccursAt(s, t, n)

\* t is in s from the n-th character on, character by character.
There(t, s, n) ==
    n + Len(t) - 1 <= Len(s) /\ \A i \in 1 .. Len(t) : s[n + i - 1] = t[i]

\* The two are the same.
LEMMA OccursThere ==
    ASSUME NEW C, NEW t \in Seq(C), NEW s \in Seq(C), NEW n \in 1 .. Len(s)
    PROVE  OccursAt(s, t, n) <=> There(t, s, n)
<1>1. DOMAIN s = 1 .. Len(s) /\ DOMAIN t = 1 .. Len(t) /\ Len(s) \in Nat /\ Len(t) \in Nat
  BY LenProperties
<1> DEFINE m == n + Len(t) - 1
           u == SubSeq(s, n, m)
<1>2. n \in Nat \ {0} /\ m \in Int /\ m - n + 1 = Len(t)
      /\ Len(t) = IF n <= m THEN m - n + 1 ELSE 0
  BY <1>1
<1> HIDE DEF m
<1>3. ASSUME m <= Len(s)
      PROVE  u = t <=> \A i \in 1 .. Len(t) : s[n + i - 1] = t[i]
  <2>1. /\ u \in Seq(C) /\ Len(u) = IF n <= m THEN m - n + 1 ELSE 0
        /\ \A i \in 1 .. m - n + 1 : u[i] = s[n + i - 1]
    BY <1>2, <1>3, PartOfString
  <2> HIDE DEF u
  <2>2. Len(u) = Len(t) /\ \A i \in 1 .. Len(t) : u[i] = s[n + i - 1]
    BY <1>2, <2>1
  <2>3. u = [i \in 1 .. Len(u) |-> u[i]] /\ t = [i \in 1 .. Len(t) |-> t[i]]
    BY <2>1, LenProperties
  <2>4. ASSUME \A i \in 1 .. Len(t) : s[n + i - 1] = t[i] PROVE u = t
    <3>1. \A i \in 1 .. Len(t) : u[i] = t[i]
      BY <2>2, <2>4
    <3> QED BY <2>2, <2>3, <3>1
  <2>5. ASSUME u = t PROVE \A i \in 1 .. Len(t) : s[n + i - 1] = t[i]
    BY <2>2, <2>5
  <2> QED BY <2>4, <2>5
<1> QED BY <1>3 DEF OccursAt, There, m

\* t is in s where it is there from some character on.
LEMMA FoundIs ==
    ASSUME NEW C, NEW t \in Seq(C), NEW s \in Seq(C)
    PROVE  Found(t, s) <=> \E n \in 1 .. Len(s) : There(t, s, n)
<1>1. DOMAIN s = 1 .. Len(s)
  BY LenProperties
<1> QED BY <1>1, OccursThere DEF Found

\* What is in one of two texts is in both, one after the other.
LEMMA FoundInConcat ==
    ASSUME NEW C, NEW t \in Seq(C), NEW x \in Seq(C), NEW y \in Seq(C),
           Found(t, x) \/ (Found(t, y))
    PROVE  Found(t, x \o y)
<1> DEFINE u == x \o y
<1>1. /\ u \in Seq(C) /\ Len(u) = Len(x) + Len(y) /\ Len(x) \in Nat /\ Len(y) \in Nat
      /\ Len(t) \in Nat
      /\ \A i \in 1 .. Len(x) : u[i] = x[i]
      /\ \A i \in 1 .. Len(y) : u[Len(x) + i] = y[i]
  BY ConcatProperties, LenProperties
<1> HIDE DEF u
<1>2. CASE Found(t, x)
  <2>1. PICK n \in 1 .. Len(x) : There(t, x, n)
    BY <1>2, FoundIs
  <2>2. n \in 1 .. Len(u) /\ n + Len(t) - 1 <= Len(u)
    BY <1>1, <2>1 DEF There
  <2>3. ASSUME NEW i \in 1 .. Len(t) PROVE u[n + i - 1] = t[i]
    <3>1. x[n + i - 1] = t[i] /\ n + i - 1 \in 1 .. Len(x)
      BY <1>1, <2>1 DEF There
    <3> QED BY <1>1, <3>1
  <2>4. There(t, u, n)
    BY <2>2, <2>3 DEF There
  <2> QED BY <1>1, <2>2, <2>4, FoundIs DEF u
<1>3. CASE Found(t, y)
  <2>1. PICK n \in 1 .. Len(y) : There(t, y, n)
    BY <1>3, FoundIs
  <2> DEFINE m == Len(x) + n
  <2>2. m \in 1 .. Len(u) /\ m + Len(t) - 1 <= Len(u)
    BY <1>1, <2>1 DEF There
  <2>3. ASSUME NEW i \in 1 .. Len(t) PROVE u[m + i - 1] = t[i]
    <3>1. y[n + i - 1] = t[i] /\ n + i - 1 \in 1 .. Len(y)
      BY <1>1, <2>1 DEF There
    <3>2. m + i - 1 = Len(x) + (n + i - 1)
      BY <1>1
    <3> HIDE DEF m
    <3> QED BY <1>1, <3>1, <3>2
  <2> HIDE DEF m
  <2>4. There(t, u, m)
    BY <2>2, <2>3 DEF There
  <2> QED BY <1>1, <2>2, <2>4, FoundIs DEF u
<1> QED BY <1>2, <1>3 DEF u

\* A part of a text has what is between its ends.
LEMMA FoundInPart ==
    ASSUME NEW C, NEW t \in Seq(C), NEW s \in Seq(C), NEW n \in 1 .. Len(s), There(t, s, n),
           t # << >>,
           NEW a \in Nat \ {0}, NEW b \in Int, b <= Len(s), a <= n, n + Len(t) - 1 <= b
    PROVE  Found(t, SubSeq(s, a, b))
<1> DEFINE u == SubSeq(s, a, b)
           m == n - a + 1
<1>1. Len(s) \in Nat /\ Len(t) \in Nat /\ Len(t) # 0
  BY LenProperties, EmptySeq
<1>2. /\ u \in Seq(C) /\ Len(u) = IF a <= b THEN b - a + 1 ELSE 0
      /\ \A i \in 1 .. b - a + 1 : u[i] = s[a + i - 1]
  BY PartOfString
<1> HIDE DEF u
<1>3. Len(u) = b - a + 1 /\ m \in 1 .. Len(u) /\ m + Len(t) - 1 <= Len(u)
  BY <1>1, <1>2
<1>4. ASSUME NEW i \in 1 .. Len(t) PROVE u[m + i - 1] = t[i]
  <2>1. m + i - 1 \in 1 .. b - a + 1 /\ a + (m + i - 1) - 1 = n + i - 1
    BY <1>1, <1>3
  <2>2. s[n + i - 1] = t[i]
    BY DEF There
  <2> HIDE DEF m
  <2> QED BY <1>2, <2>1, <2>2
<1> HIDE DEF m
<1>5. There(t, u, m)
  BY <1>3, <1>4 DEF There
<1> QED BY <1>2, <1>3, <1>5, FoundIs DEF u

\* Ends of t are no white space.
Solid(t) == t # << >> /\ {1, Len(t)} \subseteq Ink(t)

\* Where a text has t, it has characters at the ends of t.
LEMMA SolidIs ==
    ASSUME NEW C, NEW t \in Seq(C), Solid(t), NEW s \in Seq(C), NEW n \in 1 .. Len(s), There(t, s, n)
    PROVE  /\ n \in Ink(s) /\ n + Len(t) - 1 \in Ink(s) /\ Len(t) \in Nat \ {0}
<1>1. /\ Len(s) \in Nat /\ DOMAIN s = 1 .. Len(s) /\ DOMAIN t = 1 .. Len(t)
      /\ Len(t) \in Nat /\ Len(t) # 0
  BY LenProperties, EmptySeq DEF Solid
<1>2. t[1] # White /\ t[Len(t)] # White
  BY DEF Solid, Ink
<1>3. s[n] = t[1] /\ s[n + Len(t) - 1] = t[Len(t)]
  <2>1. 1 \in 1 .. Len(t) /\ Len(t) \in 1 .. Len(t) /\ n + 1 - 1 = n
    BY <1>1
  <2> QED BY <2>1 DEF There
<1>4. n + Len(t) - 1 \in 1 .. Len(s)
  BY <1>1 DEF There
<1> QED BY <1>1, <1>2, <1>3, <1>4 DEF Ink

\* Stripping white space off a text leaves it in.
LEMMA FoundInStrip ==
    ASSUME NEW C, NEW t \in Seq(C), Solid(t), NEW s \in Seq(C), Found(t, s)
    PROVE  Found(t, Strip(s)) /\ Found(t, LStrip(s))
<1>1. PICK n \in 1 .. Len(s) : There(t, s, n)
  BY FoundIs
<1>2. n \in Ink(s) /\ n + Len(t) - 1 \in Ink(s) /\ Len(t) \in Nat \ {0}
  BY <1>1, SolidIs
<1> DEFINE a == Min(Ink(s))
           b == Max(Ink(s))
<1>3. /\ a \in Ink(s) /\ b \in Ink(s) /\ Ink(s) \subseteq 1 .. Len(s)
      /\ \A i \in Ink(s) : a <= i /\ i <= b
  BY <1>2, InkIs
<1>4. Strip(s) = SubSeq(s, a, b) /\ LStrip(s) = SubSeq(s, a, Len(s))
  BY <1>2 DEF Strip, LStrip
<1> HIDE DEF a, b
<1>5. /\ a \in Nat \ {0} /\ b \in Int /\ b <= Len(s) /\ Len(s) \in Int /\ Len(s) <= Len(s)
      /\ a <= n /\ n + Len(t) - 1 <= b /\ n + Len(t) - 1 <= Len(s)
  BY <1>2, <1>3, LenProperties
<1>6. t # << >>
  BY DEF Solid
<1>7. Found(t, SubSeq(s, a, b))
  BY <1>1, <1>5, <1>6, FoundInPart
<1>8. Found(t, SubSeq(s, a, Len(s)))
  BY <1>1, <1>5, <1>6, FoundInPart
<1> QED BY <1>4, <1>7, <1>8

\* t is in one of the pieces.
InSome(t, pieces) == \E i \in 1 .. Len(pieces) : Found(t, pieces[i])

\* t is in one of the pieces or in one more.
LEMMA InSomeAppend ==
    ASSUME NEW S, NEW pieces \in Seq(S), NEW x \in S, NEW t
    PROVE  InSome(t, Append(pieces, x)) <=> InSome(t, pieces) \/ Found(t, x)
<1> DEFINE q == Append(pieces, x)
           l == Len(pieces)
<1>1. l \in Nat /\ Len(q) = l + 1 /\ q[l + 1] = x /\ \A i \in 1 .. l : q[i] = pieces[i]
  BY AppendProperties, LenProperties
<1> HIDE DEF q, l
<1>2. InSome(t, pieces) => InSome(t, q)
  BY <1>1 DEF InSome, l
<1>3. Found(t, x) => InSome(t, q)
  <2>1. l + 1 \in 1 .. Len(q)
    BY <1>1
  <2> QED BY <1>1, <2>1 DEF InSome
<1>4. ASSUME InSome(t, q) PROVE InSome(t, pieces) \/ Found(t, x)
  <2>1. PICK i \in 1 .. Len(q) : Found(t, q[i])
    BY <1>4 DEF InSome
  <2>2. i \in 1 .. l \/ i = l + 1
    BY <1>1
  <2> QED BY <1>1, <2>1, <2>2 DEF InSome, l
<1> QED BY <1>2, <1>3, <1>4 DEF q

\* t is in the first piece or in one of the others.
LEMMA InSomeCons ==
    ASSUME NEW S, NEW x \in S, NEW rest \in Seq(S), NEW t
    PROVE  InSome(t, <<x>> \o rest) <=> Found(t, x) \/ InSome(t, rest)
<1> DEFINE q == <<x>> \o rest
           l == Len(rest)
<1>1. l \in Nat /\ Len(q) = l + 1 /\ q[1] = x /\ \A i \in 1 .. l : q[i + 1] = rest[i]
  <2>1. <<x>> \in Seq(S) /\ Len(<<x>>) = 1 /\ <<x>>[1] = x /\ 1 \in 1 .. 1
    OBVIOUS
  <2> DEFINE one == <<x>>
  <2> HIDE DEF one
  <2>2. one \in Seq(S) /\ Len(one) = 1 /\ one[1] = x
    BY <2>1 DEF one
  <2>3. /\ Len(one \o rest) = Len(one) + Len(rest) /\ Len(rest) \in Nat
        /\ \A i \in 1 .. Len(one) : (one \o rest)[i] = one[i]
        /\ \A i \in 1 .. Len(rest) : (one \o rest)[Len(one) + i] = rest[i]
    <3>1. \A u \in Seq(S) : \A v \in Seq(S) :
             /\ Len(u \o v) = Len(u) + Len(v)
             /\ \A i \in 1 .. Len(u) : (u \o v)[i] = u[i]
             /\ \A i \in 1 .. Len(v) : (u \o v)[Len(u) + i] = v[i]
      BY ConcatProperties
    <3> QED BY <2>2, <3>1, LenProperties, Zenon
  <2> QED BY <2>2, <2>3 DEF one
<1> HIDE DEF q, l
<1>2. Found(t, x) => InSome(t, q)
  <2>1. 1 \in 1 .. Len(q)
    BY <1>1
  <2> QED BY <1>1, <2>1 DEF InSome
<1>3. ASSUME InSome(t, rest) PROVE InSome(t, q)
  <2>1. PICK i \in 1 .. l : Found(t, rest[i])
    BY <1>3 DEF InSome, l
  <2>2. i + 1 \in 1 .. Len(q)
    BY <1>1
  <2> QED BY <1>1, <2>1, <2>2 DEF InSome
<1>4. ASSUME InSome(t, q) PROVE InSome(t, rest) \/ Found(t, x)
  <2>1. PICK i \in 1 .. Len(q) : Found(t, q[i])
    BY <1>4 DEF InSome
  <2>2. CASE i = 1
    BY <1>1, <2>1, <2>2
  <2>3. CASE i # 1
    <3> DEFINE j == i - 1
    <3>1. j \in 1 .. l /\ i = j + 1
      BY <1>1, <2>3
    <3> HIDE DEF j
    <3>2. Found(t, rest[j])
      BY <1>1, <2>1, <3>1
    <3> QED BY <3>1, <3>2 DEF InSome, l
  <2> QED BY <2>2, <2>3
<1> QED BY <1>2, <1>3, <1>4 DEF q

\* One piece.
LEMMA InSomeOne ==
    ASSUME NEW x, NEW t
    PROVE  InSome(t, <<x>>) <=> Found(t, x)
<1>1. Len(<<x>>) = 1 /\ <<x>>[1] = x /\ 1 .. 1 = {1}
  OBVIOUS
<1> QED BY <1>1 DEF InSome

\* Two pieces.
LEMMA InSomeTwo ==
    ASSUME NEW x, NEW y, NEW t
    PROVE  InSome(t, <<x, y>>) <=> Found(t, x) \/ Found(t, y)
<1>1. Len(<<x, y>>) = 2 /\ <<x, y>>[1] = x /\ <<x, y>>[2] = y /\ 1 .. 2 = {1, 2}
  OBVIOUS
<1> QED BY <1>1 DEF InSome

\* Nothing is in no piece.
LEMMA InNone ==
    ASSUME NEW t
    PROVE  ~InSome(t, << >>) /\ ~Found(t, << >>)
<1>1. Len(<< >>) = 0 /\ 1 .. 0 = {} /\ DOMAIN << >> = {}
  OBVIOUS
<1> QED BY <1>1 DEF InSome, Found

\* What is in one of the pieces is in all of them, joined.
LEMMA FoundInPadded ==
    ASSUME NEW C, White \in C, NEW t \in Seq(C), NEW pieces \in Seq(Seq(C)), InSome(t, pieces)
    PROVE  Found(t, Padded(pieces))
<1> DEFINE S == Seq(C)
           P == {p \in Seq(S) : InSome(t, p) => Found(t, Padded(p))}
<1>1. << >> \in P
  BY InNone, EmptySeq
<1>2. ASSUME NEW p \in Seq(S), NEW e \in S, p \in P PROVE Append(p, e) \in P
  <2> DEFINE q == Append(p, e)
             b == e \o Blank
             w == Padded(p)
  <2>1. q \in Seq(S)
    BY AppendProperties
  <2>2. w \in Seq(C) /\ Padded(q) = w \o b
    BY PaddedAppend
  <2>3. Blank \in Seq(C) /\ b \in Seq(C)
    BY BlankHasNone, BlankAfter
  <2>4. Found(t, e) => Found(t, b)
    BY <2>3, FoundInConcat
  <2>5. InSome(t, p) => Found(t, w)
    BY <1>2
  <2>6. InSome(t, q) <=> InSome(t, p) \/ Found(t, e)
    <3> HIDE DEF S
    <3> QED BY InSomeAppend
  <2> HIDE DEF q, b, w
  <2>7. Found(t, w) \/ Found(t, b) => Found(t, w \o b)
    BY <2>2, <2>3, FoundInConcat
  <2>8. InSome(t, q) => Found(t, Padded(q))
    BY <2>2, <2>4, <2>5, <2>6, <2>7, Zenon
  <2> HIDE DEF S
  <2> QED BY <2>1, <2>8 DEF q
<1>3. Seq(S) \subseteq P
  <2> HIDE DEF P, S
  <2> QED BY <1>1, <1>2, SeqInduction
<1> QED BY <1>3

\* So it is when white space at the ends is stripped.
LEMMA FoundInJoin ==
    ASSUME NEW C, White \in C, NEW t \in Seq(C), Solid(t), NEW pieces \in Seq(Seq(C)),
           InSome(t, pieces)
    PROVE  Found(t, Join(pieces))
<1> DEFINE p == Padded(pieces)
<1>1. p \in Seq(C) /\ Found(t, p)
  BY FoundInPadded, PaddedAppend, EmptySeq
<1>2. Join(pieces) = Strip(p)
  BY DEF Join
<1> HIDE DEF p
<1> QED BY <1>1, <1>2, FoundInStrip

\* A span in which no sentence ends is in one of the sentences.
LEMMA FoundInSentence ==
    ASSUME NEW C, NEW t \in Seq(C), Ink(t) = DOMAIN t, t # << >>, NEW s \in Seq(C), Found(t, s)
    PROVE  InSome(t, Sentences(s))
<1> DEFINE L == Len(s)
           After(x, i) == \A n \in i .. L : There(t, s, n) => InSome(t, x)
           J == {u \in Seq(Seq(C)) \X Nat : After(u[1], u[2])}
<1>1. /\ L \in Nat /\ Len(t) \in Nat /\ Len(t) # 0 /\ DOMAIN t = 1 .. Len(t)
      /\ \A j \in 1 .. Len(t) : t[j] # White
  BY LenProperties, EmptySeq DEF Ink
<1>2. \A i \in L + 1 .. L + 2 : <<(<< >>), i>> \in J
  <2> SUFFICES ASSUME NEW i \in L + 1 .. L + 2 PROVE <<(<< >>), i>> \in J
    OBVIOUS
  <2>1. << >> \in Seq(Seq(C)) /\ i \in Nat /\ i .. L = {}
    BY <1>1, EmptySeq
  <2>2. After(<< >>, i)
    BY <2>1
  <2> HIDE DEF After
  <2> QED BY <2>1, <2>2
<1>3. ASSUME NEW i \in 1 .. L, NEW m \in i .. L + 1, NEW rest \in Seq(Seq(C)),
             m <= L => s[m] = White, <<rest, m + 1>> \in J
      PROVE  <<(<<SubSeq(s, i, m - 1)>> \o rest), i>> \in J
  <2> DEFINE y == SubSeq(s, i, m - 1)
             q == <<y>> \o rest
  <2>1. After(rest, m + 1)
    <3> HIDE DEF After
    <3> QED BY <1>3
  <2>2. y \in Seq(C)
    <3>1. i \in Nat \ {0} /\ m \in Nat /\ m - 1 <= Len(s)
      BY <1>1
    <3> QED BY <3>1, PartIs
  <2>3. InSome(t, q) <=> Found(t, y) \/ InSome(t, rest)
    <3> DEFINE S == Seq(C)
    <3>1. y \in S /\ rest \in Seq(S)
      BY <2>2
    <3> HIDE DEF y, S
    <3> QED BY <3>1, InSomeCons
  <2>4. ASSUME NEW n \in i .. L, There(t, s, n) PROVE InSome(t, q)
    <3>1. n + Len(t) - 1 <= L /\ \A j \in 1 .. Len(t) : s[n + j - 1] = t[j]
      BY <2>4 DEF There
    <3>2. CASE n >= m + 1
      <4>1. InSome(t, rest)
        BY <1>1, <2>1, <2>4, <3>2
      <4> HIDE DEF q
      <4> QED BY <2>3, <4>1
    <3>3. CASE ~(n >= m + 1)
      <4>1. n + Len(t) - 1 < m
        <5> SUFFICES ASSUME ~(n + Len(t) - 1 < m) PROVE FALSE
          OBVIOUS
        <5> DEFINE j == m - n + 1
        <5>1. j \in 1 .. Len(t) /\ n + j - 1 = m /\ m <= L
          BY <1>1, <3>1, <3>3
        <5> HIDE DEF j
        <5>2. s[m] = t[j] /\ t[j] # White
          BY <1>1, <3>1, <5>1
        <5> QED BY <1>3, <5>1, <5>2
      <4> DEFINE b == m - 1
      <4>2. /\ i \in Nat \ {0} /\ b \in Int /\ b <= Len(s) /\ i <= n /\ n + Len(t) - 1 <= b
            /\ n \in 1 .. Len(s)
        BY <1>1, <4>1
      <4> HIDE DEF b, After, J
      <4>3. Found(t, SubSeq(s, i, b))
        BY <2>4, <4>2, FoundInPart
      <4> HIDE DEF q
      <4> QED BY <2>3, <4>3 DEF b
    <3> QED BY <3>2, <3>3
  <2>5. q \in Seq(Seq(C)) /\ i \in Nat
    <3> DEFINE S == Seq(C)
    <3>1. y \in S /\ rest \in Seq(S)
      BY <2>2
    <3> HIDE DEF S, y
    <3>2. q \in Seq(S)
      BY <3>1
    <3> QED BY <3>2 DEF S
  <2>6. After(q, i)
    <3> HIDE DEF q
    <3> QED BY <2>4
  <2> HIDE DEF After, q, y
  <2>7. <<q, i>> \in J
    BY <2>5, <2>6
  <2> QED BY <2>7 DEF q, y
<1>4. <<Sentences(s), 1>> \in J
  <2> HIDE DEF J
  <2>1. \A i \in 1 .. Len(s) : \A m \in i .. Len(s) + 1, rest \in Seq(Seq(C)) :
           (m <= Len(s) => s[m] = White) /\ <<rest, m + 1>> \in J
              => <<(<<SubSeq(s, i, m - 1)>> \o rest), i>> \in J
    BY <1>3, Zenon
  <2> QED BY <1>2, <2>1, SentencesInduction
<1>5. After(Sentences(s), 1)
  <2> HIDE DEF After
  <2> QED BY <1>4
<1>6. PICK n \in 1 .. L : There(t, s, n)
  BY FoundIs
<1> QED BY <1>5, <1>6

\* Packing keeps what is in a sentence in one of the parts.
LEMMA FoundInPack ==
    ASSUME NEW C, White \in C, NEW t \in Seq(C), NEW s \in Seq(C), s # << >>,
           InSome(t, Sentences(s))
    PROVE  InSome(t, Pack(s))
<1> DEFINE sents == Sentences(s)
           All(v) == Append(v.parts, v.buf)
           Good(v, n) == \A i \in 1 .. n : Found(t, sents[i]) => InSome(t, All(v))
           J == {u \in Packing(C) \X Nat : Good(u[1], u[2])}
<1>1. sents \in Seq(Seq(C)) /\ sents # << >> /\ sents = Sentences(s) /\ InSome(t, sents)
  BY SentencesType
<1> HIDE DEF sents
<1>2. Len(sents) \in Nat /\ Len(sents) >= 1 /\ \A n \in 1 .. Len(sents) : sents[n] \in Seq(C)
  BY <1>1, LenProperties, EmptySeq, ElementOfSeq
<1>3. \A v \in Packing(C) : InSome(t, All(v)) <=> InSome(t, v.parts) \/ Found(t, v.buf)
  <2> SUFFICES ASSUME NEW v \in Packing(C)
               PROVE  InSome(t, All(v)) <=> InSome(t, v.parts) \/ Found(t, v.buf)
    OBVIOUS
  <2> DEFINE S == Seq(C)
  <2>1. v.parts \in Seq(S) /\ v.buf \in S
    BY DEF Packing
  <2> HIDE DEF S
  <2> QED BY <2>1, InSomeAppend
<1> HIDE DEF All
<1>4. <<[parts |-> << >>, buf |-> sents[1]], 1>> \in J
  <2> DEFINE v == [parts |-> << >>, buf |-> sents[1]]
  <2>1. v \in Packing(C) /\ v.buf = sents[1]
    <3>1. sents[1] \in Seq(C) /\ << >> \in Seq(Seq(C))
      BY <1>2, EmptySeq
    <3> QED BY <3>1 DEF Packing
  <2> HIDE DEF v
  <2>2. Good(v, 1)
    BY <1>3, <2>1
  <2> HIDE DEF Good
  <2>3. <<v, 1>> \in J
    BY <2>1, <2>2
  <2> QED BY <2>3 DEF v
<1>5. ASSUME NEW n \in 2 .. Len(sents), NEW v \in Packing(C), <<v, n - 1>> \in J
      PROVE  <<PackSentence(v, sents[n]), n>> \in J
  <2> DEFINE sent == sents[n]
             b == v.buf
             p == v.parts
             w == <<White>>
             longer == b \o w \o sent
             tail == LStrip(LastChars(b, OverlapChars))
             after == tail \o w \o sent
             e == IF tail = << >> THEN sent ELSE after
             next == PackSentence(v, sent)
  <2>1. n \in 1 .. Len(sents) /\ n \in Nat /\ sent \in Seq(C)
    BY <1>2
  <2>2. b \in Seq(C) /\ p \in Seq(Seq(C)) /\ w \in Seq(C)
    BY BlankHasNone DEF Packing
  <2>3. Good(v, n - 1)
    <3> HIDE DEF Good
    <3> QED BY <1>5
  <2>4. next \in Packing(C)
    <3> HIDE DEF sent
    <3> QED BY <2>1, PackSentenceType
  <2>5. tail \in Seq(C)
    <3> DEFINE m == Max({0, Len(b) - OverlapChars})
    <3>1. m \in Nat
      <4>1. Len(b) \in Nat
        BY <2>2, LenProperties
      <4>2. Len(b) - OverlapChars \in Int
        BY <4>1, SizesAssumption
      <4> QED BY <4>2, MaxOfTwo
    <3>3. tail = LStrip(From(b, m))
      BY DEF LastChars
    <3> HIDE DEF m, b, tail
    <3>2. From(b, m) \in Seq(C)
      BY <2>2, <3>1, FromIs
    <3> QED BY <3>2, <3>3, LStripIs
  <2> HIDE DEF sent, b, p, w, tail
  <2>6. ASSUME NEW x \in Seq(C), Found(t, x) \/ Found(t, sent) PROVE Found(t, x \o w \o sent)
    <3> DEFINE u == x \o w
    <3>1. u \in Seq(C)
      BY <2>2, ConcatProperties
    <3>2. Found(t, x) => Found(t, u)
      BY <2>2, FoundInConcat
    <3> HIDE DEF u
    <3>3. Found(t, u) \/ Found(t, sent)
      BY <2>6, <3>2
    <3>4. Found(t, u \o sent)
      BY <2>1, <3>1, <3>3, FoundInConcat
    <3> QED BY <3>4 DEF u
  <2>7. InSome(t, All(v)) \/ Found(t, sent) => InSome(t, All(next))
    <3>1. InSome(t, All(v)) <=> InSome(t, p) \/ Found(t, b)
      BY <1>3 DEF p, b
    <3>2. InSome(t, All(next)) <=> InSome(t, next.parts) \/ Found(t, next.buf)
      <4> HIDE DEF next
      <4> QED BY <1>3, <2>4
    <3>3. CASE Len(longer) > MaxChars
      <4>1. next = [parts |-> Append(p, b), buf |-> e]
        BY <3>3, Zenon DEF PackSentence, tail, w, p, b
      <4> DEFINE q == Append(p, b)
      <4> HIDE DEF e, q
      <4>2. next.parts = q /\ next.buf = e
        BY <4>1 DEF q
      <4>3. InSome(t, q) <=> InSome(t, p) \/ Found(t, b)
        <5> DEFINE S == Seq(C)
        <5>1. p \in Seq(S) /\ b \in S
          BY <2>2
        <5> HIDE DEF S
        <5> QED BY <5>1, InSomeAppend DEF q
      <4>4. Found(t, sent) => Found(t, e)
        <5>1. Found(t, sent) => Found(t, tail \o w \o sent)
          BY <2>5, <2>6
        <5> QED BY <5>1 DEF e
      <4> HIDE DEF next
      <4> QED BY <3>1, <3>2, <4>2, <4>3, <4>4
    <3>4. CASE ~(Len(longer) > MaxChars)
      <4>1. next = [v EXCEPT !.buf = longer]
        BY <3>4, Zenon DEF PackSentence, w, b
      <4>2. Found(t, b) \/ Found(t, sent) => Found(t, longer)
        BY <2>2, <2>6
      <4> HIDE DEF longer
      <4>3. next.parts = p /\ next.buf = longer
        BY <4>1 DEF Packing, p
      <4> HIDE DEF next
      <4> QED BY <3>1, <3>2, <4>2, <4>3
    <3> QED BY <3>3, <3>4
  <2> HIDE DEF next
  <2>8. Good(next, n)
    <3> SUFFICES ASSUME NEW i \in 1 .. n, Found(t, sents[i]) PROVE InSome(t, All(next))
      OBVIOUS
    <3>1. i \in 1 .. n - 1 \/ i = n
      BY <2>1
    <3> QED BY <2>3, <2>7, <3>1 DEF sent
  <2> HIDE DEF Good
  <2>9. <<next, n>> \in J
    BY <2>1, <2>4, <2>8
  <2> QED BY <2>9 DEF next, sent
<1>6. PICK v \in Packing(C) : /\ <<v, Len(sents)>> \in J
                              /\ Pack(s) = Append(v.parts, v.buf)
  <2> HIDE DEF J
  <2>1. \A n \in 2 .. Len(sents), v \in Packing(C) :
           <<v, n - 1>> \in J => <<PackSentence(v, sents[n]), n>> \in J
    BY <1>5, Zenon
  <2> QED BY <1>1, <1>4, <2>1, PackInduction
<1>7. Good(v, Len(sents))
  <2> HIDE DEF Good
  <2> QED BY <1>6
<1>8. PICK i \in 1 .. Len(sents) : Found(t, sents[i])
  BY <1>1 DEF InSome
<1>9. Pack(s) = All(v)
  BY <1>6 DEF All
<1> QED BY <1>7, <1>8, <1>9

-----------------------------------------------------------------------------
(* PIIWhole.                                                               *)

\* t is in one of the chunks.
InChunk(t, found) == \E i \in 1 .. Len(found) : Found(t, found[i].content)

\* A chunk more has what the chunks before have, and what its text has.
LEMMA InChunkAppend ==
    ASSUME NEW K, NEW found \in Seq(K), NEW e \in K, NEW t
    PROVE  InChunk(t, found) \/ Found(t, e.content) => InChunk(t, Append(found, e))
<1> DEFINE q == Append(found, e)
           l == Len(found)
<1>1. l \in Nat /\ Len(q) = l + 1 /\ q[l + 1] = e /\ \A i \in 1 .. l : q[i] = found[i]
  BY AppendProperties, LenProperties
<1> HIDE DEF q, l
<1>2. InChunk(t, found) => InChunk(t, q)
  <2> SUFFICES ASSUME NEW i \in 1 .. l, Found(t, found[i].content) PROVE InChunk(t, q)
    BY DEF InChunk, l
  <2>1. i \in 1 .. Len(q) /\ q[i] = found[i]
    BY <1>1
  <2> QED BY <2>1 DEF InChunk
<1>3. Found(t, e.content) => InChunk(t, q)
  <2>1. l + 1 \in 1 .. Len(q)
    BY <1>1
  <2> QED BY <1>1, <2>1 DEF InChunk
<1> QED BY <1>2, <1>3 DEF q

\* What is in a chunk or in the buffer is in a chunk after a flush.
LEMMA FlushKeeps ==
    ASSUME Sections, NEW t \in Seq(Alphabet), Solid(t), InChunk(t, chunks) \/ InSome(t, buf)
    PROVE  InChunk(t, Flushed)
<1>1. /\ White \in Alphabet /\ Strings(path) \subseteq Seq(Alphabet)
      /\ buf \in Seq(Strings(path)) /\ chunks \in Seq(Placed)
  BY SectionCharsAre, AllInkIs DEF Sections
<1>2. buf \in Seq(Seq(Alphabet))
  BY <1>1, SeqMonotone
<1>3. InSome(t, buf) => Found(t, Join(buf))
  BY <1>1, <1>2, FoundInJoin
<1>4. CASE Join(buf) = << >>
  BY <1>3, <1>4, InNone DEF Flushed
<1>5. CASE Join(buf) # << >>
  <2> DEFINE j == Join(buf)
             e == Chunk(j, FALSE)
  <2>1. e \in Placed /\ e.content = j
    BY BufIs, ChunkPlaced DEF Chunk
  <2>2. Flushed = Append(chunks, e)
    BY <1>5 DEF Flushed
  <2> HIDE DEF j, e
  <2>3. InChunk(t, chunks) \/ Found(t, e.content)
    BY <1>3, <2>1 DEF j
  <2>4. InChunk(t, Append(chunks, e))
    BY <1>1, <2>1, <2>3, InChunkAppend
  <2> QED BY <2>2, <2>4
<1> QED BY <1>4, <1>5

\* Nothing is cut in a span: the span is before the cut, or after the place where
\* the next part starts.
LEMMA CutKeeps ==
    ASSUME doc \in Documents, remaining \in Seq(Alphabet), CutAt < Len(remaining),
           NEW t \in Secrets, Solid(t), Found(t, remaining)
    PROVE  \/ Found(t, Strip(SubSeq(remaining, 1, CutAt)))
           \/ Found(t, LStrip(From(remaining, Max({0, CutAt - OverlapChars}))))
<1>1. t \in Seq(Alphabet) /\ t # << >>
  BY SecretsAre DEF Solid
<1>2. PICK n \in 1 .. Len(remaining) : OccursAt(remaining, t, n)
  <2>1. DOMAIN remaining = 1 .. Len(remaining)
    BY LenProperties
  <2> QED BY <2>1 DEF Found
<1>3. There(t, remaining, n)
  BY <1>1, <1>2, OccursThere
<1> DEFINE m == CutAt
           start == CutAt - OverlapChars
           span == <<n - 1, n - 1 + Len(t)>>
<1>4. /\ m \in Nat /\ m <= Len(remaining) /\ start \in Nat \ {0} /\ start <= m
      /\ Max({0, CutAt - OverlapChars}) = start
      /\ Len(remaining) \in Nat /\ Len(t) \in Nat /\ Len(t) # 0
  <2>1. /\ m \in Nat /\ start \in Nat \ {0} /\ Len(remaining) \in Nat
        /\ Max({0, CutAt - OverlapChars}) = start
    BY CutAtIs
  <2>2. Len(t) \in Nat /\ Len(t) # 0
    BY <1>1, LenProperties, EmptySeq
  <2> QED BY <2>1, <2>2, SizesAssumption
<1>5. ~(n - 1 < m /\ m < n - 1 + Len(t))
  <2>1. span \in Spans(remaining)
    <3>1. n \in {i \in DOMAIN remaining : OccursAt(remaining, t, i)}
      BY <1>2, LenProperties
    <3> QED BY <3>1 DEF Spans
  <2>2. ~(span[1] < m /\ m < span[2])
    <3>1. MaxChars \in Nat /\ remaining \in Seq(Alphabet)
      BY SizesAssumption
    <3>2. \A p \in Spans(remaining) : ~(p[1] < CutAt /\ CutAt < p[2])
      BY <3>1, CutOf DEF CutAt
    <3> QED BY <2>1, <3>2
  <2>3. span[1] = n - 1 /\ span[2] = n - 1 + Len(t)
    OBVIOUS
  <2> QED BY <2>2, <2>3
<1> HIDE DEF m, start, span
<1>6. n + Len(t) - 1 <= Len(remaining)
  BY <1>3 DEF There
<1>7. CASE n - 1 + Len(t) <= m
  <2>1. /\ 1 \in Nat \ {0} /\ m \in Int /\ m <= Len(remaining) /\ 1 <= n
        /\ n + Len(t) - 1 <= m
    BY <1>4, <1>7
  <2>2. Found(t, SubSeq(remaining, 1, m))
    BY <1>1, <1>3, <2>1, FoundInPart
  <2>3. SubSeq(remaining, 1, m) \in Seq(Alphabet)
    BY <2>1, PartOfString
  <2>4. Found(t, Strip(SubSeq(remaining, 1, m)))
    BY <1>1, <2>2, <2>3, FoundInStrip
  <2> QED BY <2>4 DEF m
<1>8. CASE m <= n - 1
  <2> DEFINE a == start + 1
             b == Len(remaining)
  <2>1. a \in Nat \ {0} /\ b \in Int /\ b <= Len(remaining) /\ a <= n /\ n + Len(t) - 1 <= b
    BY <1>4, <1>6, <1>8
  <2>5. From(remaining, start) = SubSeq(remaining, a, b)
    BY DEF From
  <2> HIDE DEF a, b
  <2>2. Found(t, SubSeq(remaining, a, b))
    BY <1>1, <1>3, <2>1, FoundInPart
  <2>3. SubSeq(remaining, a, b) \in Seq(Alphabet)
    BY <2>1, PartOfString
  <2>4. Found(t, LStrip(SubSeq(remaining, a, b)))
    BY <1>1, <2>2, <2>3, FoundInStrip
  <2> QED BY <1>4, <2>4, <2>5
<1> QED BY <1>4, <1>5, <1>7, <1>8

\* The merged tail has what the two chunks have.
LEMMA MergeKeeps ==
    ASSUME doc \in Documents, NEW found \in Seq(Placed), NEW t \in Seq(Alphabet),
           InChunk(t, found)
    PROVE  InChunk(t, MergeTail(found))
<1> DEFINE n == Len(found)
           x == found[n - 1]
           y == found[n]
           small == /\ n >= 2 /\ Len(y.content) < MinChars
                    /\ y.path = x.path
           text == x.content \o <<White, White>> \o y.content
           made == [content |-> text, path |-> x.path, table |-> x.table \/ y.table]
           front == SubSeq(found, 1, n - 2)
<1>1. n \in Nat
  BY LenProperties
<1>2. CASE ~small
  <2>1. MergeTail(found) = found
    BY <1>2, Zenon DEF MergeTail
  <2> QED BY <2>1
<1>3. CASE small
  <2>1. MergeTail(found) = Append(front, made)
    BY <1>3, Zenon DEF MergeTail
  <2>2. /\ Len(Append(front, made)) = n - 1
        /\ Append(front, made)[n - 1] = made
        /\ \A i \in 1 .. n - 2 : Append(front, made)[i] = found[i]
    <3> HIDE DEF made
    <3>1. front \in Seq(Placed) /\ Len(front) = n - 2 /\ \A i \in 1 .. n - 2 : front[i] = found[i]
      <4> DEFINE m == n - 2
      <4>1. m \in Nat /\ m <= Len(found)
        BY <1>1, <1>3
      <4> HIDE DEF m, n
      <4>2. /\ SubSeq(found, 1, m) \in Seq(Placed) /\ Len(SubSeq(found, 1, m)) = m
            /\ \A i \in 1 .. m : SubSeq(found, 1, m)[i] = found[i]
        <5>1. \A i \in 1 .. m : found[i] \in Placed
          BY <4>1, ElementOfSeq, LenProperties
        <5> QED BY <4>1, <5>1, SubSeqProperties
      <4> QED BY <4>2 DEF m
    <3> HIDE DEF front
    <3> QED BY <1>1, <1>3, <3>1
  <2>3. Found(t, x.content) \/ Found(t, y.content) => Found(t, text)
    <3>1. x.content \in Seq(Alphabet) /\ y.content \in Seq(Alphabet)
      <4>1. n \in 1 .. n /\ n - 1 \in 1 .. n
        BY <1>1, <1>3
      <4>2. x \in Placed /\ y \in Placed
        BY <4>1, ElementOfSeq
      <4> HIDE DEF x, y
      <4> QED BY <4>2 DEF Placed
    <3>2. <<White, White>> \in Seq(Alphabet)
      BY AllInkIs
    <3> DEFINE u == x.content
               v == y.content
               w == <<White, White>>
               p == u \o w
    <3> HIDE DEF x, y, w, u, v
    <3>3. u \in Seq(Alphabet) /\ v \in Seq(Alphabet) /\ w \in Seq(Alphabet)
      BY <3>1, <3>2 DEF u, v, w
    <3>4. p \in Seq(Alphabet) /\ (Found(t, u) => Found(t, p))
      BY <3>3, ConcatProperties, FoundInConcat
    <3> HIDE DEF p
    <3>5. Found(t, p) \/ Found(t, v) => Found(t, p \o v)
      BY <3>3, <3>4, FoundInConcat
    <3> QED BY <3>4, <3>5 DEF p, u, v, w
  <2>4. PICK i \in 1 .. n : Found(t, found[i].content)
    BY DEF InChunk
  <2> DEFINE q == Append(front, made)
  <2>5. made.content = text
    OBVIOUS
  <2> HIDE DEF q, made, front, text
  <2>6. CASE i \in 1 .. n - 2
    <3>1. i \in 1 .. Len(q) /\ q[i] = found[i]
      BY <1>1, <2>2, <2>6 DEF q
    <3> HIDE DEF n
    <3> QED BY <2>1, <2>4, <3>1 DEF InChunk, q
  <2>7. CASE ~(i \in 1 .. n - 2)
    <3>1. i = n - 1 \/ i = n
      BY <1>1, <2>7
    <3>2. Found(t, made.content)
      BY <2>3, <2>4, <2>5, <3>1
    <3>3. n - 1 \in 1 .. Len(q) /\ q[n - 1] = made
      BY <1>1, <1>3, <2>2 DEF q
    <3>4. InChunk(t, q)
      BY <3>2, <3>3 DEF InChunk
    <3> QED BY <2>1, <3>4 DEF q
  <2> QED BY <2>6, <2>7
<1> QED BY <1>2, <1>3

\* t is a span of personal data of block k.
SpanOf(t, k) == \E span \in doc[k].pii : t = SubSeq(Text(k), span[1], span[2])

\* Every span is of a block, and in the block's text.
LEMMA SpanFound ==
    ASSUME doc \in Documents, NEW t \in Secrets, Solid(t)
    PROVE  /\ t \in Seq(Alphabet) /\ \E k \in Bodies : SpanOf(t, k)
           /\ \A k \in Bodies : SpanOf(t, k) => Found(t, Text(k))
<1>1. t \in Seq(Alphabet) /\ t # << >>
  BY SecretsAre DEF Solid
<1>2. \E k \in Bodies : SpanOf(t, k)
  BY DEF Secrets, SpanOf
<1>3. ASSUME NEW k \in Bodies, SpanOf(t, k) PROVE Found(t, Text(k))
  <2>1. PICK span \in doc[k].pii : t = SubSeq(Text(k), span[1], span[2])
    BY <1>3 DEF SpanOf
  <2> DEFINE s == Text(k)
             i == span[1]
             m == span[2]
  <2>2. s \in Seq(Alphabet) /\ Len(s) = doc[k].size /\ doc[k].size \in Nat
    BY TextIs
  <2>3. i \in 1 .. Len(s) /\ m \in 1 .. Len(s)
    <3>1. span \in (1 .. doc[k].size) \X (1 .. doc[k].size)
      BY BlockIs
    <3> QED BY <2>2, <3>1
  <2> HIDE DEF s, i, m
  <2>4. t = SubSeq(s, i, m) /\ i \in Nat \ {0} /\ m \in Int /\ m <= Len(s)
    BY <2>1, <2>2, <2>3 DEF s, i, m
  <2>5. /\ Len(SubSeq(s, i, m)) = IF i <= m THEN m - i + 1 ELSE 0
        /\ \A j \in 1 .. m - i + 1 : SubSeq(s, i, m)[j] = s[i + j - 1]
    BY <2>2, <2>4, PartOfString
  <2>6. Len(t) = m - i + 1 /\ Len(t) # 0
    <3>1. Len(t) # 0
      BY <1>1, EmptySeq
    <3> QED BY <2>4, <2>5, <3>1
  <2>7. There(t, s, i)
    BY <2>3, <2>4, <2>5, <2>6 DEF There
  <2>8. Found(t, s)
    BY <1>1, <2>2, <2>3, <2>7, FoundIs
  <2> QED BY <2>8 DEF s
<1> QED BY <1>1, <1>2, <1>3

\* t is a span of a block that the loop is past, or in.
Seen(t) ==
    \E k \in Bodies :
        SpanOf(t, k) /\ (k < at \/ (k = at /\ pc \in {"cut", "place"}))

\* t is whole in a chunk, or in what is still to become one.
Somewhere(t) ==
    InChunk(t, chunks) \/ InSome(t, buf) \/ InSome(t, subs) \/ Found(t, remaining)

\* No such span, once seen, is lost.
Kept == \A t \in Secrets : Unbroken(t) /\ Seen(t) => Somewhere(t)

\* The inductive invariant of PIIWhole.
Whole == (pc # "done" => Kept) /\ PIIWhole

\* Whole holds at the start.
LEMMA WholeInit == Init => Whole
<1> SUFFICES ASSUME Init PROVE Whole
  OBVIOUS
<1>1. pc = "block" /\ at = 1 /\ doc \in Documents
  BY DEF Init
<1>2. PIIWhole
  BY <1>1 DEF PIIWhole
<1>3. \A k \in Bodies : ~(k < 1)
  BY <1>1, DocumentIs DEF Bodies
<1>4. Kept
  BY <1>1, <1>3 DEF Kept, Seen
<1> QED BY <1>2, <1>4 DEF Whole

\* What is known of such a span in a step.
LEMMA UnbrokenIs ==
    ASSUME doc \in Documents, NEW t \in Secrets, Unbroken(t)
    PROVE  /\ t \in Seq(Alphabet) /\ Solid(t) /\ t # << >>
           /\ punkt => Ink(t) = DOMAIN t
BY SecretsAre DEF Unbroken, Solid

\* Personal data does not change with the loop.
LEMMA SpansStay ==
    ASSUME doc' = doc, punkt' = punkt
    PROVE  /\ Secrets' = Secrets /\ Bodies' = Bodies
           /\ \A t : Unbroken(t)' <=> Unbroken(t)
           /\ \A t : \A k : SpanOf(t, k)' <=> SpanOf(t, k)
<1>1. Bodies' = Bodies
  BY DEF Bodies
<1>2. Secrets' = Secrets
  BY <1>1 DEF Secrets, Text
<1>3. \A t : Unbroken(t)' <=> Unbroken(t)
  BY DEF Unbroken, Ink
<1>4. \A t : \A k : SpanOf(t, k)' <=> SpanOf(t, k)
  BY DEF SpanOf, Text
<1> QED BY <1>1, <1>2, <1>3, <1>4

\* How the invariant is shown again after a step.
LEMMA WholeAfter ==
    ASSUME doc' = doc, punkt' = punkt, pc' # "done",
           \A t \in Secrets : Unbroken(t) =>
              \A k \in Bodies :
                 SpanOf(t, k) /\ (k < at' \/ (k = at' /\ pc' \in {"cut", "place"})) =>
                    \/ InChunk(t, chunks') \/ InSome(t, buf') \/ InSome(t, subs')
                    \/ Found(t, remaining')
    PROVE  Whole'
<1>1. /\ Secrets' = Secrets /\ Bodies' = Bodies
      /\ \A t : Unbroken(t)' <=> Unbroken(t)
      /\ \A t : \A k : SpanOf(t, k)' <=> SpanOf(t, k)
  BY SpansStay
<1>2. PIIWhole'
  BY DEF PIIWhole
<1>3. Kept'
  <2> SUFFICES ASSUME NEW t \in Secrets', Unbroken(t)', Seen(t)' PROVE Somewhere(t)'
    BY DEF Kept
  <2>1. t \in Secrets /\ Unbroken(t)
    BY <1>1
  <2>2. PICK k \in Bodies : SpanOf(t, k) /\ (k < at' \/ (k = at' /\ pc' \in {"cut", "place"}))
    BY <1>1 DEF Seen
  <2>3. \/ InChunk(t, chunks') \/ InSome(t, buf') \/ InSome(t, subs')
        \/ Found(t, remaining')
    BY <2>1, <2>2
  <2> QED BY <2>3 DEF Somewhere, InChunk, InSome, Found, OccursAt
<1> QED BY <1>2, <1>3 DEF Whole

\* Where such a span of an earlier block is.
LEMMA KeptIs ==
    ASSUME Whole, pc # "done", NEW t \in Secrets, Unbroken(t), NEW k \in Bodies, SpanOf(t, k),
           k < at \/ (k = at /\ pc \in {"cut", "place"})
    PROVE  InChunk(t, chunks) \/ InSome(t, buf) \/ InSome(t, subs) \/ Found(t, remaining)
<1>1. Kept /\ Seen(t)
  BY DEF Whole, Seen
<1> QED BY <1>1 DEF Kept, Somewhere

\* Heading preserves Whole: what was in the buffer is in a chunk.
LEMMA WholeHeading ==
    ASSUME Sections, Whole, Heading
    PROVE  Whole'
<1>1. /\ doc' = doc /\ punkt' = punkt /\ pc = "block" /\ pc' = "block" /\ at' = at + 1
      /\ chunks' = Flushed /\ subs = << >> /\ remaining = << >>
  BY DEF Heading, AtBlock, Sections
<1>2. ASSUME NEW t \in Secrets, Unbroken(t), NEW k \in Bodies, SpanOf(t, k), k < at'
      PROVE  InChunk(t, chunks')
  <2>1. k < at
    <3>1. k \in Nat /\ at \in Nat /\ doc[at].kind = "heading" /\ doc[k].kind # "heading"
      BY DocumentIs DEF Sections, Bodies, Heading, AtBlock
    <3> QED BY <1>1, <1>2, <3>1
  <2>2. InChunk(t, chunks) \/ InSome(t, buf)
    <3>1. InChunk(t, chunks) \/ InSome(t, buf) \/ InSome(t, subs) \/ Found(t, remaining)
      BY <1>1, <1>2, <2>1, KeptIs
    <3> QED BY <1>1, <3>1, InNone
  <2>3. t \in Seq(Alphabet) /\ Solid(t)
    BY <1>2, UnbrokenIs DEF Sections
  <2> QED BY <1>1, <2>2, <2>3, FlushKeeps
<1> QED BY <1>1, <1>2, WholeAfter

\* Table preserves Whole: the spans of the table are in its chunk.
LEMMA WholeTable ==
    ASSUME Sections, Whole, Table
    PROVE  Whole'
<1>1. /\ doc' = doc /\ punkt' = punkt /\ pc = "block" /\ pc' = "block" /\ at' = at + 1
      /\ chunks' = Append(Flushed, Chunk(Strip(Text(at)), TRUE))
      /\ subs = << >> /\ remaining = << >> /\ doc \in Documents
  BY DEF Table, AtBlock, Sections
<1> DEFINE x == Strip(Text(at))
           e == Chunk(x, TRUE)
<1>2. at \in Bodies /\ Text(at) \in Seq(Alphabet) /\ Flushed \in Seq(Placed) /\ e \in Placed
      /\ e.content = x
  <2>1. at \in Bodies /\ Text(at) \in Strings(path)
    BY AtBodies DEF Table
  <2>2. x \in Strings(path)
    BY <2>1, StripIs DEF Strings
  <2>3. e \in Placed
    BY <2>2, ChunkPlaced
  <2> QED BY <1>1, <2>1, <2>3, TextIs, BufIs DEF Chunk
<1> HIDE DEF e
<1>3. ASSUME NEW t \in Secrets, Unbroken(t), NEW k \in Bodies, SpanOf(t, k), k < at'
      PROVE  InChunk(t, chunks')
  <2>1. t \in Seq(Alphabet) /\ Solid(t)
    BY <1>1, <1>3, UnbrokenIs
  <2>2. k < at \/ k = at
    <3>1. k \in Nat /\ at \in Nat
      BY <1>1, TextIs DEF Sections
    <3> QED BY <1>1, <1>3, <3>1
  <2>3. CASE k < at
    <3>1. InChunk(t, chunks) \/ InSome(t, buf)
      <4>1. InChunk(t, chunks) \/ InSome(t, buf) \/ InSome(t, subs) \/ Found(t, remaining)
        BY <1>1, <1>3, <2>3, KeptIs
      <4> QED BY <1>1, <4>1, InNone
    <3>2. InChunk(t, Flushed)
      BY <2>1, <3>1, FlushKeeps
    <3> QED BY <1>1, <1>2, <3>2, InChunkAppend DEF e
  <2>4. CASE k = at
    <3>1. Found(t, Text(at))
      BY <1>1, <1>3, <2>1, <2>4, SpanFound
    <3>2. Found(t, e.content)
      BY <1>2, <2>1, <3>1, FoundInStrip
    <3> QED BY <1>1, <1>2, <3>2, InChunkAppend DEF e
  <2> QED BY <2>2, <2>3, <2>4
<1> QED BY <1>1, <1>3, WholeAfter

\* The sentences of a block, packed, have every span that no sentence ends in.
LEMMA WholeTextBlock ==
    ASSUME Sections, Whole, TextBlock
    PROVE  Whole'
<1>1. /\ doc' = doc /\ punkt' = punkt /\ pc = "block" /\ pc' \in {"cut", "place"} /\ at' = at
      /\ chunks' = chunks /\ buf' = buf
      /\ subs = << >> /\ remaining = << >> /\ doc \in Documents
      /\ \/ remaining' = Text(at)
         \/ subs' = <<Text(at)>>
         \/ punkt /\ subs' = Pack(Text(at))
  BY DEF TextBlock, AtBlock, Sections
<1> DEFINE s == Text(at)
<1>2. at \in Bodies /\ s \in Seq(Alphabet) /\ s # << >> /\ White \in Alphabet
  <2>1. at \in Bodies /\ s # << >>
    BY AtBodies DEF TextBlock
  <2> QED BY <1>1, <2>1, TextIs
<1>3. ASSUME NEW t \in Secrets, Unbroken(t), NEW k \in Bodies, SpanOf(t, k),
             k < at' \/ (k = at' /\ pc' \in {"cut", "place"})
      PROVE  \/ InChunk(t, chunks') \/ InSome(t, buf') \/ InSome(t, subs')
             \/ Found(t, remaining')
  <2>1. t \in Seq(Alphabet) /\ Solid(t) /\ t # << >> /\ (punkt => Ink(t) = DOMAIN t)
    BY <1>1, <1>3, UnbrokenIs
  <2>2. CASE k < at
    <3>1. InChunk(t, chunks) \/ InSome(t, buf)
      <4>1. InChunk(t, chunks) \/ InSome(t, buf) \/ InSome(t, subs) \/ Found(t, remaining)
        BY <1>1, <1>3, <2>2, KeptIs
      <4> QED BY <1>1, <4>1, InNone
    <3> QED BY <1>1, <3>1
  <2>3. CASE k = at
    <3>1. Found(t, s)
      BY <1>1, <1>3, <2>1, <2>3, SpanFound
    <3> HIDE DEF s
    <3>2. CASE remaining' = s
      BY <3>1, <3>2
    <3>3. CASE subs' = <<s>>
      BY <3>1, <3>3, InSomeOne
    <3>4. CASE punkt /\ subs' = Pack(s)
      <4>1. InSome(t, Sentences(s))
        BY <1>2, <2>1, <3>1, <3>4, FoundInSentence
      <4>2. InSome(t, Pack(s))
        BY <1>2, <2>1, <4>1, FoundInPack
      <4> QED BY <3>4, <4>2
    <3> QED BY <1>1, <3>2, <3>3, <3>4 DEF s
  <2> QED BY <1>1, <1>3, <2>2, <2>3
<1>4. pc' # "done"
  BY <1>1
<1> QED BY <1>1, <1>3, <1>4, WholeAfter

\* Cut preserves Whole.
LEMMA WholeCut ==
    ASSUME Sections, Whole, Cut
    PROVE  Whole'
<1> DEFINE x == Strip(SubSeq(remaining, 1, CutAt))
           y == LStrip(From(remaining, Max({0, CutAt - OverlapChars})))
<1>1. /\ doc' = doc /\ punkt' = punkt /\ pc = "cut" /\ pc' = "cut" /\ at' = at
      /\ chunks' = chunks /\ buf' = buf /\ subs' = Append(subs, x) /\ remaining' = y
      /\ CutAt < Len(remaining) /\ doc \in Documents
  BY DEF Cut, Long, Sections
<1>2. subs \in Seq(Seq(Alphabet)) /\ remaining \in Seq(Alphabet) /\ x \in Seq(Alphabet)
  <2>1. Strings(path) \subseteq Seq(Alphabet)
    BY <1>1, SectionCharsAre
  <2>2. subs \in Seq(Seq(Alphabet)) /\ remaining \in Seq(Alphabet)
    BY <2>1, SeqMonotone DEF Sections
  <2>3. CutAt \in Nat /\ Len(remaining) \in Nat
    BY <1>1, <2>2, CutAtIs
  <2> DEFINE m == CutAt
  <2>4. m \in Int /\ 1 \in Nat \ {0} /\ m <= Len(remaining)
    BY <1>1, <2>3
  <2> HIDE DEF m
  <2>5. SubSeq(remaining, 1, m) \in Seq(Alphabet)
    BY <2>2, <2>4, PartOfString
  <2> QED BY <2>2, <2>5, StripIs DEF m
<1> HIDE DEF x, y
<1>3. ASSUME NEW t \in Secrets, Unbroken(t), NEW k \in Bodies, SpanOf(t, k),
             k < at' \/ (k = at' /\ pc' \in {"cut", "place"})
      PROVE  \/ InChunk(t, chunks') \/ InSome(t, buf') \/ InSome(t, subs')
             \/ Found(t, remaining')
  <2>1. Solid(t)
    BY <1>1, <1>3, UnbrokenIs
  <2>2. InChunk(t, chunks) \/ InSome(t, buf) \/ InSome(t, subs) \/ Found(t, remaining)
    BY <1>1, <1>3, KeptIs
  <2>3. InSome(t, subs') <=> InSome(t, subs) \/ Found(t, x)
    <3> DEFINE S == Seq(Alphabet)
    <3>1. subs \in Seq(S) /\ x \in S
      BY <1>2
    <3> HIDE DEF S
    <3> QED BY <1>1, <3>1, InSomeAppend
  <2>4. Found(t, remaining) => Found(t, x) \/ Found(t, y)
    BY <1>1, <1>2, <2>1, CutKeeps DEF x, y
  <2> QED BY <1>1, <2>2, <2>3, <2>4
<1>4. pc' # "done"
  BY <1>1
<1> QED BY <1>1, <1>3, <1>4, WholeAfter

\* CutEnds preserves Whole.
LEMMA WholeCutEnds ==
    ASSUME Sections, Whole, CutEnds
    PROVE  Whole'
<1> DEFINE x == Strip(remaining)
<1>1. /\ doc' = doc /\ punkt' = punkt /\ pc = "cut" /\ pc' = "place" /\ at' = at
      /\ chunks' = chunks /\ buf' = buf
      /\ doc \in Documents
      /\ x # << >> => subs' = Append(subs, x)
      /\ x = << >> /\ subs # << >> => subs' = subs
  BY DEF CutEnds, Sections
<1>2. subs \in Seq(Seq(Alphabet)) /\ remaining \in Seq(Alphabet) /\ x \in Seq(Alphabet)
  <2>1. Strings(path) \subseteq Seq(Alphabet)
    BY <1>1, SectionCharsAre
  <2>2. subs \in Seq(Seq(Alphabet)) /\ remaining \in Seq(Alphabet)
    BY <2>1, SeqMonotone DEF Sections
  <2> QED BY <2>2, StripIs
<1> HIDE DEF x
<1>3. ASSUME NEW t \in Secrets, Unbroken(t), NEW k \in Bodies, SpanOf(t, k),
             k < at' \/ (k = at' /\ pc' \in {"cut", "place"})
      PROVE  \/ InChunk(t, chunks') \/ InSome(t, buf') \/ InSome(t, subs')
             \/ Found(t, remaining')
  <2>1. t \in Seq(Alphabet) /\ Solid(t)
    BY <1>1, <1>3, UnbrokenIs
  <2>2. InChunk(t, chunks) \/ InSome(t, buf) \/ InSome(t, subs) \/ Found(t, remaining)
    BY <1>1, <1>3, KeptIs
  <2>3. Found(t, remaining) => Found(t, x)
    BY <1>2, <2>1, FoundInStrip DEF x
  <2>4. InSome(t, subs) \/ Found(t, x) => InSome(t, subs')
    <3>1. CASE x # << >>
      <4> DEFINE S == Seq(Alphabet)
      <4>1. subs \in Seq(S) /\ x \in S
        BY <1>2
      <4> HIDE DEF S
      <4>2. subs' = Append(subs, x)
        BY <1>1, <3>1
      <4> QED BY <4>1, <4>2, InSomeAppend
    <3>2. CASE x = << >>
      BY <1>1, <3>2, InNone
    <3> QED BY <3>1, <3>2
  <2> QED BY <1>1, <2>2, <2>3, <2>4
<1>4. pc' # "done"
  BY <1>1
<1> QED BY <1>1, <1>3, <1>4, WholeAfter

\* Place preserves Whole: the part is in the buffer, and a full buffer in a chunk.
LEMMA WholePlace ==
    ASSUME Sections, Whole, Place
    PROVE  Whole'
<1> DEFINE sub == Head(subs)
           rest == Tail(subs)
           carried == Carried(Join(buf))
<1>1. /\ doc' = doc /\ punkt' = punkt /\ pc = "place" /\ pc' \in {"place", "block"}
      /\ subs' = rest /\ subs # << >> /\ remaining = << >> /\ at \in Bodies
      /\ pc' = "place" => at' = at
      /\ at' = at \/ at' = at + 1
      /\ doc \in Documents
  BY DEF Place, Sections
<1>2. \/ chunks' = chunks /\ buf' = Append(buf, sub)
      \/ chunks' = Flushed /\ (buf' = <<sub>> \/ buf' = <<carried, sub>>)
  <2>1. \/ chunks' = chunks /\ buf' = Append(buf, sub)
        \/ buf = << >> /\ chunks' = chunks /\ buf' = <<sub>>
        \/ chunks' = Flushed /\ buf' = <<sub>>
        \/ chunks' = Flushed /\ buf' = <<carried, sub>>
    BY PlaceIs, Zenon
  <2>2. Append(<< >>, sub) = <<sub>>
    OBVIOUS
  <2> HIDE DEF sub, carried
  <2> QED BY <2>1, <2>2
<1>3. /\ subs = <<sub>> \o rest /\ sub \in Seq(Alphabet) /\ rest \in Seq(Seq(Alphabet))
      /\ buf \in Seq(Seq(Alphabet))
  <2> DEFINE S == Seq(Alphabet)
  <2>1. subs \in Seq(S) /\ buf \in Seq(S)
    <3>1. Strings(path) \subseteq S
      BY <1>1, SectionCharsAre
    <3> HIDE DEF S
    <3> QED BY <3>1, SeqMonotone DEF Sections
  <2> HIDE DEF S
  <2>2. sub \in S /\ rest \in Seq(S) /\ subs = <<sub>> \o rest
    BY <1>1, <2>1, HeadAndTail
  <2> QED BY <2>1, <2>2 DEF S
<1> HIDE DEF sub, rest, carried
<1>4. ASSUME NEW t \in Secrets, Unbroken(t), NEW k \in Bodies, SpanOf(t, k),
             k < at' \/ (k = at' /\ pc' \in {"cut", "place"})
      PROVE  \/ InChunk(t, chunks') \/ InSome(t, buf') \/ InSome(t, subs')
             \/ Found(t, remaining')
  <2>1. t \in Seq(Alphabet) /\ Solid(t)
    BY <1>1, <1>4, UnbrokenIs
  <2>2. k < at \/ k = at
    <3>1. k \in Nat /\ at \in Nat
      BY <1>1, TextIs
    <3> QED BY <1>1, <1>4, <3>1
  <2>3. InChunk(t, chunks) \/ InSome(t, buf) \/ InSome(t, subs) \/ Found(t, remaining)
    BY <1>1, <1>4, <2>2, KeptIs
  <2>4. InChunk(t, chunks) \/ InSome(t, buf) \/ Found(t, sub) \/ InSome(t, rest)
    <3>1. InSome(t, <<sub>> \o rest) <=> Found(t, sub) \/ InSome(t, rest)
      <4> DEFINE S == Seq(Alphabet)
      <4>1. sub \in S /\ rest \in Seq(S)
        BY <1>3
      <4> HIDE DEF S
      <4> QED BY <4>1, InSomeCons
    <3> QED BY <1>1, <1>3, <2>3, <3>1, InNone
  <2>5. CASE chunks' = chunks /\ buf' = Append(buf, sub)
    <3>1. InSome(t, buf') <=> InSome(t, buf) \/ Found(t, sub)
      <4> DEFINE S == Seq(Alphabet)
      <4>1. sub \in S /\ buf \in Seq(S)
        BY <1>3
      <4> HIDE DEF S
      <4> QED BY <2>5, <4>1, InSomeAppend
    <3> QED BY <1>1, <2>4, <2>5, <3>1
  <2>6. CASE chunks' = Flushed /\ (buf' = <<sub>> \/ buf' = <<carried, sub>>)
    <3>1. InChunk(t, chunks) \/ InSome(t, buf) => InChunk(t, chunks')
      BY <2>1, <2>6, FlushKeeps
    <3>2. Found(t, sub) => InSome(t, buf')
      BY <2>6, InSomeOne, InSomeTwo
    <3> QED BY <1>1, <2>4, <3>1, <3>2
  <2> QED BY <1>2, <2>5, <2>6
<1>5. pc' # "done"
  BY <1>1
<1> QED BY <1>1, <1>4, <1>5, WholeAfter

\* Finish preserves Whole, and with nothing left in hand it is PIIWhole.
LEMMA WholeFinish ==
    ASSUME Sections, Whole, Finish
    PROVE  Whole'
<1>1. /\ doc' = doc /\ punkt' = punkt /\ pc = "block" /\ pc' = "done"
      /\ chunks' = MergeTail(Flushed)
      /\ at > Len(doc) /\ subs = << >> /\ remaining = << >> /\ doc \in Documents
  BY DEF Finish, Sections
<1>2. Flushed \in Seq(Placed) /\ MergeTail(Flushed) \in Seq(Placed)
  BY <1>1, BufIs, MergeTailPlaced
<1>3. ASSUME NEW t \in Secrets, Unbroken(t)
      PROVE  \E e \in ToSet(chunks') : \E n \in DOMAIN e.content : OccursAt(e.content, t, n)
  <2>1. t \in Seq(Alphabet) /\ Solid(t)
    BY <1>1, <1>3, UnbrokenIs
  <2>2. PICK k \in Bodies : SpanOf(t, k)
    BY <1>1, <2>1, SpanFound
  <2>3. k < at
    BY <1>1, DocumentIs DEF Bodies, Sections
  <2>4. InChunk(t, chunks) \/ InSome(t, buf)
    <3>1. InChunk(t, chunks) \/ InSome(t, buf) \/ InSome(t, subs) \/ Found(t, remaining)
      BY <1>1, <1>3, <2>2, <2>3, KeptIs
    <3> QED BY <1>1, <3>1, InNone
  <2>5. InChunk(t, Flushed)
    BY <2>1, <2>4, FlushKeeps
  <2>6. InChunk(t, MergeTail(Flushed))
    <3> DEFINE f == Flushed
    <3> HIDE DEF f
    <3>1. f \in Seq(Placed) /\ InChunk(t, f)
      BY <1>2, <2>5 DEF f
    <3>2. InChunk(t, MergeTail(f))
      BY <1>1, <2>1, <3>1, MergeKeeps
    <3> QED BY <3>2 DEF f
  <2>7. PICK i \in 1 .. Len(chunks') : Found(t, chunks'[i].content)
    BY <1>1, <2>6 DEF InChunk
  <2>8. chunks'[i] \in ToSet(chunks')
    <3>1. DOMAIN chunks' = 1 .. Len(chunks')
      BY <1>1, <1>2, LenProperties
    <3> QED BY <2>7, <3>1 DEF ToSet
  <2> QED BY <2>7, <2>8 DEF Found
<1>4. PIIWhole'
  <2>1. Secrets' = Secrets /\ \A t : Unbroken(t)' <=> Unbroken(t)
    BY <1>1, SpansStay
  <2> QED BY <1>3, <2>1 DEF PIIWhole, OccursAt, ToSet
<1> QED BY <1>1, <1>4 DEF Whole

\* Every step preserves Whole.
LEMMA WholeStep == Sections /\ Whole /\ [Next]_vars => Whole'
<1> SUFFICES ASSUME Sections, Whole, [Next]_vars PROVE Whole'
  OBVIOUS
<1>1. CASE UNCHANGED vars
  <2>1. /\ doc' = doc /\ punkt' = punkt /\ pc' = pc /\ at' = at /\ chunks' = chunks
        /\ buf' = buf /\ subs' = subs /\ remaining' = remaining
    BY <1>1 DEF vars
  <2>2. CASE pc = "done"
    <3>1. Secrets' = Secrets /\ \A t : Unbroken(t)' <=> Unbroken(t)
      BY <2>1, SpansStay
    <3>2. PIIWhole
      BY DEF Whole
    <3>3. PIIWhole'
      BY <2>1, <3>1, <3>2, Zenon DEF PIIWhole, OccursAt, ToSet
    <3> QED BY <2>1, <2>2, <3>3 DEF Whole
  <2>3. CASE pc # "done"
    <3>1. ASSUME NEW t \in Secrets, Unbroken(t), NEW k \in Bodies, SpanOf(t, k),
                 k < at' \/ (k = at' /\ pc' \in {"cut", "place"})
          PROVE  \/ InChunk(t, chunks') \/ InSome(t, buf') \/ InSome(t, subs')
                 \/ Found(t, remaining')
      BY <2>1, <2>3, <3>1, KeptIs
    <3> QED BY <2>1, <2>3, <3>1, WholeAfter
  <2> QED BY <2>2, <2>3
<1>2. CASE Next
  BY <1>1, <1>2, WholeHeading, WholeTable, WholeTextBlock, WholeCut, WholeCutEnds, WholePlace,
     WholeFinish DEF Next, Done
<1> QED BY <1>1, <1>2

\* No cut, flush or merged tail takes personal data apart: every span that no
\* sentence ends in is whole in some chunk.
THEOREM PersonalDataWhole == Spec => []PIIWhole
<1>1. Whole => PIIWhole
  BY DEF Whole
<1> QED BY <1>1, SectionsHold, WholeInit, WholeStep, PTL DEF Spec

=============================================================================
