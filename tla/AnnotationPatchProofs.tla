------------------------- MODULE AnnotationPatchProofs -------------------------
(***************************************************************************)
(* The patch of AnnotationPatch is accepted and sets the annotations, for  *)
(* every set of keys and values.  The first part is about the escaping:    *)
(* an induction over the characters of a key, stated as a fact about sets. *)
(***************************************************************************)
EXTENDS AnnotationPatch, SequenceTheorems, WellFoundedInduction, TLAPS

-----------------------------------------------------------------------------
(* Induction, over numbers and over sequences.                             *)

\* Induction over the numbers, with the set of those that have a property.
LEMMA NatInductionSet ==
  ASSUME NEW G \in SUBSET Nat, 0 \in G, \A n \in G : n + 1 \in G
  PROVE  G = Nat
<1> SUFFICES ASSUME Nat \ G # {} PROVE FALSE
  OBVIOUS
<1>1. PICK x \in Nat \ G : \A y \in Nat \ G : ~(<<y, x>> \in OpToRel(<, Nat))
  BY NatLessThanWellFounded, WFMin
<1>2. \A y \in Nat \ G : ~(y < x)
  BY <1>1, Zenon DEF OpToRel
<1>3. x # 0 /\ x \in Nat
  OBVIOUS
<1>4. x - 1 \in Nat /\ x - 1 < x /\ (x - 1) + 1 = x
  BY <1>3
<1>5. x - 1 \in G
  BY <1>2, <1>4
<1> QED
  BY <1>4, <1>5

\* Induction over the sequences, likewise: every one comes from the empty one by Append.
LEMMA SequenceInductionSet ==
  ASSUME NEW S, NEW G \in SUBSET Seq(S), <<>> \in G,
         \A t \in G : \A c \in S : Append(t, c) \in G
  PROVE  G = Seq(S)
<1> DEFINE N == {n \in Nat : \A t \in Seq(S) : Len(t) = n => t \in G}
<1>1. 0 \in N
  <2>1. \A t \in Seq(S) : Len(t) = 0 => t = <<>>
    BY EmptySeq
  <2> QED
    BY <2>1
<1>2. ASSUME NEW n \in N PROVE n + 1 \in N
  <2>1. ASSUME NEW t \in Seq(S), Len(t) = n + 1 PROVE t \in G
    <3>1. n \in Nat /\ t # <<>>
      BY <2>1, EmptySeq
    <3>2. PICK u \in Seq(S), c \in S : t = Append(u, c)
      BY <3>1, SequenceEmptyOrAppend
    <3>3. Len(t) = Len(u) + 1 /\ Len(u) \in Nat
      BY <3>2, AppendProperties
    <3>4. u \in G
      BY <2>1, <3>1, <3>3
    <3> QED
      BY <3>2, <3>4
  <2> QED
    BY <2>1
<1>3. N = Nat
  <2> HIDE DEF N
  <2>1. N \in SUBSET Nat
    BY DEF N
  <2> QED
    BY <1>1, <1>2, <2>1, NatInductionSet
<1>4. ASSUME NEW t \in Seq(S) PROVE t \in G
  <2>1. Len(t) \in N
    BY <1>3, LenProperties
  <2> QED
    BY <2>1
<1> QED
  BY <1>4

-----------------------------------------------------------------------------
(* What FlattenSeq of the community modules computes.                      *)

Flattening(seqs, f) ==
  f = [i \in 1..Len(seqs) |-> IF i = 1 THEN seqs[i] ELSE f[i - 1] \o seqs[i]]

Extends(seqs, s, f, g) ==
  /\ Flattening(Append(seqs, s), g)
  /\ g[Len(seqs)] = f[Len(seqs)] /\ g[Len(seqs) + 1] = f[Len(seqs)] \o s

\* One more sequence: the concatenation is continued by it.
LEMMA FlatteningExtended ==
  ASSUME NEW S, NEW seqs \in Seq(Seq(S)), NEW s \in Seq(S), seqs # <<>>,
         NEW f \in [1..Len(seqs) -> Seq(S)], Flattening(seqs, f)
  PROVE  \E g \in [1..Len(seqs) + 1 -> Seq(S)] : Extends(seqs, s, f, g)
<1> DEFINE n == Len(seqs)
           app == Append(seqs, s)
           g == [i \in 1..n + 1 |-> IF i <= n THEN f[i] ELSE f[n] \o s]
<1>1. n \in Nat \ {0} /\ 1 \in 1..n /\ n \in 1..n
  BY EmptySeq
<1>2. /\ app \in Seq(Seq(S)) /\ Len(app) = n + 1 /\ app[n + 1] = s
      /\ \A i \in 1..n : app[i] = seqs[i]
  BY AppendProperties
<1>3. f[n] \o s \in Seq(S)
  BY <1>1, ConcatProperties
<1>4. g \in [1..n + 1 -> Seq(S)]
  BY <1>1, <1>3
<1>5. \A i \in 1..n : f[i] = IF i = 1 THEN seqs[i] ELSE f[i - 1] \o seqs[i]
  <2> HIDE DEF n
  <2>1. f = [i \in 1..n |-> IF i = 1 THEN seqs[i] ELSE f[i - 1] \o seqs[i]]
    BY DEF Flattening, n
  <2> QED
    BY <2>1
<1>6. ASSUME NEW i \in 1..n + 1
      PROVE  g[i] = IF i = 1 THEN app[i] ELSE g[i - 1] \o app[i]
  <2> HIDE DEF n, app
  <2>1. CASE i \in 1..n
    <3>1. g[i] = f[i] /\ app[i] = seqs[i]
      BY <1>1, <1>2, <2>1
    <3>2. i # 1 => g[i - 1] = f[i - 1]
      BY <1>1, <2>1
    <3> QED
      BY <1>5, <2>1, <3>1, <3>2
  <2>2. CASE i = n + 1
    <3>1. i # 1 /\ i - 1 = n /\ app[i] = s /\ g[i] = f[n] \o s /\ g[n] = f[n]
      BY <1>1, <1>2, <2>2, SMTT(30)
    <3> QED
      BY <3>1
  <2> QED
    BY <1>1, <2>1, <2>2
<1>7. Flattening(app, g)
  <2> HIDE DEF n, app
  <2>1. g = [i \in 1..n + 1 |-> g[i]]
    BY <1>1
  <2> HIDE DEF g
  <2>2. g = [i \in 1..n + 1 |-> IF i = 1 THEN app[i] ELSE g[i - 1] \o app[i]]
    BY <1>6, <2>1
  <2> QED
    BY <1>2, <2>2 DEF Flattening
<1>8. g[n] = f[n] /\ g[n + 1] = f[n] \o s
  BY <1>1
<1>9. Extends(seqs, s, f, g)
  <2> HIDE DEF g
  <2> QED
    BY <1>7, <1>8 DEF Extends
<1> QED
  <2> HIDE DEF g
  <2> QED
    BY <1>4, <1>9

\* There are the partial concatenations of any sequences,
LEMMA FlatteningExists ==
  ASSUME NEW S, NEW seqs \in Seq(Seq(S)), seqs # <<>>
  PROVE  \E f \in [1..Len(seqs) -> Seq(S)] : Flattening(seqs, f)
<1> DEFINE G == {q \in Seq(Seq(S)) :
                   q = <<>> \/ \E f \in [1..Len(q) -> Seq(S)] : Flattening(q, f)}
<1>1. <<>> \in G
  BY EmptySeq
<1>2. ASSUME NEW q \in G, NEW s \in Seq(S)
      PROVE  Append(q, s) \in G
  <2>1. q \in Seq(Seq(S)) /\ Append(q, s) \in Seq(Seq(S)) /\ Len(Append(q, s)) = Len(q) + 1
    BY AppendProperties
  <2>2. CASE q = <<>>
    <3> DEFINE f == [i \in 1..1 |-> s]
    <3>1. Append(q, s) = <<s>> /\ Len(<<s>>) = 1 /\ <<s>>[1] = s
      BY <2>2
    <3>2. f \in [1..1 -> Seq(S)]
      OBVIOUS
    <3>3. f = [i \in 1..1 |-> IF i = 1 THEN <<s>>[i] ELSE f[i - 1] \o <<s>>[i]]
      BY <3>1
    <3>4. Flattening(<<s>>, f)
      BY <3>1, <3>3 DEF Flattening
    <3> QED
      BY <2>1, <3>1, <3>2, <3>4
  <2>3. CASE q # <<>>
    <3>1. PICK f \in [1..Len(q) -> Seq(S)] : Flattening(q, f)
      BY <2>3
    <3>2. \E g \in [1..Len(q) + 1 -> Seq(S)] : Extends(q, s, f, g)
      BY <2>1, <2>3, <3>1, FlatteningExtended
    <3> QED
      BY <2>1, <3>2 DEF Extends
  <2> QED
    BY <2>2, <2>3
<1>3. G = Seq(Seq(S))
  <2> HIDE DEF G
  <2>1. G \in SUBSET Seq(Seq(S))
    BY DEF G
  <2> QED
    BY <1>1, <1>2, <2>1, SequenceInductionSet
<1> QED
  BY <1>3

\* and only one function can be theirs.
LEMMA FlatteningUnique ==
  ASSUME NEW seqs, Len(seqs) \in Nat, NEW f, NEW g, Flattening(seqs, f), Flattening(seqs, g)
  PROVE  f = g
<1> DEFINE n == Len(seqs)
           G == {m \in Nat : m \in 1..n => f[m] = g[m]}
<1>1. /\ f = [i \in 1..n |-> IF i = 1 THEN seqs[i] ELSE f[i - 1] \o seqs[i]]
      /\ g = [i \in 1..n |-> IF i = 1 THEN seqs[i] ELSE g[i - 1] \o seqs[i]]
  BY DEF Flattening
<1> HIDE DEF n
<1>2. n \in Nat
  BY DEF n
<1>3. \A i \in 1..n : /\ f[i] = IF i = 1 THEN seqs[i] ELSE f[i - 1] \o seqs[i]
                      /\ g[i] = IF i = 1 THEN seqs[i] ELSE g[i - 1] \o seqs[i]
  <2>1. \A i \in 1..n : f[i] = IF i = 1 THEN seqs[i] ELSE f[i - 1] \o seqs[i]
    BY <1>1
  <2>2. \A i \in 1..n : g[i] = IF i = 1 THEN seqs[i] ELSE g[i - 1] \o seqs[i]
    BY <1>1
  <2> QED
    BY <2>1, <2>2
<1>4. 0 \in G
  BY <1>2
<1>5. ASSUME NEW m \in G PROVE m + 1 \in G
  <2>1. CASE m = 0
    BY <1>2, <1>3, <2>1
  <2>2. CASE m # 0
    <3>1. ASSUME m + 1 \in 1..n PROVE f[m + 1] = g[m + 1]
      <4>1. m \in 1..n /\ f[m] = g[m] /\ m + 1 # 1 /\ (m + 1) - 1 = m
        BY <1>2, <2>2, <3>1
      <4> QED
        BY <1>3, <3>1, <4>1
    <3> QED
      BY <3>1
  <2> QED
    BY <2>1, <2>2
<1>6. G = Nat
  <2> HIDE DEF G
  <2>1. G \in SUBSET Nat
    BY DEF G
  <2> QED
    BY <1>4, <1>5, <2>1, NatInductionSet
<1>7. \A i \in 1..n : f[i] = g[i]
  BY <1>2, <1>6
<1>8. f = [i \in 1..n |-> f[i]] /\ g = [i \in 1..n |-> g[i]]
  BY <1>1
<1> QED
  BY <1>7, <1>8

\* The library's FlattenSeq is their last.
LEMMA FlattenSeqIs ==
  ASSUME NEW S, NEW seqs \in Seq(Seq(S)), seqs # <<>>,
         NEW f, Flattening(seqs, f)
  PROVE  FlattenSeq(seqs) = f[Len(seqs)]
<1> DEFINE Is(h) == h = [i \in 1..Len(seqs) |-> IF i = 1 THEN seqs[i] ELSE h[i - 1] \o seqs[i]]
<1>1. Len(seqs) # 0 /\ Len(seqs) \in Nat
  BY EmptySeq
<1>2. FlattenSeq(seqs) = (CHOOSE h : Is(h))[Len(seqs)]
  BY <1>1, Zenon DEF FlattenSeq
<1>3. Is(f)
  BY DEF Flattening
<1>4. Is(CHOOSE h : Is(h))
  <2> HIDE DEF Is
  <2> QED
    BY <1>3
<1>5. Flattening(seqs, CHOOSE h : Is(h))
  BY <1>4 DEF Flattening
<1>6. (CHOOSE h : Is(h)) = f
  <2> HIDE DEF Is
  <2> QED
    BY <1>1, <1>5, FlatteningUnique
<1> QED
  BY <1>2, <1>6

\* FlattenSeq by one more sequence.
LEMMA FlattenSeqAppend ==
  ASSUME NEW S, NEW seqs \in Seq(Seq(S)), NEW s \in Seq(S)
  PROVE  FlattenSeq(Append(seqs, s)) = FlattenSeq(seqs) \o s
<1>1. CASE seqs = <<>>
  <2>1. Append(seqs, s) = <<s>>
    BY <1>1
  <2>2. FlattenSeq(<<>>) = <<>>
    BY DEF FlattenSeq
  <2>3. FlattenSeq(<<s>>) = s
    BY DEF FlattenSeq
  <2> QED
    BY <1>1, <2>1, <2>2, <2>3, ConcatEmptySeq
<1>2. CASE seqs # <<>>
  <2>1. PICK f \in [1..Len(seqs) -> Seq(S)] : Flattening(seqs, f)
    BY <1>2, FlatteningExists
  <2>2. PICK g \in [1..Len(seqs) + 1 -> Seq(S)] : Extends(seqs, s, f, g)
    BY <1>2, <2>1, FlatteningExtended
  <2>3. FlattenSeq(seqs) = f[Len(seqs)]
    BY <1>2, <2>1, FlattenSeqIs
  <2>4. /\ Append(seqs, s) \in Seq(Seq(S)) /\ Len(Append(seqs, s)) = Len(seqs) + 1
        /\ Append(seqs, s) # <<>>
    BY AppendProperties
  <2>5. FlattenSeq(Append(seqs, s)) = g[Len(seqs) + 1]
    BY <2>2, <2>4, FlattenSeqIs DEF Extends
  <2> QED
    BY <2>2, <2>3, <2>5 DEF Extends
<1> QED
  BY <1>1, <1>2

\* Flattening sequences over S gives one over S.
LEMMA FlattenSeqType ==
  ASSUME NEW S, NEW seqs \in Seq(Seq(S))
  PROVE  FlattenSeq(seqs) \in Seq(S)
<1>1. CASE seqs = <<>>
  <2>1. FlattenSeq(<<>>) = <<>>
    BY DEF FlattenSeq
  <2> QED
    BY <1>1, <2>1, EmptySeq
<1>2. CASE seqs # <<>>
  <2>1. PICK f \in [1..Len(seqs) -> Seq(S)] : Flattening(seqs, f)
    BY <1>2, FlatteningExists
  <2>2. Len(seqs) \in 1..Len(seqs)
    BY <1>2, EmptySeq
  <2>3. FlattenSeq(seqs) = f[Len(seqs)]
    BY <1>2, <2>1, FlattenSeqIs
  <2> QED
    BY <2>1, <2>2, <2>3
<1> QED
  BY <1>1, <1>2

-----------------------------------------------------------------------------
(* Replacing a character by a pair, and a pair by a character, one         *)
(* character at a time.                                                    *)

\* strings.Replace of one character goes through the text from left to right.
LEMMA ReplaceCharAppend ==
  ASSUME NEW S, NEW in \in Seq(S), NEW c \in S, NEW char, NEW pair \in Seq(S)
  PROVE  /\ ReplaceChar(in, char, pair) \in Seq(S)
         /\ c = char =>
              ReplaceChar(Append(in, c), char, pair) = ReplaceChar(in, char, pair) \o pair
         /\ c # char =>
              ReplaceChar(Append(in, c), char, pair) = Append(ReplaceChar(in, char, pair), c)
<1> DEFINE Piece(d) == IF d = char THEN pair ELSE <<d>>
           Pieces(s) == [i \in DOMAIN s |-> Piece(s[i])]
<1>1. \A d \in S : Piece(d) \in Seq(S)
  OBVIOUS
<1>2. \A s : ReplaceChar(s, char, pair) = FlattenSeq(Pieces(s))
  BY DEF ReplaceChar
<1> HIDE DEF Piece
<1>3. ASSUME NEW s \in Seq(S)
      PROVE  Pieces(s) \in Seq(Seq(S)) /\ Len(Pieces(s)) = Len(s)
  <2>1. DOMAIN s = 1..Len(s) /\ Len(s) \in Nat /\ \A i \in 1..Len(s) : s[i] \in S
    BY LenProperties
  <2> QED
    BY <1>1, <2>1
<1>4. Pieces(Append(in, c)) = Append(Pieces(in), Piece(c))
  <2> DEFINE x == Append(in, c)
             p == Pieces(x)
             q == Append(Pieces(in), Piece(c))
             n == Len(in)
  <2>1. /\ x \in Seq(S) /\ Len(x) = n + 1 /\ DOMAIN x = 1..n + 1
        /\ x[n + 1] = c /\ \A i \in 1..n : x[i] = in[i]
    BY AppendProperties, LenProperties
  <2>2. DOMAIN in = 1..n /\ n \in Nat
    BY LenProperties
  <2>3. /\ q \in Seq(Seq(S)) /\ Len(q) = n + 1 /\ q[n + 1] = Piece(c)
        /\ \A i \in 1..n : q[i] = Pieces(in)[i]
    <3>1. Pieces(in) \in Seq(Seq(S)) /\ Len(Pieces(in)) = n /\ Piece(c) \in Seq(S)
      BY <1>1, <1>3
    <3> HIDE DEF Pieces, n
    <3> QED
      BY <3>1, AppendProperties
  <2>4. p \in Seq(Seq(S)) /\ Len(p) = n + 1
    <3> HIDE DEF Pieces, x, n
    <3> QED
      BY <1>3, <2>1
  <2>5. \A i \in 1..n + 1 : p[i] = Piece(x[i])
    <3> HIDE DEF x, n
    <3> QED
      BY <2>1
  <2>6. \A i \in 1..n : Pieces(in)[i] = Piece(in[i])
    BY <2>2
  <2>7. \A i \in 1..n + 1 : p[i] = q[i]
    <3> HIDE DEF p, q, x, n, Pieces
    <3> QED
      BY <2>1, <2>2, <2>3, <2>5, <2>6
  <2> HIDE DEF p, q
  <2>8. p = q
    <3> HIDE DEF n
    <3> QED
      BY <2>3, <2>4, <2>7, SeqEqual
  <2> QED
    BY <2>8 DEF p, q
<1> HIDE DEF Pieces
<1>5. FlattenSeq(Append(Pieces(in), Piece(c))) = FlattenSeq(Pieces(in)) \o Piece(c)
  BY <1>1, <1>3, FlattenSeqAppend
<1>6. FlattenSeq(Pieces(in)) \in Seq(S)
  BY <1>3, FlattenSeqType
<1>7. ReplaceChar(in, char, pair) \in Seq(S)
  BY <1>2, <1>6
<1>8. ReplaceChar(Append(in, c), char, pair) = ReplaceChar(in, char, pair) \o Piece(c)
  BY <1>2, <1>4, <1>5
<1>9. c # char => ReplaceChar(in, char, pair) \o Piece(c) = Append(ReplaceChar(in, char, pair), c)
  BY <1>7, AppendIsConcat DEF Piece
<1> QED
  BY <1>7, <1>8, <1>9 DEF Piece

Escaped(s, a, b, char) == ReplaceChar(s, char, <<a, b>>)
Decoded(s, a, b, char) == ReplacePair(s, <<a, b>>, char)

\* Append under a name of its own: the provers expand Append wherever they see it.
Extended(s, c) == Append(s, c)

\* What a text with one more character is.
LEMMA ExtendedProperties ==
  ASSUME NEW S, NEW s \in Seq(S), NEW c \in S
  PROVE  /\ Extended(s, c) \in Seq(S) /\ Extended(s, c) # <<>> /\ Len(Extended(s, c)) = Len(s) + 1
         /\ Extended(s, c)[Len(Extended(s, c))] = c
BY AppendProperties DEF Extended

\* A pair is appended one character after the other.
LEMMA AppendTwo ==
  ASSUME NEW S, NEW s \in Seq(S), NEW a \in S, NEW b \in S
  PROVE  s \o <<a, b>> = Append(Append(s, a), b)
<1>1. PICK x : x = Append(s, a)
  OBVIOUS
<1>2. PICK y : y = Append(x, b)
  OBVIOUS
<1>3. PICK z : z = s \o <<a, b>>
  OBVIOUS
<1>4. PICK n \in Nat : n = Len(s)
  BY LenProperties
<1>5. /\ x \in Seq(S) /\ Len(x) = n + 1 /\ x[n + 1] = a
      /\ \A i \in 1..n : x[i] = s[i]
  BY <1>1, <1>4, AppendProperties
<1>6. /\ y \in Seq(S) /\ Len(y) = (n + 1) + 1 /\ y[(n + 1) + 1] = b
      /\ \A i \in 1..n + 1 : y[i] = x[i]
  BY <1>2, <1>5, AppendProperties
<1>7. <<a, b>> \in Seq(S) /\ Len(<<a, b>>) = 2 /\ <<a, b>>[1] = a /\ <<a, b>>[2] = b
  OBVIOUS
<1>8. /\ z \in Seq(S) /\ Len(z) = n + 2
      /\ \A i \in 1..n + 2 : z[i] = IF i <= n THEN s[i] ELSE <<a, b>>[i - n]
  BY <1>3, <1>4, <1>7, ConcatProperties
<1>9. ASSUME NEW i \in 1..n + 2 PROVE z[i] = y[i]
  <2>1. CASE i = n + 2
    <3>1. ~(i <= n) /\ i - n = 2 /\ i = (n + 1) + 1
      BY <2>1
    <3> QED
      BY <1>6, <1>7, <1>8, <3>1
  <2>2. CASE i = n + 1
    <3>1. ~(i <= n) /\ i - n = 1 /\ i \in 1..n + 1
      BY <2>2
    <3> QED
      BY <1>5, <1>6, <1>7, <1>8, <2>2, <3>1
  <2>3. CASE i <= n
    <3>1. i \in 1..n /\ i \in 1..n + 1
      BY <2>3
    <3> QED
      BY <1>5, <1>6, <1>8, <2>3, <3>1
  <2> QED
    BY <2>1, <2>2, <2>3
<1>10. Len(y) = n + 2
  BY <1>6
<1>11. z = y
  BY <1>6, <1>8, <1>9, <1>10, SeqEqual
<1> QED
  BY <1>1, <1>2, <1>3, <1>11

\* Escaping treats each character by itself.
LEMMA EscapedExtended ==
  ASSUME NEW S, NEW s \in Seq(S), NEW c \in S, NEW a \in S, NEW b \in S, NEW char \in S
  PROVE  /\ Escaped(s, a, b, char) \in Seq(S)
         /\ c = char =>
              Escaped(Extended(s, c), a, b, char) = Extended(Extended(Escaped(s, a, b, char), a), b)
         /\ c # char =>
              Escaped(Extended(s, c), a, b, char) = Extended(Escaped(s, a, b, char), c)
<1>1. PICK pair : pair = <<a, b>>
  OBVIOUS
<1>2. pair \in Seq(S)
  BY <1>1
<1>3. PICK r, t : r = ReplaceChar(s, char, pair) /\ t = ReplaceChar(Append(s, c), char, pair)
  OBVIOUS
<1>4. /\ r \in Seq(S)
      /\ c = char => t = r \o pair
      /\ c # char => t = Append(r, c)
  <2>1. /\ ReplaceChar(s, char, pair) \in Seq(S)
        /\ c = char =>
             ReplaceChar(Append(s, c), char, pair) = ReplaceChar(s, char, pair) \o pair
        /\ c # char =>
             ReplaceChar(Append(s, c), char, pair) = Append(ReplaceChar(s, char, pair), c)
    BY <1>2, ReplaceCharAppend, SMTT(60)
  <2> QED
    BY <1>3, <2>1
<1>5. r \o pair = Append(Append(r, a), b)
  BY <1>1, <1>4, AppendTwo
<1> QED
  BY <1>1, <1>3, <1>4, <1>5 DEF Escaped, Extended

\* Nothing is replaced in the empty text.
LEMMA ReplaceEmpty ==
  ASSUME NEW char, NEW pair
  PROVE  ReplaceChar(<<>>, char, pair) = <<>> /\ ReplacePair(<<>>, pair, char) = <<>>
<1>1. FlattenSeq(<<>>) = <<>>
  BY DEF FlattenSeq
<1>2. ReplaceChar(<<>>, char, pair) = <<>>
  <2>1. [i \in DOMAIN <<>> |-> IF <<>>[i] = char THEN pair ELSE << <<>>[i] >>] = <<>>
    OBVIOUS
  <2> QED
    BY <1>1, <2>1 DEF ReplaceChar
<1>3. ReplacePair(<<>>, pair, char) = <<>>
  <2> DEFINE at == {i \in 1..Len(<<>>) - 1 : SubSeq(<<>>, i, i + 1) = pair}
  <2>1. [i \in DOMAIN <<>> |-> IF i \in at THEN <<char>>
                               ELSE IF i - 1 \in at THEN <<>> ELSE << <<>>[i] >>] = <<>>
    <3> HIDE DEF at
    <3> QED
      OBVIOUS
  <2> QED
    BY <1>1, <2>1 DEF ReplacePair
<1> QED
  BY <1>2, <1>3

Occurrences(s, a, b) == {i \in 1..Len(s) - 1 : s[i] = a /\ s[i + 1] = b}
Pieces(s, a, b, char) ==
  [i \in 1..Len(s) |-> IF i \in Occurrences(s, a, b) THEN <<char>>
                       ELSE IF i - 1 \in Occurrences(s, a, b) THEN <<>> ELSE <<s[i]>>]

Completes(s, c, a, b) == s # <<>> /\ s[Len(s)] = a /\ c = b

\* One more character adds at most one occurrence of a pair, at the end.
LEMMA OccurrencesExtended ==
  ASSUME NEW S, NEW s \in Seq(S), NEW c \in S, NEW a, NEW b
  PROVE  /\ Completes(s, c, a, b) =>
              Occurrences(Extended(s, c), a, b) = Occurrences(s, a, b) \cup {Len(s)}
         /\ ~Completes(s, c, a, b) => Occurrences(Extended(s, c), a, b) = Occurrences(s, a, b)
<1> DEFINE n == Len(s)
<1>1. PICK x : x = Append(s, c)
  OBVIOUS
<1>2. /\ x \in Seq(S) /\ Len(x) = n + 1 /\ n \in Nat /\ (s # <<>> <=> n # 0)
      /\ x[n + 1] = c /\ \A i \in 1..n : x[i] = s[i]
  BY <1>1, AppendProperties, LenProperties, EmptySeq
<1> HIDE DEF n
<1>3. ASSUME NEW i \in Occurrences(x, a, b), i # n PROVE i \in Occurrences(s, a, b)
  <2>1. i \in 1..n /\ x[i] = a /\ x[i + 1] = b /\ i \in Nat
    BY <1>2 DEF Occurrences
  <2>2. i \in 1..n - 1 /\ i \in 1..n /\ i + 1 \in 1..n
    BY <1>2, <1>3, <2>1
  <2>3. s[i] = a /\ s[i + 1] = b
    BY <1>2, <2>1, <2>2
  <2> QED
    BY <2>2, <2>3 DEF Occurrences, n
<1>4. ASSUME NEW i \in Occurrences(s, a, b) PROVE i \in Occurrences(x, a, b)
  <2>1. i \in 1..n - 1 /\ s[i] = a /\ s[i + 1] = b
    BY DEF Occurrences, n
  <2>2. i \in 1..n /\ i + 1 \in 1..n /\ i \in 1..Len(x) - 1
    BY <1>2, <2>1
  <2> QED
    BY <1>2, <2>1, <2>2 DEF Occurrences
<1>5. n \in Occurrences(x, a, b) <=> s # <<>> /\ s[n] = a /\ c = b
  <2>1. n \in Occurrences(x, a, b) <=> n \in 1..n /\ x[n] = a /\ x[n + 1] = b
    <3>1. Len(x) - 1 = n
      BY <1>2
    <3> QED
      BY <3>1 DEF Occurrences
  <2>2. n \in 1..n <=> s # <<>>
    BY <1>2
  <2> QED
    BY <1>2, <2>1, <2>2
<1>6. n \notin Occurrences(s, a, b)
  BY <1>2 DEF Occurrences, n
<1>7. Completes(s, c, a, b) => Occurrences(x, a, b) = Occurrences(s, a, b) \cup {n}
  BY <1>3, <1>4, <1>5 DEF Completes, n
<1>8. ~Completes(s, c, a, b) => Occurrences(x, a, b) = Occurrences(s, a, b)
  BY <1>3, <1>4, <1>5, <1>6 DEF Completes, n
<1> QED
  BY <1>1, <1>7, <1>8 DEF n, Extended

\* Replacing a pair flattens one piece per place of the text.
LEMMA ReplacePairIs ==
  ASSUME NEW S, NEW s \in Seq(S), NEW a \in S, NEW b \in S, NEW char \in S
  PROVE  /\ ReplacePair(s, <<a, b>>, char) = FlattenSeq(Pieces(s, a, b, char))
         /\ Pieces(s, a, b, char) \in Seq(Seq(S)) /\ Len(Pieces(s, a, b, char)) = Len(s)
<1> DEFINE at == {i \in 1..Len(s) - 1 : SubSeq(s, i, i + 1) = <<a, b>>}
<1>1. Len(s) \in Nat /\ DOMAIN s = 1..Len(s) /\ \A i \in 1..Len(s) : s[i] \in S
  BY LenProperties
<1>2. at = Occurrences(s, a, b)
  <2>1. ASSUME NEW i \in 1..Len(s) - 1
        PROVE  SubSeq(s, i, i + 1) = <<a, b>> <=> s[i] = a /\ s[i + 1] = b
    <3> DEFINE t == SubSeq(s, i, i + 1)
    <3>1. i \in Int /\ i + 1 \in Int /\ \A j \in i..i + 1 : s[j] \in S
      BY <1>1
    <3>2. /\ t \in Seq(S) /\ Len(t) = IF i <= i + 1 THEN (i + 1) - i + 1 ELSE 0
          /\ \A j \in 1..(i + 1) - i + 1 : t[j] = s[i + j - 1]
      BY <3>1, SubSeqProperties
    <3> HIDE DEF t
    <3>3. Len(t) = 2 /\ t[1] = s[i] /\ t[2] = s[i + 1]
      BY <1>1, <3>2
    <3>4. t = <<a, b>> => t[1] = a /\ t[2] = b
      OBVIOUS
    <3>5. <<a, b>> \in Seq(S) /\ Len(<<a, b>>) = 2
      OBVIOUS
    <3>6. (t[1] = a /\ t[2] = b) => \A j \in 1..2 : t[j] = <<a, b>>[j]
      OBVIOUS
    <3>7. (t[1] = a /\ t[2] = b) => t = <<a, b>>
      BY <3>2, <3>3, <3>5, <3>6, SeqEqual
    <3> QED
      BY <3>3, <3>4, <3>7 DEF t
  <2> QED
    BY <2>1 DEF Occurrences
<1>3. ReplacePair(s, <<a, b>>, char)
        = FlattenSeq([i \in DOMAIN s |-> IF i \in at THEN <<char>>
                                         ELSE IF i - 1 \in at THEN <<>> ELSE <<s[i]>>])
  BY DEF ReplacePair
<1> HIDE DEF at
<1>4. [i \in DOMAIN s |-> IF i \in at THEN <<char>> ELSE IF i - 1 \in at THEN <<>> ELSE <<s[i]>>]
        = Pieces(s, a, b, char)
  BY <1>1, <1>2 DEF Pieces
<1>5. ASSUME NEW i \in 1..Len(s)
      PROVE  (IF i \in Occurrences(s, a, b) THEN <<char>>
              ELSE IF i - 1 \in Occurrences(s, a, b) THEN <<>> ELSE <<s[i]>>) \in Seq(S)
  <2>1. <<char>> \in Seq(S) /\ <<>> \in Seq(S) /\ <<s[i]>> \in Seq(S)
    BY <1>1
  <2> QED
    BY <2>1
<1>6. Pieces(s, a, b, char) \in [1..Len(s) -> Seq(S)]
  BY <1>5 DEF Pieces
<1>7. Pieces(s, a, b, char) \in Seq(Seq(S)) /\ Len(Pieces(s, a, b, char)) = Len(s)
  BY <1>1, <1>6
<1>8. ReplacePair(s, <<a, b>>, char) = FlattenSeq(Pieces(s, a, b, char))
  BY <1>3, <1>4
<1> QED
  BY <1>7, <1>8

\* A further character that does not complete a pair is kept.
LEMMA DecodedExtended ==
  ASSUME NEW S, NEW s \in Seq(S), NEW a \in S, NEW b \in S, NEW char \in S, NEW c \in S,
         ~Completes(s, c, a, b)
  PROVE  Decoded(Extended(s, c), a, b, char) = Extended(Decoded(s, a, b, char), c)
<1> DEFINE n == Len(s)
<1>1. PICK x : x = Append(s, c)
  OBVIOUS
<1>2. /\ x \in Seq(S) /\ Len(x) = n + 1 /\ n \in Nat
      /\ x[n + 1] = c /\ \A i \in 1..n : x[i] = s[i]
  BY <1>1, AppendProperties, LenProperties
<1> HIDE DEF n
<1>4. Occurrences(x, a, b) = Occurrences(s, a, b)
  BY <1>1, OccurrencesExtended DEF Extended
<1>5. n + 1 \notin Occurrences(x, a, b) /\ n \notin Occurrences(s, a, b)
  BY <1>2 DEF Occurrences, n
<1> DEFINE p == Pieces(x, a, b, char)
           q == Pieces(s, a, b, char)
<1>6. /\ q \in Seq(Seq(S)) /\ Len(q) = n /\ p \in Seq(Seq(S)) /\ Len(p) = n + 1
      /\ ReplacePair(x, <<a, b>>, char) = FlattenSeq(p)
      /\ ReplacePair(s, <<a, b>>, char) = FlattenSeq(q)
  <2> HIDE DEF p, q
  <2>1. /\ q \in Seq(Seq(S)) /\ Len(q) = n /\ ReplacePair(s, <<a, b>>, char) = FlattenSeq(q)
    BY ReplacePairIs DEF n, q
  <2>2. /\ p \in Seq(Seq(S)) /\ Len(p) = n + 1 /\ ReplacePair(x, <<a, b>>, char) = FlattenSeq(p)
    BY <1>2, ReplacePairIs DEF p
  <2> QED
    BY <2>1, <2>2
<1>7. ASSUME NEW i \in 1..n PROVE p[i] = q[i]
  <2>1. i \in 1..Len(x) /\ x[i] = s[i]
    BY <1>2
  <2> QED
    BY <1>4, <2>1 DEF Pieces, n
<1>8. p[n + 1] = <<c>>
  <2>1. n + 1 \in 1..Len(x) /\ (n + 1) - 1 = n /\ x[n + 1] = c
    BY <1>2
  <2> QED
    BY <1>4, <1>5, <2>1 DEF Pieces
<1> HIDE DEF p, q
<1>9. p = Append(q, <<c>>)
  <2> <<c>> \in Seq(S)
    OBVIOUS
  <2>1. PICK d \in Seq(S) : d = <<c>>
    OBVIOUS
  <2>2. PICK r : r = Append(q, d)
    OBVIOUS
  <2>3. /\ r \in Seq(Seq(S)) /\ Len(r) = n + 1 /\ r[n + 1] = d
        /\ \A i \in 1..n : r[i] = q[i]
    BY <1>6, <2>2, AppendProperties
  <2>4. \A i \in 1..n + 1 : r[i] = p[i]
    <3>1. ASSUME NEW i \in 1..n + 1 PROVE r[i] = p[i]
      <4>1. i = n + 1 \/ i \in 1..n
        BY <1>2
      <4> QED
        BY <1>7, <1>8, <2>1, <2>3, <4>1
    <3> QED
      BY <3>1
  <2>5. r = p
    BY <1>6, <2>3, <2>4, SeqEqual
  <2> QED
    BY <2>1, <2>2, <2>5
<1>10. <<c>> \in Seq(S)
  OBVIOUS
<1>11. FlattenSeq(p) = FlattenSeq(q) \o <<c>> /\ FlattenSeq(q) \in Seq(S)
  BY <1>6, <1>9, <1>10, FlattenSeqAppend, FlattenSeqType
<1>12. FlattenSeq(p) = Append(FlattenSeq(q), c)
  BY <1>11, AppendIsConcat
<1> QED
  BY <1>1, <1>6, <1>12 DEF Decoded, Extended

\* Two further characters that are the pair become the one character.
LEMMA DecodedExtendedPair ==
  ASSUME NEW S, NEW s \in Seq(S), NEW a \in S, NEW b \in S, NEW char \in S, a # b
  PROVE  Decoded(Extended(Extended(s, a), b), a, b, char) = Extended(Decoded(s, a, b, char), char)
<1> DEFINE n == Len(s)
<1>1. PICK x : x = Append(Append(s, a), b)
  OBVIOUS
<1>2. /\ x \in Seq(S) /\ Len(x) = n + 2 /\ n \in Nat
      /\ x[n + 1] = a /\ x[n + 2] = b /\ \A i \in 1..n : x[i] = s[i]
  <2>1. PICK y : y = Append(s, a)
    OBVIOUS
  <2>2. /\ y \in Seq(S) /\ Len(y) = n + 1 /\ y[n + 1] = a /\ n \in Nat /\ \A i \in 1..n : y[i] = s[i]
    BY <2>1, AppendProperties, LenProperties
  <2>3. /\ x \in Seq(S) /\ Len(x) = Len(y) + 1 /\ x[Len(y) + 1] = b
        /\ \A i \in 1..Len(y) : x[i] = y[i]
    BY <1>1, <2>1, <2>2, AppendProperties
  <2>4. n + 1 \in 1..n + 1 /\ Len(y) + 1 = n + 2 /\ \A i \in 1..n : i \in 1..n + 1
    BY <2>2
  <2> HIDE DEF n
  <2> QED
    BY <2>2, <2>3, <2>4
<1> HIDE DEF n
<1>3. Occurrences(x, a, b) = Occurrences(s, a, b) \cup {n + 1}
  <2>1. PICK y : y = Append(s, a)
    OBVIOUS
  <2>2. y \in Seq(S) /\ Len(y) = n + 1 /\ y[n + 1] = a /\ y # <<>>
    BY <2>1, AppendProperties DEF n
  <2>3. Occurrences(y, a, b) = Occurrences(s, a, b)
    <3>1. ~Completes(s, a, a, b)
      BY DEF Completes
    <3> QED
      BY <2>1, <3>1, OccurrencesExtended DEF Extended
  <2>4. Occurrences(x, a, b) = Occurrences(y, a, b) \cup {Len(y)}
    <3>1. Completes(y, b, a, b)
      BY <2>2 DEF Completes
    <3>2. Occurrences(Extended(y, b), a, b) = Occurrences(y, a, b) \cup {Len(y)}
      BY <2>2, <3>1, OccurrencesExtended
    <3> QED
      BY <1>1, <2>1, <3>2 DEF Extended
  <2> QED
    BY <2>2, <2>3, <2>4
<1>4. \A i \in Occurrences(s, a, b) : i \in 1..n - 1
  BY DEF Occurrences, n
<1> DEFINE p == Pieces(x, a, b, char)
           q == Pieces(s, a, b, char)
<1>5. q \in Seq(Seq(S)) /\ Len(q) = n /\ ReplacePair(s, <<a, b>>, char) = FlattenSeq(q)
  <2> HIDE DEF q
  <2> QED
    BY ReplacePairIs DEF n, q
<1>6. p \in Seq(Seq(S)) /\ Len(p) = n + 2 /\ ReplacePair(x, <<a, b>>, char) = FlattenSeq(p)
  <2> HIDE DEF p
  <2> QED
    BY <1>2, ReplacePairIs DEF p
<1>7. ASSUME NEW i \in 1..n PROVE p[i] = q[i]
  <2>1. i \in 1..Len(x) /\ x[i] = s[i] /\ i # n + 1 /\ i - 1 # n + 1
    BY <1>2
  <2> QED
    BY <1>3, <2>1 DEF Pieces, n
<1>8. p[n + 1] = <<char>>
  <2>1. n + 1 \in 1..Len(x) /\ n + 1 \in Occurrences(x, a, b)
    BY <1>2, <1>3
  <2> QED
    BY <2>1 DEF Pieces
<1>9. p[n + 2] = <<>>
  <2>1. n + 2 \in 1..Len(x) /\ (n + 2) - 1 = n + 1
    BY <1>2
  <2>2. n + 2 \notin Occurrences(x, a, b) /\ n + 1 \in Occurrences(x, a, b)
    BY <1>2, <1>3, <1>4
  <2> QED
    BY <2>1, <2>2 DEF Pieces
<1> HIDE DEF p, q
<1>10. PICK d \in Seq(S), e \in Seq(S) : d = <<char>> /\ e = <<>>
  <2> <<char>> \in Seq(S) /\ <<>> \in Seq(S)
    OBVIOUS
  <2> QED
    OBVIOUS
<1>11. PICK r : r = Append(q, d)
  OBVIOUS
<1>12. /\ r \in Seq(Seq(S)) /\ Len(r) = n + 1 /\ r[n + 1] = d
       /\ \A i \in 1..n : r[i] = q[i]
  BY <1>5, <1>11, AppendProperties
<1>13. PICK w : w = Append(r, e)
  OBVIOUS
<1>14. /\ w \in Seq(Seq(S)) /\ Len(w) = n + 2 /\ w[n + 2] = e
       /\ \A i \in 1..n + 1 : w[i] = r[i]
  <2>1. Len(r) + 1 = n + 2
    BY <1>2, <1>12
  <2> QED
    BY <1>12, <1>13, <2>1, AppendProperties
<1>15. ASSUME NEW i \in 1..n + 2 PROVE w[i] = p[i]
  <2>1. (i = n + 2) \/ (i = n + 1 /\ i \in 1..n + 1) \/ (i \in 1..n /\ i \in 1..n + 1)
    BY <1>2
  <2> QED
    BY <1>7, <1>8, <1>9, <1>10, <1>12, <1>14, <2>1
<1>16. w = p
  BY <1>6, <1>14, <1>15, SeqEqual
<1>17. FlattenSeq(r) = FlattenSeq(q) \o d /\ FlattenSeq(w) = FlattenSeq(r) \o e
  BY <1>5, <1>11, <1>12, <1>13, FlattenSeqAppend
<1>18. FlattenSeq(r) \o e = FlattenSeq(r)
  BY <1>10, <1>12, FlattenSeqType, ConcatEmptySeq
<1>19. FlattenSeq(p) = FlattenSeq(q) \o <<char>> /\ FlattenSeq(q) \in Seq(S)
  BY <1>5, <1>10, <1>16, <1>17, <1>18, FlattenSeqType
<1>20. FlattenSeq(p) = Append(FlattenSeq(q), char)
  BY <1>19, AppendIsConcat
<1> QED
  BY <1>1, <1>5, <1>6, <1>20 DEF Decoded, Extended

-----------------------------------------------------------------------------
(* The escaping and the decoding are inverse.                              *)

\* After the replacement of a character by a pair that starts with it, a pair
\* is all the first of the two occurs in.
LEMMA EscapedOnce ==
  ASSUME NEW S, NEW a \in S, NEW b \in S, a # b, NEW c \in S, c # b, c # a, NEW s \in Seq(S)
  PROVE  Occurrences(Escaped(s, a, b, a), a, c) = {}
<1> DEFINE Esc(t) == Escaped(t, a, b, a)
           G == {t \in Seq(S) : /\ Occurrences(Esc(t), a, c) = {}
                                /\ Esc(t) # <<>> => Esc(t)[Len(Esc(t))] # a}
<1>1. <<>> \in G
  <2>1. Esc(<<>>) = <<>>
    BY ReplaceEmpty DEF Escaped
  <2>2. Occurrences(<<>>, a, c) = {}
    BY DEF Occurrences
  <2> HIDE DEF Esc
  <2> QED
    BY <2>1, <2>2, EmptySeq
<1>2. ASSUME NEW t \in G, NEW d \in S PROVE Extended(t, d) \in G
  <2>1. t \in Seq(S)
    OBVIOUS
  <2>2. Extended(t, d) \in Seq(S)
    BY <2>1, ExtendedProperties
  <2>3. /\ Esc(t) \in Seq(S)
        /\ d = a => Esc(Extended(t, d)) = Extended(Extended(Esc(t), a), b)
        /\ d # a => Esc(Extended(t, d)) = Extended(Esc(t), d)
    <3> HIDE DEF G
    <3> QED
      BY <2>1, EscapedExtended
  <2> HIDE DEF Esc
  <2>4. PICK u \in Seq(S) : u = Esc(t)
    BY <2>3
  <2>5. Occurrences(u, a, c) = {} /\ (u # <<>> => u[Len(u)] # a)
    BY <2>4
  <2>6. \A e \in S : /\ Extended(u, e) \in Seq(S) /\ Extended(u, e)[Len(Extended(u, e))] = e
                     /\ Occurrences(Extended(u, e), a, c) = {}
    <3>1. ASSUME NEW e \in S PROVE Occurrences(Extended(u, e), a, c) = {}
      <4>1. ~Completes(u, e, a, c)
        BY <2>5 DEF Completes
      <4> QED
        BY <2>5, <4>1, OccurrencesExtended
    <3> QED
      BY <3>1, ExtendedProperties
  <2>7. CASE d = a
    <3>1. PICK v \in Seq(S) : v = Extended(u, a)
      BY <2>6
    <3>2. ~Completes(v, b, a, c)
      BY DEF Completes
    <3>3. Occurrences(Extended(v, b), a, c) = {} /\ Extended(v, b)[Len(Extended(v, b))] = b
      <4>1. Occurrences(v, a, c) = {}
        BY <2>6, <3>1
      <4> QED
        <5>1. Occurrences(Extended(v, b), a, c) = {}
          BY <3>2, <4>1, OccurrencesExtended
        <5>2. Extended(v, b)[Len(Extended(v, b))] = b
          BY ExtendedProperties
        <5> QED
          BY <5>1, <5>2
    <3> QED
      BY <2>2, <2>3, <2>4, <2>7, <3>1, <3>3
  <2>8. CASE d # a
    BY <2>2, <2>3, <2>4, <2>6, <2>8
  <2> QED
    BY <2>7, <2>8
<1>3. G = Seq(S)
  <2> HIDE DEF G
  <2>1. G \in SUBSET Seq(S)
    BY DEF G
  <2> QED
    BY <1>1, <1>2, <2>1, SequenceInductionSet DEF Extended
<1> QED
  <2> HIDE DEF Esc
  <2>1. s \in G
    BY <1>3
  <2> QED
    BY <2>1 DEF Esc

\* The pair goes back to the character, unless the text held the pair already.
LEMMA ReplaceInverse ==
  ASSUME NEW S, NEW a \in S, NEW b \in S, a # b, NEW char \in S, char # b, NEW s \in Seq(S),
         char = a \/ Occurrences(s, a, b) = {}
  PROVE  Decoded(Escaped(s, a, b, char), a, b, char) = s
<1> DEFINE Esc(t) == Escaped(t, a, b, char)
           Une(t) == Decoded(t, a, b, char)
           LastOf(t) == IF t[Len(t)] = char THEN b ELSE t[Len(t)]
           Good(t) == /\ Une(Esc(t)) = t
                      /\ t = <<>> => Esc(t) = <<>>
                      /\ t # <<>> => Esc(t)[Len(Esc(t))] = LastOf(t)
           G == {t \in Seq(S) : (char = a \/ Occurrences(t, a, b) = {}) => Good(t)}
<1>1. <<>> \in G
  <2>1. Esc(<<>>) = <<>> /\ Une(<<>>) = <<>>
    BY ReplaceEmpty DEF Escaped, Decoded
  <2> HIDE DEF Esc, Une
  <2> QED
    BY <2>1, EmptySeq
<1>2. ASSUME NEW t \in G, NEW d \in S, NEW x \in Seq(S), x = Extended(t, d),
             char = a \/ Occurrences(x, a, b) = {}
      PROVE  Good(x)
  <2>1. t \in Seq(S)
    OBVIOUS
  <2>2. Good(t) /\ (char = a \/ ~Completes(t, d, a, b))
    <3>1. /\ Completes(t, d, a, b) => Occurrences(x, a, b) = Occurrences(t, a, b) \cup {Len(t)}
          /\ ~Completes(t, d, a, b) => Occurrences(x, a, b) = Occurrences(t, a, b)
      <4> HIDE DEF G
      <4> QED
        BY <1>2, <2>1, OccurrencesExtended
    <3> HIDE DEF Good
    <3> QED
      BY <1>2, <3>1
  <2>3. x # <<>> /\ x[Len(x)] = d
    <3>1. Extended(t, d) # <<>> /\ Extended(t, d)[Len(Extended(t, d))] = d
      BY <2>1, ExtendedProperties
    <3> QED
      BY <1>2, <3>1
  <2>4. /\ Esc(t) \in Seq(S)
        /\ d = char => Esc(x) = Extended(Extended(Esc(t), a), b)
        /\ d # char => Esc(x) = Extended(Esc(t), d)
    <3> HIDE DEF G
    <3>1. /\ Esc(t) \in Seq(S)
          /\ d = char => Esc(Extended(t, d)) = Extended(Extended(Esc(t), a), b)
          /\ d # char => Esc(Extended(t, d)) = Extended(Esc(t), d)
      BY <2>1, EscapedExtended
    <3> HIDE DEF Esc
    <3> QED
      BY <1>2, <3>1
  <2>5. PICK u \in Seq(S) : u = Esc(t)
    BY <2>4
  <2> HIDE DEF Esc, Une
  <2>6. CASE d = char
    <3>1. Une(Extended(Extended(u, a), b)) = Extended(Une(u), char)
      BY DecodedExtendedPair DEF Une
    <3>2. Extended(Extended(u, a), b)[Len(Extended(Extended(u, a), b))] = b
      <4>1. Extended(u, a) \in Seq(S)
        BY ExtendedProperties
      <4> QED
        BY <4>1, ExtendedProperties
    <3>3. Une(Esc(x)) = x
      BY <1>2, <2>2, <2>4, <2>5, <2>6, <3>1
    <3> QED
      BY <2>3, <2>4, <2>5, <2>6, <3>2, <3>3
  <2>7. CASE d # char
    <3>1. ~Completes(u, d, a, b)
      <4>1. u # <<>> => t # <<>> /\ u[Len(u)] = LastOf(t)
        BY <2>2, <2>5
      <4> QED
        BY <2>2, <2>7, <4>1 DEF Completes
    <3>2. Une(Extended(u, d)) = Extended(Une(u), d)
      BY <3>1, DecodedExtended DEF Une
    <3>3. Extended(u, d)[Len(Extended(u, d))] = d
      BY ExtendedProperties
    <3>4. Une(Esc(x)) = x
      BY <1>2, <2>2, <2>4, <2>5, <2>7, <3>2
    <3> QED
      BY <2>3, <2>4, <2>5, <2>7, <3>3, <3>4
  <2> QED
    BY <2>6, <2>7
<1>3. G = Seq(S)
  <2>1. ASSUME NEW t \in G, NEW d \in S PROVE Extended(t, d) \in G
    <3>1. t \in Seq(S) /\ Extended(t, d) \in Seq(S)
      BY ExtendedProperties
    <3> HIDE DEF Good
    <3> QED
      BY <1>2, <3>1
  <2> HIDE DEF G
  <2>2. G \in SUBSET Seq(S)
    BY DEF G
  <2> QED
    BY <1>1, <2>1, <2>2, SequenceInductionSet DEF Extended
<1> HIDE DEF Esc, Une
<1>4. s \in G
  BY <1>3
<1>5. Une(Esc(s)) = s
  BY <1>4
<1> QED
  BY <1>5 DEF Esc, Une

\* The API server reads every segment back as the key it was made from: a text
\* after the first replacement has no "~1" yet, so that each replacement is
\* undone by its own inverse.
THEOREM EscapeRoundTrip ==
  ASSUME NEW in \in Seq(STRING)
  PROVE  UnescapeJSONPointerValue(EscapeJSONPointerValue(in)) = in
<1> DEFINE S == STRING \cup {"~", "/", "0", "1"}
<1>1. /\ "~" \in S /\ "/" \in S /\ "0" \in S /\ "1" \in S
      /\ "~" # "0" /\ "~" # "1" /\ "/" # "1" /\ "1" # "0"
  OBVIOUS
<1>2. in \in Seq(S)
  BY SeqMonotonic
<1> HIDE DEF S
<1>3. PICK t \in Seq(S) : t = Escaped(in, "~", "0", "~")
  BY <1>1, <1>2, EscapedExtended
<1>4. Occurrences(t, "~", "1") = {}
  BY <1>1, <1>2, <1>3, EscapedOnce
<1>5. Decoded(Escaped(t, "~", "1", "/"), "~", "1", "/") = t
  BY <1>1, <1>4, ReplaceInverse
<1>6. Decoded(t, "~", "0", "~") = in
  BY <1>1, <1>2, <1>3, ReplaceInverse
<1>7. EscapeJSONPointerValue(in) = Escaped(t, "~", "1", "/")
  BY <1>3 DEF EscapeJSONPointerValue, Escaped
<1>8. UnescapeJSONPointerValue(Escaped(t, "~", "1", "/")) = Decoded(t, "~", "0", "~")
  BY <1>5 DEF UnescapeJSONPointerValue, Decoded
<1> QED
  BY <1>6, <1>7, <1>8

-----------------------------------------------------------------------------
(* The inductive invariant.                                                *)

Base == IF original = Nil THEN <<>> ELSE original
Done == DOMAIN added \ todo

Operations ==
  [op : {"add", "replace"}, path : {<<>>} \cup {<<EscapeJSONPointerValue(k)>> : k \in Keys},
   value : Values \cup Maps]
CreateOperation(k) == [op |-> "add", path |-> <<>>, value |-> [x \in {k} |-> added[x]]]
IsSetOperation(o, k) ==
  /\ o.path = <<EscapeJSONPointerValue(k)>> /\ o.value = added[k]
  /\ o.op = "replace" => original # Nil /\ k \in DOMAIN original

\* Operation i of a patch is about key k.
About(i, k) ==
  IF i = 1 /\ original = Nil THEN patch[i] = CreateOperation(k) ELSE IsSetOperation(patch[i], k)

\* The annotations after the operations for the keys K.
SetFor(K) == [k \in DOMAIN Base \cup K |-> IF k \in K THEN added[k] ELSE Base[k]]
AppliedKeys == {k \in DOMAIN added : \E i \in 1..applied : About(i, k)}

IInv ==
  /\ original \in Maps \cup {Nil} /\ added \in Maps /\ todo \subseteq DOMAIN added
  /\ patch \in Seq(Operations)
  /\ target = IF patch # <<>> /\ original = Nil THEN <<>> ELSE original
  /\ \A i \in 1..Len(patch) : \E k \in Done : About(i, k)
  /\ \A k \in Done : \E i \in 1..Len(patch) : About(i, k)
  /\ applied \in 0..Len(patch) /\ (applied > 0 => todo = {})
  /\ annotations = IF applied = 0 THEN original ELSE SetFor(AppliedKeys)
  /\ refused = FALSE

\* What the maps of annotations are.
LEMMA MapFacts ==
  /\ <<>> \in Maps /\ Nil \notin Maps
  /\ \A m \in Maps : DOMAIN m \in SUBSET Keys /\ m \in [DOMAIN m -> Values]
  /\ \A K \in SUBSET Keys : \A m \in [K -> Values] : m \in Maps
<1>1. <<>> \in Maps
  <2>1. <<>> \in [{} -> Values] /\ {} \in SUBSET Keys
    OBVIOUS
  <2> QED
    BY <2>1 DEF Maps
<1> QED
  BY <1>1, AnnotationAssumption DEF Maps

\* The annotations with some of the keys applied are a map.
LEMMA SetForMaps ==
  ASSUME original \in Maps \cup {Nil}, added \in Maps, NEW K \in SUBSET DOMAIN added
  PROVE  SetFor(K) \in Maps
<1>1. Base \in Maps /\ DOMAIN Base \in SUBSET Keys /\ Base \in [DOMAIN Base -> Values]
  BY MapFacts DEF Base
<1>2. DOMAIN added \in SUBSET Keys /\ added \in [DOMAIN added -> Values]
  BY MapFacts
<1>3. SetFor(K) \in [DOMAIN Base \cup K -> Values]
  BY <1>1, <1>2 DEF SetFor
<1>4. DOMAIN Base \cup K \in SUBSET Keys
  BY <1>1, <1>2
<1> QED
  BY <1>3, <1>4, MapFacts

\* With no key done the patch is empty.
LEMMA InitIInv ==
  ASSUME Init PROVE IInv
<1>1. DOMAIN added = todo /\ patch = <<>> /\ applied = 0 /\ patch \in Seq(Operations) /\ Len(patch) = 0
  BY DEF Init
<1>2. Done = {}
  BY <1>1 DEF Done
<1> QED
  BY <1>1, <1>2 DEF Init, IInv

\* One more operation, for one more key.
LEMMA AppendPreserves ==
  ASSUME IInv, NEW key \in todo, NEW o \in Operations,
         patch' = Append(patch, o), todo' = todo \ {key},
         UNCHANGED <<annotations, original, added, applied, refused>>,
         target' = IF original = Nil THEN <<>> ELSE original,
         IF patch = <<>> /\ original = Nil THEN o = CreateOperation(key) ELSE IsSetOperation(o, key)
  PROVE  IInv'
<1>0. PICK n \in Nat, m \in Nat : n = Len(patch) /\ m = n + 1
  <2>1. Len(patch) \in Nat
    BY LenProperties DEF IInv
  <2> QED
    BY <2>1
<1>1. /\ patch \in Seq(Operations) /\ (patch = <<>> <=> n = 0)
      /\ patch' \in Seq(Operations) /\ Len(patch') = m /\ patch' # <<>>
      /\ patch'[m] = o /\ \A i \in 1..n : patch'[i] = patch[i]
  <2>1. patch \in Seq(Operations)
    BY DEF IInv
  <2> QED
    BY <1>0, <2>1, AppendProperties, EmptySeq
<1>2. key \in DOMAIN added /\ Done' = Done \cup {key} /\ added' = added /\ original' = original
  BY DEF IInv, Done
<1>3. ASSUME NEW i \in 1..n, NEW k PROVE About(i, k)' <=> About(i, k)
  BY <1>1, <1>2 DEF About, CreateOperation, IsSetOperation
<1>4. About(m, key)'
  <2>1. m = 1 <=> patch = <<>>
    BY <1>0, <1>1
  <2> QED
    BY <1>1, <1>2, <2>1 DEF About, CreateOperation, IsSetOperation
<1>5. ASSUME NEW i \in 1..Len(patch') PROVE \E k \in Done' : About(i, k)'
  <2>1. CASE i = m
    BY <1>2, <1>4, <2>1
  <2>2. CASE i \in 1..n
    <3>1. PICK k \in Done : About(i, k)
      BY <1>0, <2>2 DEF IInv
    <3> QED
      BY <1>2, <1>3, <2>2, <3>1
  <2> QED
    BY <1>0, <1>1, <2>1, <2>2
<1>6. ASSUME NEW k \in Done' PROVE \E i \in 1..Len(patch') : About(i, k)'
  <2>1. CASE k = key
    <3>1. m \in 1..Len(patch')
      BY <1>0, <1>1
    <3> QED
      BY <1>4, <2>1, <3>1
  <2>2. CASE k \in Done
    <3>1. PICK i \in 1..n : About(i, k)
      BY <1>0, <2>2 DEF IInv
    <3>2. i \in 1..Len(patch')
      BY <1>0, <1>1
    <3> QED
      BY <1>3, <3>1, <3>2
  <2> QED
    BY <1>2, <2>1, <2>2
<1>7. applied = 0 /\ applied' = 0 /\ applied' \in 0..Len(patch')
  <2>1. applied \in 0..n /\ (applied > 0 => todo = {})
    BY <1>0 DEF IInv
  <2> QED
    BY <1>0, <1>1, <2>1
<1>8. annotations' = original'
  BY <1>7 DEF IInv
<1> QED
  BY <1>1, <1>2, <1>5, <1>6, <1>7, <1>8 DEF IInv

\* One iteration of the range adds the operation of one key.
LEMMA UpdateAnnotationIInv ==
  ASSUME IInv, NEW key \in todo, UpdateAnnotation(key)
  PROVE  IInv'
<1>1. /\ key \in DOMAIN added /\ key \in Keys /\ added[key] \in Values
      /\ UNCHANGED <<annotations, original, added, applied, refused>> /\ todo' = todo \ {key}
  <2>1. added \in Maps /\ key \in DOMAIN added
    BY DEF IInv
  <2> QED
    BY <2>1, MapFacts DEF UpdateAnnotation
<1>2. /\ original \in Maps \cup {Nil}
      /\ target = IF patch # <<>> /\ original = Nil THEN <<>> ELSE original
  BY DEF IInv
<1>3. CASE CreateMap(key)
  <2>1. target = Nil /\ target' = <<>> /\ patch' = Append(patch, CreateOperation(key))
    BY <1>3 DEF CreateMap, CreateOperation
  <2>2. original = Nil /\ patch = <<>>
    BY <1>2, <2>1, MapFacts
  <2>3. CreateOperation(key) \in Operations
    <3>1. [x \in {key} |-> added[x]] \in [{key} -> Values]
      BY <1>1
    <3>2. [x \in {key} |-> added[x]] \in Maps
      BY <1>1, <3>1, MapFacts
    <3> QED
      BY <3>2 DEF CreateOperation, Operations
  <2> QED
    BY <1>1, <2>1, <2>2, <2>3, AppendPreserves
<1>4. CASE SetKey(key)
  <2> DEFINE o == [op |-> Op(key), path |-> <<EscapeJSONPointerValue(key)>>, value |-> added[key]]
  <2>1. target # Nil /\ target' = target /\ patch' = Append(patch, o)
    BY <1>4 DEF SetKey
  <2>2. ~(patch = <<>> /\ original = Nil) /\ target' = IF original = Nil THEN <<>> ELSE original
    BY <1>2, <2>1
  <2>3. o \in Operations
    <3>1. Op(key) \in {"add", "replace"}
      BY DEF Op
    <3> QED
      BY <1>1, <3>1 DEF Operations
  <2>4. IsSetOperation(o, key)
    <3>1. ASSUME Op(key) = "replace" PROVE original # Nil /\ key \in DOMAIN original
      <4>1. key \in DOMAIN target
        BY <3>1 DEF Op
      <4>2. DOMAIN <<>> = {}
        OBVIOUS
      <4> QED
        BY <1>2, <2>1, <2>2, <4>1, <4>2
    <3> QED
      BY <3>1 DEF IsSetOperation
  <2> HIDE DEF o
  <2> QED
    BY <1>1, <2>1, <2>2, <2>3, <2>4, AppendPreserves
<1> QED
  BY <1>3, <1>4 DEF UpdateAnnotation

\* The API server applies the next operation: it finds the key, and the member
\* that a replacement needs.
LEMMA ApplyIInv ==
  ASSUME IInv, Apply
  PROVE  IInv'
<1>1. /\ original \in Maps \cup {Nil} /\ added \in Maps
      /\ patch \in Seq(Operations) /\ Len(patch) \in Nat
      /\ applied \in Nat /\ todo = {} /\ applied < Len(patch)
      /\ applied' = applied + 1 /\ UNCHANGED <<original, target, added, todo, patch>>
  <2>1. patch \in Seq(Operations) /\ applied \in 0..Len(patch)
    BY DEF IInv
  <2>2. Len(patch) \in Nat
    BY <2>1, LenProperties
  <2> QED
    BY <2>1, <2>2 DEF IInv, Apply
<1>2. PICK n \in Nat : n = applied + 1 /\ n \in 1..Len(patch)
  BY <1>1
<1>3. PICK key \in DOMAIN added : About(n, key)
  BY <1>2 DEF IInv, Done
<1>4. \A i, k : About(i, k)' <=> About(i, k)
  BY <1>1 DEF About, CreateOperation, IsSetOperation
<1>5. \A k \in DOMAIN added : About(n, k) => k = key
  <2>1. ASSUME NEW k \in DOMAIN added, About(n, k) PROVE k = key
    <3>1. CASE n = 1 /\ original = Nil
      <4>1. CreateOperation(k).value = CreateOperation(key).value
        BY <1>3, <2>1, <3>1 DEF About
      <4>2. DOMAIN CreateOperation(k).value = {k} /\ DOMAIN CreateOperation(key).value = {key}
        BY DEF CreateOperation
      <4> QED
        BY <4>1, <4>2
    <3>2. CASE ~(n = 1 /\ original = Nil)
      <4>1. k \in Seq(STRING) /\ key \in Seq(STRING)
        BY <1>1, MapFacts, AnnotationAssumption
      <4>2. EscapeJSONPointerValue(k) = EscapeJSONPointerValue(key)
        BY <1>3, <2>1, <3>2 DEF About, IsSetOperation
      <4> QED
        BY <4>1, <4>2, EscapeRoundTrip
    <3> QED
      BY <3>1, <3>2
  <2> QED
    BY <2>1
<1>6. AppliedKeys' = AppliedKeys \cup {key}
  <2>1. \A i : i \in 1..applied' <=> i \in 1..applied \/ i = n
    BY <1>1, <1>2
  <2>2. AppliedKeys' = {k \in DOMAIN added : \E i \in 1..applied' : About(i, k)}
    BY <1>1, <1>4 DEF AppliedKeys
  <2> QED
    BY <1>3, <1>5, <2>1, <2>2 DEF AppliedKeys
<1>7. AppliedKeys \in SUBSET DOMAIN added
  BY DEF AppliedKeys
<1>8. applied = 0 => AppliedKeys = {} /\ annotations = original
  BY <1>1 DEF AppliedKeys, IInv
<1>9. refused' = FALSE /\ annotations' = SetFor(AppliedKeys \cup {key})
  <2> DEFINE o == patch[n]
  <2>1. ~refused /\ o = patch[applied + 1] /\ added[key] \in Values
    BY <1>1, <1>2, MapFacts DEF Apply
  <2>2. CASE n = 1 /\ original = Nil
    <3>1. o.path = <<>> /\ o.value = [x \in {key} |-> added[x]]
      BY <1>3, <2>2 DEF About, CreateOperation
    <3>2. annotations' = [x \in {key} |-> added[x]] /\ refused' = refused
      BY <2>1, <3>1 DEF Apply
    <3>3. AppliedKeys = {} /\ Base = <<>>
      BY <1>1, <1>2, <1>8, <2>2 DEF Base
    <3>4. SetFor({key}) = [x \in {key} |-> added[x]]
      BY <3>3 DEF SetFor
    <3> QED
      BY <2>1, <3>2, <3>3, <3>4 DEF IInv
  <2>3. CASE ~(n = 1 /\ original = Nil)
    <3>1. IsSetOperation(o, key)
      BY <1>3, <2>3 DEF About
    <3>2. o.path # <<>> /\ o.path[1] = EscapeJSONPointerValue(key)
      BY <3>1 DEF IsSetOperation
    <3>3. UnescapeJSONPointerValue(o.path[1]) = key
      <4>1. key \in Seq(STRING)
        BY <1>1, MapFacts, AnnotationAssumption
      <4> QED
        BY <3>2, <4>1, EscapeRoundTrip
    <3>4. annotations = SetFor(AppliedKeys)
      <4>1. CASE applied = 0
        <5>1. original \in Maps /\ Base = original /\ AppliedKeys = {}
          BY <1>1, <1>2, <1>8, <2>3, <4>1 DEF Base
        <5>2. original = [k \in DOMAIN original |-> original[k]]
          BY <5>1, MapFacts
        <5>3. SetFor({}) = [k \in DOMAIN original |-> original[k]]
          BY <5>1 DEF SetFor
        <5> QED
          BY <1>8, <4>1, <5>1, <5>2, <5>3
      <4>2. CASE applied # 0
        BY <4>2 DEF IInv
      <4> QED
        BY <4>1, <4>2
    <3>5. annotations \in Maps /\ annotations # Nil
      BY <1>1, <1>7, <3>4, SetForMaps, MapFacts
    <3>6. o.op = "replace" => key \in DOMAIN annotations
      BY <3>1, <3>4 DEF IsSetOperation, SetFor, Base
    <3>7. annotations' = Set(annotations, key, added[key]) /\ refused' = refused
      BY <2>1, <3>1, <3>2, <3>3, <3>5, <3>6 DEF Apply, IsSetOperation
    <3>8. Set(annotations, key, added[key]) = SetFor(AppliedKeys \cup {key})
      BY <3>4 DEF Set, SetFor
    <3> QED
      BY <2>1, <3>7, <3>8 DEF IInv
  <2> QED
    BY <2>2, <2>3
<1> QED
  <2>1. Done' = Done
    BY <1>1 DEF Done
  <2>2. SetFor(AppliedKeys)' = SetFor(AppliedKeys \cup {key})
    BY <1>1, <1>6 DEF SetFor, Base
  <2>3. applied' \in 0..Len(patch') /\ applied' # 0
    BY <1>1
  <2> QED
    BY <1>1, <1>4, <1>9, <2>1, <2>2, <2>3 DEF IInv

\* The inductive invariant holds of every behaviour.
LEMMA InvariantIInv == Spec => []IInv
<1>1. Init => IInv
  BY InitIInv
<1>2. IInv /\ [Next]_vars => IInv'
  <2> SUFFICES ASSUME IInv, [Next]_vars PROVE IInv'
    OBVIOUS
  <2>1. CASE \E key \in todo : UpdateAnnotation(key)
    BY <2>1, UpdateAnnotationIInv
  <2>2. CASE Apply
    BY <2>2, ApplyIInv
  <2>3. CASE UNCHANGED vars
    <3>1. UNCHANGED <<annotations, original, target, added, todo, patch, applied, refused>>
      BY <2>3 DEF vars
    <3>2. \A i, k : About(i, k)' <=> About(i, k)
      BY <3>1 DEF About, CreateOperation, IsSetOperation
    <3>3. Done' = Done /\ AppliedKeys' = AppliedKeys
      BY <3>1, <3>2 DEF Done, AppliedKeys
    <3>4. SetFor(AppliedKeys)' = SetFor(AppliedKeys)
      BY <3>1, <3>3 DEF SetFor, Base
    <3> QED
      BY <3>1, <3>2, <3>3, <3>4 DEF IInv
  <2> QED
    BY <2>1, <2>2, <2>3 DEF Next
<1> QED
  BY <1>1, <1>2, PTL DEF Spec

-----------------------------------------------------------------------------
(* The theorems.                                                           *)

\* The API server refuses no operation of the patch: the map is there when a key
\* is set, and the member when it is replaced, in every order of the iteration.
THEOREM PatchIsAccepted == Spec => []PatchAccepted
<1>1. IInv => PatchAccepted
  BY DEF IInv, PatchAccepted
<1> QED
  BY <1>1, InvariantIInv, PTL

\* The whole patch sets each added annotation under its own key, whatever
\* characters the keys are made of, and changes no other annotation.
THEOREM PatchSetsTheAnnotations == Spec => []PatchSetsAnnotations
<1>1. ASSUME IInv PROVE PatchSetsAnnotations
  <2> SUFFICES ASSUME todo = {}, applied = Len(patch)
               PROVE  annotations = IF added = <<>> THEN original
                                    ELSE IF original = Nil THEN added ELSE Override(original, added)
    BY DEF PatchSetsAnnotations
  <2>1. /\ added \in Maps /\ original \in Maps \cup {Nil} /\ Len(patch) \in Nat
        /\ added = [k \in DOMAIN added |-> added[k]]
    BY <1>1, MapFacts, LenProperties DEF IInv
  <2>2. AppliedKeys = DOMAIN added
    BY <1>1 DEF IInv, AppliedKeys, Done
  <2>3. CASE added = <<>>
    <3>1. DOMAIN added = {}
      BY <2>3
    <3>2. Len(patch) = 0
      <4>1. ~(1 \in 1..Len(patch))
        BY <1>1, <3>1 DEF IInv, Done
      <4> QED
        BY <2>1, <4>1
    <3> QED
      BY <1>1, <2>3, <3>2 DEF IInv
  <2>4. CASE added # <<>>
    <3>1. PICK k : k \in DOMAIN added
      BY <2>1, <2>4
    <3>2. \E i \in 1..Len(patch) : About(i, k)
      BY <1>1, <3>1 DEF IInv, Done
    <3>3. applied # 0 /\ annotations = SetFor(DOMAIN added)
      BY <1>1, <2>1, <2>2, <3>2 DEF IInv
    <3>4. CASE original = Nil
      BY <2>1, <2>4, <3>3, <3>4 DEF SetFor, Base
    <3>5. CASE original # Nil
      BY <2>4, <3>3, <3>5 DEF SetFor, Base, Override
    <3> QED
      BY <3>4, <3>5
  <2> QED
    BY <2>3, <2>4
<1> QED
  BY <1>1, InvariantIInv, PTL
=============================================================================
