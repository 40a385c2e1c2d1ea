----------------------------- MODULE CowProofs -----------------------------
(***************************************************************************)
(* Proofs about Cow, for every set of pictures in which the placeholders    *)
(* stand as they do in say/internal/cows, and every set of looks.           *)
(*                                                                          *)
(* What makes the order of the map matter is a replacement that finds in    *)
(* the output what the template did not have there: a value, or what is     *)
(* left of an escape, next to another symbol.  The proof says what the      *)
(* output is after any set of rounds, a drawing: the text with the entries  *)
(* of those rounds replaced in place.  One more round takes the drawing to  *)
(* the next one (DrawMore), because what a value or an escape leaves        *)
(* behind never completes another escape in a legible picture; where it     *)
(* makes three backslashes, either two of them make the same text           *)
(* (ThreeSlashes).                                                          *)
(*                                                                          *)
(* strings.Replace is a recursion over the places of a text.  Induction     *)
(* over them, from the end to the start, is a fact about sets (Downward).   *)
(***************************************************************************)
EXTENDS Cow, SequenceTheorems, WellFoundedInduction, TLAPS

-----------------------------------------------------------------------------
(* Recursion over the places of a text *)

\* Induction from the end of a text to its start, over positions: a set that has the
\* two positions past the end, and each one whose later positions it has, has them all.
LEMMA Downward ==
  ASSUME NEW n \in Nat, NEW S,
         n + 1 \in S, n + 2 \in S,
         \A i \in 1 .. n : (\A k \in i + 1 .. n + 2 : k \in S) => i \in S
  PROVE  \A i \in 1 .. n + 2 : i \in S
  <1> DEFINE T == {m \in Nat : m <= n + 1 /\ (n + 2) - m \notin S}
  <1> DEFINE R == OpToRel(<, Nat)
  <1>1. T = {}
    <2> SUFFICES ASSUME T # {} PROVE FALSE
      OBVIOUS
    <2>1. IsWellFoundedOn(R, Nat)
      BY NatLessThanWellFounded
    <2>2. T \subseteq Nat
      OBVIOUS
    <2>3. PICK m \in T : \A k \in T : <<k, m>> \notin R
      <3> HIDE DEF R, T
      <3> QED
        BY <2>1, <2>2, WFMin
    <2>4. \A k \in T : ~(k < m)
      BY <2>2, <2>3 DEF OpToRel
    <2>5. m \in Nat /\ m <= n + 1 /\ (n + 2) - m \notin S
      OBVIOUS
    <2>6. ASSUME NEW k \in (n + 2) - m + 1 .. n + 2 PROVE k \in S
      <3>1. (n + 2) - k \in Nat /\ (n + 2) - k < m
        BY <2>5
      <3>2. (n + 2) - k \notin T
        BY <2>4, <3>1
      <3>3. (n + 2) - ((n + 2) - k) = k
        BY <2>5
      <3> QED
        BY <2>5, <3>1, <3>2, <3>3
    <2>7. (n + 2) - m \in 1 .. n \/ (n + 2) - m = n + 1 \/ (n + 2) - m = n + 2
      BY <2>5
    <2> QED
      BY <2>5, <2>6, <2>7
  <1>2. ASSUME NEW i \in 1 .. n + 2 PROVE i \in S
    <2>1. (n + 2) - i \in Nat /\ (n + 2) - i <= n + 1 /\ (n + 2) - ((n + 2) - i) = i
      OBVIOUS
    <2> QED
      BY <1>1, <2>1
  <1> QED
    BY <1>2

\* s \o t, under a name of its own: the facts about it are the lemmas'.
Join(s, t) == s \o t

\* Joining two sequences over a set gives a sequence over that set.
LEMMA JoinType ==
  ASSUME NEW A, NEW s \in Seq(A), NEW t \in Seq(A)
  PROVE  Join(s, t) \in Seq(A)
  BY ConcatProperties DEF Join

\* from[i] of a recursion over a text: a piece, then what comes of the rest.
Unfolds(f, n, piece, step) ==
  f = [i \in 1 .. n + 2 |-> IF i > n THEN <<>> ELSE Join(piece[i], f[i + step[i]])]

\* There is such a recursion: each value depends on later ones only.
LEMMA Unfolding ==
  ASSUME NEW A, NEW n \in Nat, NEW piece \in [1 .. n -> Seq(A)], NEW step \in [1 .. n -> {1, 2}]
  PROVE  \E f \in [1 .. n + 2 -> Seq(A)] : Unfolds(f, n, piece, step)
  <1> DEFINE D == 1 .. n + 2
             B(f, i) == IF i > n THEN <<>> ELSE Join(piece[i], f[i + step[i]])
             S == {m \in D : \E f \in [D -> Seq(A)] : \A i \in m .. n + 2 : f[i] = B(f, i)}
  <1>1. n + 1 \in S /\ n + 2 \in S
    <2> DEFINE f == [i \in D |-> <<>>]
    <2>1. f \in [D -> Seq(A)]
      BY EmptySeq
    <2>2. \A i \in n + 1 .. n + 2 : f[i] = B(f, i)
      OBVIOUS
    <2>3. (\A i \in n + 1 .. n + 2 : f[i] = B(f, i)) /\ (\A i \in n + 2 .. n + 2 : f[i] = B(f, i))
      BY <2>2
    <2>4. n + 1 \in D /\ n + 2 \in D
      OBVIOUS
    <2> HIDE DEF f, B, D
    <2> QED
      BY <2>1, <2>3, <2>4
  <1>2. ASSUME NEW m \in 1 .. n, \A k \in m + 1 .. n + 2 : k \in S PROVE m \in S
    <2>1. m + 1 \in S
      <3> HIDE DEF S
      <3> QED
        BY <1>2
    <2>2. PICK f \in [D -> Seq(A)] : \A i \in m + 1 .. n + 2 : f[i] = B(f, i)
      BY <2>1
    <2> DEFINE v == Join(piece[m], f[m + step[m]])
    <2> DEFINE g == [f EXCEPT ![m] = v]
    <2>3. m + step[m] \in m + 1 .. n + 2
      <3>1. step[m] \in {1, 2}
        OBVIOUS
      <3> QED
        BY <3>1
    <2>4. v \in Seq(A)
      <3>1. piece[m] \in Seq(A) /\ f[m + step[m]] \in Seq(A)
        BY <2>3
      <3> QED
        BY <3>1, JoinType
    <2>5. g \in [D -> Seq(A)]
      BY <2>4
    <2>6. \A i \in D : g[i] = IF i = m THEN v ELSE f[i]
      OBVIOUS
    <2>7. ASSUME NEW i \in m + 1 .. n + 2 PROVE g[i] = B(g, i)
      <3>1. g[i] = B(f, i)
        <4>1. i \in D /\ i # m
          OBVIOUS
        <4> HIDE DEF g, B, D
        <4> QED
          BY <4>1, <2>2, <2>6
      <3>2. CASE i > n
        BY <3>1, <3>2
      <3>3. CASE ~(i > n)
        <4>1. step[i] \in {1, 2}
          BY <3>3
        <4>2. i + step[i] \in D /\ i + step[i] # m
          BY <3>3, <4>1
        <4> QED
          BY <3>1, <3>3, <4>2, <2>6
      <3> QED
        BY <3>2, <3>3
    <2>8. g[m] = B(g, m)
      <3>1. g[m] = v /\ ~(m > n)
        BY <2>6
      <3>2. g[m + step[m]] = f[m + step[m]]
        BY <2>3, <2>6
      <3> QED
        BY <3>1, <3>2
    <2> HIDE DEF g
    <2>9. \A i \in m .. n + 2 : g[i] = B(g, i)
      <3> SUFFICES ASSUME NEW i \in m .. n + 2 PROVE g[i] = B(g, i)
        OBVIOUS
      <3>1. i = m \/ i \in m + 1 .. n + 2
        OBVIOUS
      <3> QED
        BY <3>1, <2>7, <2>8
    <2>10. m \in D
      OBVIOUS
    <2> QED
      BY <2>5, <2>9, <2>10
  <1>3. 1 \in S
    <2> HIDE DEF S
    <2>1. \A i \in D : i \in S
      BY <1>1, <1>2, Downward
    <2> QED
      BY <2>1
  <1>4. PICK f \in [D -> Seq(A)] : \A i \in 1 .. n + 2 : f[i] = B(f, i)
    BY <1>3
  <1>5. f = [i \in D |-> B(f, i)]
    BY <1>4
  <1> QED
    BY <1>5 DEF Unfolds

\* Past the end nothing comes.
LEMMA UnfoldedEnd ==
  ASSUME NEW n \in Nat, NEW piece, NEW step, NEW f, Unfolds(f, n, piece, step)
  PROVE  f[n + 1] = <<>> /\ f[n + 2] = <<>>
  <1> DEFINE B(i) == IF i > n THEN <<>> ELSE Join(piece[i], f[i + step[i]])
  <1>1. f = [i \in 1 .. n + 2 |-> B(i)]
    BY DEF Unfolds
  <1>2. \A i \in 1 .. n + 2 : f[i] = B(i)
    <2> HIDE DEF B
    <2> QED
      BY <1>1
  <1>3. n + 1 \in 1 .. n + 2 /\ n + 2 \in 1 .. n + 2 /\ n + 1 > n /\ n + 2 > n
    OBVIOUS
  <1> QED
    BY <1>2, <1>3

\* Within the text, the piece comes first.
LEMMA UnfoldedPiece ==
  ASSUME NEW n \in Nat, NEW piece, NEW step, NEW f, Unfolds(f, n, piece, step), NEW i \in 1 .. n
  PROVE  f[i] = Join(piece[i], f[i + step[i]])
  <1> DEFINE B(k) == IF k > n THEN <<>> ELSE Join(piece[k], f[k + step[k]])
  <1>1. f = [k \in 1 .. n + 2 |-> B(k)]
    BY DEF Unfolds
  <1>2. f[i] = B(i)
    <2>1. i \in 1 .. n + 2
      OBVIOUS
    <2> HIDE DEF B
    <2> QED
      BY <1>1, <2>1
  <1> QED
    BY <1>2

\* All of its values are sequences over the set the pieces are over.
LEMMA UnfoldedType ==
  ASSUME NEW A, NEW n \in Nat, NEW piece \in [1 .. n -> Seq(A)], NEW step \in [1 .. n -> {1, 2}],
         NEW f, Unfolds(f, n, piece, step)
  PROVE  \A i \in 1 .. n + 2 : f[i] \in Seq(A)
  <1> DEFINE S == {i \in 1 .. n + 2 : f[i] \in Seq(A)}
  <1>1. n + 1 \in S /\ n + 2 \in S
    <2>1. f[n + 1] = <<>> /\ f[n + 2] = <<>>
      BY UnfoldedEnd
    <2>2. <<>> \in Seq(A)
      BY EmptySeq
    <2>3. n + 1 \in 1 .. n + 2 /\ n + 2 \in 1 .. n + 2
      OBVIOUS
    <2> QED
      BY <2>1, <2>2, <2>3
  <1>2. ASSUME NEW i \in 1 .. n, \A k \in i + 1 .. n + 2 : k \in S PROVE i \in S
    <2>1. step[i] \in {1, 2} /\ piece[i] \in Seq(A)
      OBVIOUS
    <2>2. i + step[i] \in i + 1 .. n + 2
      BY <2>1
    <2>3. f[i + step[i]] \in Seq(A)
      BY <1>2, <2>2
    <2>4. f[i] = Join(piece[i], f[i + step[i]])
      BY UnfoldedPiece
    <2>5. f[i] \in Seq(A)
      BY <2>1, <2>3, <2>4, JoinType
    <2> QED
      BY <2>5
  <1> HIDE DEF S
  <1>3. \A i \in 1 .. n + 2 : i \in S
    BY <1>1, <1>2, Downward
  <1> QED
    BY <1>3 DEF S

\* The last n places of a text of m places, and the pieces and steps there.
Aligned(n, k, m, piece, step, piece2, step2) ==
  m = n + k /\ \A i \in 1 .. n : piece2[i + k] = piece[i] /\ step2[i + k] = step[i]

\* Two recursions whose pieces and steps are aligned have the same values, k places apart.
LEMMA UnfoldedAlike ==
  ASSUME NEW n \in Nat, NEW piece, NEW step \in [1 .. n -> {1, 2}], NEW f, Unfolds(f, n, piece, step),
         NEW k \in Nat, NEW m, NEW piece2, NEW step2, NEW g, Unfolds(g, m, piece2, step2),
         Aligned(n, k, m, piece, step, piece2, step2)
  PROVE  \A i \in 1 .. n + 2 : g[i + k] = f[i]
  <1> DEFINE S == {i \in 1 .. n + 2 : g[i + k] = f[i]}
  <1>0. Unfolds(g, n + k, piece2, step2)
    BY DEF Aligned
  <1>1. n + 1 \in S /\ n + 2 \in S
    <2>1. g[(n + k) + 1] = <<>> /\ g[(n + k) + 2] = <<>>
      BY <1>0, UnfoldedEnd
    <2>2. f[n + 1] = <<>> /\ f[n + 2] = <<>>
      BY UnfoldedEnd
    <2>3. (n + k) + 1 = (n + 1) + k /\ (n + k) + 2 = (n + 2) + k
      OBVIOUS
    <2> QED
      BY <2>1, <2>2, <2>3
  <1>2. ASSUME NEW i \in 1 .. n, \A l \in i + 1 .. n + 2 : l \in S PROVE i \in S
    <2>1. step[i] \in {1, 2}
      OBVIOUS
    <2>2. i + step[i] \in i + 1 .. n + 2
      BY <2>1
    <2>3. g[(i + step[i]) + k] = f[i + step[i]]
      BY <1>2, <2>2
    <2>4. f[i] = Join(piece[i], f[i + step[i]])
      BY UnfoldedPiece
    <2>5. g[i + k] = Join(piece2[i + k], g[(i + k) + step2[i + k]])
      <3>1. i + k \in 1 .. n + k /\ n + k \in Nat
        OBVIOUS
      <3> QED
        BY <1>0, <3>1, UnfoldedPiece
    <2>6. (i + k) + step[i] = (i + step[i]) + k
      BY <2>1
    <2>7. g[i + k] = f[i]
      BY <2>3, <2>4, <2>5, <2>6 DEF Aligned
    <2> QED
      BY <2>7
  <1> HIDE DEF S
  <1>3. \A i \in 1 .. n + 2 : i \in S
    BY <1>1, <1>2, Downward
  <1> QED
    BY <1>3 DEF S

\* A recursion is determined by its pieces and its steps.
LEMMA UnfoldedSame ==
  ASSUME NEW n \in Nat, NEW piece, NEW step \in [1 .. n -> {1, 2}],
         NEW f, Unfolds(f, n, piece, step), NEW g, Unfolds(g, n, piece, step)
  PROVE  g[1] = f[1]
  <1> DEFINE S == {i \in 1 .. n + 2 : g[i] = f[i]}
  <1>1. n + 1 \in S /\ n + 2 \in S
    <2>1. f[n + 1] = <<>> /\ f[n + 2] = <<>> /\ g[n + 1] = <<>> /\ g[n + 2] = <<>>
      BY UnfoldedEnd
    <2> QED
      BY <2>1
  <1>2. ASSUME NEW i \in 1 .. n, \A l \in i + 1 .. n + 2 : l \in S PROVE i \in S
    <2>1. step[i] \in {1, 2}
      OBVIOUS
    <2>2. i + step[i] \in i + 1 .. n + 2
      BY <2>1
    <2>3. g[i + step[i]] = f[i + step[i]]
      BY <1>2, <2>2
    <2>4. f[i] = Join(piece[i], f[i + step[i]]) /\ g[i] = Join(piece[i], g[i + step[i]])
      BY UnfoldedPiece
    <2> QED
      BY <2>3, <2>4
  <1> HIDE DEF S
  <1>3. \A i \in 1 .. n + 2 : i \in S
    BY <1>1, <1>2, Downward
  <1> QED
    BY <1>3 DEF S

-----------------------------------------------------------------------------
(* strings.Replace *)

\* What is rendered, and what can be looked for in it.
Texts == Seq(Symbols)
Spelled == {b \in Texts : Len(b) \in {1, 2}}

\* A spelling occurs where the text has its symbols, one after the other.
LEMMA OccursPointwise ==
  ASSUME NEW text \in Texts, NEW b \in Texts, NEW i \in Nat \ {0}
  PROVE  Occurs(b, text, i) <=>
           i + Len(b) - 1 <= Len(text) /\ \A k \in 1 .. Len(b) : text[i + k - 1] = b[k]
  <1>1. Len(b) \in Nat /\ Len(text) \in Nat
    BY LenProperties DEF Texts
  <1>2. SUFFICES ASSUME i + Len(b) - 1 <= Len(text)
        PROVE  SubSeq(text, i, i + Len(b) - 1) = b <=> \A k \in 1 .. Len(b) : text[i + k - 1] = b[k]
    BY DEF Occurs
  <1> DEFINE s == SubSeq(text, i, i + Len(b) - 1)
  <1>3. \A m \in i .. i + Len(b) - 1 : text[m] \in Symbols
    BY <1>1, <1>2, ElementOfSeq DEF Texts
  <1>4. /\ s \in Texts
        /\ Len(s) = IF i <= i + Len(b) - 1 THEN (i + Len(b) - 1) - i + 1 ELSE 0
        /\ \A k \in 1 .. (i + Len(b) - 1) - i + 1 : s[k] = text[i + k - 1]
    <2>1. i \in Int /\ i + Len(b) - 1 \in Int
      BY <1>1
    <2> QED
      BY <2>1, <1>3, SubSeqProperties DEF Texts
  <1>5. Len(s) = Len(b) /\ \A k \in 1 .. Len(b) : s[k] = text[i + k - 1]
    BY <1>1, <1>4
  <1> HIDE DEF s
  <1>6. (\A k \in 1 .. Len(b) : text[i + k - 1] = b[k]) => s = b
    BY <1>4, <1>5, SeqEqual DEF Texts
  <1> QED
    BY <1>5, <1>6 DEF s

\* Where a spelling of one symbol occurs.
LEMMA OccursOne ==
  ASSUME NEW text \in Texts, NEW x \in Symbols, NEW i \in Nat \ {0}
  PROVE  Occurs(<<x>>, text, i) <=> i <= Len(text) /\ text[i] = x
  <1> DEFINE b == <<x>>
  <1>1. b \in Texts /\ Len(b) = 1 /\ b[1] = x
    BY DEF Texts
  <1>2. Len(text) \in Nat
    BY DEF Texts
  <1> HIDE DEF b
  <1>3. Occurs(b, text, i) <=>
          i + Len(b) - 1 <= Len(text) /\ \A k \in 1 .. Len(b) : text[i + k - 1] = b[k]
    BY <1>1, OccursPointwise
  <1>4. (\A k \in 1 .. Len(b) : text[i + k - 1] = b[k]) <=> text[i] = x
    <2>1. i + 1 - 1 = i /\ 1 \in 1 .. Len(b) /\ \A k \in 1 .. Len(b) : k = 1
      BY <1>1
    <2> QED
      BY <1>1, <2>1
  <1>5. i + Len(b) - 1 = i
    BY <1>1
  <1> QED
    BY <1>3, <1>4, <1>5 DEF b

\* Where a spelling of two symbols occurs.
LEMMA OccursTwo ==
  ASSUME NEW text \in Texts, NEW x \in Symbols, NEW y \in Symbols, NEW i \in Nat \ {0}
  PROVE  Occurs(<<x, y>>, text, i) <=> i + 1 <= Len(text) /\ text[i] = x /\ text[i + 1] = y
  <1> DEFINE b == <<x, y>>
  <1>1. b \in Texts /\ Len(b) = 2 /\ b[1] = x /\ b[2] = y
    BY DEF Texts
  <1>2. Len(text) \in Nat
    BY DEF Texts
  <1> HIDE DEF b
  <1>3. Occurs(b, text, i) <=> i + 2 - 1 <= Len(text) /\ \A k \in 1 .. 2 : text[i + k - 1] = b[k]
    <2>1. Occurs(b, text, i) <=>
            i + Len(b) - 1 <= Len(text) /\ \A k \in 1 .. Len(b) : text[i + k - 1] = b[k]
      BY <1>1, OccursPointwise
    <2> QED
      BY Zenon, <1>1, <2>1
  <1>4. (\A k \in 1 .. 2 : text[i + k - 1] = b[k]) <=> text[i] = x /\ text[i + 1] = y
    <2>1. i + 1 - 1 = i /\ i + 2 - 1 = i + 1 /\ \A k \in 1 .. 2 : k = 1 \/ k = 2
      OBVIOUS
    <2> QED
      BY <1>1, <2>1
  <1> QED
    BY <1>2, <1>3, <1>4 DEF b

\* The recursion that strings.Replace is, and what it does at each place.
Scan(text, b, a) ==
  CHOOSE from : from = [i \in 1 .. Len(text) + 2 |->
    IF i > Len(text) THEN <<>>
    ELSE IF Occurs(b, text, i) THEN a \o from[i + Len(b)]
    ELSE <<text[i]>> \o from[i + 1]]

ScanPiece(text, b, a) ==
  [i \in 1 .. Len(text) |-> IF Occurs(b, text, i) THEN a ELSE <<text[i]>>]
ScanStep(text, b) == [i \in 1 .. Len(text) |-> IF Occurs(b, text, i) THEN Len(b) ELSE 1]

\* strings.Replace is the scan from the first place on.
LEMMA ReplaceIsScan ==
  ASSUME NEW text, NEW b, NEW a
  PROVE  Replace(text, b, a) = Scan(text, b, a)[1]
  BY DEF Replace, Scan

\* The pieces of a scan are texts, and its steps one or two places.
LEMMA ScanTypes ==
  ASSUME NEW text \in Texts, NEW b \in Spelled, NEW a \in Texts
  PROVE  /\ Len(text) \in Nat
         /\ ScanPiece(text, b, a) \in [1 .. Len(text) -> Seq(Symbols)]
         /\ ScanStep(text, b) \in [1 .. Len(text) -> {1, 2}]
  <1>1. Len(text) \in Nat
    BY LenProperties DEF Texts
  <1>2. \A i \in 1 .. Len(text) : <<text[i]>> \in Seq(Symbols)
    BY ElementOfSeq DEF Texts
  <1>3. ScanPiece(text, b, a) \in [1 .. Len(text) -> Seq(Symbols)]
    BY <1>2 DEF ScanPiece, Texts
  <1>4. ScanStep(text, b) \in [1 .. Len(text) -> {1, 2}]
    BY DEF ScanStep, Spelled
  <1> QED
    BY <1>1, <1>3, <1>4

\* The scan is a recursion over the text, so it is defined.
LEMMA ScanUnfolds ==
  ASSUME NEW text \in Texts, NEW b \in Spelled, NEW a \in Texts
  PROVE  Unfolds(Scan(text, b, a), Len(text), ScanPiece(text, b, a), ScanStep(text, b))
  <1> DEFINE n == Len(text)
             D == 1 .. n + 2
             piece == ScanPiece(text, b, a)
             step == ScanStep(text, b)
             One(f, i) == IF i > n THEN <<>>
                          ELSE IF Occurs(b, text, i) THEN a \o f[i + Len(b)]
                          ELSE <<text[i]>> \o f[i + 1]
             Two(f, i) == IF i > n THEN <<>> ELSE Join(piece[i], f[i + step[i]])
  <1>1. n \in Nat /\ piece \in [1 .. n -> Seq(Symbols)] /\ step \in [1 .. n -> {1, 2}]
    BY ScanTypes
  <1>2. ASSUME NEW f, NEW i \in D PROVE One(f, i) = Two(f, i)
    <2>1. CASE i > n
      BY <2>1
    <2>2. CASE ~(i > n)
      <3>1. i \in 1 .. n
        BY <1>1, <2>2
      <3>2. /\ piece[i] = IF Occurs(b, text, i) THEN a ELSE <<text[i]>>
            /\ step[i] = IF Occurs(b, text, i) THEN Len(b) ELSE 1
        BY <3>1 DEF ScanPiece, ScanStep
      <3> HIDE DEF n, piece, step
      <3>3. CASE Occurs(b, text, i)
        BY Zenon, <2>2, <3>2, <3>3 DEF Join
      <3>4. CASE ~Occurs(b, text, i)
        BY Zenon, <2>2, <3>2, <3>4 DEF Join
      <3> QED
        BY <3>3, <3>4
    <2> QED
      BY <2>1, <2>2
  <1>3. \A f : (f = [i \in D |-> One(f, i)]) <=> (f = [i \in D |-> Two(f, i)])
    <2> SUFFICES ASSUME NEW f PROVE [i \in D |-> One(f, i)] = [i \in D |-> Two(f, i)]
      BY Zenon
    <2> HIDE DEF One, Two, D
    <2> QED
      BY <1>2
  <1>4. \E f : f = [i \in D |-> Two(f, i)]
    <2>1. \E f : Unfolds(f, n, piece, step)
      <3> HIDE DEF n, piece, step
      <3> QED
        BY <1>1, Unfolding
    <2> QED
      BY Zenon, <2>1 DEF Unfolds
  <1>5. \E f : f = [i \in D |-> One(f, i)]
    <2> HIDE DEF One, Two, D
    <2> QED
      BY Zenon, <1>3, <1>4
  <1> DEFINE g == CHOOSE f : f = [i \in D |-> One(f, i)]
  <1>6. g = [i \in D |-> One(g, i)]
    <2> HIDE DEF One, Two, D
    <2> QED
      BY Zenon, <1>5
  <1>7. g = [i \in D |-> Two(g, i)]
    <2> HIDE DEF One, Two, D, g
    <2> QED
      BY Zenon, <1>3, <1>6
  <1>8. Scan(text, b, a) = g
    BY Zenon DEF Scan
  <1> QED
    <2> HIDE DEF g
    <2> QED
      BY Zenon, <1>7, <1>8 DEF Unfolds

\* strings.Replace turns a text into a text.
LEMMA ReplaceType ==
  ASSUME NEW text \in Texts, NEW b \in Spelled, NEW a \in Texts
  PROVE  Replace(text, b, a) \in Texts
  <1> DEFINE f == Scan(text, b, a)
             n == Len(text)
             piece == ScanPiece(text, b, a)
             step == ScanStep(text, b)
  <1>1. n \in Nat /\ piece \in [1 .. n -> Seq(Symbols)] /\ step \in [1 .. n -> {1, 2}]
    BY ScanTypes
  <1>2. Unfolds(f, n, piece, step)
    BY ScanUnfolds
  <1>3. \A i \in 1 .. n + 2 : f[i] \in Seq(Symbols)
    <2> HIDE DEF f, n, piece, step
    <2> QED
      BY <1>1, <1>2, UnfoldedType
  <1>4. f[1] \in Seq(Symbols)
    <2>1. 1 \in 1 .. n + 2
      BY <1>1
    <2> HIDE DEF f
    <2> QED
      BY <1>3, <2>1
  <1> QED
    BY <1>4, ReplaceIsScan DEF Texts

\* What a joined text is made of, symbol for symbol.
LEMMA JoinFacts ==
  ASSUME NEW p \in Texts, NEW s \in Texts
  PROVE  /\ Join(p, s) \in Texts
         /\ Len(Join(p, s)) = Len(p) + Len(s)
         /\ \A m \in 1 .. Len(s) : Join(p, s)[m + Len(p)] = s[m]
         /\ \A m \in 1 .. Len(p) : Join(p, s)[m] = p[m]
  <1> DEFINE t == Join(p, s)
             k == Len(p)
  <1>1. Len(s) \in Nat /\ k \in Nat
    BY LenProperties DEF Texts
  <1>2. t \in Texts /\ Len(t) = k + Len(s)
    BY ConcatProperties DEF Join, Texts
  <1>3. \A m \in 1 .. k + Len(s) : t[m] = IF m <= k THEN p[m] ELSE s[m - k]
    BY ConcatProperties DEF Join, Texts
  <1> HIDE DEF t
  <1>4. ASSUME NEW m \in 1 .. Len(s) PROVE t[m + k] = s[m]
    <2>2. m + k \in 1 .. k + Len(s) /\ ~(m + k <= k) /\ (m + k) - k = m
      BY <1>1
    <2> HIDE DEF k
    <2> QED
      BY <1>3, <2>2
  <1>5. ASSUME NEW m \in 1 .. k PROVE t[m] = p[m]
    <2>2. m \in 1 .. k + Len(s) /\ m <= k
      BY <1>1
    <2> HIDE DEF k
    <2> QED
      BY <1>3, <2>2
  <1> QED
    BY <1>2, <1>4, <1>5 DEF t

\* What a text says after its first characters.
LEMMA OccursShift ==
  ASSUME NEW p \in Texts, NEW s \in Texts, NEW b \in Texts, NEW i \in 1 .. Len(s)
  PROVE  Occurs(b, Join(p, s), i + Len(p)) <=> Occurs(b, s, i)
  <1> DEFINE t == Join(p, s)
             k == Len(p)
  <1>1. Len(s) \in Nat /\ k \in Nat /\ Len(b) \in Nat
    BY LenProperties DEF Texts
  <1>2. t \in Texts /\ Len(t) = k + Len(s)
    BY JoinFacts
  <1>3. \A m \in 1 .. Len(s) : t[m + k] = s[m]
    BY JoinFacts
  <1> HIDE DEF t, k
  <1>4. i \in Nat \ {0} /\ i + k \in Nat \ {0}
    BY <1>1
  <1>5. Occurs(b, t, i + k) <=>
          (i + k) + Len(b) - 1 <= Len(t) /\ \A m \in 1 .. Len(b) : t[(i + k) + m - 1] = b[m]
    BY <1>2, <1>4, OccursPointwise
  <1>6. Occurs(b, s, i) <=>
          i + Len(b) - 1 <= Len(s) /\ \A m \in 1 .. Len(b) : s[i + m - 1] = b[m]
    BY <1>4, OccursPointwise
  <1>7. (i + k) + Len(b) - 1 <= Len(t) <=> i + Len(b) - 1 <= Len(s)
    BY <1>1, <1>2
  <1>8. ASSUME i + Len(b) - 1 <= Len(s), NEW m \in 1 .. Len(b)
        PROVE  t[(i + k) + m - 1] = s[i + m - 1]
    <2>1. i + m - 1 \in 1 .. Len(s) /\ (i + m - 1) + k = (i + k) + m - 1
      BY <1>1, <1>8
    <2> QED
      BY <1>3, <2>1
  <1>9. Occurs(b, t, i + k) <=> Occurs(b, s, i)
    BY <1>5, <1>6, <1>7, <1>8
  <1> QED
    BY <1>9 DEF t, k

\* The scan of a text does not depend on what stands before it.
LEMMA ScanShift ==
  ASSUME NEW p \in Texts, NEW s \in Texts, NEW b \in Spelled, NEW a \in Texts,
         NEW i \in 1 .. Len(s) + 2
  PROVE  Scan(Join(p, s), b, a)[i + Len(p)] = Scan(s, b, a)[i]
  <1> DEFINE t == Join(p, s)
             k == Len(p)
             n == Len(s)
             ps == ScanPiece(s, b, a)
             ss == ScanStep(s, b)
             pt == ScanPiece(t, b, a)
             st == ScanStep(t, b)
             f == Scan(s, b, a)
             g == Scan(t, b, a)
  <1>1. b \in Texts
    BY DEF Spelled
  <1>2. t \in Texts /\ Len(t) = k + n /\ \A m \in 1 .. n : t[m + k] = s[m]
    BY JoinFacts
  <1>3. n \in Nat /\ k \in Nat /\ ss \in [1 .. n -> {1, 2}]
    BY ScanTypes
  <1>4. Unfolds(f, n, ps, ss)
    BY ScanUnfolds
  <1>5. Unfolds(g, n + k, pt, st)
    <2>1. Unfolds(g, Len(t), pt, st)
      <3> HIDE DEF t
      <3> QED
        BY <1>2, ScanUnfolds
    <2>2. Len(t) = n + k
      <3> HIDE DEF t, n, k
      <3> QED
        BY <1>2, <1>3
    <2> HIDE DEF t, g, pt, st, n, k
    <2> QED
      BY <2>1, <2>2
  <1>6. ASSUME NEW m \in 1 .. n PROVE pt[m + k] = ps[m] /\ st[m + k] = ss[m]
    <2>1. Occurs(b, t, m + k) <=> Occurs(b, s, m)
      BY <1>1, OccursShift
    <2>2. t[m + k] = s[m]
      BY <1>2
    <2>3. m + k \in 1 .. Len(t)
      <3> HIDE DEF t, n, k
      <3> QED
        BY <1>2, <1>3
    <2>4. pt[m + k] = (IF Occurs(b, t, m + k) THEN a ELSE <<t[m + k]>>)
      <3> HIDE DEF t, k
      <3> QED
        BY <2>3 DEF ScanPiece
    <2>5. st[m + k] = (IF Occurs(b, t, m + k) THEN Len(b) ELSE 1)
      <3> HIDE DEF t, k
      <3> QED
        BY <2>3 DEF ScanStep
    <2>6. ps[m] = (IF Occurs(b, s, m) THEN a ELSE <<s[m]>>)
      BY DEF ScanPiece
    <2>7. ss[m] = (IF Occurs(b, s, m) THEN Len(b) ELSE 1)
      BY DEF ScanStep
    <2> HIDE DEF t, k, ps, ss, pt, st
    <2> QED
      BY Zenon, <2>1, <2>2, <2>4, <2>5, <2>6, <2>7
  <1>7. \A m \in 1 .. n + 2 : g[m + k] = f[m]
    <2>1. Aligned(n, k, n + k, ps, ss, pt, st)
      <3> HIDE DEF n, k, ps, ss, pt, st
      <3> QED
        BY <1>6 DEF Aligned
    <2> HIDE DEF n, k, ps, ss, pt, st, f, g
    <2> QED
      BY <1>3, <1>4, <1>5, <2>1, UnfoldedAlike
  <1> QED
    BY <1>7

\* One symbol, or two, are a spelling; so is each a text, and the empty one.
LEMMA Spellings ==
  ASSUME NEW x \in Symbols, NEW y \in Symbols
  PROVE  /\ <<x>> \in Spelled /\ <<x, y>> \in Spelled
         /\ <<x>> \in Texts /\ <<x, y>> \in Texts /\ <<>> \in Texts
         /\ Len(<<x>>) = 1 /\ Len(<<x, y>>) = 2 /\ Len(<<>>) = 0
         /\ <<x>>[1] = x /\ <<x, y>>[1] = x /\ <<x, y>>[2] = y
  BY DEF Spelled, Texts

\* In the empty text nothing is replaced.
LEMMA ReplaceEmpty ==
  ASSUME NEW b \in Spelled, NEW a \in Texts
  PROVE  Replace(<<>>, b, a) = <<>>
  <1> DEFINE f == Scan(<<>>, b, a)
             piece == ScanPiece(<<>>, b, a)
             step == ScanStep(<<>>, b)
  <1>1. <<>> \in Texts /\ Len(<<>>) = 0
    BY EmptySeq DEF Texts
  <1>2. Unfolds(f, Len(<<>>), piece, step)
    BY <1>1, ScanUnfolds
  <1>3. Unfolds(f, 0, piece, step)
    BY <1>1, <1>2
  <1> HIDE DEF f, piece, step
  <1>4. f[0 + 1] = <<>>
    BY <1>3, UnfoldedEnd
  <1>5. f[1] = <<>>
    BY <1>4
  <1> QED
    BY <1>5, ReplaceIsScan DEF f

\* How a scan begins.
LEMMA ScanFirst ==
  ASSUME NEW text \in Texts, NEW b \in Spelled, NEW a \in Texts, Len(text) >= 1
  PROVE  Scan(text, b, a)[1] =
           IF Occurs(b, text, 1) THEN Join(a, Scan(text, b, a)[1 + Len(b)])
           ELSE Join(<<text[1]>>, Scan(text, b, a)[2])
  <1> DEFINE f == Scan(text, b, a)
             n == Len(text)
             piece == ScanPiece(text, b, a)
             step == ScanStep(text, b)
  <1>1. n \in Nat
    BY ScanTypes
  <1>2. Unfolds(f, n, piece, step)
    BY ScanUnfolds
  <1>3. 1 \in 1 .. n
    BY <1>1
  <1>4. f[1] = Join(piece[1], f[1 + step[1]])
    <2> HIDE DEF f, n, piece, step
    <2> QED
      BY <1>1, <1>2, <1>3, UnfoldedPiece
  <1>5. /\ piece[1] = IF Occurs(b, text, 1) THEN a ELSE <<text[1]>>
        /\ step[1] = IF Occurs(b, text, 1) THEN Len(b) ELSE 1
    BY <1>3 DEF ScanPiece, ScanStep
  <1>6. 1 + 1 = 2
    OBVIOUS
  <1> HIDE DEF f, n, piece, step
  <1>7. CASE Occurs(b, text, 1)
    BY Zenon, <1>4, <1>5, <1>7 DEF f
  <1>8. CASE ~Occurs(b, text, 1)
    BY Zenon, <1>4, <1>5, <1>6, <1>8 DEF f
  <1> QED
    BY <1>7, <1>8

\* A spelling that comes first is replaced, and the scan goes on after it.
LEMMA ReplaceHere ==
  ASSUME NEW b \in Spelled, NEW a \in Texts, NEW T \in Texts
  PROVE  Replace(Join(b, T), b, a) = Join(a, Replace(T, b, a))
  <1> DEFINE U == Join(b, T)
  <1>1. b \in Texts /\ Len(b) \in {1, 2}
    BY DEF Spelled
  <1>2. U \in Texts /\ Len(U) = Len(b) + Len(T) /\ \A m \in 1 .. Len(b) : U[m] = b[m]
    BY <1>1, JoinFacts
  <1>3. Len(T) \in Nat
    BY LenProperties DEF Texts
  <1>4. Occurs(b, U, 1)
    <2> HIDE DEF U
    <2>1. 1 + Len(b) - 1 <= Len(U) /\ \A m \in 1 .. Len(b) : U[1 + m - 1] = b[m]
      <3>1. \A m \in 1 .. Len(b) : 1 + m - 1 = m
        BY <1>1
      <3> QED
        BY <1>1, <1>2, <1>3, <3>1
    <2>2. 1 \in Nat \ {0}
      OBVIOUS
    <2> QED
      BY <1>1, <1>2, <2>1, <2>2, OccursPointwise
  <1>5. Len(U) >= 1
    <2> DEFINE k == Len(b)
               m == Len(T)
    <2>1. k \in {1, 2} /\ m \in Nat /\ Len(U) = k + m
      BY <1>1, <1>2, <1>3
    <2> HIDE DEF U, k, m
    <2> QED
      BY <2>1
  <1>6. Scan(U, b, a)[1] = Join(a, Scan(U, b, a)[1 + Len(b)])
    <2> HIDE DEF U
    <2> QED
      BY <1>2, <1>4, <1>5, ScanFirst
  <1>7. Scan(U, b, a)[1 + Len(b)] = Scan(T, b, a)[1]
    <2>1. 1 \in 1 .. Len(T) + 2
      BY <1>3
    <2> QED
      BY <1>1, <2>1, ScanShift
  <1> HIDE DEF U
  <1>8. Replace(U, b, a) = Join(a, Replace(T, b, a))
    BY <1>6, <1>7, ReplaceIsScan
  <1> QED
    BY <1>8 DEF U

\* A first symbol at which the spelling does not occur is kept, and the scan goes on.
LEMMA ReplaceLater ==
  ASSUME NEW b \in Spelled, NEW a \in Texts, NEW T \in Texts, NEW x \in Symbols,
         ~Occurs(b, Join(<<x>>, T), 1)
  PROVE  Replace(Join(<<x>>, T), b, a) = Join(<<x>>, Replace(T, b, a))
  <1> DEFINE p == <<x>>
             U == Join(p, T)
  <1>1. p \in Texts /\ Len(p) = 1 /\ p[1] = x
    BY Spellings
  <1> HIDE DEF p
  <1>2. U \in Texts /\ Len(U) = Len(p) + Len(T) /\ \A m \in 1 .. Len(p) : U[m] = p[m]
    BY <1>1, JoinFacts
  <1>3. Len(T) \in Nat
    BY LenProperties DEF Texts
  <1>4. Len(U) >= 1 /\ U[1] = x
    <2> HIDE DEF U
    <2>1. 1 \in 1 .. Len(p)
      BY <1>1
    <2> QED
      BY <1>1, <1>2, <1>3, <2>1
  <1>5. ~Occurs(b, U, 1)
    BY DEF p
  <1>6. Scan(U, b, a)[1] = Join(<<U[1]>>, Scan(U, b, a)[2])
    <2> HIDE DEF U
    <2> QED
      BY <1>2, <1>4, <1>5, ScanFirst
  <1>7. Scan(U, b, a)[2] = Scan(T, b, a)[1]
    <2>1. 1 \in 1 .. Len(T) + 2
      BY <1>3
    <2>2. p \in Texts
      BY <1>1
    <2>3. Scan(U, b, a)[1 + Len(p)] = Scan(T, b, a)[1]
      BY <2>1, <2>2, ScanShift
    <2>4. 1 + Len(p) = 2
      BY <1>1
    <2> HIDE DEF U
    <2> QED
      BY <2>3, <2>4
  <1> HIDE DEF U
  <1>8. Replace(U, b, a) = Join(<<x>>, Replace(T, b, a))
    BY <1>4, <1>6, <1>7, ReplaceIsScan
  <1> QED
    BY <1>8 DEF U, p

-----------------------------------------------------------------------------
(* What a replacement leaves alone *)

\* Another symbol than the one to replace is kept.
LEMMA StaysOne ==
  ASSUME NEW s \in Symbols, NEW a \in Texts, NEW T \in Texts, NEW x \in Symbols, x # s
  PROVE  Replace(Join(<<x>>, T), <<s>>, a) = Join(<<x>>, Replace(T, <<s>>, a))
  <1> DEFINE p == <<x>>
             U == Join(p, T)
  <1>1. p \in Texts /\ Len(p) = 1 /\ p[1] = x
    BY Spellings
  <1> HIDE DEF p
  <1>2. U \in Texts /\ \A m \in 1 .. Len(p) : U[m] = p[m]
    BY <1>1, JoinFacts
  <1> HIDE DEF U
  <1>3. U[1] = x
    <2>1. 1 \in 1 .. Len(p)
      BY <1>1
    <2> QED
      BY <1>1, <1>2, <2>1
  <1>4. ~Occurs(<<s>>, U, 1)
    <2>1. 1 \in Nat \ {0}
      OBVIOUS
    <2> QED
      BY <1>2, <1>3, <2>1, OccursOne
  <1>5. <<s>> \in Spelled
    BY Spellings
  <1> QED
    BY <1>4, <1>5, ReplaceLater DEF U, p

\* x is not the s of an escape that the text T would complete with a c.
Apart(x, s, T, c) == x # s \/ T = <<>> \/ T[1] # c

\* So is one that is not followed by what would make the escape.
LEMMA StaysTwo ==
  ASSUME NEW s \in Symbols, NEW c \in Symbols, NEW a \in Texts, NEW T \in Texts, NEW x \in Symbols,
         Apart(x, s, T, c)
  PROVE  Replace(Join(<<x>>, T), <<s, c>>, a) = Join(<<x>>, Replace(T, <<s, c>>, a))
  <1> DEFINE p == <<x>>
             U == Join(p, T)
  <1>1. p \in Texts /\ Len(p) = 1 /\ p[1] = x
    BY Spellings
  <1> HIDE DEF p
  <1>2. /\ U \in Texts /\ Len(U) = Len(p) + Len(T)
        /\ \A m \in 1 .. Len(p) : U[m] = p[m]
        /\ \A m \in 1 .. Len(T) : U[m + Len(p)] = T[m]
    BY <1>1, JoinFacts
  <1> HIDE DEF U
  <1>3. U[1] = x
    <2>1. 1 \in 1 .. Len(p)
      BY <1>1
    <2> QED
      BY <1>1, <1>2, <2>1
  <1>4. Len(T) \in Nat
    BY LenProperties DEF Texts
  <1>5. 1 + 1 <= Len(U) => U[1 + 1] = T[1] /\ T # <<>>
    <2> SUFFICES ASSUME 1 + 1 <= Len(U) PROVE U[1 + 1] = T[1] /\ T # <<>>
      OBVIOUS
    <2>1. 1 \in 1 .. Len(T)
      BY <1>1, <1>2, <1>4
    <2>2. U[1 + Len(p)] = T[1]
      BY <1>2, <2>1
    <2>3. U[1 + 1] = T[1]
      BY <1>1, <2>2
    <2>4. T # <<>>
      BY <2>1, EmptySeq
    <2> QED
      BY <2>3, <2>4
  <1>6. ~Occurs(<<s, c>>, U, 1)
    <2>1. 1 \in Nat \ {0}
      OBVIOUS
    <2>2. Occurs(<<s, c>>, U, 1) <=> 1 + 1 <= Len(U) /\ U[1] = s /\ U[1 + 1] = c
      BY <1>2, <2>1, OccursTwo
    <2> QED
      BY <1>3, <1>5, <2>2 DEF Apart
  <1>7. <<s, c>> \in Spelled
    BY Spellings
  <1> QED
    BY <1>6, <1>7, ReplaceLater DEF U, p

-----------------------------------------------------------------------------
(* The drawing *)

\* What the map asks to replace at a place of a text, if anything.
Here(text, reps, i) == {r \in reps : Occurs(r[1], text, i)}
Unit(text, reps, i) == CHOOSE r \in Here(text, reps, i) : TRUE

DrawPiece(text, reps, done) ==
  [i \in 1 .. Len(text) |->
     IF Here(text, reps, i) = {} THEN <<text[i]>>
     ELSE IF Unit(text, reps, i) \in done THEN Unit(text, reps, i)[2] ELSE Unit(text, reps, i)[1]]
DrawStep(text, reps) ==
  [i \in 1 .. Len(text) |->
     IF Here(text, reps, i) = {} THEN 1 ELSE Len(Unit(text, reps, i)[1])]

\* A text in which some of the replacements have been made, from each of its places on.
Draw(text, reps, done) ==
  CHOOSE f : Unfolds(f, Len(text), DrawPiece(text, reps, done), DrawStep(text, reps))

\* The entries of the map: an escape, a line of Perl, a placeholder and its value.
Escape(c) == <<<<"\\", c>>, <<c>>>>
Blank(r) == \E s \in {"the_cow", "EOC"} : r = <<<<s>>, <<>>>>
\* A value that spells no escape.
Written(a) ==
  \/ \E x \in Characters : a = <<x>>
  \/ \E x, y \in Characters : a = <<x, y>> /\ ~(x = "\\" /\ y \in {"\\", "@"})
Look(r) == \E s \in Placeholders : \E a \in Texts : r = <<<<s>>, a>> /\ Written(a)

\* The maps of replacements there are.
Sane(reps) ==
  /\ \A r \in reps : Blank(r) \/ Look(r) \/ r = Escape("\\") \/ r = Escape("@")
  /\ \A r, q \in reps : r[1] = q[1] => r = q
  /\ Escape("\\") \in reps /\ Escape("@") \in reps

\* The symbols that stand for more than one character.
Marks == Symbols \ Characters

\* Which kinds of symbols exclude each other.
LEMMA Strings ==
  /\ "\\" \in Characters /\ "@" \in Characters /\ "\\" \notin Plain /\ "@" \notin Plain
  /\ "\\" # "@" /\ Characters \subseteq Symbols /\ Plain \subseteq Characters
  /\ Placeholders \subseteq Marks /\ {"the_cow", "EOC"} \subseteq Marks /\ Marks \subseteq Symbols
  /\ "\\" \notin Marks /\ "@" \notin Marks /\ Marks \cap Characters = {}
  BY DEF Characters, Plain, Symbols, Marks, Placeholders

\* A replacement's spelling is a mark, or one of the two escapes.
LEMMA Forms ==
  ASSUME NEW reps, Sane(reps), NEW r \in reps
  PROVE  /\ r[1] \in Spelled /\ r[2] \in Texts
         /\ \/ \E s \in Marks : r[1] = <<s>>
            \/ \E c \in {"\\", "@"} : r[1] = <<"\\", c>> /\ r = Escape(c)
  <1>1. CASE Blank(r)
    <2>1. PICK s \in {"the_cow", "EOC"} : r = <<<<s>>, <<>>>>
      BY <1>1 DEF Blank
    <2>2. r[1] = <<s>> /\ r[2] = <<>>
      BY <2>1
    <2>3. s \in Marks /\ s \in Symbols
      BY Strings
    <2>4. <<s>> \in Spelled /\ <<>> \in Texts
      BY <2>3, Spellings
    <2> QED
      BY <2>2, <2>3, <2>4
  <1>2. CASE Look(r)
    <2>1. PICK s \in Placeholders : \E a \in Texts : r = <<<<s>>, a>> /\ Written(a)
      BY <1>2 DEF Look
    <2>2. PICK a \in Texts : r = <<<<s>>, a>>
      BY <2>1
    <2>3. r[1] = <<s>> /\ r[2] = a
      BY <2>2
    <2>4. s \in Marks /\ s \in Symbols
      BY Strings
    <2>5. <<s>> \in Spelled
      BY <2>4, Spellings
    <2> QED
      BY <2>3, <2>4, <2>5
  <1>3. CASE \E c \in {"\\", "@"} : r = Escape(c)
    <2>1. PICK c \in {"\\", "@"} : r = Escape(c)
      BY <1>3
    <2>2. r[1] = <<"\\", c>> /\ r[2] = <<c>>
      BY <2>1 DEF Escape
    <2>3. c \in Symbols /\ "\\" \in Symbols
      BY Strings
    <2>4. <<"\\", c>> \in Spelled /\ <<c>> \in Texts
      BY <2>3, Spellings
    <2> QED
      BY <2>1, <2>2, <2>4
  <1> QED
    BY <1>1, <1>2, <1>3 DEF Sane

\* At one place of a text at most one entry of the map applies.
LEMMA OneUnit ==
  ASSUME NEW reps, Sane(reps), NEW text \in Texts, NEW i \in Nat \ {0},
         NEW r \in reps, NEW q \in reps, Occurs(r[1], text, i), Occurs(q[1], text, i)
  PROVE  r = q
  <1>1. SUFFICES r[1] = q[1]
    BY DEF Sane
  <1>2. ASSUME NEW s \in Marks, r[1] = <<s>> PROVE r[1] = q[1]
    <2>1. text[i] = s
      BY <1>2, OccursOne, Strings
    <2>2. ASSUME NEW z \in Marks, q[1] = <<z>> PROVE r[1] = q[1]
      <3>1. text[i] = z
        BY <2>2, OccursOne, Strings
      <3> QED
        BY <1>2, <2>1, <2>2, <3>1
    <2>3. ASSUME NEW c \in {"\\", "@"}, q[1] = <<"\\", c>> PROVE FALSE
      <3>1. text[i] = "\\"
        BY <2>3, OccursTwo, Strings
      <3> QED
        BY <2>1, <3>1, Strings
    <2> QED
      BY <2>2, <2>3, Forms
  <1>3. ASSUME NEW d \in {"\\", "@"}, r[1] = <<"\\", d>> PROVE r[1] = q[1]
    <2>1. text[i] = "\\" /\ text[i + 1] = d
      BY <1>3, OccursTwo, Strings
    <2>2. ASSUME NEW z \in Marks, q[1] = <<z>> PROVE FALSE
      <3>1. text[i] = z
        BY <2>2, OccursOne, Strings
      <3> QED
        BY <2>1, <3>1, Strings
    <2>3. ASSUME NEW c \in {"\\", "@"}, q[1] = <<"\\", c>> PROVE r[1] = q[1]
      <3>1. text[i + 1] = c
        BY <2>3, OccursTwo, Strings
      <3> QED
        BY <1>3, <2>1, <2>3, <3>1
    <2> QED
      BY <2>2, <2>3, Forms
  <1> QED
    BY <1>2, <1>3, Forms

\* So an entry that occurs at a place is the one that applies there.
LEMMA UnitIs ==
  ASSUME NEW reps, Sane(reps), NEW text \in Texts, NEW i \in Nat \ {0},
         NEW r \in reps, Occurs(r[1], text, i)
  PROVE  Unit(text, reps, i) = r /\ Here(text, reps, i) # {}
  <1>1. r \in Here(text, reps, i)
    BY DEF Here
  <1>2. Unit(text, reps, i) \in Here(text, reps, i)
    BY <1>1 DEF Unit
  <1> DEFINE u == Unit(text, reps, i)
  <1>3. u \in reps /\ Occurs(u[1], text, i)
    BY <1>2 DEF Here
  <1> HIDE DEF u
  <1>4. u = r
    BY <1>3, OneUnit
  <1> QED
    BY <1>1, <1>4 DEF u

\* The entry that applies at a place is in the map and occurs there.
LEMMA UnitHere ==
  ASSUME NEW text, NEW reps, NEW i, Here(text, reps, i) # {}
  PROVE  Unit(text, reps, i) \in reps /\ Occurs(Unit(text, reps, i)[1], text, i)
  <1>1. Unit(text, reps, i) \in Here(text, reps, i)
    BY DEF Unit
  <1> QED
    BY <1>1 DEF Here

\* The pieces of a drawing are texts, and its steps one or two places.
LEMMA DrawTypes ==
  ASSUME NEW text \in Texts, NEW reps, Sane(reps), NEW done
  PROVE  /\ Len(text) \in Nat
         /\ DrawPiece(text, reps, done) \in [1 .. Len(text) -> Seq(Symbols)]
         /\ DrawStep(text, reps) \in [1 .. Len(text) -> {1, 2}]
  <1>1. Len(text) \in Nat
    BY LenProperties DEF Texts
  <1>2. ASSUME NEW i \in 1 .. Len(text), Here(text, reps, i) # {}
        PROVE  LET u == Unit(text, reps, i)
               IN u[1] \in Seq(Symbols) /\ u[2] \in Seq(Symbols) /\ Len(u[1]) \in {1, 2}
    <2> DEFINE u == Unit(text, reps, i)
    <2>1. u \in reps
      BY <1>2, UnitHere
    <2> HIDE DEF u
    <2>2. u[1] \in Spelled /\ u[2] \in Texts
      BY <2>1, Forms
    <2>3. u[1] \in Seq(Symbols) /\ u[2] \in Seq(Symbols) /\ Len(u[1]) \in {1, 2}
      BY <2>2 DEF Spelled, Texts
    <2> QED
      BY <2>3 DEF u
  <1>3. \A i \in 1 .. Len(text) : <<text[i]>> \in Seq(Symbols)
    BY ElementOfSeq DEF Texts
  <1>4. DrawPiece(text, reps, done) \in [1 .. Len(text) -> Seq(Symbols)]
    BY <1>2, <1>3 DEF DrawPiece
  <1>5. DrawStep(text, reps) \in [1 .. Len(text) -> {1, 2}]
    BY <1>2 DEF DrawStep
  <1> QED
    BY <1>1, <1>4, <1>5

\* The drawing is a recursion over the text, so it is defined.
LEMMA DrawUnfolds ==
  ASSUME NEW text \in Texts, NEW reps, Sane(reps), NEW done
  PROVE  Unfolds(Draw(text, reps, done), Len(text), DrawPiece(text, reps, done), DrawStep(text, reps))
  <1> DEFINE n == Len(text)
             piece == DrawPiece(text, reps, done)
             step == DrawStep(text, reps)
  <1>1. n \in Nat /\ piece \in [1 .. n -> Seq(Symbols)] /\ step \in [1 .. n -> {1, 2}]
    BY DrawTypes
  <1>2. \E f : Unfolds(f, n, piece, step)
    <2> HIDE DEF n, piece, step
    <2> QED
      BY <1>1, Unfolding
  <1> QED
    BY Zenon, <1>2 DEF Draw

\* From each of its places on, the drawing is a text.
LEMMA DrawType ==
  ASSUME NEW text \in Texts, NEW reps, Sane(reps), NEW done
  PROVE  \A i \in 1 .. Len(text) + 2 : Draw(text, reps, done)[i] \in Texts
  <1> DEFINE n == Len(text)
             piece == DrawPiece(text, reps, done)
             step == DrawStep(text, reps)
             f == Draw(text, reps, done)
  <1>1. n \in Nat /\ piece \in [1 .. n -> Seq(Symbols)] /\ step \in [1 .. n -> {1, 2}]
    BY DrawTypes
  <1>2. Unfolds(f, n, piece, step)
    BY DrawUnfolds
  <1>3. \A i \in 1 .. n + 2 : f[i] \in Seq(Symbols)
    <2> HIDE DEF n, piece, step, f
    <2> QED
      BY <1>1, <1>2, UnfoldedType
  <1> QED
    BY <1>3 DEF Texts

\* What the drawing is at each place of the text.
LEMMA DrawEnd ==
  ASSUME NEW text \in Texts, NEW reps, Sane(reps), NEW done
  PROVE  Draw(text, reps, done)[Len(text) + 1] = <<>> /\ Draw(text, reps, done)[Len(text) + 2] = <<>>
  <1> DEFINE n == Len(text)
             piece == DrawPiece(text, reps, done)
             step == DrawStep(text, reps)
             f == Draw(text, reps, done)
  <1>1. n \in Nat
    BY DrawTypes
  <1>2. Unfolds(f, n, piece, step)
    BY DrawUnfolds
  <1> HIDE DEF n, piece, step, f
  <1>3. f[n + 1] = <<>> /\ f[n + 2] = <<>>
    BY <1>1, <1>2, UnfoldedEnd
  <1> QED
    BY <1>3 DEF f, n

\* Where no entry applies, the symbol is kept.
LEMMA DrawSymbol ==
  ASSUME NEW text \in Texts, NEW reps, Sane(reps), NEW done, NEW i \in 1 .. Len(text),
         Here(text, reps, i) = {}
  PROVE  Draw(text, reps, done)[i] = Join(<<text[i]>>, Draw(text, reps, done)[i + 1])
  <1> DEFINE n == Len(text)
             piece == DrawPiece(text, reps, done)
             step == DrawStep(text, reps)
             f == Draw(text, reps, done)
  <1>1. n \in Nat /\ i \in 1 .. n
    BY DrawTypes
  <1>2. Unfolds(f, n, piece, step)
    BY DrawUnfolds
  <1>3. piece[i] = <<text[i]>> /\ step[i] = 1
    BY DEF DrawPiece, DrawStep
  <1> HIDE DEF n, piece, step, f
  <1>4. f[i] = Join(piece[i], f[i + step[i]])
    BY <1>1, <1>2, UnfoldedPiece
  <1>5. f[i] = Join(<<text[i]>>, f[i + 1])
    BY Zenon, <1>3, <1>4
  <1> QED
    BY <1>5 DEF f

\* Where an entry applies whose round is over, there is what it is replaced by.
LEMMA DrawDone ==
  ASSUME NEW text \in Texts, NEW reps, Sane(reps), NEW done, NEW i \in 1 .. Len(text),
         NEW u \in reps, Occurs(u[1], text, i), u \in done
  PROVE  Draw(text, reps, done)[i] = Join(u[2], Draw(text, reps, done)[i + Len(u[1])])
  <1> DEFINE n == Len(text)
             piece == DrawPiece(text, reps, done)
             step == DrawStep(text, reps)
             f == Draw(text, reps, done)
  <1>1. n \in Nat /\ i \in 1 .. n
    BY DrawTypes
  <1>2. Unfolds(f, n, piece, step)
    BY DrawUnfolds
  <1>3. Unit(text, reps, i) = u /\ Here(text, reps, i) # {}
    <2>1. i \in Nat \ {0}
      BY <1>1
    <2> QED
      BY <2>1, UnitIs
  <1>4. step[i] = Len(u[1])
    BY Zenon, <1>1, <1>3 DEF DrawStep
  <1>5. piece[i] = u[2]
    BY Zenon, <1>1, <1>3 DEF DrawPiece
  <1> HIDE DEF n, piece, step, f
  <1>6. f[i] = Join(piece[i], f[i + step[i]])
    BY <1>1, <1>2, UnfoldedPiece
  <1>7. f[i] = Join(u[2], f[i + Len(u[1])])
    BY Zenon, <1>4, <1>5, <1>6
  <1> QED
    BY <1>7 DEF f

\* Where an entry applies whose round is to come, there is still what it spells.
LEMMA DrawLeft ==
  ASSUME NEW text \in Texts, NEW reps, Sane(reps), NEW done, NEW i \in 1 .. Len(text),
         NEW u \in reps, Occurs(u[1], text, i), u \notin done
  PROVE  Draw(text, reps, done)[i] = Join(u[1], Draw(text, reps, done)[i + Len(u[1])])
  <1> DEFINE n == Len(text)
             piece == DrawPiece(text, reps, done)
             step == DrawStep(text, reps)
             f == Draw(text, reps, done)
  <1>1. n \in Nat /\ i \in 1 .. n
    BY DrawTypes
  <1>2. Unfolds(f, n, piece, step)
    BY DrawUnfolds
  <1>3. Unit(text, reps, i) = u /\ Here(text, reps, i) # {}
    <2>1. i \in Nat \ {0}
      BY <1>1
    <2> QED
      BY <2>1, UnitIs
  <1>4. step[i] = Len(u[1])
    BY Zenon, <1>1, <1>3 DEF DrawStep
  <1>5. piece[i] = u[1]
    BY Zenon, <1>1, <1>3 DEF DrawPiece
  <1> HIDE DEF n, piece, step, f
  <1>6. f[i] = Join(piece[i], f[i + step[i]])
    BY <1>1, <1>2, UnfoldedPiece
  <1>7. f[i] = Join(u[1], f[i + Len(u[1])])
    BY Zenon, <1>4, <1>5, <1>6
  <1> QED
    BY <1>7 DEF f

\* A text that starts with a given symbol.
LEMMA JoinOne ==
  ASSUME NEW x \in Symbols, NEW T \in Texts
  PROVE  /\ Join(<<x>>, T) \in Texts
         /\ Join(<<x>>, T) # <<>> /\ Join(<<x>>, T)[1] = x
  <1> DEFINE p == <<x>>
             U == Join(p, T)
  <1>1. p \in Texts /\ Len(p) = 1 /\ p[1] = x
    BY Spellings
  <1> HIDE DEF p
  <1>2. U \in Texts /\ Len(U) = Len(p) + Len(T) /\ \A m \in 1 .. Len(p) : U[m] = p[m]
    BY <1>1, JoinFacts
  <1>3. Len(T) \in Nat
    BY LenProperties DEF Texts
  <1> HIDE DEF U
  <1>4. 1 \in 1 .. Len(p)
    BY <1>1
  <1>5. U[1] = x
    BY <1>1, <1>2, <1>4
  <1>6. U # <<>>
    BY <1>1, <1>2, <1>3, EmptySeq
  <1> QED
    BY <1>2, <1>5, <1>6 DEF U, p

\* Two symbols in front of a text are one in front of the other.
LEMMA JoinTwo ==
  ASSUME NEW x \in Symbols, NEW y \in Symbols, NEW T \in Texts
  PROVE  Join(<<x, y>>, T) = Join(<<x>>, Join(<<y>>, T))
  <1>1. <<x>> \in Seq(Symbols) /\ <<y>> \in Seq(Symbols) /\ T \in Seq(Symbols)
    BY DEF Texts
  <1> DEFINE p == <<x>>
             q == <<y>>
             b == <<x, y>>
             w == p \o q
  <1>4. /\ p \in Seq(Symbols) /\ q \in Seq(Symbols) /\ b \in Seq(Symbols)
        /\ Len(p) = 1 /\ Len(q) = 1 /\ Len(b) = 2
        /\ p[1] = x /\ q[1] = y /\ b[1] = x /\ b[2] = y
    BY Spellings DEF Texts
  <1> HIDE DEF p, q, b
  <1>5. /\ w \in Seq(Symbols) /\ Len(w) = Len(p) + Len(q)
        /\ \A i \in 1 .. Len(p) + Len(q) : w[i] = IF i <= Len(p) THEN p[i] ELSE q[i - Len(p)]
    BY <1>4, ConcatProperties
  <1> HIDE DEF w
  <1>6. Len(w) = Len(b) /\ \A i \in 1 .. Len(w) : w[i] = b[i]
    <2>1. Len(w) = 2 /\ \A i \in 1 .. Len(w) : i = 1 \/ i = 2
      BY <1>4, <1>5
    <2>2. w[1] = x /\ w[2] = y
      BY <1>4, <1>5
    <2> QED
      BY <1>4, <2>1, <2>2
  <1>7. w = b
    BY <1>4, <1>5, <1>6, SeqEqual
  <1>2. <<x, y>> = <<x>> \o <<y>>
    BY <1>7 DEF w, b, p, q
  <1>3. (<<x>> \o <<y>>) \o T = <<x>> \o (<<y>> \o T)
    BY <1>1, ConcatAssociative
  <1> QED
    BY Zenon, <1>2, <1>3 DEF Join

\* The empty text in front of a text.
LEMMA JoinNone ==
  ASSUME NEW T \in Texts
  PROVE  Join(<<>>, T) = T
  BY ConcatEmptySeq DEF Join, Texts

\* At a plain symbol no entry applies.
LEMMA NothingHere ==
  ASSUME NEW text \in Texts, NEW reps, Sane(reps), NEW i \in Nat \ {0}, text[i] \in Plain
  PROVE  Here(text, reps, i) = {}
  <1> SUFFICES ASSUME NEW r \in reps, Occurs(r[1], text, i) PROVE FALSE
    BY DEF Here
  <1>1. ASSUME NEW s \in Marks, r[1] = <<s>> PROVE FALSE
    <2>1. text[i] = s
      BY <1>1, OccursOne, Strings
    <2> QED
      BY <2>1, Strings
  <1>2. ASSUME NEW d \in {"\\", "@"}, r[1] = <<"\\", d>> PROVE FALSE
    <2>1. text[i] = "\\"
      BY <1>2, OccursTwo, Strings
    <2> QED
      BY <2>1, Strings
  <1> QED
    BY <1>1, <1>2, Forms

\* A text that starts with nothing that could be part of an escape.
Open(T) == T = <<>> \/ T[1] \in Plain

\* A drawing is open from a plain symbol on, and from the end.
LEMMA DrawPlain ==
  ASSUME NEW text \in Texts, NEW reps, Sane(reps), NEW done, NEW i \in 1 .. Len(text) + 1,
         PlainAt(text, i)
  PROVE  Open(Draw(text, reps, done)[i])
  <1> DEFINE f == Draw(text, reps, done)
  <1>1. Len(text) \in Nat
    BY LenProperties DEF Texts
  <1>2. CASE i = Len(text) + 1
    BY <1>2, DrawEnd DEF Open
  <1>3. CASE i # Len(text) + 1
    <2>1. i \in 1 .. Len(text) /\ i \in Nat \ {0} /\ i + 1 \in 1 .. Len(text) + 2
      BY <1>1, <1>3
    <2>2. text[i] \in Plain
      BY <1>1, <2>1 DEF PlainAt
    <2>3. Here(text, reps, i) = {}
      BY <2>1, <2>2, NothingHere
    <2>4. f[i] = Join(<<text[i]>>, f[i + 1])
      BY <2>1, <2>3, DrawSymbol
    <2>5. f[i + 1] \in Texts
      BY <2>1, DrawType
    <2>6. text[i] \in Symbols
      BY <2>2, Strings
    <2> HIDE DEF f
    <2>7. f[i][1] = text[i]
      BY <2>4, <2>5, <2>6, JoinOne
    <2> QED
      BY <2>2, <2>7 DEF Open, f
  <1> QED
    BY <1>2, <1>3

\* What the drawing is at two backslashes: one or two, then the rest.
LEMMA DrawSlashes ==
  ASSUME NEW text \in Texts, NEW reps, Sane(reps), NEW done, NEW i \in Nat \ {0},
         Occurs(<<"\\", "\\">>, text, i)
  PROVE  /\ Draw(text, reps, done)[i][1] = "\\"
         /\ Draw(text, reps, done)[i + 2] \in Texts
         /\ Escape("\\") \in done =>
              Draw(text, reps, done)[i] = Join(<<"\\">>, Draw(text, reps, done)[i + 2])
         /\ Escape("\\") \notin done =>
              Draw(text, reps, done)[i] = Join(<<"\\", "\\">>, Draw(text, reps, done)[i + 2])
  <1> DEFINE f == Draw(text, reps, done)
             u == Escape("\\")
  <1>1. Len(text) \in Nat
    BY LenProperties DEF Texts
  <1>2. i + 1 <= Len(text)
    BY OccursTwo, Strings
  <1>3. i \in 1 .. Len(text) /\ i + 2 \in 1 .. Len(text) + 2
    BY <1>1, <1>2
  <1>4. u[1] = <<"\\", "\\">> /\ u[2] = <<"\\">> /\ u \in reps /\ Len(u[1]) = 2
    BY Strings DEF Escape, Sane
  <1>5. f[i + 2] \in Texts
    BY <1>3, DrawType
  <1> HIDE DEF u
  <1>6. Occurs(u[1], text, i)
    BY Zenon, <1>4
  <1>7. /\ u \in done => f[i] = Join(u[2], f[i + Len(u[1])])
        /\ u \notin done => f[i] = Join(u[1], f[i + Len(u[1])])
    <2>1. i \in 1 .. Len(text) /\ u \in reps
      BY <1>3, <1>4
    <2>2. CASE u \in done
      BY <2>1, <2>2, <1>6, DrawDone
    <2>3. CASE u \notin done
      BY <2>1, <2>3, <1>6, DrawLeft
    <2> QED
      BY <2>2, <2>3
  <1> HIDE DEF f
  <1>8. /\ u \in done => f[i] = Join(<<"\\">>, f[i + 2])
        /\ u \notin done => f[i] = Join(<<"\\", "\\">>, f[i + 2])
    BY Zenon, <1>4, <1>7
  <1>9. Join(<<"\\", "\\">>, f[i + 2]) = Join(<<"\\">>, Join(<<"\\">>, f[i + 2]))
    BY <1>5, JoinTwo, Strings
  <1>10. Join(<<"\\">>, f[i + 2]) \in Texts
    BY <1>5, JoinOne, Strings
  <1>11. f[i][1] = "\\"
    <2>1. "\\" \in Symbols
      BY Strings
    <2>2. Join(<<"\\">>, f[i + 2])[1] = "\\"
      BY <2>1, <1>5, JoinOne
    <2>3. Join(<<"\\">>, Join(<<"\\">>, f[i + 2]))[1] = "\\"
      BY <2>1, <1>10, JoinOne
    <2> QED
      BY Zenon, <2>2, <2>3, <1>8, <1>9
  <1> QED
    BY <1>5, <1>8, <1>11 DEF f, u

\* After an escaped backslash, the drawing does not go on with an @: this is where the
\* pictures have to be legible.
LEMMA NoAtAfterSlashes ==
  ASSUME NEW text \in Texts, Legible(text), NEW reps, Sane(reps), NEW done, NEW i \in Nat \ {0},
         Occurs(<<"\\", "\\">>, text, i)
  PROVE  Draw(text, reps, done)[i + 2] = <<>> \/ Draw(text, reps, done)[i + 2][1] # "@"
  <1> DEFINE f == Draw(text, reps, done)
             k == i + 2
  <1>1. Len(text) \in Nat /\ DOMAIN text = 1 .. Len(text)
    BY LenProperties DEF Texts
  <1>2. i + 1 <= Len(text) /\ text[i] = "\\" /\ text[i + 1] = "\\"
    BY OccursTwo, Strings
  <1>3. i + 1 \in DOMAIN text /\ (i + 1) + 1 = k /\ (i + 1) - 1 = i /\ i + 1 > 1
        /\ k \in 1 .. Len(text) + 1 /\ k \in Nat \ {0}
    BY <1>1, <1>2
  <1>4. PlainAt(text, k) \/ text[k] = "\\"
    BY <1>2, <1>3 DEF Legible
  <1>5. CASE PlainAt(text, k)
    <2>1. Open(f[k])
      BY <1>3, <1>5, DrawPlain
    <2> QED
      BY <2>1, Strings DEF Open
  <1>6. CASE ~PlainAt(text, k) /\ text[k] = "\\"
    <2>1. k \in 1 .. Len(text) /\ k \in DOMAIN text /\ k > 1 /\ k - 1 = i + 1 /\ k + 1 \in 1 .. Len(text) + 2
      BY <1>1, <1>3, <1>6 DEF PlainAt
    <2>2. PlainAt(text, k + 1) \/ text[k + 1] = "\\"
      BY <1>2, <1>6, <2>1 DEF Legible
    <2>3. CASE Here(text, reps, k) = {}
      <3>1. f[k] = Join(<<text[k]>>, f[k + 1])
        BY <2>1, <2>3, DrawSymbol
      <3>2. f[k + 1] \in Texts
        BY <2>1, DrawType
      <3> HIDE DEF f
      <3>3. f[k][1] = "\\"
        BY <1>6, <3>1, <3>2, JoinOne, Strings
      <3> QED
        BY <3>3, Strings DEF f
    <2>4. CASE Here(text, reps, k) # {}
      <3>1. PICK r \in reps : Occurs(r[1], text, k)
        BY <2>4 DEF Here
      <3>2. ASSUME NEW s \in Marks, r[1] = <<s>> PROVE FALSE
        <4>1. text[k] = s
          BY <1>3, <3>1, <3>2, OccursOne, Strings
        <4> QED
          BY <1>6, <4>1, Strings
      <3>3. ASSUME NEW d \in {"\\", "@"}, r[1] = <<"\\", d>> PROVE d = "\\"
        <4>1. text[k + 1] = d /\ k + 1 <= Len(text)
          BY <1>3, <3>1, <3>3, OccursTwo, Strings
        <4> QED
          BY <2>2, <4>1, Strings DEF PlainAt
      <3>4. r[1] = <<"\\", "\\">>
        BY <3>2, <3>3, Forms
      <3>5. Occurs(<<"\\", "\\">>, text, k)
        BY Zenon, <3>1, <3>4
      <3>6. f[k][1] = "\\"
        BY <1>3, <3>5, DrawSlashes
      <3> QED
        BY <3>6, Strings
    <2> QED
      BY <2>3, <2>4
  <1> QED
    BY <1>4, <1>5, <1>6

\* A placeholder's value is left alone: what follows it makes no escape with it.
LEMMA StaysBefore ==
  ASSUME NEW T \in Texts, Open(T), NEW reps, Sane(reps), NEW r \in reps, NEW c \in Characters
  PROVE  Replace(Join(<<c>>, T), r[1], r[2]) = Join(<<c>>, Replace(T, r[1], r[2]))
  <1>1. r[1] \in Spelled /\ r[2] \in Texts /\ c \in Symbols
    BY Forms, Strings
  <1>2. ASSUME NEW s \in Marks, r[1] = <<s>>
        PROVE  Replace(Join(<<c>>, T), r[1], r[2]) = Join(<<c>>, Replace(T, r[1], r[2]))
    <2>1. c # s /\ s \in Symbols
      BY Strings
    <2>2. Replace(Join(<<c>>, T), <<s>>, r[2]) = Join(<<c>>, Replace(T, <<s>>, r[2]))
      BY <1>1, <2>1, StaysOne
    <2> QED
      BY Zenon, <1>2, <2>2
  <1>3. ASSUME NEW d \in {"\\", "@"}, r[1] = <<"\\", d>>
        PROVE  Replace(Join(<<c>>, T), r[1], r[2]) = Join(<<c>>, Replace(T, r[1], r[2]))
    <2>1. d \in Symbols /\ "\\" \in Symbols
      BY Strings
    <2>3. Apart(c, "\\", T, d)
      BY Strings DEF Open, Apart
    <2>2. Replace(Join(<<c>>, T), <<"\\", d>>, r[2]) = Join(<<c>>, Replace(T, <<"\\", d>>, r[2]))
      BY <1>1, <2>1, <2>3, StaysTwo
    <2> QED
      BY Zenon, <1>3, <2>2
  <1> QED
    BY <1>2, <1>3, Forms

\* Three backslashes make two, whichever two of them are taken for the escape.
LEMMA ThreeSlashes ==
  ASSUME NEW Z \in Texts, Open(Z), NEW reps, Sane(reps)
  PROVE  LET T == Join(<<"\\", "\\">>, Z)
         IN  Replace(Join(<<"\\">>, T), <<"\\", "\\">>, <<"\\">>)
               = Join(<<"\\">>, Replace(T, <<"\\", "\\">>, <<"\\">>))
  <1> DEFINE e == "\\"
             b == <<e, e>>
             a == <<e>>
             T == Join(b, Z)
             R(U) == Replace(U, b, a)
  <1>1. e \in Symbols /\ e \in Characters
    BY Strings
  <1>2. b \in Spelled /\ a \in Texts /\ b \in Texts
    BY <1>1, Spellings
  <1>3. T = Join(a, Join(a, Z))
    BY <1>1, JoinTwo
  <1>4. Join(a, Z) \in Texts /\ T \in Texts
    BY <1>1, <1>3, JoinOne
  <1>5. Join(a, T) = Join(b, Join(a, Z))
    <2>1. Join(b, Join(a, Z)) = Join(a, Join(a, Join(a, Z)))
      BY <1>1, <1>4, JoinTwo
    <2> QED
      BY Zenon, <1>3, <2>1
  <1>6. R(Join(b, Join(a, Z))) = Join(a, R(Join(a, Z)))
    BY <1>2, <1>4, ReplaceHere
  <1>7. R(Join(a, Z)) = Join(a, R(Z))
    <2>1. Escape(e) \in reps /\ Escape(e)[1] = b /\ Escape(e)[2] = a
      BY DEF Sane, Escape
    <2> DEFINE r == Escape(e)
    <2> HIDE DEF r
    <2>2. Replace(Join(<<e>>, Z), r[1], r[2]) = Join(<<e>>, Replace(Z, r[1], r[2]))
      <3>1. r \in reps
        BY <2>1 DEF r
      <3> HIDE DEF e
      <3> QED
        BY <1>1, <3>1, StaysBefore
    <2> QED
      BY Zenon, <2>1, <2>2 DEF r
  <1>8. R(T) = Join(a, R(Z))
    BY <1>2, ReplaceHere
  <1>9. R(Join(a, T)) = Join(a, R(T))
    BY Zenon, <1>5, <1>6, <1>7, <1>8
  <1> QED
    BY <1>9

\* A character of a placeholder's value is left alone by every later round: what
\* follows the placeholder in the picture is plain, or one escaped backslash.
LEMMA StaysAfterLook ==
  ASSUME NEW text \in Texts, Legible(text), NEW reps, Sane(reps), NEW done,
         NEW r \in reps, r \notin done, NEW i \in 1 .. Len(text), text[i] \in Placeholders,
         NEW c \in Characters
  PROVE  Replace(Join(<<c>>, Draw(text, reps, done)[i + 1]), r[1], r[2])
           = Join(<<c>>, Replace(Draw(text, reps, done)[i + 1], r[1], r[2]))
  <1> DEFINE f == Draw(text, reps, done)
             T == f[i + 1]
             Z == f[i + 3]
             e == Escape("\\")
  <1>1. Len(text) \in Nat /\ DOMAIN text = 1 .. Len(text)
    BY LenProperties DEF Texts
  <1>2. i + 1 \in 1 .. Len(text) + 1 /\ i + 1 \in 1 .. Len(text) + 2 /\ i + 1 \in Nat \ {0}
    BY <1>1
  <1>3. T \in Texts
    BY <1>2, DrawType
  <1>4. \/ PlainAt(text, i + 1)
        \/ Occurs(<<"\\", "\\">>, text, i + 1) /\ PlainAt(text, i + 3)
    BY <1>1 DEF Legible
  <1>5. CASE PlainAt(text, i + 1)
    <2>1. Open(T)
      BY <1>2, <1>5, DrawPlain
    <2> HIDE DEF T
    <2> QED
      BY <1>3, <2>1, StaysBefore DEF T
  <1>6. CASE Occurs(<<"\\", "\\">>, text, i + 1) /\ PlainAt(text, i + 3)
    <2>1. (i + 1) + 1 <= Len(text)
      BY <1>2, <1>6, OccursTwo, Strings
    <2>2. i + 3 \in 1 .. Len(text) + 1 /\ (i + 1) + 2 = i + 3
      BY <1>1, <2>1
    <2>3. Open(Z)
      BY <1>6, <2>2, DrawPlain
    <2>4. T[1] = "\\" /\ f[(i + 1) + 2] \in Texts
      BY <1>2, <1>6, DrawSlashes
    <2>5. Z \in Texts
      BY <2>2, <2>4
    <2>6. e \notin done => T = Join(<<"\\", "\\">>, f[(i + 1) + 2])
      BY <1>2, <1>6, DrawSlashes
    <2>7. e \notin done => T = Join(<<"\\", "\\">>, Z)
      BY <2>2, <2>6
    <2> HIDE DEF T, Z, f
    <2>8. r[1] \in Spelled /\ r[2] \in Texts /\ c \in Symbols
      BY Forms, Strings
    <2>9. ASSUME NEW s \in Marks, r[1] = <<s>>
          PROVE  Replace(Join(<<c>>, T), r[1], r[2]) = Join(<<c>>, Replace(T, r[1], r[2]))
      <3>1. c # s /\ s \in Symbols
        BY Strings
      <3>2. Replace(Join(<<c>>, T), <<s>>, r[2]) = Join(<<c>>, Replace(T, <<s>>, r[2]))
        BY <1>3, <2>8, <3>1, StaysOne
      <3> QED
        BY Zenon, <2>9, <3>2
    <2>10. ASSUME NEW d \in {"\\", "@"}, r[1] = <<"\\", d>>, c # "\\" \/ d # "\\"
           PROVE  Replace(Join(<<c>>, T), r[1], r[2]) = Join(<<c>>, Replace(T, r[1], r[2]))
      <3>1. d \in Symbols /\ "\\" \in Symbols
        BY Strings
      <3>2. Apart(c, "\\", T, d)
        BY <2>4, <2>10 DEF Apart
      <3>3. Replace(Join(<<c>>, T), <<"\\", d>>, r[2]) = Join(<<c>>, Replace(T, <<"\\", d>>, r[2]))
        BY <1>3, <2>8, <3>1, <3>2, StaysTwo
      <3> QED
        BY Zenon, <2>10, <3>3
    <2>11. ASSUME r[1] = <<"\\", "\\">>, r = Escape("\\"), c = "\\"
           PROVE  Replace(Join(<<c>>, T), r[1], r[2]) = Join(<<c>>, Replace(T, r[1], r[2]))
      <3>1. T = Join(<<"\\", "\\">>, Z)
        BY <2>7, <2>11
      <3>2. Replace(Join(<<"\\">>, T), <<"\\", "\\">>, <<"\\">>)
               = Join(<<"\\">>, Replace(T, <<"\\", "\\">>, <<"\\">>))
        BY <2>3, <2>5, <3>1, ThreeSlashes
      <3>3. r[2] = <<"\\">>
        BY <2>11 DEF Escape
      <3> QED
        BY Zenon, <2>11, <3>2, <3>3
    <2>12. \/ \E s \in Marks : r[1] = <<s>>
           \/ \E d \in {"\\", "@"} : r[1] = <<"\\", d>> /\ r = Escape(d)
      BY Forms
    <2> QED
      BY <2>9, <2>10, <2>11, <2>12 DEF T, f
  <1> QED
    BY <1>4, <1>5, <1>6

\* So is the whole value, of one character or of two that are no escape.
LEMMA StaysWritten ==
  ASSUME NEW text \in Texts, Legible(text), NEW reps, Sane(reps), NEW done,
         NEW r \in reps, r \notin done, NEW i \in 1 .. Len(text), text[i] \in Placeholders,
         NEW a \in Texts, Written(a)
  PROVE  Replace(Join(a, Draw(text, reps, done)[i + 1]), r[1], r[2])
           = Join(a, Replace(Draw(text, reps, done)[i + 1], r[1], r[2]))
  <1> DEFINE T == Draw(text, reps, done)[i + 1]
             R(U) == Replace(U, r[1], r[2])
  <1>1. T \in Texts
    <2>1. i + 1 \in 1 .. Len(text) + 2
      BY LenProperties DEF Texts
    <2> QED
      BY <2>1, DrawType
  <1>2. ASSUME NEW c \in Characters PROVE R(Join(<<c>>, T)) = Join(<<c>>, R(T))
    BY StaysAfterLook
  <1> HIDE DEF T
  <1>3. CASE \E x \in Characters : a = <<x>>
    BY Zenon, <1>2, <1>3 DEF T
  <1>4. ASSUME NEW x \in Characters, NEW y \in Characters, a = <<x, y>>,
               ~(x = "\\" /\ y \in {"\\", "@"})
        PROVE  R(Join(a, T)) = Join(a, R(T))
    <2>1. x \in Symbols /\ y \in Symbols
      BY Strings
    <2> DEFINE U == Join(<<y>>, T)
    <2>2. U \in Texts /\ U[1] = y
      BY <1>1, <2>1, JoinOne
    <2>3. Join(a, T) = Join(<<x>>, U)
      BY <1>1, <1>4, <2>1, JoinTwo
    <2>4. R(U) = Join(<<y>>, R(T))
      BY <1>2
    <2> HIDE DEF U
    <2>5. r[1] \in Spelled /\ r[2] \in Texts
      BY Forms
    <2>6. R(T) \in Texts
      BY <1>1, <2>5, ReplaceType
    <2>7. Join(a, R(T)) = Join(<<x>>, R(U))
      BY <1>4, <2>1, <2>4, <2>6, JoinTwo
    <2>8. ASSUME NEW s \in Marks, r[1] = <<s>> PROVE R(Join(<<x>>, U)) = Join(<<x>>, R(U))
      <3>1. x # s /\ s \in Symbols
        BY Strings
      <3>2. Replace(Join(<<x>>, U), <<s>>, r[2]) = Join(<<x>>, Replace(U, <<s>>, r[2]))
        BY <2>1, <2>2, <2>5, <3>1, StaysOne
      <3> QED
        BY Zenon, <2>8, <3>2
    <2>9. ASSUME NEW d \in {"\\", "@"}, r[1] = <<"\\", d>>
          PROVE  R(Join(<<x>>, U)) = Join(<<x>>, R(U))
      <3>1. d \in Symbols /\ "\\" \in Symbols
        BY Strings
      <3>2. Apart(x, "\\", U, d)
        BY <1>4, <2>2 DEF Apart
      <3>3. Replace(Join(<<x>>, U), <<"\\", d>>, r[2]) = Join(<<x>>, Replace(U, <<"\\", d>>, r[2]))
        BY <2>1, <2>2, <2>5, <3>1, <3>2, StaysTwo
      <3> QED
        BY Zenon, <2>9, <3>3
    <2>10. R(Join(<<x>>, U)) = Join(<<x>>, R(U))
      BY <2>8, <2>9, Forms
    <2> QED
      BY Zenon, <2>3, <2>7, <2>10
  <1> QED
    BY <1>3, <1>4 DEF T, Written

\* A round of the loop does to a text, from a place on, what was meant.
DrawnFrom(text, reps, done, r, i) ==
  \A k \in i .. Len(text) + 2 :
    Replace(Draw(text, reps, done)[k], r[1], r[2]) = Draw(text, reps, done \cup {r})[k]

\* One round of the loop, at one place of the text: what the later places say.
LEMMA DrawMoreHere ==
  ASSUME NEW text \in Texts, Legible(text), NEW reps, Sane(reps), NEW done,
         NEW r \in reps, r \notin done, NEW i \in 1 .. Len(text),
         DrawnFrom(text, reps, done, r, i + 1)
  PROVE  Replace(Draw(text, reps, done)[i], r[1], r[2]) = Draw(text, reps, done \cup {r})[i]
  <1> DEFINE n == Len(text)
             f == Draw(text, reps, done)
             g == Draw(text, reps, done \cup {r})
             R(U) == Replace(U, r[1], r[2])
  <1>1. n \in Nat /\ i \in Nat \ {0} /\ DOMAIN text = 1 .. n
    BY LenProperties DEF Texts
  <1>2. \A k \in i + 1 .. n + 2 : f[k] \in Texts
    BY <1>1, DrawType
  <1>3. \A k \in i + 1 .. n + 2 : R(f[k]) = g[k]
    BY DEF DrawnFrom
  <1>4. r[1] \in Spelled /\ r[2] \in Texts
    BY Forms
  <1>5. i + 1 \in i + 1 .. n + 2
    BY <1>1
  <1>6. CASE Here(text, reps, i) = {}
    <2> DEFINE x == text[i]
               T == f[i + 1]
    <2>8. f[i] = Join(<<x>>, T)
      <3>1. \A D : Draw(text, reps, D)[i] = Join(<<text[i]>>, Draw(text, reps, D)[i + 1])
        BY <1>6, DrawSymbol
      <3> QED
        BY <3>1
    <2>9. g[i] = Join(<<x>>, g[i + 1])
      BY <1>6, DrawSymbol
    <2>1. f[i] = Join(<<x>>, T) /\ g[i] = Join(<<x>>, g[i + 1])
      BY <2>8, <2>9
    <2>2. x \in Symbols
      BY ElementOfSeq DEF Texts
    <2>3. T \in Texts /\ R(T) = g[i + 1]
      BY <1>2, <1>3, <1>5
    <2> HIDE DEF T
    <2>4. ~Occurs(r[1], text, i)
      BY <1>6 DEF Here
    <2>5. ASSUME NEW s \in Marks, r[1] = <<s>> PROVE R(Join(<<x>>, T)) = Join(<<x>>, R(T))
      <3>1. x # s /\ s \in Symbols
        BY <1>1, <2>4, <2>5, OccursOne, Strings
      <3>2. Replace(Join(<<x>>, T), <<s>>, r[2]) = Join(<<x>>, Replace(T, <<s>>, r[2]))
        BY <1>4, <2>2, <2>3, <3>1, StaysOne
      <3> QED
        BY Zenon, <2>5, <3>2
    <2>6. ASSUME NEW d \in {"\\", "@"}, r[1] = <<"\\", d>>
          PROVE  R(Join(<<x>>, T)) = Join(<<x>>, R(T))
      <3>1. d \in Symbols /\ "\\" \in Symbols
        BY Strings
      <3>2. ASSUME x = "\\" PROVE T = <<>> \/ T[1] # d
        <4>1. ASSUME NEW c \in {"\\", "@"} PROVE ~Occurs(<<"\\", c>>, text, i)
          <5>1. Escape(c) \in reps /\ Escape(c)[1] = <<"\\", c>>
            BY DEF Sane, Escape
          <5> DEFINE q == Escape(c)
          <5> HIDE DEF q
          <5>2. q \in reps /\ q[1] = <<"\\", c>>
            BY <5>1 DEF q
          <5>3. ~Occurs(q[1], text, i)
            BY <1>6, <5>2 DEF Here
          <5> QED
            BY Zenon, <5>2, <5>3
        <4>2. ~(i + 1 <= n /\ text[i + 1] \in {"\\", "@"})
          BY <1>1, <3>2, <4>1, OccursTwo, Strings
        <4>3. PlainAt(text, i + 1)
          BY <1>1, <3>2, <4>2 DEF Legible, PlainAt
        <4>4. Open(T)
          <5>1. i + 1 \in 1 .. n + 1
            BY <1>1
          <5> QED
            BY <4>3, <5>1, DrawPlain DEF T
        <4> QED
          BY <4>4, Strings DEF Open
      <3>3. Apart(x, "\\", T, d)
        BY <3>2 DEF Apart
      <3> HIDE DEF x
      <3>4. Replace(Join(<<x>>, T), <<"\\", d>>, r[2]) = Join(<<x>>, Replace(T, <<"\\", d>>, r[2]))
        BY <1>4, <2>2, <2>3, <3>1, <3>3, StaysTwo
      <3> QED
        BY Zenon, <2>6, <3>4
    <2>7. R(Join(<<x>>, T)) = Join(<<x>>, R(T))
      BY <2>5, <2>6, Forms
    <2> QED
      BY Zenon, <2>1, <2>3, <2>7
  <1>7. CASE Here(text, reps, i) # {}
    <2>1. PICK u \in reps : Occurs(u[1], text, i)
      BY <1>7 DEF Here
    <2> DEFINE k == i + Len(u[1])
               T == f[k]
    <2>2. u[1] \in Spelled /\ u[2] \in Texts /\ u[1] \in Texts /\ Len(u[1]) \in {1, 2}
      BY Forms DEF Spelled
    <2>3. k \in i + 1 .. n + 2
      <3> DEFINE l == Len(u[1])
      <3>1. l \in {1, 2}
        BY <2>2
      <3> HIDE DEF l
      <3>2. i + l \in i + 1 .. n + 2
        BY <1>1, <3>1
      <3> QED
        BY <3>2 DEF l
    <2>4. T \in Texts /\ R(T) = g[k]
      BY <1>2, <1>3, <2>3
    <2>5. u \in done => f[i] = Join(u[2], T)
      BY <2>1, DrawDone
    <2>6. u \notin done => f[i] = Join(u[1], T)
      BY <2>1, DrawLeft
    <2>7. u \in done \cup {r} => g[i] = Join(u[2], g[k])
      BY <2>1, DrawDone
    <2>8. u \notin done \cup {r} => g[i] = Join(u[1], g[k])
      BY <2>1, DrawLeft
    <2>9. CASE u = r
      <3>1. R(Join(r[1], T)) = Join(r[2], R(T))
        BY <1>4, <2>4, ReplaceHere
      <3>2. f[i] = Join(r[1], T) /\ g[i] = Join(r[2], g[k])
        BY <2>6, <2>7, <2>9
      <3> QED
        BY Zenon, <2>4, <3>1, <3>2
    <2>10. CASE u # r /\ u \notin done
      <3>1. R(Join(u[1], T)) = Join(u[1], R(T))
        <4> HIDE DEF T
        <4>1. ASSUME NEW s \in Marks, u[1] = <<s>> PROVE R(Join(<<s>>, T)) = Join(<<s>>, R(T))
          <5>1. s \in Symbols /\ s # "\\"
            BY Strings
          <5>2. ASSUME NEW z \in Marks, r[1] = <<z>> PROVE R(Join(<<s>>, T)) = Join(<<s>>, R(T))
            <6>1. z \in Symbols
              BY Strings
            <6>2. s # z
              BY <2>10, <4>1, <5>2 DEF Sane
            <6>3. Replace(Join(<<s>>, T), <<z>>, r[2]) = Join(<<s>>, Replace(T, <<z>>, r[2]))
              BY <1>4, <2>4, <5>1, <6>1, <6>2, StaysOne
            <6> QED
              BY Zenon, <5>2, <6>3
          <5>3. ASSUME NEW d \in {"\\", "@"}, r[1] = <<"\\", d>>
                PROVE  R(Join(<<s>>, T)) = Join(<<s>>, R(T))
            <6>1. d \in Symbols /\ "\\" \in Symbols
              BY Strings
            <6>3. Apart(s, "\\", T, d)
              BY <5>1 DEF Apart
            <6>2. Replace(Join(<<s>>, T), <<"\\", d>>, r[2]) = Join(<<s>>, Replace(T, <<"\\", d>>, r[2]))
              BY <1>4, <2>4, <5>1, <6>1, <6>3, StaysTwo
            <6> QED
              BY Zenon, <5>3, <6>2
          <5> QED
            BY <5>2, <5>3, Forms
        <4>2. ASSUME NEW c \in {"\\", "@"}, u[1] = <<"\\", c>>
              PROVE  R(Join(<<"\\", c>>, T)) = Join(<<"\\", c>>, R(T))
          <5> DEFINE U == Join(<<c>>, T)
          <5>1. c \in Symbols /\ "\\" \in Symbols
            BY Strings
          <5>2. U \in Texts /\ U[1] = c
            BY <2>4, <5>1, JoinOne
          <5>3. Join(<<"\\", c>>, T) = Join(<<"\\">>, U)
            BY <2>4, <5>1, JoinTwo
          <5>4. R(T) \in Texts
            BY <1>4, <2>4, ReplaceType
          <5>5. Join(<<"\\", c>>, R(T)) = Join(<<"\\">>, Join(<<c>>, R(T)))
            BY <5>1, <5>4, JoinTwo
          <5> HIDE DEF U
          <5>6. ASSUME NEW z \in Marks, r[1] = <<z>>
                PROVE  R(U) = Join(<<c>>, R(T)) /\ R(Join(<<"\\">>, U)) = Join(<<"\\">>, R(U))
            <6>1. z \in Symbols /\ z # c /\ z # "\\"
              BY Strings
            <6>2. Replace(U, <<z>>, r[2]) = Join(<<c>>, Replace(T, <<z>>, r[2]))
              BY <1>4, <2>4, <5>1, <6>1, StaysOne DEF U
            <6>3. Replace(Join(<<"\\">>, U), <<z>>, r[2]) = Join(<<"\\">>, Replace(U, <<z>>, r[2]))
              BY <1>4, <5>1, <5>2, <6>1, StaysOne
            <6> QED
              BY Zenon, <5>6, <6>2, <6>3
          <5>7. ASSUME NEW d \in {"\\", "@"}, r[1] = <<"\\", d>>
                PROVE  R(U) = Join(<<c>>, R(T)) /\ R(Join(<<"\\">>, U)) = Join(<<"\\">>, R(U))
            <6>1. d \in Symbols
              BY Strings
            <6>2. d # c
              BY <2>10, <4>2, <5>7 DEF Sane
            <6>3. Apart(c, "\\", T, d)
              <7> SUFFICES ASSUME c = "\\", d = "@" PROVE T = <<>> \/ T[1] # "@"
                BY <6>2 DEF Apart
              <7>1. Occurs(<<"\\", "\\">>, text, i) /\ k = i + 2
                <8>1. u[1] = <<"\\", "\\">>
                  BY <4>2
                <8>2. Len(u[1]) = 2
                  BY <8>1
                <8> QED
                  BY Zenon, <2>1, <8>1, <8>2
              <7>2. f[i + 2] = <<>> \/ f[i + 2][1] # "@"
                BY <1>1, <7>1, NoAtAfterSlashes
              <7> QED
                BY Zenon, <7>1, <7>2 DEF T
            <6>4. Replace(U, <<"\\", d>>, r[2]) = Join(<<c>>, Replace(T, <<"\\", d>>, r[2]))
              BY <1>4, <2>4, <5>1, <6>1, <6>3, StaysTwo DEF U
            <6>5. Replace(Join(<<"\\">>, U), <<"\\", d>>, r[2])
                    = Join(<<"\\">>, Replace(U, <<"\\", d>>, r[2]))
              <7>1. Apart("\\", "\\", U, d)
                BY <5>2, <6>2 DEF Apart
              <7> QED
                BY <1>4, <5>1, <5>2, <6>1, <7>1, StaysTwo
            <6> QED
              BY Zenon, <5>7, <6>4, <6>5
          <5>8. R(U) = Join(<<c>>, R(T)) /\ R(Join(<<"\\">>, U)) = Join(<<"\\">>, R(U))
            BY <5>6, <5>7, Forms
          <5> QED
            BY Zenon, <5>3, <5>5, <5>8
        <4>3. \/ \E s \in Marks : u[1] = <<s>>
              \/ \E c \in {"\\", "@"} : u[1] = <<"\\", c>> /\ u = Escape(c)
          BY Forms
        <4>4. CASE \E s \in Marks : u[1] = <<s>>
          BY Zenon, <4>1, <4>4
        <4>5. CASE \E c \in {"\\", "@"} : u[1] = <<"\\", c>>
          BY Zenon, <4>2, <4>5
        <4> QED
          BY <4>3, <4>4, <4>5
      <3>2. f[i] = Join(u[1], T) /\ g[i] = Join(u[1], g[k])
        BY <2>6, <2>8, <2>10
      <3> QED
        BY Zenon, <2>4, <3>1, <3>2
    <2>11. CASE u # r /\ u \in done
      <3>1. R(Join(u[2], T)) = Join(u[2], R(T))
        <4>1. CASE Blank(u)
          <5>1. u[2] = <<>>
            BY <4>1 DEF Blank
          <5>2. R(T) \in Texts
            BY <1>4, <2>4, ReplaceType
          <5>3. Join(<<>>, T) = T /\ Join(<<>>, R(T)) = R(T)
            BY <2>4, <5>2, JoinNone
          <5> QED
            BY Zenon, <5>1, <5>3
        <4>2. CASE Look(u)
          <5>1. PICK s \in Placeholders : \E a \in Texts : u = <<<<s>>, a>> /\ Written(a)
            BY <4>2 DEF Look
          <5>2. PICK a \in Texts : u = <<<<s>>, a>> /\ Written(a)
            BY <5>1
          <5>3. u[1] = <<s>> /\ u[2] = a /\ Len(u[1]) = 1
            BY <5>2
          <5>4. Occurs(<<s>>, text, i) /\ k = i + 1
            BY Zenon, <2>1, <5>3
          <5>5. text[i] = s
            <6>1. s \in Symbols
              BY Strings
            <6> QED
              BY <1>1, <5>4, <6>1, OccursOne
          <5>6. R(Join(a, f[i + 1])) = Join(a, R(f[i + 1]))
            BY <5>2, <5>5, StaysWritten
          <5> QED
            BY Zenon, <5>3, <5>4, <5>6
        <4>3. CASE u = Escape("\\")
          <5>1. u[1] = <<"\\", "\\">> /\ u[2] = <<"\\">> /\ Len(u[1]) = 2
            BY <4>3 DEF Escape
          <5>2. Occurs(<<"\\", "\\">>, text, i) /\ k = i + 2
            BY Zenon, <2>1, <5>1
          <5>3. f[i + 2] = <<>> \/ f[i + 2][1] # "@"
            BY <1>1, <5>2, NoAtAfterSlashes
          <5>4. T = <<>> \/ T[1] # "@"
            BY Zenon, <5>2, <5>3
          <5> HIDE DEF T
          <5>5. ASSUME NEW z \in Marks, r[1] = <<z>> PROVE R(Join(<<"\\">>, T)) = Join(<<"\\">>, R(T))
            <6>1. z \in Symbols /\ "\\" \in Symbols /\ z # "\\"
              BY Strings
            <6>2. Replace(Join(<<"\\">>, T), <<z>>, r[2]) = Join(<<"\\">>, Replace(T, <<z>>, r[2]))
              BY <1>4, <2>4, <6>1, StaysOne
            <6> QED
              BY Zenon, <5>5, <6>2
          <5>6. ASSUME NEW d \in {"\\", "@"}, r[1] = <<"\\", d>>
                PROVE  R(Join(<<"\\">>, T)) = Join(<<"\\">>, R(T))
            <6>1. d \in Symbols /\ "\\" \in Symbols
              BY Strings
            <6>2. d = "@"
              BY <2>11, <5>1, <5>6 DEF Sane
            <6>3. Apart("\\", "\\", T, d)
              BY <5>4, <6>2 DEF Apart
            <6>4. Replace(Join(<<"\\">>, T), <<"\\", d>>, r[2]) = Join(<<"\\">>, Replace(T, <<"\\", d>>, r[2]))
              BY <1>4, <2>4, <6>1, <6>3, StaysTwo
            <6> QED
              BY Zenon, <5>6, <6>4
          <5>7. R(Join(<<"\\">>, T)) = Join(<<"\\">>, R(T))
            BY <5>5, <5>6, Forms
          <5> QED
            BY Zenon, <5>1, <5>7 DEF T
        <4>4. CASE u = Escape("@")
          <5>1. u[2] = <<"@">>
            BY <4>4 DEF Escape
          <5> HIDE DEF T
          <5>2. ASSUME NEW z \in Marks, r[1] = <<z>> PROVE R(Join(<<"@">>, T)) = Join(<<"@">>, R(T))
            <6>1. z \in Symbols /\ "@" \in Symbols /\ z # "@"
              BY Strings
            <6>2. Replace(Join(<<"@">>, T), <<z>>, r[2]) = Join(<<"@">>, Replace(T, <<z>>, r[2]))
              BY <1>4, <2>4, <6>1, StaysOne
            <6> QED
              BY Zenon, <5>2, <6>2
          <5>3. ASSUME NEW d \in {"\\", "@"}, r[1] = <<"\\", d>>
                PROVE  R(Join(<<"@">>, T)) = Join(<<"@">>, R(T))
            <6>1. d \in Symbols /\ "\\" \in Symbols /\ "@" \in Symbols /\ "@" # "\\"
              BY Strings
            <6>3. Apart("@", "\\", T, d)
              BY <6>1 DEF Apart
            <6>2. Replace(Join(<<"@">>, T), <<"\\", d>>, r[2]) = Join(<<"@">>, Replace(T, <<"\\", d>>, r[2]))
              BY <1>4, <2>4, <6>1, <6>3, StaysTwo
            <6> QED
              BY Zenon, <5>3, <6>2
          <5>4. R(Join(<<"@">>, T)) = Join(<<"@">>, R(T))
            BY <5>2, <5>3, Forms
          <5> QED
            BY Zenon, <5>1, <5>4 DEF T
        <4> QED
          BY <4>1, <4>2, <4>3, <4>4 DEF Sane
      <3>2. f[i] = Join(u[2], T) /\ g[i] = Join(u[2], g[k])
        BY <2>5, <2>7, <2>11
      <3> QED
        BY Zenon, <2>4, <3>1, <3>2
    <2> QED
      BY <2>9, <2>10, <2>11
  <1> QED
    BY <1>6, <1>7

\* One round of the loop takes the drawing of the rounds so far to the drawing of one
\* more, in whatever order the rounds come.
LEMMA DrawMore ==
  ASSUME NEW text \in Texts, Legible(text), NEW reps, Sane(reps), NEW done,
         NEW r \in reps, r \notin done
  PROVE  Replace(Draw(text, reps, done)[1], r[1], r[2]) = Draw(text, reps, done \cup {r})[1]
  <1> DEFINE n == Len(text)
             S == {i \in 1 .. n + 2 :
                     Replace(Draw(text, reps, done)[i], r[1], r[2]) = Draw(text, reps, done \cup {r})[i]}
  <1>1. n \in Nat
    BY LenProperties DEF Texts
  <1>2. n + 1 \in S /\ n + 2 \in S
    <2>1. Replace(<<>>, r[1], r[2]) = <<>>
      BY Forms, ReplaceEmpty
    <2>2. \A D : Draw(text, reps, D)[n + 1] = <<>> /\ Draw(text, reps, D)[n + 2] = <<>>
      BY DrawEnd
    <2>3. n + 1 \in 1 .. n + 2 /\ n + 2 \in 1 .. n + 2
      BY <1>1
    <2> QED
      BY <2>1, <2>2, <2>3
  <1>3. ASSUME NEW i \in 1 .. n, \A k \in i + 1 .. n + 2 : k \in S PROVE i \in S
    <2>1. DrawnFrom(text, reps, done, r, i + 1)
      BY <1>3 DEF DrawnFrom
    <2>2. Replace(Draw(text, reps, done)[i], r[1], r[2]) = Draw(text, reps, done \cup {r})[i]
      BY <2>1, DrawMoreHere
    <2>3. i \in 1 .. n + 2
      BY <1>1
    <2> QED
      BY <2>2, <2>3
  <1> HIDE DEF S
  <1>4. \A i \in 1 .. n + 2 : i \in S
    <2> HIDE DEF n
    <2> QED
      BY <1>1, <1>2, <1>3, Downward
  <1>5. 1 \in 1 .. n + 2
    BY <1>1
  <1> QED
    BY <1>4, <1>5 DEF S

\* Before the first round, the drawing is the text.
LEMMA DrawNothing ==
  ASSUME NEW text \in Texts, NEW reps, Sane(reps)
  PROVE  Draw(text, reps, {})[1] = text
  <1> DEFINE n == Len(text)
             f == Draw(text, reps, {})
             S == {i \in 1 .. n + 2 : f[i] = SubSeq(text, i, n)}
  <1>1. n \in Nat
    BY LenProperties DEF Texts
  <1>2. n + 1 \in S /\ n + 2 \in S
    <2>1. f[n + 1] = <<>> /\ f[n + 2] = <<>>
      BY DrawEnd
    <2>2. SubSeq(text, n + 1, n) = <<>> /\ SubSeq(text, n + 2, n) = <<>>
      <3>1. n + 1 \in Int /\ n + 2 \in Int /\ n \in Int /\ n < n + 1 /\ n < n + 2
        BY <1>1
      <3> HIDE DEF n
      <3> QED
        BY <3>1, SubSeqEmpty
    <2>3. n + 1 \in 1 .. n + 2 /\ n + 2 \in 1 .. n + 2
      BY <1>1
    <2> HIDE DEF f, n
    <2> QED
      BY <2>1, <2>2, <2>3
  <1>3. ASSUME NEW i \in 1 .. n, \A k \in i + 1 .. n + 2 : k \in S PROVE i \in S
    <2>1. i \in 1 .. n + 2 /\ n \in i .. n /\ i \in Nat \ {0}
      BY <1>1
    <2>2. CASE Here(text, reps, i) = {}
      <3>1. f[i] = Join(<<text[i]>>, f[i + 1])
        BY <2>2, DrawSymbol
      <3>2. i + 1 \in i + 1 .. n + 2
        BY <1>1
      <3>3. f[i + 1] = SubSeq(text, i + 1, n)
        BY <1>3, <3>2
      <3>4. SubSeq(text, i, n) = <<text[i]>> \o SubSeq(text, i + 1, n)
        <4>1. text \in Seq(Symbols) /\ i \in 1 .. Len(text) /\ n \in i .. Len(text)
          BY <2>1 DEF Texts
        <4> QED
          BY <4>1, SubSeqRecursiveFirst
      <3> HIDE DEF f, n
      <3>5. f[i] = SubSeq(text, i, n)
        BY Zenon, <3>1, <3>3, <3>4 DEF Join
      <3> QED
        BY <2>1, <3>5
    <2>3. CASE Here(text, reps, i) # {}
      <3>1. PICK u \in reps : Occurs(u[1], text, i)
        BY <2>3 DEF Here
      <3> DEFINE l == Len(u[1])
      <3>2. l \in {1, 2}
        BY Forms DEF Spelled
      <3>3. i + l - 1 <= n /\ u[1] = SubSeq(text, i, i + l - 1)
        BY <3>1 DEF Occurs
      <3>4. f[i] = Join(u[1], f[i + l])
        BY <3>1, DrawLeft
      <3> HIDE DEF l, f
      <3>5. i + l \in i + 1 .. n + 2 /\ (i + l - 1) + 1 = i + l
        BY <1>1, <3>2
      <3>6. f[i + l] = SubSeq(text, i + l, n)
        BY <1>3, <3>5
      <3>7. SubSeq(text, i, i + l - 1) \o SubSeq(text, (i + l - 1) + 1, n) = SubSeq(text, i, n)
        <4> DEFINE k == i + l - 1
        <4>1. /\ text \in Seq(Symbols) /\ i \in 1 .. Len(text) + 1
              /\ k \in i - 1 .. Len(text) /\ n \in k .. Len(text)
          BY <1>1, <3>2, <3>3 DEF Texts
        <4> HIDE DEF k, n
        <4>2. SubSeq(text, i, k) \o SubSeq(text, k + 1, n) = SubSeq(text, i, n)
          BY <4>1, ConcatAdjacentSubSeq
        <4> QED
          BY <4>2 DEF k
      <3>8. f[i] = SubSeq(text, i, n)
        <4> HIDE DEF n
        <4> QED
          BY Zenon, <3>3, <3>4, <3>5, <3>6, <3>7 DEF Join
      <3> QED
        BY <2>1, <3>8
    <2> QED
      BY <2>2, <2>3
  <1> HIDE DEF S
  <1>4. \A i \in 1 .. n + 2 : i \in S
    <2> HIDE DEF n
    <2> QED
      BY <1>1, <1>2, <1>3, Downward
  <1>5. 1 \in S
    <2>1. 1 \in 1 .. n + 2
      BY <1>1
    <2> QED
      BY <1>4, <2>1
  <1>6. SubSeq(text, 1, n) = text
    BY SubSeqFull DEF Texts
  <1> QED
    BY <1>5, <1>6 DEF S

\* After the last one it is the picture.
PictureFrom(j) ==
  CHOOSE from : from = [i \in 1 .. Len(Uncommented(j.template)) + 2 |->
    IF i > Len(Uncommented(j.template)) THEN <<>>
    ELSE IF Here(Uncommented(j.template), Replacements(j), i) = {}
           THEN <<Uncommented(j.template)[i]>> \o from[i + 1]
    ELSE Unit(Uncommented(j.template), Replacements(j), i)[2]
           \o from[i + Len(Unit(Uncommented(j.template), Replacements(j), i)[1])]]

\* The picture that is meant is the recursion from the first place on.
LEMMA PictureIsFrom == ASSUME NEW j PROVE Picture(j) = PictureFrom(j)[1]
  BY DEF Picture, PictureFrom, Here, Unit

\* It has the pieces and the steps of the drawing after all rounds.
LEMMA PictureUnfolds ==
  ASSUME NEW j, NEW text, text = Uncommented(j.template), text \in Texts,
         NEW reps, reps = Replacements(j), Sane(reps)
  PROVE  Unfolds(PictureFrom(j), Len(text), DrawPiece(text, reps, reps), DrawStep(text, reps))
  <1> DEFINE n == Len(text)
             D == 1 .. n + 2
             piece == DrawPiece(text, reps, reps)
             step == DrawStep(text, reps)
             One(f, i) == IF i > n THEN <<>>
                          ELSE IF Here(text, reps, i) = {} THEN <<text[i]>> \o f[i + 1]
                          ELSE Unit(text, reps, i)[2] \o f[i + Len(Unit(text, reps, i)[1])]
             Two(f, i) == IF i > n THEN <<>> ELSE Join(piece[i], f[i + step[i]])
  <1>1. n \in Nat /\ piece \in [1 .. n -> Seq(Symbols)] /\ step \in [1 .. n -> {1, 2}]
    BY DrawTypes
  <1>2. ASSUME NEW f, NEW i \in D PROVE One(f, i) = Two(f, i)
    <2>1. CASE i > n
      BY <2>1
    <2>2. CASE ~(i > n)
      <3>1. i \in 1 .. n
        BY <1>1, <2>2
      <3>2. CASE Here(text, reps, i) = {}
        <4>1. piece[i] = <<text[i]>> /\ step[i] = 1
          BY <3>1, <3>2 DEF DrawPiece, DrawStep
        <4> HIDE DEF n, piece, step
        <4> QED
          BY Zenon, <2>2, <3>2, <4>1 DEF Join
      <3>3. CASE Here(text, reps, i) # {}
        <4>1. Unit(text, reps, i) \in reps
          BY <3>3, UnitHere
        <4>2. step[i] = Len(Unit(text, reps, i)[1])
          BY Zenon, <3>1, <3>3 DEF DrawStep
        <4>3. piece[i] = Unit(text, reps, i)[2]
          BY Zenon, <3>1, <3>3, <4>1 DEF DrawPiece
        <4> HIDE DEF n, piece, step
        <4> QED
          BY Zenon, <2>2, <3>3, <4>2, <4>3 DEF Join
      <3> QED
        BY <3>2, <3>3
    <2> QED
      BY <2>1, <2>2
  <1>3. \A f : (f = [i \in D |-> One(f, i)]) <=> (f = [i \in D |-> Two(f, i)])
    <2> SUFFICES ASSUME NEW f PROVE [i \in D |-> One(f, i)] = [i \in D |-> Two(f, i)]
      BY Zenon
    <2> HIDE DEF One, Two, D
    <2> QED
      BY <1>2
  <1>4. \E f : f = [i \in D |-> Two(f, i)]
    <2>1. \E f : Unfolds(f, n, piece, step)
      <3> HIDE DEF n, piece, step
      <3> QED
        BY <1>1, Unfolding
    <2> QED
      BY Zenon, <2>1 DEF Unfolds
  <1>5. \E f : f = [i \in D |-> One(f, i)]
    <2> HIDE DEF One, Two, D
    <2> QED
      BY Zenon, <1>3, <1>4
  <1> DEFINE g == CHOOSE f : f = [i \in D |-> One(f, i)]
  <1>6. g = [i \in D |-> One(g, i)]
    <2> HIDE DEF One, Two, D
    <2> QED
      BY Zenon, <1>5
  <1>7. g = [i \in D |-> Two(g, i)]
    <2> HIDE DEF One, Two, D, g
    <2> QED
      BY Zenon, <1>3, <1>6
  <1>8. PictureFrom(j) = g
    BY Zenon DEF PictureFrom
  <1> QED
    <2> HIDE DEF g
    <2> QED
      BY Zenon, <1>7, <1>8 DEF Unfolds

\* The drawing after all rounds is the picture that is meant.
LEMMA DrawEverything ==
  ASSUME NEW j, Uncommented(j.template) \in Texts, Sane(Replacements(j))
  PROVE  Draw(Uncommented(j.template), Replacements(j), Replacements(j))[1] = Picture(j)
  <1> DEFINE text == Uncommented(j.template)
             reps == Replacements(j)
             n == Len(text)
             f == Draw(text, reps, reps)
             g == PictureFrom(j)
             piece == DrawPiece(text, reps, reps)
             step == DrawStep(text, reps)
  <1>1. n \in Nat /\ step \in [1 .. n -> {1, 2}]
    BY DrawTypes
  <1>2. Unfolds(f, n, piece, step)
    BY DrawUnfolds
  <1>3. Unfolds(g, n, piece, step)
    BY PictureUnfolds
  <1> HIDE DEF text, reps, n, f, g, piece, step
  <1>4. g[1] = f[1]
    BY <1>1, <1>2, <1>3, UnfoldedSame
  <1> QED
    BY <1>4, PictureIsFrom DEF f, g, text, reps

-----------------------------------------------------------------------------
(* The loop *)

\* What DrawnAlike is about: a look that spells no escape.
Meant(j) == ~IsEscape(j.look.eyes) /\ ~IsEscape(j.look.tongue)
\* A call of cowText.
Job(j) ==
  \E t \in Templates, look \in Looks, think \in BOOLEAN :
    j = [template |-> t, look |-> look, think |-> think]

\* While a picture is rendered, the entries of the map that are not to come have been
\* replaced in place, each of them everywhere, and nothing else has changed.
CInv ==
  /\ job # {} => \E j : Job(j) /\ job = {j}
  /\ \A j \in job :
       /\ todo \subseteq Replacements(j)
       /\ Meant(j) =>
            output = Draw(Uncommented(j.template), Replacements(j), Replacements(j) \ todo)[1]

\* What is rendered is a legible text, by the assumption on the pictures.
LEMMA TextOfJob ==
  ASSUME NEW j, Job(j)
  PROVE  Uncommented(j.template) \in Texts /\ Legible(Uncommented(j.template))
  <1>1. j.template \in Templates
    BY DEF Job
  <1>2. j.template \in Texts
    BY <1>1, CowAssumption DEF Texts
  <1>3. <<"comment">> \in Spelled /\ <<>> \in Texts
    BY Spellings DEF Symbols
  <1>4. Uncommented(j.template) \in Texts
    BY <1>2, <1>3, ReplaceType DEF Uncommented
  <1> QED
    BY <1>1, <1>4, PicturesAssumption

\* Two characters that are no escape.
LEMMA WrittenPair ==
  ASSUME NEW a \in Seq(Characters), Len(a) = 2, ~IsEscape(a)
  PROVE  a \in Texts /\ Written(a)
  <1> DEFINE x == a[1]
             y == a[2]
  <1>1. x \in Characters /\ y \in Characters
    BY ElementOfSeq
  <1>2. a = <<x, y>>
    <2> DEFINE b == <<x, y>>
    <2>1. b \in Seq(Characters) /\ Len(b) = 2 /\ b[1] = x /\ b[2] = y
      BY <1>1
    <2> HIDE DEF b
    <2>2. \A i \in 1 .. Len(a) : a[i] = b[i]
      <3>1. \A i \in 1 .. Len(a) : i = 1 \/ i = 2
        OBVIOUS
      <3> QED
        BY <2>1, <3>1
    <2>3. a = b
      BY <2>1, <2>2, SeqEqual
    <2> QED
      BY <2>3 DEF b
  <1>3. ~(x = "\\" /\ y \in {"\\", "@"})
    <2> HIDE DEF x, y
    <2> QED
      BY <1>2 DEF IsEscape
  <1>4. a \in Texts
    BY Strings, SeqMonotonic DEF Texts
  <1> HIDE DEF x, y
  <1>5. Written(a)
    BY Zenon, <1>1, <1>2, <1>3 DEF Written
  <1> QED
    BY <1>4, <1>5

\* The map of replacements of cowText is a sane one, if the look spells no escape.
LEMMA SaneJob ==
  ASSUME NEW j, Job(j), Meant(j)
  PROVE  Sane(Replacements(j))
  <1>1. PICK t \in Templates, look \in Looks, think \in BOOLEAN :
          j = [template |-> t, look |-> look, think |-> think]
    BY DEF Job
  <1>2. j.look = look /\ j.think = think
    BY <1>1
  <1> DEFINE e == Eyes(j)
             g == Tongue(j)
             h == Thoughts(j)
  <1>3. /\ look.eyes \in Seq(Characters) /\ Len(look.eyes) \in {0, 2}
        /\ look.tongue \in Seq(Characters) /\ Len(look.tongue) \in {0, 2}
    BY CowAssumption
  <1>4. /\ <<"o", "o">> \in Seq(Characters) /\ Len(<<"o", "o">>) = 2 /\ ~IsEscape(<<"o", "o">>)
        /\ <<" ", " ">> \in Seq(Characters) /\ Len(<<" ", " ">>) = 2 /\ ~IsEscape(<<" ", " ">>)
    BY DEF Characters, Plain, IsEscape
  <1>5. \A a \in Seq(Characters) : Len(a) = 0 => a = <<>>
    BY EmptySeq
  <1>6. e \in Seq(Characters) /\ Len(e) = 2 /\ ~IsEscape(e)
    <2>1. CASE look.eyes = <<>>
      BY <1>2, <1>4, <2>1 DEF Eyes
    <2>2. CASE look.eyes # <<>>
      <3>1. e = look.eyes /\ ~IsEscape(look.eyes)
        BY <1>2, <2>2 DEF Eyes, Meant
      <3>2. Len(look.eyes) = 2
        BY <1>3, <1>5, <2>2
      <3> QED
        BY <1>3, <3>1, <3>2
    <2> QED
      BY <2>1, <2>2
  <1>7. g \in Seq(Characters) /\ Len(g) = 2 /\ ~IsEscape(g)
    <2>1. CASE look.tongue = <<>>
      BY <1>2, <1>4, <2>1 DEF Tongue
    <2>2. CASE look.tongue # <<>>
      <3>1. g = look.tongue /\ ~IsEscape(look.tongue)
        BY <1>2, <2>2 DEF Tongue, Meant
      <3>2. Len(look.tongue) = 2
        BY <1>3, <1>5, <2>2
      <3> QED
        BY <1>3, <3>1, <3>2
    <2> QED
      BY <2>1, <2>2
  <1>8. e \in Texts /\ Written(e) /\ g \in Texts /\ Written(g)
    <2> HIDE DEF e, g
    <2> QED
      BY <1>6, <1>7, WrittenPair
  <1>9. h \in Texts /\ Written(h)
    <2>1. PICK x \in {"o", "\\"} : h = <<x>>
      BY DEF Thoughts
    <2>2. x \in Characters /\ x \in Symbols
      BY DEF Symbols, Characters, Plain
    <2> QED
      BY <2>1, <2>2, Spellings DEF Written
  <1> HIDE DEF e, g, h
  <1>10. Replacements(j) =
           {<<<<"the_cow">>, <<>>>>, <<<<"EOC">>, <<>>>>, Escape("\\"), Escape("@"),
            <<<<"$eyes">>, e>>, <<<<"$tongue">>, g>>, <<<<"$thoughts">>, h>>}
    BY Zenon DEF Replacements, Escape, e, g, h
  <1>11. Blank(<<<<"the_cow">>, <<>>>>) /\ Blank(<<<<"EOC">>, <<>>>>)
    BY DEF Blank
  <1>12. Look(<<<<"$eyes">>, e>>) /\ Look(<<<<"$tongue">>, g>>) /\ Look(<<<<"$thoughts">>, h>>)
    BY <1>8, <1>9 DEF Look, Placeholders
  <1>13. \A r \in Replacements(j) : Blank(r) \/ Look(r) \/ r = Escape("\\") \/ r = Escape("@")
    <2> HIDE DEF Blank, Look, Escape
    <2> QED
      BY <1>10, <1>11, <1>12
  <1>14. \A r, q \in Replacements(j) : r[1] = q[1] => r = q
    BY <1>10 DEF Escape
  <1> QED
    BY <1>10, <1>13, <1>14 DEF Sane

\* cowText: at every moment of the loop the output is the drawing of the replacements
\* made so far, whatever the order in which Go ranges over the map.
THEOREM CowInvariance == CowSpec => []CInv
  <1>1. CowInit => CInv
    BY DEF CowInit, CInv, Idle
  <1>2. CInv /\ [CowNext]_cowVars => CInv'
    <2> SUFFICES ASSUME CInv, [CowNext]_cowVars PROVE CInv'
      OBVIOUS
    <2>1. CASE Render
      <3>1. PICK t \in Templates, look \in Looks, think \in BOOLEAN :
              LET j == [template |-> t, look |-> look, think |-> think] IN
                /\ job' = {j}
                /\ output' = Uncommented(t)
                /\ todo' = Replacements(j)
        BY <2>1 DEF Render
      <3> DEFINE j == [template |-> t, look |-> look, think |-> think]
      <3>2. Job(j) /\ j.template = t
        BY DEF Job
      <3>3. job' = {j} /\ output' = Uncommented(j.template) /\ todo' = Replacements(j)
        BY <3>1, <3>2
      <3> HIDE DEF j
      <3>4. Meant(j) => output' = Draw(Uncommented(j.template), Replacements(j), {})[1]
        BY <3>2, <3>3, SaneJob, TextOfJob, DrawNothing
      <3>5. Replacements(j) \ todo' = {}
        BY <3>3
      <3> QED
        BY <3>2, <3>3, <3>4, <3>5 DEF CInv
    <2>2. CASE ReplaceNext
      <3>1. PICK r \in todo : output' = Replace(output, r[1], r[2]) /\ todo' = todo \ {r} /\ job' = job
        BY <2>2 DEF ReplaceNext
      <3>2. ASSUME NEW j \in job
            PROVE  /\ todo' \subseteq Replacements(j)
                   /\ Meant(j) =>
                        output' = Draw(Uncommented(j.template), Replacements(j), Replacements(j) \ todo')[1]
        <4> DEFINE reps == Replacements(j)
                   text == Uncommented(j.template)
        <4>1. todo \subseteq reps
          BY DEF CInv
        <4>2. Job(j)
          BY DEF CInv
        <4>3. ASSUME Meant(j) PROVE output' = Draw(text, reps, reps \ todo')[1]
          <5>1. output = Draw(text, reps, reps \ todo)[1]
            BY <4>3 DEF CInv
          <5>2. Sane(reps) /\ text \in Texts /\ Legible(text)
            BY <4>2, <4>3, SaneJob, TextOfJob
          <5> DEFINE done == reps \ todo
          <5> HIDE DEF reps, text
          <5>3. r \in reps /\ r \notin done /\ done \cup {r} = reps \ todo'
            BY <3>1, <4>1
          <5> HIDE DEF done
          <5>4. Replace(Draw(text, reps, done)[1], r[1], r[2]) = Draw(text, reps, done \cup {r})[1]
            BY <5>2, <5>3, DrawMore
          <5>5. output = Draw(text, reps, done)[1]
            BY <5>1 DEF done
          <5> QED
            BY Zenon, <3>1, <5>3, <5>4, <5>5
        <4> QED
          BY <3>1, <4>1, <4>3
      <3> QED
        BY <3>1, <3>2 DEF CInv
    <2>3. CASE Rendered
      BY <2>3 DEF Rendered, CInv
    <2>4. CASE UNCHANGED cowVars
      BY <2>4 DEF cowVars, CInv
    <2> QED
      BY <2>1, <2>2, <2>3, <2>4 DEF CowNext
  <1> QED
    BY <1>1, <1>2, PTL DEF CowSpec

\* cowText: for every set of legible pictures and of looks, every order of the map gives
\* the picture in which each placeholder is replaced in place and its value left alone.
THEOREM EveryPictureIsTheOneMeant == CowSpec => []DrawnAlike
  <1>1. CInv => DrawnAlike
    <2> SUFFICES ASSUME CInv, NEW j \in job, todo = {},
                        ~IsEscape(j.look.eyes), ~IsEscape(j.look.tongue)
                 PROVE  output = Picture(j)
      BY DEF DrawnAlike
    <2>1. Meant(j) /\ Job(j)
      BY DEF Meant, CInv
    <2>2. Replacements(j) \ todo = Replacements(j)
      OBVIOUS
    <2>3. output = Draw(Uncommented(j.template), Replacements(j), Replacements(j))[1]
      BY <2>1, <2>2 DEF CInv
    <2> QED
      BY <2>1, <2>3, SaneJob, TextOfJob, DrawEverything
  <1> QED
    BY <1>1, CowInvariance, PTL

=============================================================================
