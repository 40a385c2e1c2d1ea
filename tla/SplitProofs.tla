---------------------------- MODULE SplitProofs ----------------------------
(***************************************************************************)
(* Proofs about SplitStatements, for every set of files and every size of   *)
(* the buffer: the statements found are those of the file, however the      *)
(* reads cut it.                                                            *)
(*                                                                          *)
(* The invariant SInv takes the file apart at the last semicolon taken.     *)
(* What is before it, the head, has been found: every piece fits the buffer *)
(* and its statement is in its place of the list.  The tail is in the       *)
(* buffer and the unread bytes, which together encode it, wherever the      *)
(* border between them lies; it may part a rune.  A semicolon in the buffer *)
(* is the first of the tail, so scanStmts finds exactly the tail's first    *)
(* piece (ScanClosed); at the end of the file it finds what the trimmed     *)
(* tail says (ScanLast, ScanBlank); and a full buffer without one holds the *)
(* beginning of a piece that does not fit.                                  *)
(*                                                                          *)
(* The first half is about encodings: Encode of a concatenation, which      *)
(* bytes can appear where, and what the trimmed runes look like in bytes.   *)
(***************************************************************************)
EXTENDS SplitStatements, SequenceTheorems, FiniteSetTheorems, WellFoundedInduction, TLAPS

-----------------------------------------------------------------------------
(* Sequences *)

\* Induction over the natural numbers, as a fact about sets.
LEMMA Upward ==
  ASSUME NEW S, 0 \in S, \A n \in Nat : n \in S => n + 1 \in S
  PROVE  \A n \in Nat : n \in S
  <1> DEFINE T == {m \in Nat : m \notin S}
             R == OpToRel(<, Nat)
  <1>1. T = {}
    <2> SUFFICES ASSUME T # {} PROVE FALSE
      OBVIOUS
    <2>1. IsWellFoundedOn(R, Nat)
      BY NatLessThanWellFounded
    <2>2. T \subseteq Nat
      OBVIOUS
    <2>3. PICK m \in T : \A k \in T : <<k, m>> \notin R
      <3> HIDE DEF R, T
      <3> QED
        BY <2>1, <2>2, WFMin
    <2>4. \A k \in T : ~(k < m)
      BY <2>2, <2>3 DEF OpToRel
    <2>5. m \in Nat /\ m # 0 /\ m \notin S
      OBVIOUS
    <2>6. m - 1 \in Nat /\ m - 1 < m /\ (m - 1) + 1 = m
      BY <2>5
    <2>7. m - 1 \in S
      BY <2>4, <2>6
    <2> QED
      BY <2>5, <2>6, <2>7
  <1> QED
    BY <1>1

\* s \o t, under a name of its own: the facts about it are the lemmas'.
Cat(s, t) == s \o t

\* What a joined sequence is made of.
LEMMA CatFacts ==
  ASSUME NEW A, NEW s \in Seq(A), NEW t \in Seq(A)
  PROVE  /\ Cat(s, t) \in Seq(A)
         /\ Len(Cat(s, t)) = Len(s) + Len(t)
         /\ Len(s) \in Nat /\ Len(t) \in Nat
  BY ConcatProperties, LenProperties DEF Cat

\* Its first elements are those of the first half.
LEMMA CatLeft ==
  ASSUME NEW A, NEW s \in Seq(A), NEW t \in Seq(A), NEW i \in 1 .. Len(s)
  PROVE  Cat(s, t)[i] = s[i]
  <1>1. Len(s) \in Nat /\ Len(t) \in Nat
    BY LenProperties
  <1>2. i \in 1 .. Len(s) + Len(t) /\ i <= Len(s)
    BY <1>1
  <1> QED
    BY <1>2, ConcatProperties DEF Cat

\* The others are those of the second.
LEMMA CatRight ==
  ASSUME NEW A, NEW s \in Seq(A), NEW t \in Seq(A), NEW i \in 1 .. Len(t)
  PROVE  Cat(s, t)[Len(s) + i] = t[i]
  <1>1. Len(s) \in Nat /\ Len(t) \in Nat
    BY LenProperties
  <1>2. Len(s) + i \in 1 .. Len(s) + Len(t) /\ ~(Len(s) + i <= Len(s)) /\ (Len(s) + i) - Len(s) = i
    BY <1>1
  <1> QED
    BY <1>2, ConcatProperties DEF Cat

\* Nothing is added by nothing.
LEMMA CatEmpty ==
  ASSUME NEW A, NEW s \in Seq(A)
  PROVE  Cat(s, <<>>) = s /\ Cat(<<>>, s) = s
  BY ConcatEmptySeq DEF Cat

\* Three sequences are joined from either side.
LEMMA CatAssociative ==
  ASSUME NEW A, NEW s \in Seq(A), NEW t \in Seq(A), NEW u \in Seq(A)
  PROVE  Cat(Cat(s, t), u) = Cat(s, Cat(t, u))
  BY ConcatAssociative DEF Cat

\* Sequences of one element,
LEMMA Unit ==
  ASSUME NEW A, NEW a \in A
  PROVE  <<a>> \in Seq(A) /\ Len(<<a>>) = 1 /\ <<a>>[1] = a
  OBVIOUS

\* and of two.
LEMMA Pair ==
  ASSUME NEW A, NEW a \in A, NEW b \in A
  PROVE  <<a>> \in Seq(A) /\ <<a, b>> \in Seq(A)
  OBVIOUS

\* A part of a sequence.
LEMMA PartFacts ==
  ASSUME NEW A, NEW s \in Seq(A), NEW m \in 1 .. Len(s) + 1, NEW n \in m - 1 .. Len(s)
  PROVE  /\ SubSeq(s, m, n) \in Seq(A)
         /\ Len(SubSeq(s, m, n)) = n - (m - 1)
         /\ \A i \in 1 .. n - (m - 1) : SubSeq(s, m, n)[i] = s[(m - 1) + i]
  <1>1. Len(s) \in Nat
    BY LenProperties
  <1>2. m \in Int /\ n \in Int /\ \A i \in m .. n : i \in 1 .. Len(s)
    BY <1>1
  <1>3. \A i \in m .. n : s[i] \in A
    BY <1>2, ElementOfSeq
  <1>4. /\ SubSeq(s, m, n) \in Seq(A)
        /\ Len(SubSeq(s, m, n)) = IF m <= n THEN n - m + 1 ELSE 0
        /\ \A i \in 1 .. n - m + 1 : SubSeq(s, m, n)[i] = s[m + i - 1]
    BY <1>2, <1>3, SubSeqProperties
  <1> DEFINE u == SubSeq(s, m, n)
  <1> HIDE DEF u
  <1>5. Len(u) = n - (m - 1)
    BY <1>1, <1>2, <1>4 DEF u
  <1>6. ASSUME NEW i \in 1 .. n - (m - 1) PROVE u[i] = s[(m - 1) + i]
    <2>1. i \in 1 .. n - m + 1 /\ m + i - 1 = (m - 1) + i
      BY <1>2
    <2> QED
      BY <1>4, <2>1 DEF u
  <1> QED
    BY <1>4, <1>5, <1>6 DEF u

\* The start of a sequence.
LEMMA StartFacts ==
  ASSUME NEW A, NEW s \in Seq(A), NEW k \in 0 .. Len(s)
  PROVE  SubSeq(s, 1, k) \in Seq(A) /\ Len(SubSeq(s, 1, k)) = k /\ \A i \in 1 .. k : SubSeq(s, 1, k)[i] = s[i]
  <1> DEFINE m == 1
  <1>1. Len(s) \in Nat
    BY LenProperties
  <1>2. m \in 1 .. Len(s) + 1 /\ k \in m - 1 .. Len(s) /\ k - (m - 1) = k /\ \A i \in 1 .. k : (m - 1) + i = i
    BY <1>1
  <1> HIDE DEF m
  <1>3. /\ SubSeq(s, m, k) \in Seq(A) /\ Len(SubSeq(s, m, k)) = k
        /\ \A i \in 1 .. k : SubSeq(s, m, k)[i] = s[(m - 1) + i]
    BY <1>2, PartFacts
  <1>4. \A i \in 1 .. k : SubSeq(s, m, k)[i] = s[i]
    BY <1>2, <1>3
  <1> QED
    BY <1>3, <1>4 DEF m

\* A sequence is what it has up to a place, joined to the rest.
LEMMA CutAt ==
  ASSUME NEW A, NEW s \in Seq(A), NEW k \in 0 .. Len(s)
  PROVE  s = Cat(SubSeq(s, 1, k), SubSeq(s, k + 1, Len(s)))
  <1>1. Len(s) \in Nat
    BY LenProperties
  <1>2. 1 \in 1 .. Len(s) + 1 /\ k \in 1 - 1 .. Len(s) /\ Len(s) \in k .. Len(s)
    BY <1>1
  <1>3. SubSeq(s, 1, k) \o SubSeq(s, k + 1, Len(s)) = SubSeq(s, 1, Len(s))
    BY <1>2, ConcatAdjacentSubSeq
  <1> QED
    BY <1>3, SubSeqFull DEF Cat

\* The middle one of three joined sequences.
LEMMA Middle ==
  ASSUME NEW A, NEW s \in Seq(A), NEW t \in Seq(A), NEW u \in Seq(A)
  PROVE  SubSeq(Cat(s, Cat(t, u)), Len(s) + 1, Len(s) + Len(t)) = t
  <1> DEFINE tu == Cat(t, u)
             v == Cat(s, tu)
             m == Len(s) + 1
             n == Len(s) + Len(t)
             w == SubSeq(v, m, n)
             k == Len(s)
             l == Len(t)
  <1>1. tu \in Seq(A) /\ Len(tu) = l + Len(u) /\ l \in Nat /\ Len(u) \in Nat
    BY CatFacts
  <1>2. v \in Seq(A) /\ Len(v) = k + Len(tu) /\ k \in Nat
    <2> HIDE DEF tu
    <2> QED
      BY <1>1, CatFacts
  <1> HIDE DEF v, w, k, l, tu
  <1>3. m \in 1 .. Len(v) + 1 /\ n \in m - 1 .. Len(v) /\ n - (m - 1) = l /\ m - 1 = k
    BY <1>1, <1>2 DEF k, l
  <1> HIDE DEF m, n
  <1>4. w \in Seq(A) /\ Len(w) = l /\ \A i \in 1 .. l : w[i] = v[k + i]
    BY <1>2, <1>3, PartFacts DEF w
  <1>5. ASSUME NEW i \in 1 .. l PROVE v[k + i] = t[i]
    <2>1. i \in 1 .. Len(tu)
      BY <1>1
    <2>2. v[k + i] = tu[i]
      BY <1>1, <2>1, CatRight DEF v, k, tu
    <2>3. tu[i] = t[i]
      BY CatLeft DEF tu, l
    <2> QED
      BY <2>2, <2>3
  <1>6. w = t
    BY <1>4, <1>5, SeqEqual DEF l
  <1> QED
    BY <1>6 DEF w, v, m, n, tu

\* The longer of two starts of one sequence goes on from the shorter one.
LEMMA Overlap ==
  ASSUME NEW A, NEW x \in Seq(A), NEW u \in Seq(A), NEW s \in Seq(A), NEW t \in Seq(A),
         Cat(x, u) = Cat(s, t), Len(s) <= Len(x)
  PROVE  \E y \in Seq(A) : x = Cat(s, y) /\ Cat(y, u) = t
  <1> DEFINE k == Len(s)
             s2 == SubSeq(x, 1, k)
             y == SubSeq(x, k + 1, Len(x))
             v == Cat(x, u)
  <1>1. k \in Nat /\ Len(x) \in Nat /\ k \in 0 .. Len(x)
    BY LenProperties
  <1>2. x = Cat(s2, y)
    BY <1>1, CutAt
  <1>3. s2 \in Seq(A) /\ Len(s2) = k /\ \A i \in 1 .. k : s2[i] = x[i]
    <2> HIDE DEF k
    <2>1. 1 \in 1 .. Len(x) + 1 /\ k \in 1 - 1 .. Len(x) /\ k - (1 - 1) = k
          /\ \A i \in 1 .. k : (1 - 1) + i = i
      BY <1>1
    <2> QED
      BY <2>1, PartFacts
  <1>4. y \in Seq(A)
    <2> HIDE DEF k
    <2>1. k + 1 \in 1 .. Len(x) + 1 /\ Len(x) \in (k + 1) - 1 .. Len(x)
      BY <1>1
    <2> QED
      BY <2>1, PartFacts
  <1>5. ASSUME NEW i \in 1 .. k PROVE s2[i] = s[i]
    <2>1. v[i] = s[i]
      BY CatLeft
    <2>2. i \in 1 .. Len(x)
      BY <1>1
    <2>3. v[i] = x[i]
      BY <2>2, CatLeft
    <2> HIDE DEF v, s2, k
    <2> QED
      BY <1>3, <2>1, <2>3
  <1>6. s2 = s
    <2> HIDE DEF s2
    <2> QED
      BY <1>3, <1>5, SeqEqual
  <1> HIDE DEF y, s2
  <1>7. Cat(s, Cat(y, u)) = Cat(s, t)
    BY <1>2, <1>4, <1>6, CatAssociative
  <1>8. Cat(y, u) = t
    <2>1. Cat(y, u) \in Seq(A)
      BY <1>4, CatFacts
    <2> QED
      BY <1>7, <2>1, ConcatSimplifications DEF Cat
  <1> QED
    BY <1>2, <1>4, <1>6, <1>8

\* A sequence that is not empty has a last element, and what stands before it.
LEMMA LastOf ==
  ASSUME NEW A, NEW v \in Seq(A), NEW n \in Nat, Len(v) = n + 1
  PROVE  \E w \in Seq(A), r \in A : v = Cat(w, <<r>>) /\ Len(w) = n
  <1> DEFINE w == SubSeq(v, 1, n)
             u == SubSeq(v, n + 1, Len(v))
  <1>1. n \in 0 .. Len(v) /\ 1 \in 1 .. Len(v) + 1 /\ n \in 1 - 1 .. Len(v) /\ n - (1 - 1) = n
    OBVIOUS
  <1>2. v = Cat(w, u)
    BY <1>1, CutAt
  <1>3. w \in Seq(A) /\ Len(w) = n
    <2> DEFINE one == 1
    <2>1. one \in 1 .. Len(v) + 1 /\ n \in one - 1 .. Len(v) /\ n - (one - 1) = n
      BY <1>1
    <2> HIDE DEF one
    <2>2. SubSeq(v, one, n) \in Seq(A) /\ Len(SubSeq(v, one, n)) = n
      BY <2>1, PartFacts
    <2> QED
      BY <2>2 DEF one
  <1>4. n + 1 \in 1 .. Len(v) + 1 /\ Len(v) \in (n + 1) - 1 .. Len(v) /\ Len(v) - ((n + 1) - 1) = 1
    OBVIOUS
  <1>5. u \in Seq(A) /\ Len(u) = 1
    BY <1>4, PartFacts
  <1> HIDE DEF u, w
  <1>6. u = <<u[1]>> /\ u[1] \in A
    <2>1. 1 \in 1 .. Len(u)
      BY <1>5
    <2>2. u[1] \in A
      BY <1>5, <2>1, ElementOfSeq
    <2> DEFINE e == <<u[1]>>
    <2>3. e \in Seq(A) /\ Len(e) = 1 /\ e[1] = u[1]
      BY <2>2
    <2> HIDE DEF e
    <2>4. \A i \in 1 .. Len(u) : u[i] = e[i]
      BY <1>5, <2>3
    <2>5. u = e
      BY <1>5, <2>3, <2>4, SeqEqual
    <2> QED
      BY <2>2, <2>5 DEF e
  <1> QED
    BY <1>2, <1>3, <1>6

\* And a first one.
LEMMA FirstOf ==
  ASSUME NEW A, NEW v \in Seq(A), v # <<>>
  PROVE  \E w \in Seq(A) : v = Cat(<<v[1]>>, w) /\ v[1] \in A
  <1> DEFINE one == 1
             h == SubSeq(v, 1, one)
             w == SubSeq(v, one + 1, Len(v))
             e == <<v[1]>>
  <1>1. Len(v) \in Nat \ {0}
    BY EmptySeq
  <1>2. /\ one \in 0 .. Len(v) /\ one \in 1 .. Len(v) + 1 /\ one \in one - 1 .. Len(v)
        /\ one + 1 \in 1 .. Len(v) + 1 /\ Len(v) \in (one + 1) - 1 .. Len(v)
        /\ one - (one - 1) = 1 /\ (one - 1) + 1 = 1 /\ 1 \in 1 .. one /\ 1 \in 1 .. Len(v)
    BY <1>1
  <1>3. v[1] \in A
    BY <1>2, ElementOfSeq
  <1>4. e \in Seq(A) /\ Len(e) = 1 /\ e[1] = v[1]
    BY <1>3
  <1> HIDE DEF one, e
  <1>5. v = Cat(h, w)
    BY <1>2, CutAt
  <1>6. w \in Seq(A)
    BY <1>2, PartFacts
  <1>7. h \in Seq(A) /\ Len(h) = 1 /\ h[1] = v[1]
    <2> DEFINE m == one
    <2>1. m = 1
      BY DEF one
    <2> HIDE DEF m
    <2>2. /\ SubSeq(v, m, one) \in Seq(A)
          /\ Len(SubSeq(v, m, one)) = one - (m - 1)
          /\ \A i \in 1 .. one - (m - 1) : SubSeq(v, m, one)[i] = v[(m - 1) + i]
      BY <1>2, PartFacts DEF m
    <2> QED
      BY <1>2, <2>1, <2>2 DEF one
  <1> HIDE DEF h, w
  <1>8. h = e
    <2>1. \A i \in 1 .. Len(h) : h[i] = e[i]
      BY <1>4, <1>7
    <2> QED
      BY <1>4, <1>7, <2>1, SeqEqual
  <1> QED
    BY <1>3, <1>5, <1>6, <1>8 DEF e

-----------------------------------------------------------------------------
(* The bytes of a file *)

\* The bytes there are.
Octets == {"a", " ", "semicolon", "C2", "C3", "A0"}

\* The encoding of one rune.
LEMMA BytesAre ==
  /\ Bytes("a") = <<"a">> /\ Bytes(" ") = <<" ">> /\ Bytes("semicolon") = <<"semicolon">>
  /\ Bytes("wide") = <<"C3", "A0">> /\ Bytes("nbsp") = <<"C2", "A0">>
  BY DEF Bytes

\* A rune is one byte or two.
LEMMA BytesType ==
  ASSUME NEW r \in Runes
  PROVE  Bytes(r) \in Seq(Octets) /\ Len(Bytes(r)) \in {1, 2}
  <1>1. r \in {"a", " ", "semicolon"} \/ r = "wide" \/ r = "nbsp"
    BY DEF Runes
  <1>2. ASSUME NEW c \in Octets PROVE <<c>> \in Seq(Octets) /\ Len(<<c>>) \in {1, 2}
    OBVIOUS
  <1>3. /\ <<"C3", "A0">> \in Seq(Octets) /\ Len(<<"C3", "A0">>) = 2
        /\ <<"C2", "A0">> \in Seq(Octets) /\ Len(<<"C2", "A0">>) = 2
    BY DEF Octets
  <1>4. "a" \in Octets /\ " " \in Octets /\ "semicolon" \in Octets
    BY DEF Octets
  <1>5. CASE r \in {"a", " ", "semicolon"}
    <2>1. Bytes(r) = <<r>> /\ r \in Octets
      BY <1>4, <1>5, BytesAre
    <2> QED
      BY <1>2, <2>1
  <1>6. CASE r = "wide" \/ r = "nbsp"
    BY <1>3, <1>6, BytesAre
  <1> QED
    BY <1>1, <1>5, <1>6

\* flatten[i] of a recursion: the sequences up to the i-th, one after the other.
Flattens(f, n, g) == f = [i \in 1 .. n |-> IF i = 1 THEN g[i] ELSE Cat(f[i - 1], g[i])]

\* How such a function begins,
LEMMA FlattenFirst ==
  ASSUME NEW n \in Nat, NEW g, NEW f, Flattens(f, n, g), n >= 1
  PROVE  f[1] = g[1]
  <1> DEFINE v(i) == IF i = 1 THEN g[i] ELSE Cat(f[i - 1], g[i])
  <1>1. f = [i \in 1 .. n |-> v(i)]
    BY DEF Flattens
  <1> HIDE DEF v
  <1>2. f[1] = v(1)
    BY <1>1
  <1> QED
    BY <1>2 DEF v

\* and how it goes on.
LEMMA FlattenLater ==
  ASSUME NEW n \in Nat, NEW g, NEW f, Flattens(f, n, g), NEW i \in 2 .. n
  PROVE  f[i] = Cat(f[i - 1], g[i])
  <1> DEFINE v(k) == IF k = 1 THEN g[k] ELSE Cat(f[k - 1], g[k])
  <1>1. f = [k \in 1 .. n |-> v(k)]
    BY DEF Flattens
  <1> HIDE DEF v
  <1>2. i \in 1 .. n /\ i # 1
    OBVIOUS
  <1>3. f[i] = v(i)
    BY <1>1, <1>2
  <1> QED
    BY <1>2, <1>3 DEF v

\* There is one for every sequence of sequences.
LEMMA Flattening ==
  ASSUME NEW A, NEW n \in Nat, NEW g \in [1 .. n -> Seq(A)]
  PROVE  \E f \in [1 .. n -> Seq(A)] : Flattens(f, n, g)
  <1> DEFINE S == {m \in Nat : m <= n => \E f \in [1 .. m -> Seq(A)] : Flattens(f, m, g)}
  <1>1. 0 \in S
    <2> DEFINE f == [i \in 1 .. 0 |-> <<>>]
    <2>1. f \in [1 .. 0 -> Seq(A)] /\ Flattens(f, 0, g)
      BY DEF Flattens
    <2> HIDE DEF f
    <2> QED
      BY <2>1
  <1>2. ASSUME NEW m \in Nat, m \in S, m + 1 <= n
        PROVE  \E f \in [1 .. m + 1 -> Seq(A)] : Flattens(f, m + 1, g)
    <2>1. PICK e \in [1 .. m -> Seq(A)] : Flattens(e, m, g)
      BY <1>2
    <2> DEFINE w == IF m = 0 THEN g[1] ELSE Cat(e[m], g[m + 1])
               f == [i \in 1 .. m + 1 |-> IF i = m + 1 THEN w ELSE e[i]]
    <2>2. g[m + 1] \in Seq(A) /\ g[1] \in Seq(A)
      BY <1>2
    <2>3. w \in Seq(A)
      <3>1. CASE m = 0
        BY <2>2, <3>1
      <3>2. CASE m # 0
        <4>1. e[m] \in Seq(A)
          BY <3>2
        <4> QED
          BY <2>2, <3>2, <4>1, CatFacts
      <3> QED
        BY <3>1, <3>2
    <2>4. f \in [1 .. m + 1 -> Seq(A)]
      <3> HIDE DEF w
      <3> QED
        BY <2>3
    <2>5. f[m + 1] = w /\ \A i \in 1 .. m : f[i] = e[i]
      <3> HIDE DEF w
      <3> QED
        OBVIOUS
    <2> HIDE DEF f
    <2>6. ASSUME NEW i \in 1 .. m + 1
          PROVE  f[i] = IF i = 1 THEN g[i] ELSE Cat(f[i - 1], g[i])
      <3>1. CASE i = m + 1 /\ m = 0
        BY <2>5, <3>1
      <3>2. CASE i = m + 1 /\ m # 0
        <4>1. i # 1 /\ i - 1 = m /\ f[m] = e[m]
          BY <2>5, <3>2
        <4> QED
          BY <2>5, <3>2, <4>1
      <3>3. CASE i = 1 /\ m # 0
        <4>1. f[1] = e[1] /\ m >= 1
          BY <2>5, <3>3
        <4> QED
          BY <2>1, <3>3, <4>1, FlattenFirst
      <3>4. CASE i \in 2 .. m
        <4>1. i - 1 \in 1 .. m /\ i \in 1 .. m /\ i # 1
          BY <3>4
        <4>2. e[i] = Cat(e[i - 1], g[i])
          BY <2>1, <3>4, FlattenLater, ZenonT(60)
        <4> QED
          BY <2>5, <4>1, <4>2
      <3>5. i = m + 1 \/ i = 1 \/ i \in 2 .. m
        OBVIOUS
      <3> QED
        BY <3>1, <3>2, <3>3, <3>4, <3>5
    <2>7. Flattens(f, m + 1, g)
      BY <2>4, <2>6 DEF Flattens
    <2> QED
      BY <2>4, <2>7
  <1>3. \A m \in Nat : m \in S => m + 1 \in S
    BY <1>2
  <1> HIDE DEF S
  <1>4. n \in S
    BY <1>1, <1>3, Upward
  <1> QED
    BY <1>4 DEF S

\* What comes later does not change it.
LEMMA FlattenAlike ==
  ASSUME NEW n \in Nat, NEW g, NEW f, Flattens(f, n, g),
         NEW m \in 0 .. n, NEW h, NEW e, Flattens(e, m, h),
         \A i \in 1 .. m : h[i] = g[i]
  PROVE  \A i \in 1 .. m : e[i] = f[i]
  <1> DEFINE S == {i \in Nat : i \in 1 .. m => e[i] = f[i]}
  <1>1. 0 \in S
    OBVIOUS
  <1>2. ASSUME NEW i \in Nat, i \in S, i + 1 \in 1 .. m PROVE e[i + 1] = f[i + 1]
    <2>1. m \in Nat /\ i + 1 \in 1 .. n
      BY <1>2
    <2>2. CASE i = 0
      <3>1. e[1] = h[1] /\ f[1] = g[1]
        BY <1>2, <2>1, <2>2, FlattenFirst
      <3>2. h[1] = g[1]
        BY <1>2, <2>2
      <3> QED
        BY <2>2, <3>1, <3>2
    <2>3. CASE i # 0
      <3>1. i + 1 \in 2 .. m /\ i + 1 \in 2 .. n /\ (i + 1) - 1 = i /\ i \in 1 .. m
        BY <1>2, <2>1, <2>3
      <3>2. e[i + 1] = Cat(e[(i + 1) - 1], h[i + 1])
        BY <2>1, <3>1, FlattenLater
      <3>3. f[i + 1] = Cat(f[(i + 1) - 1], g[i + 1])
        BY <3>1, FlattenLater
      <3>4. e[i] = f[i] /\ h[i + 1] = g[i + 1]
        BY <1>2, <3>1
      <3> QED
        BY <3>1, <3>2, <3>3, <3>4
    <2> QED
      BY <2>2, <2>3
  <1>3. \A i \in Nat : i \in S => i + 1 \in S
    BY <1>2
  <1> HIDE DEF S
  <1>4. \A i \in Nat : i \in S
    BY <1>1, <1>3, Upward
  <1> QED
    BY <1>4 DEF S

\* Files and parts of them, as runes and as bytes.
Text == Seq(Runes)
Data == Seq(Octets)

\* The encodings that Encode joins.
Pieces(s) == [i \in DOMAIN s |-> Bytes(s[i])]

\* A text's runes, each as its bytes: a sequence as long as the text.
LEMMA PiecesType ==
  ASSUME NEW s \in Text
  PROVE  /\ Pieces(s) \in [1 .. Len(s) -> Data] /\ Pieces(s) \in Seq(Data)
         /\ Len(Pieces(s)) = Len(s) /\ Len(s) \in Nat
  <1>1. Len(s) \in Nat /\ DOMAIN s = 1 .. Len(s) /\ \A i \in 1 .. Len(s) : s[i] \in Runes
    BY LenProperties DEF Text
  <1>2. \A i \in 1 .. Len(s) : Bytes(s[i]) \in Data
    BY <1>1, BytesType DEF Data
  <1> HIDE DEF Data
  <1>3. Pieces(s) \in [1 .. Len(s) -> Data]
    BY <1>1, <1>2 DEF Pieces
  <1> QED
    BY <1>1, <1>3

\* The function FlattenSeq chooses.
Flat(s) == CHOOSE f : Flattens(f, Len(s), Pieces(s))

\* The CHOOSE of FlattenSeq finds such a function.
LEMMA FlatFlattens ==
  ASSUME NEW s \in Text
  PROVE  /\ Flat(s) \in [1 .. Len(s) -> Data]
         /\ Flattens(Flat(s), Len(s), Pieces(s))
  <1>1. Pieces(s) \in [1 .. Len(s) -> Data] /\ Len(s) \in Nat
    BY PiecesType
  <1>2. PICK e \in [1 .. Len(s) -> Data] : Flattens(e, Len(s), Pieces(s))
    BY <1>1, Flattening DEF Data
  <1>3. Flattens(Flat(s), Len(s), Pieces(s))
    BY <1>2 DEF Flat
  <1>4. Len(s) \in 0 .. Len(s)
    BY <1>1
  <1>5. \A i \in 1 .. Len(s) : Flat(s)[i] = e[i]
    BY <1>1, <1>2, <1>3, <1>4, FlattenAlike
  <1>6. DOMAIN Flat(s) = 1 .. Len(s) /\ Flat(s) = [i \in 1 .. Len(s) |-> Flat(s)[i]]
    <2> DEFINE v(i) == IF i = 1 THEN Pieces(s)[i] ELSE Cat(Flat(s)[i - 1], Pieces(s)[i])
    <2>1. Flat(s) = [i \in 1 .. Len(s) |-> v(i)]
      BY <1>3 DEF Flattens
    <2> HIDE DEF v
    <2> QED
      BY <2>1
  <1>7. \A i \in 1 .. Len(s) : Flat(s)[i] \in Data
    BY <1>2, <1>5
  <1> QED
    BY <1>3, <1>6, <1>7

\* So the encoding of a text is the last value of that function.
LEMMA EncodeIsFlat ==
  ASSUME NEW s \in Text
  PROVE  Encode(s) = IF Len(s) = 0 THEN <<>> ELSE Flat(s)[Len(s)]
  <1>1. Pieces(s) \in Seq(Data) /\ Len(Pieces(s)) = Len(s)
    BY PiecesType
  <1>2. Encode(s) = FlattenSeq(Pieces(s))
    BY DEF Encode, Pieces
  <1> DEFINE g == Pieces(s)
  <1>3. FlattenSeq(g) =
          IF Len(g) = 0 THEN g
          ELSE (CHOOSE f : f = [i \in 1 .. Len(g) |->
                                  IF i = 1 THEN g[i] ELSE f[i - 1] \o g[i]])[Len(g)]
    <2> HIDE DEF g
    <2> QED
      BY DEF FlattenSeq
  <1>4. CASE Len(s) = 0
    <2>1. g = <<>>
      <3> HIDE DEF g
      <3> QED
        BY <1>1, <1>4, EmptySeq DEF g
    <2> QED
      BY <1>1, <1>2, <1>3, <1>4, <2>1
  <1>5. CASE Len(s) # 0
    <2>1. Flat(s) = (CHOOSE f : f = [i \in 1 .. Len(g) |->
                                  IF i = 1 THEN g[i] ELSE f[i - 1] \o g[i]])
      BY Zenon, <1>1 DEF Flat, Flattens, Cat
    <2> HIDE DEF g
    <2> QED
      BY Zenon, <1>1, <1>2, <1>3, <1>5, <2>1 DEF g
  <1> QED
    BY <1>4, <1>5

\* No runes, no bytes.
LEMMA EncodeNothing == Encode(<<>>) = <<>>
  <1>1. <<>> \in Text /\ Len(<<>>) = 0
    BY EmptySeq DEF Text
  <1> QED
    BY <1>1, EncodeIsFlat

\* The encoding of a text is a sequence of bytes.
LEMMA EncodeType ==
  ASSUME NEW s \in Text
  PROVE  Encode(s) \in Data
  <1>1. Len(s) \in Nat /\ Flat(s) \in [1 .. Len(s) -> Data]
    BY PiecesType, FlatFlattens
  <1>2. CASE Len(s) = 0
    BY <1>2, EncodeIsFlat, EmptySeq DEF Data
  <1>3. CASE Len(s) # 0
    <2>1. Len(s) \in 1 .. Len(s)
      BY <1>1, <1>3
    <2> HIDE DEF Data
    <2> QED
      BY <1>1, <1>3, <2>1, EncodeIsFlat
  <1> QED
    BY <1>2, <1>3

\* One more rune.
LEMMA EncodeRune ==
  ASSUME NEW s \in Text, NEW r \in Runes
  PROVE  Encode(Cat(s, <<r>>)) = Cat(Encode(s), Bytes(r))
  <1> DEFINE u == Cat(s, <<r>>)
             n == Len(s)
  <1>1. <<r>> \in Text /\ Len(<<r>>) = 1 /\ <<r>>[1] = r /\ n \in Nat
    BY LenProperties DEF Text
  <1>2. u \in Text /\ Len(u) = n + 1
    BY <1>1, CatFacts DEF Text
  <1>3. \A i \in 1 .. n : u[i] = s[i]
    BY <1>1, CatLeft DEF Text
  <1>4. u[n + 1] = r
    <2> DEFINE e == <<r>>
    <2>1. e \in Text /\ 1 \in 1 .. Len(e) /\ e[1] = r
      BY <1>1
    <2> HIDE DEF e
    <2>2. Cat(s, e)[n + 1] = e[1]
      BY <2>1, CatRight DEF Text
    <2> HIDE DEF n
    <2> QED
      BY <2>1, <2>2 DEF e
  <1> HIDE DEF u
  <1>5. Pieces(u)[n + 1] = Bytes(r) /\ \A i \in 1 .. n : Pieces(u)[i] = Pieces(s)[i]
    <2>1. DOMAIN u = 1 .. n + 1 /\ DOMAIN s = 1 .. n
      BY <1>2, LenProperties DEF Text
    <2> HIDE DEF n
    <2>2. n + 1 \in 1 .. n + 1 /\ \A i \in 1 .. n : i \in 1 .. n + 1
      BY <1>1
    <2> QED
      BY <1>3, <1>4, <2>1, <2>2 DEF Pieces
  <1>6. Flattens(Flat(u), n + 1, Pieces(u)) /\ Flattens(Flat(s), n, Pieces(s))
    BY <1>2, FlatFlattens
  <1>7. Encode(u) = Flat(u)[n + 1]
    <2>1. Encode(u) = IF Len(u) = 0 THEN <<>> ELSE Flat(u)[Len(u)]
      BY <1>2, EncodeIsFlat
    <2> QED
      BY <1>1, <1>2, <2>1
  <1>8. Bytes(r) \in Data
    BY BytesType DEF Data
  <1> HIDE DEF n
  <1>9. CASE n = 0
    <2>1. Encode(s) = <<>>
      BY <1>9, EncodeIsFlat DEF n
    <2>2. Flat(u)[n + 1] = Bytes(r)
      BY <1>1, <1>5, <1>6, <1>9, FlattenFirst
    <2> QED
      BY <1>7, <1>8, <2>1, <2>2, CatEmpty DEF u, Data
  <1>10. CASE n # 0
    <2>1. n + 1 \in 2 .. n + 1 /\ (n + 1) - 1 = n /\ n \in 1 .. n /\ n \in 0 .. n + 1 /\ n + 1 \in Nat
      BY <1>1, <1>10
    <2>2. Flat(u)[n + 1] = Cat(Flat(u)[(n + 1) - 1], Pieces(u)[n + 1])
      BY <1>6, <2>1, FlattenLater
    <2>3. \A i \in 1 .. n : Pieces(s)[i] = Pieces(u)[i]
      BY <1>5
    <2>4. \A i \in 1 .. n : Flat(s)[i] = Flat(u)[i]
      BY <1>6, <2>1, <2>3, FlattenAlike
    <2>5. Encode(s) = Flat(s)[n]
      BY <1>10, EncodeIsFlat DEF n
    <2> QED
      BY <1>5, <1>7, <2>1, <2>2, <2>4, <2>5 DEF u
  <1> QED
    BY <1>9, <1>10

\* The encoding of a text is that of its parts, one after the other.
LEMMA EncodeCat ==
  ASSUME NEW s \in Text, NEW t \in Text
  PROVE  Encode(Cat(s, t)) = Cat(Encode(s), Encode(t))
  <1> DEFINE S == {n \in Nat : \A v \in Text : Len(v) = n => Encode(Cat(s, v)) = Cat(Encode(s), Encode(v))}
  <1>1. 0 \in S
    <2> SUFFICES ASSUME NEW v \in Text, Len(v) = 0
                 PROVE  Encode(Cat(s, v)) = Cat(Encode(s), Encode(v))
      OBVIOUS
    <2>1. v = <<>>
      BY EmptySeq DEF Text
    <2>2. Encode(s) \in Data /\ Encode(v) = <<>>
      BY <2>1, EncodeType, EncodeNothing
    <2> QED
      BY <2>1, <2>2, CatEmpty DEF Text, Data
  <1>2. ASSUME NEW n \in Nat, n \in S, NEW v \in Text, Len(v) = n + 1
        PROVE  Encode(Cat(s, v)) = Cat(Encode(s), Encode(v))
    <2>1. PICK w \in Text, r \in Runes : v = Cat(w, <<r>>) /\ Len(w) = n
      BY <1>2, LastOf, ZenonT(60) DEF Text
    <2>2. Encode(Cat(s, w)) = Cat(Encode(s), Encode(w))
      BY <1>2, <2>1
    <2>3. <<r>> \in Text /\ Cat(s, w) \in Text
      BY CatFacts DEF Text
    <2>4. Cat(s, v) = Cat(Cat(s, w), <<r>>)
      <3> DEFINE e == <<r>>
      <3>1. e \in Text /\ v = Cat(w, e)
        BY <2>1, <2>3
      <3> HIDE DEF e
      <3>2. Cat(Cat(s, w), e) = Cat(s, Cat(w, e))
        BY <3>1, CatAssociative DEF Text
      <3> QED
        BY <3>1, <3>2 DEF e
    <2>5. Encode(Cat(s, v)) = Cat(Cat(Encode(s), Encode(w)), Bytes(r))
      BY <2>2, <2>3, <2>4, EncodeRune
    <2>6. Encode(v) = Cat(Encode(w), Bytes(r))
      BY <2>1, EncodeRune
    <2>7. Encode(s) \in Data /\ Encode(w) \in Data /\ Bytes(r) \in Data
      BY EncodeType, BytesType DEF Data
    <2> QED
      BY <2>5, <2>6, <2>7, CatAssociative DEF Data
  <1>3. \A n \in Nat : n \in S => n + 1 \in S
    BY <1>2
  <1>4. \A n \in Nat : n \in S
    <2> HIDE DEF S
    <2> QED
      BY <1>1, <1>3, Upward
  <1>5. Len(t) \in Nat
    BY LenProperties DEF Text
  <1> QED
    BY <1>4, <1>5

\* Texts without a semicolon, and texts of spaces.
Clean == Seq(Runes \ {"semicolon"})
Blanks == Seq({" ", "nbsp"})

\* The bytes of a text are bytes of its runes.
LEMMA EncodeOver ==
  ASSUME NEW R \in SUBSET Runes, NEW O \in SUBSET Octets, \A r \in R : Bytes(r) \in Seq(O),
         NEW s \in Seq(R)
  PROVE  s \in Text /\ Encode(s) \in Seq(O)
  <1>0. \A v \in Seq(R) : v \in Text
    BY SeqMonotonic DEF Text
  <1> DEFINE S == {n \in Nat : \A v \in Seq(R) : Len(v) = n => Encode(v) \in Seq(O)}
  <1>1. 0 \in S
    <2> SUFFICES ASSUME NEW v \in Seq(R), Len(v) = 0 PROVE Encode(v) \in Seq(O)
      OBVIOUS
    <2>1. v = <<>>
      BY EmptySeq
    <2> QED
      BY <2>1, EncodeNothing, EmptySeq
  <1>2. ASSUME NEW n \in Nat, n \in S, NEW v \in Seq(R), Len(v) = n + 1 PROVE Encode(v) \in Seq(O)
    <2>1. PICK w \in Seq(R), r \in R : v = Cat(w, <<r>>) /\ Len(w) = n
      BY <1>2, LastOf
    <2>2. Encode(w) \in Seq(O)
      BY <1>2, <2>1
    <2>3. Encode(v) = Cat(Encode(w), Bytes(r))
      BY <1>0, <2>1, EncodeRune
    <2> QED
      BY <2>2, <2>3, CatFacts
  <1>3. \A n \in Nat : n \in S => n + 1 \in S
    BY <1>2
  <1>4. \A n \in Nat : n \in S
    <2> HIDE DEF S
    <2> QED
      BY <1>1, <1>3, Upward
  <1>5. Len(s) \in Nat
    BY LenProperties
  <1> QED
    BY <1>0, <1>4, <1>5

\* Without the rune there is no byte of a semicolon either.
LEMMA CleanBytes ==
  ASSUME NEW s \in Clean
  PROVE  s \in Text /\ Encode(s) \in Data /\ \A m \in 1 .. Len(Encode(s)) : Encode(s)[m] # "semicolon"
  <1> DEFINE R == Runes \ {"semicolon"}
             O == Octets \ {"semicolon"}
  <1>1. ASSUME NEW r \in R PROVE Bytes(r) \in Seq(O)
    <2>1. r \in {"a", " ", "wide", "nbsp"}
      BY DEF Runes
    <2>2. /\ <<"a">> \in Seq(O) /\ <<" ">> \in Seq(O)
          /\ <<"C3", "A0">> \in Seq(O) /\ <<"C2", "A0">> \in Seq(O)
      <3>1. {"a", " ", "C2", "C3", "A0"} \subseteq O
        BY DEF Octets
      <3> HIDE DEF O
      <3> QED
        BY <3>1, Pair
    <2>3. \/ Bytes(r) = <<"a">> \/ Bytes(r) = <<" ">>
          \/ Bytes(r) = <<"C3", "A0">> \/ Bytes(r) = <<"C2", "A0">>
      BY <2>1, BytesAre
    <2> HIDE DEF O
    <2> QED
      BY <2>2, <2>3
  <1>2. R \in SUBSET Runes /\ O \in SUBSET Octets /\ s \in Seq(R)
    BY DEF Clean
  <1> HIDE DEF R, O
  <1>3. s \in Text /\ Encode(s) \in Seq(O)
    BY <1>1, <1>2, EncodeOver
  <1>4. \A m \in 1 .. Len(Encode(s)) : Encode(s)[m] \in O
    BY <1>3, ElementOfSeq
  <1> QED
    BY <1>3, <1>4, EncodeType DEF O

\* No encoding ends in the first byte of two.
LEMMA NoHalfRune ==
  ASSUME NEW s \in Text, NEW n \in Nat, Len(Encode(s)) = n + 1
  PROVE  Encode(s)[n + 1] # "C2"
  <1>1. Len(s) \in Nat /\ Len(s) # 0
    <2>1. Len(s) \in Nat
      BY LenProperties DEF Text
    <2>2. CASE Len(s) = 0
      <3>1. s = <<>> /\ Len(<<>>) = 0
        BY <2>2, EmptySeq DEF Text
      <3> QED
        BY <3>1, EncodeNothing
    <2> QED
      BY <2>1, <2>2
  <1>2. PICK k \in Nat : Len(s) = k + 1
    <2>1. Len(s) - 1 \in Nat /\ Len(s) = (Len(s) - 1) + 1
      BY <1>1
    <2> QED
      BY <2>1
  <1>3. PICK w \in Text, r \in Runes : s = Cat(w, <<r>>)
    <2>1. \E w \in Text, r \in Runes : s = Cat(w, <<r>>) /\ Len(w) = k
      BY <1>2, LastOf DEF Text
    <2> QED
      BY <2>1
  <1>4. Encode(s) = Cat(Encode(w), Bytes(r)) /\ Encode(w) \in Data
    BY <1>3, EncodeRune, EncodeType
  <1> DEFINE b == Bytes(r)
             l == Len(b)
  <1>5. b \in Data /\ l \in {1, 2}
    BY BytesType DEF Data
  <1>6. Len(Encode(s)) = Len(Encode(w)) + l /\ Len(Encode(w)) \in Nat
    BY <1>4, <1>5, CatFacts DEF Data
  <1>7. b[l] # "C2"
    <2>1. /\ <<"C3", "A0">>[2] = "A0" /\ Len(<<"C3", "A0">>) = 2
          /\ <<"C2", "A0">>[2] = "A0" /\ Len(<<"C2", "A0">>) = 2
      OBVIOUS
    <2>2. CASE r \in {"a", " ", "semicolon"}
      <3>1. b = <<r>> /\ Len(<<r>>) = 1 /\ <<r>>[1] = r
        BY <2>2, BytesAre
      <3> QED
        BY <2>2, <3>1
    <2>3. CASE r = "wide"
      BY Zenon, <2>1, <2>3, BytesAre
    <2>4. CASE r = "nbsp"
      BY Zenon, <2>1, <2>4, BytesAre
    <2> QED
      BY <2>2, <2>3, <2>4 DEF Runes
  <1> HIDE DEF b, l
  <1>8. Encode(s)[Len(Encode(w)) + l] = b[l]
    <2>1. l = Len(b)
      BY DEF l
    <2>2. l \in 1 .. l
      BY <1>5
    <2>3. l \in 1 .. Len(b)
      BY <2>1, <2>2
    <2>4. Encode(s) = Cat(Encode(w), b)
      BY <1>4 DEF b
    <2>5. Encode(w) \in Data /\ b \in Data
      BY <1>4, <1>5
    <2> QED
      BY <2>3, <2>4, <2>5, CatRight DEF Data
  <1> QED
    BY <1>6, <1>7, <1>8

\* The bytes of spaces: none of them starts anything else, and none is half a rune.
LEMMA BlankBytes ==
  ASSUME NEW s \in Blanks
  PROVE  /\ s \in Text /\ Encode(s) \in Data
         /\ \A m \in 1 .. Len(Encode(s)) : Encode(s)[m] \in {" ", "C2", "A0"}
         /\ \A m \in 1 .. Len(Encode(s)) : Encode(s)[m] = "C2" => m < Len(Encode(s))
  <1> DEFINE R == {" ", "nbsp"}
             O == {" ", "C2", "A0"}
  <1>1. ASSUME NEW r \in R PROVE Bytes(r) \in Seq(O)
    <2>1. <<" ">> \in Seq(O) /\ <<"C2", "A0">> \in Seq(O)
      BY Pair
    <2>2. Bytes(r) = <<" ">> \/ Bytes(r) = <<"C2", "A0">>
      BY BytesAre
    <2> HIDE DEF O
    <2> QED
      BY <2>1, <2>2
  <1>2. R \in SUBSET Runes /\ O \in SUBSET Octets /\ s \in Seq(R)
    BY DEF Blanks, Runes, Octets
  <1> HIDE DEF R, O
  <1>3. s \in Text /\ Encode(s) \in Seq(O)
    BY <1>1, <1>2, EncodeOver
  <1>4. \A m \in 1 .. Len(Encode(s)) : Encode(s)[m] \in O
    BY <1>3, ElementOfSeq
  <1>5. Encode(s) \in Data /\ Len(Encode(s)) \in Nat
    BY <1>3, EncodeType, LenProperties
  <1>6. ASSUME NEW m \in 1 .. Len(Encode(s)), Encode(s)[m] = "C2" PROVE m < Len(Encode(s))
    <2>1. CASE m = Len(Encode(s))
      <3>1. m - 1 \in Nat /\ Len(Encode(s)) = (m - 1) + 1 /\ (m - 1) + 1 = m
        BY <1>5, <2>1
      <3>2. Encode(s)[(m - 1) + 1] # "C2"
        BY <1>3, <3>1, NoHalfRune
      <3> QED
        BY <1>6, <3>1, <3>2
    <2> QED
      BY <1>5, <2>1
  <1> QED
    BY <1>3, <1>4, <1>5, <1>6 DEF O

-----------------------------------------------------------------------------
(* What the split function finds *)

\* A least element is the minimum,
LEMMA MinIs ==
  ASSUME NEW S, S \subseteq Nat, NEW k \in S, \A x \in S : k <= x
  PROVE  Min(S) = k
  <1>1. Min(S) \in S /\ \A y \in S : Min(S) <= y
    BY DEF Min
  <1>2. Min(S) \in Nat /\ k \in Nat
    BY <1>1
  <1>3. Min(S) <= k /\ k <= Min(S)
    BY <1>1
  <1> QED
    BY <1>2, <1>3

\* and a greatest one the maximum.
LEMMA MaxIs ==
  ASSUME NEW S, S \subseteq Nat, NEW k \in S, \A x \in S : x <= k
  PROVE  Max(S) = k
  <1>1. Max(S) \in S /\ \A y \in S : Max(S) >= y
    BY DEF Max
  <1>2. Max(S) \in Nat /\ k \in Nat
    BY <1>1
  <1>3. Max(S) <= k /\ k <= Max(S)
    BY <1>1, <1>2
  <1> QED
    BY <1>2, <1>3

\* What scanStmts looks for are positions of the data.
LEMMA ScanSets ==
  ASSUME NEW d \in Data
  PROVE  /\ Len(d) \in Nat /\ DOMAIN d = 1 .. Len(d)
         /\ Words(d) \subseteq 1 .. Len(d) /\ Semicolons(d) \subseteq 1 .. Len(d)
  BY LenProperties DEF Data, Words, RuneStarts, Semicolons

\* At the first byte of a rune that is no space.
LEMMA WordAt ==
  ASSUME NEW d \in Data, NEW m \in 1 .. Len(d), d[m] \in {"a", "semicolon", "C3"}
  PROVE  m \in Words(d)
  BY ScanSets DEF Words, RuneStarts, IsSpace

\* Not within spaces, whatever follows them.
LEMMA NoWordInBlanks ==
  ASSUME NEW d \in Data, NEW b \in Blanks, NEW y \in Data, d = Cat(Encode(b), y),
         NEW m \in 1 .. Len(Encode(b))
  PROVE  m \notin Words(d) /\ m \in 1 .. Len(d)
  <1> DEFINE e == Encode(b)
  <1>1. e \in Data /\ e[m] \in {" ", "C2", "A0"} /\ (e[m] = "C2" => m < Len(e))
    BY BlankBytes
  <1>2. d[m] = e[m]
    BY <1>1, CatLeft DEF Data
  <1>3. Len(d) = Len(e) + Len(y) /\ Len(e) \in Nat /\ Len(y) \in Nat
    BY <1>1, CatFacts DEF Data
  <1> HIDE DEF e
  <1>4. m \in 1 .. Len(e)
    BY DEF e
  <1>5. m \in 1 .. Len(d)
    BY <1>3, <1>4
  <1>6. ASSUME d[m] = "C2" PROVE m < Len(d)
    <2>1. m < Len(e)
      BY <1>1, <1>2, <1>6
    <2> QED
      BY <1>3, <1>4, <2>1
  <1>7. d[m] \in {" ", "C2", "A0"}
    BY <1>1, <1>2
  <1>8. m \notin Words(d)
    BY <1>6, <1>7 DEF Words, RuneStarts, IsSpace
  <1> QED
    BY <1>5, <1>8

\* Where a statement starts.
LEMMA Start ==
  ASSUME NEW d \in Data, NEW b \in Blanks, NEW y \in Data, d = Cat(Encode(b), y),
         Len(y) >= 1, y[1] \in {"a", "semicolon", "C3"}
  PROVE  /\ Min(Words(d) \cup {Len(d) + 1}) = Len(Encode(b)) + 1
         /\ Len(Encode(b)) + 1 \in Words(d) /\ Len(Encode(b)) + 1 <= Len(d)
  <1> DEFINE n == Len(Encode(b))
             S == Words(d) \cup {Len(d) + 1}
  <1>1. Encode(b) \in Data
    BY BlankBytes
  <1>2. Len(d) = n + Len(y) /\ n \in Nat /\ Len(y) \in Nat
    BY <1>1, CatFacts DEF Data
  <1>3. d[n + 1] = y[1]
    <2>1. 1 \in 1 .. Len(y)
      BY <1>2
    <2> QED
      BY <1>1, <2>1, CatRight DEF Data
  <1>4. \A m \in 1 .. n : m \notin Words(d)
    BY NoWordInBlanks
  <1> HIDE DEF n
  <1>5. n + 1 \in 1 .. Len(d)
    BY <1>2
  <1>6. n + 1 \in Words(d)
    BY <1>3, <1>5, WordAt
  <1>7. S \subseteq Nat /\ n + 1 \in S
    BY <1>2, <1>6, ScanSets
  <1>8. ASSUME NEW x \in S PROVE n + 1 <= x
    <2>1. x \in Nat /\ x # 0
      BY <1>2, ScanSets
    <2>2. x \notin 1 .. n
      BY <1>2, <1>4
    <2> QED
      BY <1>2, <2>1, <2>2
  <1> HIDE DEF S
  <1>9. Min(S) = n + 1
    BY <1>7, <1>8, MinIs
  <1> QED
    BY <1>5, <1>6, <1>9 DEF S, n

\* The encoding of one rune.
LEMMA EncodeOne ==
  ASSUME NEW r \in Runes
  PROVE  <<r>> \in Text /\ Encode(<<r>>) = Bytes(r)
  <1>1. <<>> \in Text /\ <<r>> \in Text
    BY EmptySeq, Pair DEF Text
  <1>2. Encode(Cat(<<>>, <<r>>)) = Cat(Encode(<<>>), Bytes(r))
    BY <1>1, EncodeRune
  <1>3. Cat(<<>>, <<r>>) = <<r>>
    BY <1>1, CatEmpty DEF Text
  <1>4. Cat(<<>>, Bytes(r)) = Bytes(r)
    BY BytesType, CatEmpty
  <1> QED
    BY <1>1, <1>2, <1>3, <1>4, EncodeNothing

\* The first byte of a text is that of its first rune.
LEMMA FirstByte ==
  ASSUME NEW s \in Text, s # <<>>
  PROVE  Len(Encode(s)) >= 1 /\ Encode(s)[1] = Bytes(s[1])[1] /\ s[1] \in Runes
  <1>1. PICK t \in Text : s = Cat(<<s[1]>>, t) /\ s[1] \in Runes
    BY FirstOf DEF Text
  <1> DEFINE r == s[1]
             b == Bytes(r)
             e == Encode(t)
  <1>5. b \in Data /\ Len(b) \in {1, 2} /\ e \in Data /\ Len(e) \in Nat
    BY <1>1, BytesType, EncodeType, LenProperties DEF Data
  <1>6. Encode(s) = Cat(b, e)
    <2> DEFINE h == <<r>>
    <2>1. h \in Text /\ Encode(h) = b /\ s = Cat(h, t)
      BY <1>1, EncodeOne
    <2> HIDE DEF h, b, e
    <2>2. Encode(Cat(h, t)) = Cat(Encode(h), Encode(t))
      BY <2>1, EncodeCat
    <2> QED
      BY <2>1, <2>2 DEF e
  <1> HIDE DEF b, e
  <1>7. Len(Encode(s)) >= 1
    <2> DEFINE k == Len(b)
               l == Len(e)
    <2>1. Len(Encode(s)) = k + l
      BY <1>5, <1>6, CatFacts DEF Data
    <2>2. k \in {1, 2} /\ l \in Nat
      BY <1>5
    <2> HIDE DEF k, l
    <2> QED
      BY <2>1, <2>2
  <1>8. Encode(s)[1] = b[1]
    <2>1. 1 \in 1 .. Len(b)
      BY <1>5, SMTT(20)
    <2> QED
      BY <1>5, <1>6, <2>1, CatLeft DEF Data
  <1> QED
    BY <1>1, <1>7, <1>8 DEF b

\* A set of numbers has a least one, and if it is bounded a greatest one.
LEMMA MinExists ==
  ASSUME NEW S, S \subseteq Nat, S # {}
  PROVE  Min(S) \in S /\ \A x \in S : Min(S) <= x
  <1> DEFINE R == OpToRel(<, Nat)
  <1>1. IsWellFoundedOn(R, Nat)
    BY NatLessThanWellFounded
  <1>2. PICK m \in S : \A k \in S : <<k, m>> \notin R
    <2> HIDE DEF R
    <2> QED
      BY <1>1, WFMin
  <1>3. \A k \in S : ~(k < m)
    BY <1>2 DEF OpToRel
  <1>4. \A k \in S : m <= k
    BY <1>3
  <1> QED
    BY <1>4 DEF Min

\* By induction on the bound.
LEMMA MaxExists ==
  ASSUME NEW n \in Nat, NEW S, S \subseteq 0 .. n, S # {}
  PROVE  Max(S) \in S /\ \A x \in S : x <= Max(S)
  <1> DEFINE T == {k \in Nat : k <= n /\ n - k \in S}
  <1>1. T \subseteq Nat /\ T # {}
    <2>1. PICK x \in S : TRUE
      OBVIOUS
    <2>2. x \in 0 .. n
      BY <2>1
    <2>3. n - x \in Nat /\ n - x <= n /\ n - (n - x) = x
      BY <2>2
    <2>4. n - x \in T
      BY <2>1, <2>3
    <2> QED
      BY <2>4
  <1>2. Min(T) \in T /\ \A k \in T : Min(T) <= k
    <2> HIDE DEF T
    <2> QED
      BY <1>1, MinExists
  <1> DEFINE k == Min(T)
  <1>3. k \in Nat /\ k <= n /\ n - k \in S
    BY <1>2
  <1>4. ASSUME NEW x \in S PROVE x <= n - k
    <2>1. x \in 0 .. n
      OBVIOUS
    <2>2. n - x \in Nat /\ n - x <= n /\ n - (n - x) = x
      BY <2>1
    <2>3. n - x \in T
      BY <2>2
    <2>4. k <= n - x
      BY <1>2, <2>3
    <2> HIDE DEF k
    <2> QED
      BY <1>3, <2>1, <2>4
  <1> HIDE DEF k
  <1>5. S \subseteq Nat /\ \A x \in S : x <= n - k
    BY <1>4
  <1>6. Max(S) = n - k
    BY <1>3, <1>5, MaxIs
  <1> QED
    BY <1>3, <1>4, <1>6

\* A sequence whose elements are in a set is a sequence over that set.
LEMMA SeqOver ==
  ASSUME NEW A, NEW B, NEW s \in Seq(A), \A i \in 1 .. Len(s) : s[i] \in B
  PROVE  s \in Seq(B)
  <1>1. Len(s) \in Nat /\ s \in [1 .. Len(s) -> A]
    BY LenProperties
  <1>2. s \in [1 .. Len(s) -> B]
    BY <1>1
  <1> QED
    BY <1>1, <1>2

\* The runes that are spaces.
BlankSet == {" ", "nbsp"}

\* strings are split in spaces and what is left of them.
LEMMA TrimLeftIs ==
  ASSUME NEW A, NEW p \in Seq(A)
  PROVE  /\ TrimLeft(p) \in Seq(A)
         /\ TrimLeft(p) # <<>> => ~IsBlank(TrimLeft(p)[1])
         /\ \E b \in Blanks : p = Cat(b, TrimLeft(p))
  <1> DEFINE n == Len(p)
             S == {i \in DOMAIN p : ~IsBlank(p[i])} \cup {n + 1}
             m == Min(S)
             k == m - 1
             b == SubSeq(p, 1, k)
             q == SubSeq(p, m, n)
  <1>1. n \in Nat /\ DOMAIN p = 1 .. n
    BY LenProperties
  <1>2. m \in S /\ \A x \in S : m <= x
    <2>1. S \subseteq Nat /\ S # {}
      BY <1>1
    <2> HIDE DEF S
    <2> QED
      BY <2>1, MinExists
  <1> HIDE DEF m
  <1>3. m \in 1 .. n + 1
    BY <1>1, <1>2
  <1>4. m <= n => ~IsBlank(p[m])
    BY <1>1, <1>2
  <1>5. ASSUME NEW i \in 1 .. k PROVE IsBlank(p[i])
    <2>1. i \in 1 .. n /\ ~(m <= i)
      BY <1>1, <1>3
    <2> QED
      BY <1>1, <1>2, <2>1
  <1> HIDE DEF S
  <1>6. k \in 0 .. n /\ k + 1 = m
    BY <1>1, <1>3
  <1> HIDE DEF k, n
  <1>7. p = Cat(b, q)
    <2>1. p = Cat(SubSeq(p, 1, k), SubSeq(p, k + 1, Len(p)))
      BY <1>6, CutAt DEF n
    <2> QED
      BY <1>6, <2>1 DEF n
  <1>8. b \in Seq(A) /\ Len(b) = k /\ \A i \in 1 .. k : b[i] = p[i]
    BY <1>1, <1>6, StartFacts DEF n
  <1>9. /\ q \in Seq(A) /\ Len(q) = n - k
        /\ \A i \in 1 .. n - k : q[i] = p[k + i]
    <2>1. m \in 1 .. Len(p) + 1 /\ Len(p) \in m - 1 .. Len(p) /\ m - 1 = k
      BY <1>1, <1>3, <1>6 DEF n
    <2> QED
      BY <2>1, PartFacts DEF n
  <1> HIDE DEF b, q
  <1>10. b \in Blanks
    <2>1. \A i \in 1 .. Len(b) : b[i] \in BlankSet
      BY <1>5, <1>8 DEF IsBlank, BlankSet
    <2> QED
      BY <1>8, <2>1, SeqOver DEF Blanks, BlankSet
  <1>11. ASSUME q # <<>> PROVE ~IsBlank(q[1])
    <2>1. Len(q) \in Nat \ {0}
      BY <1>9, <1>11, EmptySeq
    <2>2. 1 \in 1 .. n - k /\ k + 1 = m /\ m <= n
      BY <1>1, <1>3, <1>6, <1>9, <2>1
    <2>3. q[1] = p[m]
      BY <1>9, <2>2
    <2> QED
      BY <1>4, <2>2, <2>3
  <1>12. TrimLeft(p) = q
    BY DEF TrimLeft, q, m, S, n
  <1> QED
    BY <1>7, <1>9, <1>10, <1>11, <1>12

\* TrimRight takes spaces from the end, and all of them.
LEMMA TrimRightIs ==
  ASSUME NEW A, NEW c \in Seq(A)
  PROVE  /\ TrimRight(c) \in Seq(A)
         /\ TrimRight(c) # <<>> => ~IsBlank(TrimRight(c)[Len(TrimRight(c))])
         /\ c # <<>> /\ ~IsBlank(c[1]) => TrimRight(c) # <<>>
         /\ \E d \in Blanks : c = Cat(TrimRight(c), d)
  <1> DEFINE n == Len(c)
             S == {i \in DOMAIN c : ~IsBlank(c[i])} \cup {0}
             k == Max(S)
             w == SubSeq(c, 1, k)
             d == SubSeq(c, k + 1, n)
  <1>1. n \in Nat /\ DOMAIN c = 1 .. n
    BY LenProperties
  <1>2. k \in S /\ \A x \in S : x <= k
    <2>1. S \subseteq 0 .. n /\ S # {}
      BY <1>1
    <2> HIDE DEF S
    <2> QED
      BY <1>1, <2>1, MaxExists
  <1> HIDE DEF k
  <1>3. k \in 0 .. n
    BY <1>1, <1>2
  <1>4. k # 0 => ~IsBlank(c[k])
    BY <1>1, <1>2
  <1>5. ASSUME NEW i \in k + 1 .. n PROVE IsBlank(c[i])
    <2>1. i \in 1 .. n /\ ~(i <= k)
      BY <1>1, <1>3
    <2> QED
      BY <1>1, <1>2, <2>1
  <1>6. ASSUME c # <<>>, ~IsBlank(c[1]) PROVE k # 0
    <2>1. n # 0
      BY <1>6, EmptySeq
    <2>2. 1 \in S /\ 1 <= k
      BY <1>1, <1>2, <1>6, <2>1
    <2> QED
      BY <2>2
  <1> HIDE DEF S, n
  <1>7. c = Cat(w, d)
    BY <1>3, CutAt DEF n
  <1>8. w \in Seq(A) /\ Len(w) = k /\ \A i \in 1 .. k : w[i] = c[i]
    BY <1>1, <1>3, StartFacts DEF n
  <1>9. /\ d \in Seq(A) /\ Len(d) = n - k
        /\ \A i \in 1 .. n - k : d[i] = c[k + i]
    <2> DEFINE m == k + 1
    <2>1. m \in 1 .. Len(c) + 1 /\ Len(c) \in m - 1 .. Len(c) /\ m - 1 = k
      BY <1>1, <1>3 DEF n
    <2> HIDE DEF m
    <2>2. /\ SubSeq(c, m, Len(c)) \in Seq(A) /\ Len(SubSeq(c, m, Len(c))) = Len(c) - k
          /\ \A i \in 1 .. Len(c) - k : SubSeq(c, m, Len(c))[i] = c[k + i]
      BY <2>1, PartFacts
    <2> QED
      BY <2>2 DEF m, n
  <1> HIDE DEF w, d
  <1>10. d \in Blanks
    <2>1. ASSUME NEW i \in 1 .. Len(d) PROVE d[i] \in BlankSet
      <3>1. i \in 1 .. n - k /\ k + i \in k + 1 .. n
        BY <1>1, <1>3, <1>9
      <3> QED
        BY <1>5, <1>9, <3>1 DEF IsBlank, BlankSet
    <2> QED
      BY <1>9, <2>1, SeqOver DEF Blanks, BlankSet
  <1>11. TrimRight(c) = w
    BY DEF TrimRight, w, k, S, n
  <1>12. w # <<>> <=> k # 0
    BY <1>8, EmptySeq
  <1>13. w # <<>> => ~IsBlank(w[Len(w)])
    <2> SUFFICES ASSUME w # <<>> PROVE ~IsBlank(w[k])
      BY <1>8
    <2>1. k \in 1 .. k
      BY <1>3, <1>12
    <2> QED
      BY <1>4, <1>8, <1>12, <2>1
  <1> QED
    BY <1>6, <1>7, <1>8, <1>10, <1>11, <1>12, <1>13

\* What a piece that begins with no space begins with, in bytes.
LEMMA WordFirst ==
  ASSUME NEW c \in Text, c # <<>>, ~IsBlank(c[1])
  PROVE  Len(Encode(c)) >= 1 /\ Encode(c)[1] \in {"a", "semicolon", "C3"}
  <1>1. Len(Encode(c)) >= 1 /\ Encode(c)[1] = Bytes(c[1])[1] /\ c[1] \in Runes
    BY FirstByte
  <1>2. c[1] \in {"a", "semicolon", "wide"}
    BY <1>1 DEF IsBlank, Runes
  <1>3. Bytes("a")[1] = "a" /\ Bytes("semicolon")[1] = "semicolon" /\ Bytes("wide")[1] = "C3"
    <2>1. <<"a">>[1] = "a" /\ <<"semicolon">>[1] = "semicolon" /\ <<"C3", "A0">>[1] = "C3"
      OBVIOUS
    <2> QED
      BY <2>1, BytesAre, Zenon
  <1> QED
    BY <1>1, <1>2, <1>3

\* In data that begins with a piece and its semicolon, the scanner finds that piece,
\* without its leading spaces.
LEMMA ScanClosed ==
  ASSUME NEW p \in Clean, NEW y \in Data, NEW d \in Data, NEW f,
         d = Cat(Encode(p), Cat(<<"semicolon">>, y))
  PROVE  scanStmts(d, f) = [advance |-> Len(Encode(p)) + 1, token |-> Encode(TrimLeft(p))]
  <1> DEFINE e == <<"semicolon">>
             k == Len(Encode(p))
             c == TrimLeft(p)
             one == 1
             z == Cat(Encode(c), Cat(e, y))
  <1>1. p \in Text /\ Encode(p) \in Data /\ \A m \in 1 .. k : Encode(p)[m] # "semicolon"
    BY CleanBytes
  <1>2. e \in Data /\ Len(e) = one /\ e[1] = "semicolon"
    BY Unit DEF Data, Octets
  <1>3. one = 1 /\ d = Cat(Encode(p), Cat(e, y))
    OBVIOUS
  <1> HIDE DEF e, one
  <1>4. /\ Cat(e, y) \in Data /\ Len(Cat(e, y)) = one + Len(y) /\ Len(y) \in Nat
        /\ Cat(e, y)[1] = "semicolon"
    <2>1. Cat(e, y) \in Data /\ Len(Cat(e, y)) = one + Len(y) /\ Len(y) \in Nat
      BY <1>2, CatFacts DEF Data
    <2>2. 1 \in 1 .. Len(e)
      BY <1>2, <1>3
    <2>3. Cat(e, y)[1] = e[1]
      BY <1>2, <2>2, CatLeft DEF Data
    <2> QED
      BY <1>2, <2>1, <2>3
  <1>5. k \in Nat /\ Len(d) = k + (1 + Len(y)) /\ DOMAIN d = 1 .. Len(d) /\ Semicolons(d) \subseteq 1 .. Len(d)
    <2>1. k \in Nat /\ Len(d) = k + Len(Cat(e, y))
      BY <1>1, <1>3, <1>4, CatFacts DEF Data
    <2>2. Len(Cat(e, y)) = 1 + Len(y)
      BY <1>3, <1>4
    <2>3. DOMAIN d = 1 .. Len(d) /\ Semicolons(d) \subseteq 1 .. Len(d)
      BY ScanSets
    <2> HIDE DEF k
    <2> QED
      BY <2>1, <2>2, <2>3
  <1>6. d[k + 1] = "semicolon"
    <2>1. 1 \in 1 .. Len(Cat(e, y))
      BY <1>3, <1>4
    <2>2. d[k + 1] = Cat(e, y)[1]
      BY <1>1, <1>3, <1>4, <2>1, CatRight DEF Data
    <2> QED
      BY <1>4, <2>2
  <1>7. \A m \in 1 .. k : d[m] # "semicolon"
    <2> TAKE m \in 1 .. k
    <2>1. d[m] = Encode(p)[m]
      BY <1>1, <1>3, <1>4, CatLeft DEF Data
    <2> QED
      BY <1>1, <2>1
  <1>8. Semicolons(d) # {} /\ Min(Semicolons(d)) = k + 1
    <2>1. k + 1 \in Semicolons(d)
      BY <1>5, <1>6 DEF Semicolons
    <2>2. \A x \in Semicolons(d) : k + 1 <= x
      BY <1>5, <1>7 DEF Semicolons
    <2>3. Semicolons(d) \subseteq Nat
      BY <1>5
    <2> HIDE DEF k
    <2>4. Min(Semicolons(d)) = k + 1
      BY <2>1, <2>2, <2>3, MinIs
    <2> QED
      BY <2>1, <2>4
  <1>9. c \in Clean /\ (c # <<>> => ~IsBlank(c[1])) /\ \E b \in Blanks : p = Cat(b, c)
    BY TrimLeftIs DEF Clean
  <1> PICK b \in Blanks : p = Cat(b, c)
    BY <1>9
  <1>10. c \in Text /\ Encode(c) \in Data /\ b \in Text /\ Encode(b) \in Data
    BY <1>9, CleanBytes, BlankBytes
  <1> HIDE DEF c
  <1>11. Encode(p) = Cat(Encode(b), Encode(c))
    BY <1>10, EncodeCat
  <1>12. d = Cat(Encode(b), z) /\ z \in Data
    BY <1>3, <1>4, <1>10, <1>11, CatAssociative, CatFacts DEF Data
  <1>13. k = Len(Encode(b)) + Len(Encode(c)) /\ Len(Encode(b)) \in Nat /\ Len(Encode(c)) \in Nat
    BY <1>10, <1>11, CatFacts DEF Data
  <1>14. Len(z) >= 1 /\ z[1] \in {"a", "semicolon", "C3"}
    <2>1. CASE c = <<>>
      <3>1. z = Cat(e, y)
        BY <2>1, <1>4, EncodeNothing, CatEmpty DEF Data
      <3> QED
        BY <3>1, <1>3, <1>4
    <2>2. CASE c # <<>>
      <3>1. Len(Encode(c)) >= 1 /\ Encode(c)[1] \in {"a", "semicolon", "C3"}
        BY <2>2, <1>9, <1>10, WordFirst
      <3>2. 1 \in 1 .. Len(Encode(c)) /\ Len(z) >= 1
        BY <3>1, <1>3, <1>4, <1>10, <1>13, CatFacts, SMTT(20) DEF Data
      <3>3. z[1] = Encode(c)[1]
        BY <3>2, <1>4, <1>10, CatLeft DEF Data
      <3> QED
        BY <3>1, <3>2, <3>3
    <2> QED
      BY <2>1, <2>2
  <1> HIDE DEF k
  <1>15. Min(Words(d) \cup {Len(d) + 1}) = Len(Encode(b)) + 1
    <2> HIDE DEF z
    <2> QED
      BY <1>12, <1>14, Start
  <1>16. SubSeq(d, Len(Encode(b)) + 1, k) = Encode(c)
    BY <1>4, <1>10, <1>12, <1>13, Middle DEF Data
  <1>17. (k + 1) - 1 = k
    BY <1>5
  <1> QED
    BY <1>8, <1>15, <1>16, <1>17 DEF scanStmts, c, k

\* Nor does anything in the spaces at the end.
LEMMA NoWordAfter ==
  ASSUME NEW x \in Data, NEW b \in Blanks, NEW d \in Data, d = Cat(x, Encode(b)),
         NEW m \in 1 .. Len(Encode(b))
  PROVE  Len(x) + m \notin Words(d)
  <1>1. /\ Encode(b) \in Data /\ Encode(b)[m] \in {" ", "C2", "A0"}
        /\ Encode(b)[m] = "C2" => m < Len(Encode(b))
    BY BlankBytes
  <1>2. d[Len(x) + m] = Encode(b)[m]
    BY <1>1, CatRight DEF Data
  <1>3. Len(d) = Len(x) + Len(Encode(b)) /\ Len(x) \in Nat /\ Len(Encode(b)) \in Nat
    BY <1>1, CatFacts DEF Data
  <1> DEFINE k == Len(Encode(b))
             l == Len(x)
  <1>4. Encode(b)[m] = "C2" => l + m < Len(d)
    <2>1. Encode(b)[m] = "C2" => m < k
      BY <1>1
    <2>2. Len(d) = l + k /\ l \in Nat /\ k \in Nat /\ m \in Nat
      BY <1>3
    <2> HIDE DEF l, k
    <2> QED
      BY <2>1, <2>2
  <1> QED
    BY <1>1, <1>2, <1>4 DEF Words, RuneStarts, IsSpace

\* The data before the end of a file, without a semicolon: no statement ends there.
LEMMA NoSemicolons ==
  ASSUME NEW s \in Clean
  PROVE  Semicolons(Encode(s)) = {}
  <1>1. \A m \in 1 .. Len(Encode(s)) : Encode(s)[m] # "semicolon"
    BY CleanBytes
  <1>2. Encode(s) \in Data
    BY CleanBytes
  <1>3. DOMAIN Encode(s) = 1 .. Len(Encode(s))
    BY <1>2, ScanSets
  <1> QED
    BY <1>1, <1>3 DEF Semicolons

\* At the end of a file that ends in spaces, the scanner finds nothing more.
LEMMA ScanBlank ==
  ASSUME NEW tail \in Clean, TrimRight(TrimLeft(tail)) = <<>>
  PROVE  scanStmts(Encode(tail), TRUE) = MoreData
  <1> DEFINE c == TrimLeft(tail)
             d == Encode(tail)
  <1>1. c \in Clean /\ (c # <<>> => ~IsBlank(c[1])) /\ \E b \in Blanks : tail = Cat(b, c)
    BY TrimLeftIs DEF Clean
  <1>2. c = <<>>
    <2>1. c # <<>> /\ ~IsBlank(c[1]) => TrimRight(c) # <<>>
      BY <1>1, TrimRightIs DEF Clean
    <2> QED
      BY <1>1, <2>1
  <1> PICK b \in Blanks : tail = Cat(b, c)
    BY <1>1
  <1>3. tail = b
    BY <1>2, CatEmpty DEF Blanks
  <1>4. d \in Data /\ d = Cat(Encode(b), <<>>) /\ <<>> \in Data
    BY <1>3, CleanBytes, CatEmpty, EmptySeq DEF Data
  <1>5. Semicolons(d) = {}
    BY NoSemicolons
  <1>6. Words(d) = {} /\ Len(d) \in Nat
    <2>1. Words(d) \subseteq 1 .. Len(d) /\ Len(d) \in Nat
      BY <1>4, ScanSets
    <2>2. \A m \in 1 .. Len(Encode(b)) : m \notin Words(d)
      <3> HIDE DEF d
      <3> QED
        BY <1>4, NoWordInBlanks
    <2> QED
      BY <1>3, <2>1, <2>2
  <1> HIDE DEF d
  <1>7. Min(Words(d) \cup {Len(d) + 1}) = Len(d) + 1
    <2>1. Words(d) \cup {Len(d) + 1} = {Len(d) + 1}
      BY <1>6
    <2>2. Len(d) + 1 \in {Len(d) + 1} /\ {Len(d) + 1} \subseteq Nat /\ \A x \in {Len(d) + 1} : Len(d) + 1 <= x
      BY <1>6
    <2>3. Min({Len(d) + 1}) = Len(d) + 1
      BY <2>2, MinIs
    <2> QED
      BY <2>1, <2>3
  <1>8. ~(Len(d) + 1 <= Len(d))
    BY <1>6
  <1>9. scanStmts(d, TRUE) = MoreData
    BY <1>5, <1>7, <1>8, Zenon DEF scanStmts
  <1> QED
    BY <1>9 DEF d

\* Elsewhere without a semicolon, it asks for more data.
LEMMA ScanMore ==
  ASSUME NEW d, Semicolons(d) = {}
  PROVE  scanStmts(d, FALSE) = MoreData
  BY Zenon DEF scanStmts

\* A sequence of two is two of one joined.
LEMMA PairIsCat ==
  ASSUME NEW a, NEW b
  PROVE  Cat(<<a>>, <<b>>) = <<a, b>>
  <1> DEFINE A == {a, b}
             h == <<a>>
             g == <<b>>
             p == <<a, b>>
             one == 1
  <1>1. /\ h \in Seq(A) /\ Len(h) = one /\ h[1] = a
        /\ g \in Seq(A) /\ Len(g) = one /\ g[1] = b
        /\ p \in Seq(A) /\ Len(p) = 2 /\ p[1] = a /\ p[2] = b
        /\ one = 1
    OBVIOUS
  <1> HIDE DEF A, h, g, p, one
  <1>2. Cat(h, g) \in Seq(A) /\ Len(Cat(h, g)) = one + one
    <2>1. Cat(h, g) \in Seq(A) /\ Len(Cat(h, g)) = Len(h) + Len(g)
      BY <1>1, CatFacts
    <2> QED
      BY <1>1, <2>1
  <1>3. 1 \in 1 .. Len(h) /\ 1 \in 1 .. Len(g)
    BY <1>1
  <1>4. Cat(h, g)[1] = a
    BY <1>1, <1>3, CatLeft
  <1>5. Cat(h, g)[Len(h) + 1] = b
    BY <1>1, <1>3, CatRight, SMTT(20)
  <1>6. Len(h) + 1 = 2 /\ one + one = 2
    BY <1>1
  <1>7. \A i \in 1 .. 2 : Cat(h, g)[i] = p[i]
    BY <1>1, <1>4, <1>5, <1>6
  <1>8. Cat(h, g) = p
    BY <1>1, <1>2, <1>6, <1>7, SeqEqual
  <1> QED
    BY <1>8 DEF h, g, p

\* A word's bytes, taken apart at the first byte of its last rune.
LEMMA WordEnd ==
  ASSUME NEW w \in Text, w # <<>>, w[Len(w)] \in {"a", "wide"}
  PROVE  \E x \in Data, h \in Data, g \in Data :
           /\ Encode(w) = Cat(x, Cat(h, g))
           /\ Len(h) = 1 /\ h[1] \in {"a", "C3"}
           /\ \A m \in 1 .. Len(g) : g[m] = "A0"
           /\ (IF Last(w) = "wide" THEN Front(Encode(w)) ELSE Encode(w)) = Cat(x, h)
  <1>1. PICK n \in Nat : Len(w) = n + 1
    <2>1. Len(w) \in Nat
      BY LenProperties DEF Text
    <2>2. Len(w) # 0
      BY EmptySeq DEF Text
    <2>3. Len(w) - 1 \in Nat /\ Len(w) = (Len(w) - 1) + 1
      BY <2>1, <2>2
    <2> QED
      BY <2>3
  <1>2. PICK v \in Text, r \in Runes : w = Cat(v, <<r>>) /\ Len(v) = n
    BY <1>1, LastOf DEF Text
  <1>3. w[Len(w)] = r
    <2> DEFINE e == <<r>>
               one == 1
    <2>1. e \in Text /\ Len(e) = one /\ e[one] = r /\ w = Cat(v, e) /\ one \in 1 .. Len(e)
      BY <1>2, Unit DEF Text
    <2>2. one = 1
      OBVIOUS
    <2> HIDE DEF e, one
    <2>3. w[Len(v) + one] = e[one]
      BY <2>1, CatRight DEF Text
    <2>4. Len(v) + one = Len(w)
      BY <1>1, <1>2, <2>2
    <2> QED
      BY <2>1, <2>3, <2>4
  <1>4. r \in {"a", "wide"} /\ Last(w) = r
    BY <1>3 DEF Last
  <1>5. Encode(v) \in Data /\ Encode(w) \in Data /\ Encode(w) = Cat(Encode(v), Bytes(r))
    BY <1>2, EncodeRune, EncodeType
  <1> DEFINE x == Encode(v)
             empty == <<>>
  <1>6. empty \in Data /\ Len(empty) = 0
    BY EmptySeq DEF Data
  <1>7. CASE r = "a"
    <2> DEFINE h == <<"a">>
    <2>1. h \in Data /\ Len(h) = 1 /\ h[1] = "a" /\ Bytes(r) = h
      BY <1>7, Unit, BytesAre DEF Data, Octets
    <2> HIDE DEF h, x, empty
    <2>2. Encode(w) = Cat(x, h)
      BY <1>5, <2>1 DEF x
    <2>3. Cat(h, empty) = h
      BY <2>1, CatEmpty DEF Data, empty
    <2>4. (IF Last(w) = "wide" THEN Front(Encode(w)) ELSE Encode(w)) = Cat(x, h)
      BY <1>4, <1>7, <2>2
    <2>5. \A m \in 1 .. Len(empty) : empty[m] = "A0"
      BY <1>6
    <2>6. x \in Data
      BY <1>5 DEF x
    <2> QED
      BY <1>6, <2>1, <2>2, <2>3, <2>4, <2>5, <2>6
  <1>8. CASE r = "wide"
    <2> DEFINE h == <<"C3">>
               g == <<"A0">>
               one == 1
               u == Cat(x, h)
               l == Len(x)
    <2>1. h \in Data /\ Len(h) = one /\ h[1] = "C3"
      BY Unit DEF Data, Octets
    <2>2. g \in Data /\ Len(g) = one /\ g[1] = "A0"
      BY Unit DEF Data, Octets
    <2>3. Bytes(r) = Cat(h, g)
      <3>1. Cat(<<"C3">>, <<"A0">>) = <<"C3", "A0">>
        BY PairIsCat
      <3> QED
        BY <1>8, <3>1, BytesAre
    <2>4. one = 1
      OBVIOUS
    <2> HIDE DEF h, g, one
    <2>5. x \in Data /\ u \in Data /\ Len(u) = l + one /\ l \in Nat
      BY <1>5, <2>1, CatFacts DEF Data
    <2>6. Encode(w) = Cat(u, g) /\ Encode(w) = Cat(x, Cat(h, g))
      BY <1>5, <2>1, <2>2, <2>3, CatAssociative DEF Data
    <2>7. Len(Encode(w)) = Len(u) + one
      BY <2>2, <2>5, <2>6, CatFacts DEF Data
    <2>8. SubSeq(Cat(empty, Cat(u, g)), Len(empty) + 1, Len(empty) + Len(u)) = u
      <3> HIDE DEF u, empty
      <3> QED
        BY <1>6, <2>2, <2>5, Middle DEF Data
    <2>9. Cat(empty, Cat(u, g)) = Encode(w)
      BY <1>5, <2>6, CatEmpty DEF Data
    <2>10. Len(empty) + 1 = 1 /\ Len(empty) + Len(u) = Len(Encode(w)) - 1
      <3> HIDE DEF u, empty, l
      <3> QED
        BY <1>6, <2>4, <2>5, <2>7
    <2>11. Front(Encode(w)) = u
      <3> HIDE DEF u, empty
      <3> QED
        BY <2>8, <2>9, <2>10 DEF Front
    <2>12. (IF Last(w) = "wide" THEN Front(Encode(w)) ELSE Encode(w)) = u
      BY <1>4, <1>8, <2>11
    <2>13. \A m \in 1 .. Len(g) : g[m] = "A0"
      BY <2>2, <2>4
    <2>14. Len(h) = 1
      BY <2>1, <2>4
    <2> HIDE DEF x
    <2> QED
      BY <2>1, <2>2, <2>5, <2>6, <2>12, <2>13, <2>14
  <1> QED
    BY <1>4, <1>7, <1>8

\* The bytes of a word at the end of a file, as they are found.
WordBytes(w) == IF Last(w) = "wide" THEN Front(Encode(w)) ELSE Encode(w)

\* What is left at the end of a file is a statement, up to its last word.
LEMMA ScanLast ==
  ASSUME NEW tail \in Clean, TrimRight(TrimLeft(tail)) # <<>>
  PROVE  /\ scanStmts(Encode(tail), TRUE)
              = [advance |-> Len(Encode(tail)), token |-> WordBytes(TrimRight(TrimLeft(tail)))]
         /\ Len(Encode(tail)) >= 1 /\ WordBytes(TrimRight(TrimLeft(tail))) \in Data
  <1> DEFINE c == TrimLeft(tail)
             w == TrimRight(c)
             d == Encode(tail)
  <1>1. c \in Clean /\ (c # <<>> => ~IsBlank(c[1])) /\ \E b \in Blanks : tail = Cat(b, c)
    BY TrimLeftIs DEF Clean
  <1>2. /\ w \in Clean /\ w # <<>> /\ ~IsBlank(w[Len(w)])
        /\ \E e \in Blanks : c = Cat(w, e)
    BY <1>1, TrimRightIs DEF Clean
  <1> PICK b \in Blanks : tail = Cat(b, c)
    BY <1>1
  <1> PICK e \in Blanks : c = Cat(w, e)
    BY <1>2
  <1>3. c # <<>>
    <2> HIDE DEF w, c
    <2>1. Len(c) = Len(w) + Len(e) /\ Len(w) \in Nat /\ Len(e) \in Nat
      <3>1. w \in Seq(Runes) /\ e \in Seq(Runes)
        BY <1>2, CleanBytes, BlankBytes DEF Text
      <3> QED
        BY <3>1, CatFacts
    <2>2. Len(w) # 0
      BY <1>2, EmptySeq DEF Clean
    <2>3. Len(<<>>) = 0
      BY EmptySeq
    <2> QED
      BY <2>1, <2>2, <2>3
  <1>4. /\ c \in Text /\ w \in Text /\ b \in Text /\ e \in Text
        /\ Encode(c) \in Data /\ Encode(w) \in Data /\ Encode(b) \in Data /\ Encode(e) \in Data
        /\ d \in Data
    BY <1>1, <1>2, CleanBytes, BlankBytes
  <1>5. d = Cat(Encode(b), Encode(c)) /\ Encode(c) = Cat(Encode(w), Encode(e))
    <2> HIDE DEF c, w
    <2> QED
      BY <1>4, EncodeCat DEF d
  <1>6. w[Len(w)] \in {"a", "wide"}
    <2>1. Len(w) \in 1 .. Len(w)
      <3>1. Len(w) # 0 /\ Len(w) \in Nat
        BY <1>2, EmptySeq, LenProperties DEF Clean
      <3> HIDE DEF w
      <3> QED
        BY <3>1
    <2>2. w[Len(w)] \in Runes \ {"semicolon"}
      <3> HIDE DEF w
      <3> QED
        BY <1>2, <2>1, ElementOfSeq DEF Clean
    <2> QED
      BY <1>2, <2>2 DEF Runes, IsBlank
  <1> HIDE DEF c, w, d
  <1> PICK x \in Data, h \in Data, g \in Data :
           /\ Encode(w) = Cat(x, Cat(h, g))
           /\ Len(h) = 1 /\ h[1] \in {"a", "C3"}
           /\ \A m \in 1 .. Len(g) : g[m] = "A0"
           /\ (IF Last(w) = "wide" THEN Front(Encode(w)) ELSE Encode(w)) = Cat(x, h)
    BY <1>2, <1>4, <1>6, WordEnd
  <1> DEFINE s == Encode(b)
             z == Encode(e)
             u == Cat(x, h)
             q == Cat(s, u)
             p == Cat(q, g)
             one == 1
             k == Len(q)
             l == Len(g)
             n == Len(z)
             a == Len(s)
  <1>7. s \in Data /\ z \in Data /\ u \in Data /\ q \in Data /\ p \in Data
    BY <1>4, CatFacts DEF Data
  <1>8. d = Cat(p, z) /\ d = Cat(s, Cat(u, Cat(g, z)))
    <2>1. Encode(w) = Cat(u, g)
      BY CatAssociative DEF Data
    <2>2. d = Cat(s, Cat(Cat(u, g), z))
      BY <1>5, <2>1
    <2>3. Cat(Cat(u, g), z) = Cat(u, Cat(g, z)) /\ Cat(g, z) \in Data
      BY <1>7, CatAssociative, CatFacts DEF Data
    <2>4. Cat(s, Cat(u, Cat(g, z))) = Cat(q, Cat(g, z))
      BY <1>7, <2>3, CatAssociative DEF Data
    <2>5. Cat(q, Cat(g, z)) = Cat(p, z)
      BY <1>7, CatAssociative DEF Data
    <2> QED
      BY <2>2, <2>3, <2>4, <2>5
  <1>9. one = 1 /\ Len(h) = one
    OBVIOUS
  <1> HIDE DEF s, z, one
  <1>10. /\ Len(u) = Len(x) + one /\ Len(x) \in Nat
         /\ k = a + Len(u) /\ Len(p) = k + l /\ Len(d) = Len(p) + n
         /\ a \in Nat /\ l \in Nat /\ n \in Nat
    <2>1. Len(u) = Len(x) + one /\ Len(x) \in Nat
      BY <1>9, CatFacts, ZenonT(60) DEF Data
    <2>2. k = a + Len(u) /\ a \in Nat
      BY <1>7, CatFacts DEF Data
    <2>3. Len(p) = k + l /\ l \in Nat
      BY <1>7, CatFacts DEF Data
    <2>4. Len(d) = Len(p) + n /\ n \in Nat
      BY <1>7, <1>8, CatFacts DEF Data
    <2> QED
      BY <2>1, <2>2, <2>3, <2>4
  <1>11. \A m \in 1 .. k : d[m] = q[m]
    <2> TAKE m \in 1 .. k
    <2>1. p[m] = q[m]
      BY <1>7, CatLeft DEF Data
    <2>2. m \in 1 .. Len(p)
      <3> HIDE DEF k, l, p
      <3> QED
        BY <1>9, <1>10
    <2>3. d[m] = p[m]
      <3>1. d = Cat(p, z) /\ p \in Data /\ z \in Data
        BY <1>7, <1>8
      <3> HIDE DEF p
      <3>2. Cat(p, z)[m] = p[m]
        BY <2>2, <3>1, CatLeft DEF Data
      <3> QED
        BY <3>1, <3>2
    <2> QED
      BY <2>1, <2>3
  <1>12. \A m \in 1 .. l : d[k + m] = "A0"
    <2> TAKE m \in 1 .. l
    <2>1. p[k + m] = g[m]
      BY <1>7, CatRight DEF Data
    <2>2. k + m \in 1 .. Len(p)
      <3> HIDE DEF k, l, p, u, a
      <3> QED
        BY <1>9, <1>10
    <2>3. d[k + m] = p[k + m]
      <3> DEFINE i == k + m
      <3>1. i \in 1 .. Len(p)
        BY <2>2
      <3>2. d = Cat(p, z) /\ p \in Data /\ z \in Data
        BY <1>7, <1>8
      <3> HIDE DEF p, i
      <3>3. Cat(p, z)[i] = p[i]
        BY <3>1, <3>2, CatLeft DEF Data
      <3> QED
        BY <3>2, <3>3 DEF i
    <2> QED
      BY <2>1, <2>3
  <1>13. \A m \in 1 .. n : Len(p) + m \notin Words(d)
    <2> HIDE DEF p
    <2> QED
      BY <1>4, <1>7, <1>8, NoWordAfter DEF z
  <1>14. d[k] \in {"a", "C3"}
    <2>1. one \in 1 .. Len(h) /\ h[one] \in {"a", "C3"}
      BY <1>9
    <2>2. u[Len(x) + one] = h[one]
      <3>1. Cat(x, h)[Len(x) + one] = h[one]
        BY ONLY <2>1, CatRight, x \in Data, h \in Data DEF Data
      <3> QED
        BY <3>1
    <2>3. Len(x) + one \in 1 .. Len(u)
      <3> HIDE DEF u
      <3> QED
        BY <1>9, <1>10
    <2>4. q[a + (Len(x) + one)] = u[Len(x) + one]
      <3> DEFINE i == Len(x) + one
      <3>1. i \in 1 .. Len(u)
        BY <2>3
      <3> HIDE DEF u, i
      <3>2. Cat(s, u)[Len(s) + i] = u[i]
        BY <1>7, <3>1, CatRight DEF Data
      <3> QED
        BY <3>2 DEF i
    <2>5. a + (Len(x) + one) = k /\ k \in 1 .. k
      <3> HIDE DEF u, k, a
      <3> QED
        BY <1>9, <1>10
    <2>6. d[k] = q[k]
      <3> HIDE DEF k, q
      <3> QED
        BY <1>11, <2>5
    <2> QED
      BY <2>1, <2>2, <2>4, <2>5, <2>6
  <1>15. Max(Words(d)) = k
    <2>1. Words(d) \subseteq 1 .. Len(d) /\ Len(d) \in Nat /\ DOMAIN d = 1 .. Len(d)
      BY <1>4, ScanSets
    <2> HIDE DEF k, l, n, p, u, a
    <2>2. k \in 1 .. Len(d)
      BY <1>9, <1>10
    <2>3. k \in Words(d)
      BY <1>4, <1>14, <2>2, WordAt
    <2>4. ASSUME NEW i \in Words(d) PROVE i <= k
      <3>1. i \in 1 .. Len(d)
        BY <2>1
      <3>2. CASE i > k /\ i <= Len(p)
        <4>1. i - k \in 1 .. l /\ k + (i - k) = i
          BY <1>9, <1>10, <2>2, <3>1, <3>2
        <4>2. d[i] = "A0"
          BY <1>12, <4>1
        <4>3. i \in RuneStarts(d)
          BY DEF Words
        <4> QED
          BY <4>2, <4>3 DEF RuneStarts
      <3>3. CASE i > Len(p)
        <4>1. i - Len(p) \in 1 .. n /\ Len(p) + (i - Len(p)) = i
          BY <1>9, <1>10, <2>2, <3>1, <3>3
        <4> QED
          BY <1>13, <4>1
      <3> QED
        BY <1>9, <1>10, <2>2, <3>1, <3>2, <3>3
    <2>5. Words(d) \subseteq Nat
      BY <2>1
    <2> QED
      BY <2>3, <2>4, <2>5, MaxIs
  <1>16. Min(Words(d) \cup {Len(d) + 1}) = a + 1 /\ a + 1 <= Len(d)
    <2>1. Len(Encode(c)) >= 1 /\ Encode(c)[1] \in {"a", "semicolon", "C3"}
      BY <1>1, <1>3, <1>4, WordFirst
    <2>2. d = Cat(Encode(b), Encode(c)) /\ Encode(c) \in Data /\ d \in Data
      BY <1>4, <1>5
    <2> DEFINE y == Encode(c)
    <2> HIDE DEF y
    <2>3. Min(Words(d) \cup {Len(d) + 1}) = Len(Encode(b)) + 1 /\ Len(Encode(b)) + 1 <= Len(d)
      BY <2>1, <2>2, Start DEF y
    <2> QED
      BY <2>3 DEF s
  <1>17. SubSeq(d, a + 1, k) = u
    <2>1. Cat(g, z) \in Data
      BY <1>7, CatFacts DEF Data
    <2> DEFINE t == Cat(g, z)
    <2> HIDE DEF t, u
    <2>2. SubSeq(Cat(s, Cat(u, t)), Len(s) + 1, Len(s) + Len(u)) = u
      BY <1>7, <2>1, Middle DEF Data, t
    <2>3. Cat(s, Cat(u, t)) = d
      BY <1>8 DEF t, u
    <2>4. Len(s) + Len(u) = k
      BY <1>10
    <2> QED
      BY <2>2, <2>3, <2>4
  <1>18. Semicolons(d) = {}
    BY NoSemicolons DEF d
  <1>19. WordBytes(w) = u
    BY DEF WordBytes
  <1> HIDE DEF u, k, a
  <1>21. Len(d) >= 1
    BY <1>10, <1>16
  <1>20. scanStmts(d, TRUE) = [advance |-> Len(d), token |-> u]
    BY <1>15, <1>16, <1>17, <1>18, Zenon DEF scanStmts
  <1> QED
    BY <1>7, <1>19, <1>20, <1>21 DEF d, w, c

-----------------------------------------------------------------------------
(* The pieces of a file *)

\* The part of a joined sequence that lies in its first half.
LEMMA PartOfLeft ==
  ASSUME NEW A, NEW s \in Seq(A), NEW t \in Seq(A), NEW n \in 0 .. Len(s), NEW m \in 1 .. n + 1
  PROVE  SubSeq(Cat(s, t), m, n) = SubSeq(s, m, n)
  <1> DEFINE k == Len(s)
             l == Len(t)
             u == Cat(s, t)
  <1>1. u \in Seq(A) /\ Len(u) = k + l /\ k \in Nat /\ l \in Nat
    BY CatFacts
  <1>2. \A i \in 1 .. k : u[i] = s[i]
    BY CatLeft
  <1>3. n \in 0 .. k
    OBVIOUS
  <1> HIDE DEF u, k, l
  <1>4. m \in 1 .. k + 1 /\ n \in m - 1 .. k
    BY <1>1, <1>3
  <1>5. m \in 1 .. Len(u) + 1 /\ n \in m - 1 .. Len(u)
    BY <1>1, <1>4
  <1>6. /\ SubSeq(u, m, n) \in Seq(A)
        /\ Len(SubSeq(u, m, n)) = n - (m - 1)
        /\ \A i \in 1 .. n - (m - 1) : SubSeq(u, m, n)[i] = u[(m - 1) + i]
    BY <1>1, <1>5, PartFacts
  <1>7. /\ SubSeq(s, m, n) \in Seq(A)
        /\ Len(SubSeq(s, m, n)) = n - (m - 1)
        /\ \A i \in 1 .. n - (m - 1) : SubSeq(s, m, n)[i] = s[(m - 1) + i]
    BY <1>4, PartFacts DEF k
  <1>8. \A i \in 1 .. n - (m - 1) : u[(m - 1) + i] = s[(m - 1) + i]
    <2> TAKE i \in 1 .. n - (m - 1)
    <2>1. (m - 1) + i \in 1 .. k
      BY <1>1, <1>4
    <2> QED
      BY <1>2, <2>1
  <1>9. SubSeq(u, m, n) = SubSeq(s, m, n)
    BY <1>6, <1>7, <1>8, SeqEqual
  <1> QED
    BY <1>9 DEF u

\* Where the semicolons of a text are: a finite set of its positions.
LEMMA EndsType ==
  ASSUME NEW s \in Text
  PROVE  /\ Len(s) \in Nat /\ DOMAIN s = 1 .. Len(s)
         /\ Ends(s) \subseteq 1 .. Len(s) /\ IsFiniteSet(Ends(s))
         /\ Cardinality(Ends(s)) \in Nat
  <1>1. Len(s) \in Nat /\ DOMAIN s = 1 .. Len(s)
    BY LenProperties DEF Text
  <1>2. Ends(s) \subseteq 1 .. Len(s)
    BY <1>1 DEF Ends
  <1>3. IsFiniteSet(1 .. Len(s))
    BY <1>1, FS_Interval
  <1>4. IsFiniteSet(Ends(s))
    BY <1>2, <1>3, FS_Subset
  <1> QED
    BY <1>1, <1>2, <1>4, FS_CardinalityType

\* The semicolons of the first half of a text are where they were.
LEMMA EndsOfLeft ==
  ASSUME NEW s \in Text, NEW t \in Text
  PROVE  \A j \in 1 .. Len(s) : j \in Ends(Cat(s, t)) <=> j \in Ends(s)
  <1>1. Cat(s, t) \in Text /\ Len(Cat(s, t)) = Len(s) + Len(t) /\ Len(s) \in Nat /\ Len(t) \in Nat
    BY CatFacts DEF Text
  <1>2. DOMAIN Cat(s, t) = 1 .. Len(Cat(s, t)) /\ DOMAIN s = 1 .. Len(s)
    BY <1>1, EndsType
  <1> TAKE j \in 1 .. Len(s)
  <1>3. j \in 1 .. Len(Cat(s, t))
    BY <1>1
  <1>4. Cat(s, t)[j] = s[j]
    BY CatLeft DEF Text
  <1> QED
    BY <1>2, <1>3, <1>4 DEF Ends

\* The pieces that end in the first half of a text, and their places, stay the same.
LEMMA PiecesOfLeft ==
  ASSUME NEW s \in Text, NEW t \in Text, NEW i \in 1 .. Len(s)
  PROVE  Before(Cat(s, t), i) = Before(s, i) /\ Place(Cat(s, t), i) = Place(s, i)
  <1> DEFINE u == Cat(s, t)
             M == {j \in Ends(s) : j < i} \cup {0}
             k == Max(M)
  <1>1. u \in Text /\ Len(u) = Len(s) + Len(t) /\ Len(s) \in Nat /\ Len(t) \in Nat
    BY CatFacts DEF Text
  <1>2. Ends(u) \subseteq 1 .. Len(u) /\ Ends(s) \subseteq 1 .. Len(s)
    BY <1>1, EndsType
  <1>3. \A j \in 1 .. Len(s) : j \in Ends(u) <=> j \in Ends(s)
    BY EndsOfLeft
  <1> HIDE DEF u
  <1>4. {j \in Ends(u) : j < i} = {j \in Ends(s) : j < i}
    BY <1>1, <1>2, <1>3
  <1>5. {j \in Ends(u) : j <= i} = {j \in Ends(s) : j <= i}
    BY <1>1, <1>2, <1>3
  <1>6. k \in 0 .. i - 1
    <2>1. M \subseteq 0 .. i - 1 /\ 0 \in M
      BY <1>1, <1>2
    <2>2. i - 1 \in Nat
      BY <1>1
    <2> HIDE DEF M
    <2>3. Max(M) \in M
      BY <2>1, <2>2, MaxExists
    <2> QED
      BY <2>1, <2>3
  <1> HIDE DEF k
  <1>7. i - 1 \in 0 .. Len(s) /\ k + 1 \in 1 .. (i - 1) + 1
    BY <1>1, <1>6
  <1>8. SubSeq(u, k + 1, i - 1) = SubSeq(s, k + 1, i - 1)
    BY <1>7, PartOfLeft DEF Text, u
  <1>9. Before(u, i) = SubSeq(u, k + 1, i - 1) /\ Before(s, i) = SubSeq(s, k + 1, i - 1)
    BY <1>4, Zenon DEF Before, k
  <1>10. Place(u, i) = Place(s, i)
    BY <1>5, Zenon DEF Place
  <1> QED
    BY <1>8, <1>9, <1>10 DEF u

\* A text that ends where a piece ends: whatever follows is a piece of its own.
Closed(head) == head = <<>> \/ head[Len(head)] = "semicolon"

\* The last semicolon of such a text is at its end.
LEMMA LastEnd ==
  ASSUME NEW head \in Text, Closed(head)
  PROVE  Max(Ends(head) \cup {0}) = Len(head)
  <1>1. Len(head) \in Nat /\ DOMAIN head = 1 .. Len(head) /\ Ends(head) \subseteq 1 .. Len(head)
    BY EndsType
  <1>2. Len(head) \in Ends(head) \cup {0}
    <2>1. CASE head = <<>>
      BY <2>1, EmptySeq
    <2>2. CASE head # <<>>
      <3>1. Len(head) # 0
        BY <2>2, EmptySeq DEF Text
      <3>2. Len(head) \in 1 .. Len(head)
        BY <1>1, <3>1
      <3> QED
        BY <1>1, <2>2, <3>2 DEF Ends, Closed
    <2> QED
      BY <2>1, <2>2
  <1>3. \A x \in Ends(head) \cup {0} : x <= Len(head)
    BY <1>1
  <1>4. Ends(head) \cup {0} \subseteq Nat
    BY <1>1
  <1> QED
    BY <1>2, <1>3, <1>4, MaxIs

\* A text without semicolons after another adds no pieces.
LEMMA EndsOfTail ==
  ASSUME NEW head \in Text, NEW tail \in Clean
  PROVE  Ends(Cat(head, tail)) = Ends(head)
  <1> DEFINE u == Cat(head, tail)
  <1>1. tail \in Text
    BY CleanBytes
  <1>2. u \in Text /\ Len(u) = Len(head) + Len(tail) /\ Len(head) \in Nat /\ Len(tail) \in Nat
    BY <1>1, CatFacts DEF Text
  <1>3. Ends(u) \subseteq 1 .. Len(u) /\ Ends(head) \subseteq 1 .. Len(head) /\ DOMAIN u = 1 .. Len(u)
    BY <1>2, EndsType
  <1>4. \A j \in 1 .. Len(head) : j \in Ends(u) <=> j \in Ends(head)
    BY <1>1, EndsOfLeft
  <1>5. \A m \in 1 .. Len(tail) : u[Len(head) + m] # "semicolon"
    <2> TAKE m \in 1 .. Len(tail)
    <2>1. u[Len(head) + m] = tail[m]
      BY <1>1, CatRight DEF Text
    <2>2. tail[m] \in Runes \ {"semicolon"}
      BY ElementOfSeq DEF Clean
    <2> QED
      BY <2>1, <2>2
  <1> HIDE DEF u
  <1>6. ASSUME NEW j \in Ends(u) PROVE j \in Ends(head)
    <2>1. j \in 1 .. Len(u) /\ u[j] = "semicolon"
      BY <1>3 DEF Ends
    <2>2. CASE j > Len(head)
      <3>1. j - Len(head) \in 1 .. Len(tail) /\ Len(head) + (j - Len(head)) = j
        BY <1>2, <2>1, <2>2
      <3> QED
        BY <1>5, <2>1, <3>1
    <2>3. CASE j <= Len(head)
      <3>1. j \in 1 .. Len(head)
        BY <1>2, <2>1, <2>3
      <3> QED
        BY <1>4, <3>1
    <2> QED
      BY <1>2, <2>1, <2>2, <2>3
  <1>7. ASSUME NEW j \in Ends(head) PROVE j \in Ends(u)
    BY <1>3, <1>4
  <1> QED
    BY <1>6, <1>7 DEF u

\* The rest of a file is what follows its last piece.
LEMMA RemainderIs ==
  ASSUME NEW head \in Text, Closed(head), NEW tail \in Clean
  PROVE  Remainder(Cat(head, tail)) = tail
  <1> DEFINE u == Cat(head, tail)
             empty == <<>>
  <1>1. tail \in Text /\ empty \in Text /\ Len(empty) = 0
    BY CleanBytes, EmptySeq DEF Text
  <1>2. u \in Text /\ Len(u) = Len(head) + Len(tail) /\ Len(head) \in Nat /\ Len(tail) \in Nat
    BY <1>1, CatFacts DEF Text
  <1>3. Ends(u) = Ends(head) /\ Ends(u) \subseteq 1 .. Len(u)
    BY <1>2, EndsOfTail, EndsType
  <1> HIDE DEF empty
  <1>4. SubSeq(Cat(head, Cat(tail, empty)), Len(head) + 1, Len(head) + Len(tail)) = tail
    BY <1>1, Middle DEF Text
  <1>5. Cat(tail, empty) = tail
    BY <1>1, CatEmpty DEF Text, empty
  <1>6. SubSeq(u, Len(head) + 1, Len(u)) = tail
    BY <1>2, <1>4, <1>5
  <1> HIDE DEF u
  <1>7. {j \in Ends(u) : j < Len(u) + 1} = Ends(head)
    BY <1>2, <1>3
  <1>8. Max({j \in Ends(u) : j < Len(u) + 1} \cup {0}) = Len(head)
    BY <1>7, LastEnd
  <1>9. (Len(u) + 1) - 1 = Len(u)
    BY <1>2
  <1>10. Remainder(u) = tail
    BY <1>6, <1>8, <1>9, Zenon DEF Remainder, Before
  <1> QED
    BY <1>10 DEF u

\* A piece and its semicolon after others: one more piece.
LEMMA PieceAdded ==
  ASSUME NEW head \in Text, Closed(head), NEW p \in Clean,
         NEW more, more = Cat(head, Cat(p, <<"semicolon">>))
  PROVE  /\ more \in Text /\ Closed(more)
         /\ Ends(more) = Ends(head) \cup {Len(more)}
         /\ Cardinality(Ends(more)) = Cardinality(Ends(head)) + 1
         /\ Len(more) = Len(head) + Len(p) + 1
         /\ Before(more, Len(more)) = p
         /\ Place(more, Len(more)) = Cardinality(Ends(more))
  <1> DEFINE e == <<"semicolon">>
             u == Cat(head, p)
             one == 1
             k == Len(head)
             l == Len(p)
             n == Len(more)
  <1>1. e \in Text /\ Len(e) = one /\ e[1] = "semicolon"
    BY Unit DEF Text, Runes
  <1>2. one = 1 /\ more = Cat(head, Cat(p, e))
    OBVIOUS
  <1> HIDE DEF e, one
  <1>3. p \in Text /\ u \in Text /\ Len(u) = k + l /\ k \in Nat /\ l \in Nat
    <2>1. p \in Text
      BY CleanBytes
    <2> QED
      BY <2>1, CatFacts DEF Text
  <1>4. more = Cat(u, e)
    BY <1>1, <1>2, <1>3, CatAssociative DEF Text
  <1> HIDE DEF k, l
  <1>5. more \in Text /\ n = Len(u) + one
    <2> HIDE DEF u
    <2> QED
      BY <1>1, <1>3, <1>4, CatFacts DEF Text
  <1>6. n = k + l + 1 /\ n \in Nat /\ n - 1 = k + l
    <2> HIDE DEF u, n
    <2> QED
      BY <1>2, <1>3, <1>5
  <1>7. more[n] = "semicolon"
    <2>1. one \in 1 .. Len(e) /\ e[one] = "semicolon"
      BY <1>1, <1>2
    <2> HIDE DEF u
    <2>2. Cat(u, e)[Len(u) + one] = e[one]
      <3>1. u \in Seq(Runes) /\ e \in Seq(Runes)
        BY <1>1, <1>3 DEF Text
      <3> QED
        BY ONLY <2>1, <3>1, CatRight
    <2> QED
      BY <1>4, <1>5, <2>1, <2>2
  <1>8. /\ Ends(more) \subseteq 1 .. n /\ DOMAIN more = 1 .. n
        /\ Ends(u) = Ends(head) /\ Ends(head) \subseteq 1 .. k
        /\ IsFiniteSet(Ends(head))
    BY <1>5, EndsType, EndsOfTail DEF k
  <1>9. \A j \in 1 .. Len(u) : j \in Ends(more) <=> j \in Ends(u)
    <2> HIDE DEF u
    <2> QED
      BY <1>1, <1>3, <1>4, EndsOfLeft
  <1> HIDE DEF n, u
  <1>10. n \in Ends(more)
    BY <1>3, <1>6, <1>7, <1>8 DEF Ends
  <1>11. Ends(more) = Ends(head) \cup {n}
    <2>1. ASSUME NEW j \in Ends(more), j # n PROVE j \in Ends(head)
      <3>1. j \in 1 .. Len(u)
        BY <1>3, <1>6, <1>8, <2>1
      <3> QED
        BY <1>8, <1>9, <3>1
    <2>2. ASSUME NEW j \in Ends(head) PROVE j \in Ends(more)
      <3>1. j \in 1 .. Len(u)
        BY <1>3, <1>8
      <3> QED
        BY <1>8, <1>9, <3>1
    <2> QED
      BY <1>10, <2>1, <2>2
  <1>12. n \notin Ends(head)
    BY <1>3, <1>6, <1>8
  <1>13. Cardinality(Ends(more)) = Cardinality(Ends(head)) + 1
    BY <1>8, <1>11, <1>12, FS_AddElement
  <1>14. {j \in Ends(more) : j < n} = Ends(head)
    BY <1>3, <1>6, <1>8, <1>11
  <1>15. {j \in Ends(more) : j <= n} = Ends(more)
    BY <1>6, <1>8
  <1>16. Place(more, n) = Cardinality(Ends(more))
    BY <1>15, Zenon DEF Place
  <1>17. Max({j \in Ends(more) : j < n} \cup {0}) = k
    BY <1>14, LastEnd DEF k
  <1>18. SubSeq(more, k + 1, k + l) = p
    BY <1>1, <1>2, <1>3, Middle DEF Text, k, l
  <1>19. Before(more, n) = p
    BY <1>6, <1>17, <1>18, Zenon DEF Before
  <1>20. Closed(more)
    BY <1>7 DEF Closed, n
  <1> QED
    BY <1>5, <1>6, <1>11, <1>13, <1>16, <1>19, <1>20 DEF n, k, l

\* The place of a piece is one of the first, and no two have the same.
LEMMA PlaceType ==
  ASSUME NEW s \in Text, NEW i \in Ends(s)
  PROVE  Place(s, i) \in 1 .. Cardinality(Ends(s))
  <1> DEFINE S == {j \in Ends(s) : j <= i}
  <1>1. IsFiniteSet(Ends(s)) /\ i \in Nat
    BY EndsType
  <1>2. S \in SUBSET Ends(s) /\ i \in S
    BY <1>1
  <1> HIDE DEF S
  <1>3. IsFiniteSet(S) /\ Cardinality(S) <= Cardinality(Ends(s))
    BY <1>1, <1>2, FS_Subset
  <1>4. Cardinality(S) \in Nat /\ Cardinality(Ends(s)) \in Nat /\ Cardinality(S) # 0
    BY <1>1, <1>2, <1>3, FS_CardinalityType, FS_EmptySet
  <1>5. Place(s, i) = Cardinality(S)
    BY Zenon DEF Place, S
  <1> QED
    BY <1>3, <1>4, <1>5

\* A text that is not free of semicolons, cut at the first.
LEMMA CutTail ==
  ASSUME NEW tail \in Text, tail \notin Clean
  PROVE  \E p \in Clean, r \in Text : tail = Cat(p, Cat(<<"semicolon">>, r))
  <1> DEFINE S == Ends(tail)
             j == Min(S)
  <1>1. Len(tail) \in Nat /\ DOMAIN tail = 1 .. Len(tail) /\ S \subseteq 1 .. Len(tail)
    BY EndsType
  <1>2. \A i \in 1 .. Len(tail) : tail[i] \in Runes
    BY ElementOfSeq DEF Text
  <1>3. S # {}
    <2> SUFFICES ASSUME S = {} PROVE FALSE
      OBVIOUS
    <2>1. \A i \in 1 .. Len(tail) : tail[i] \in Runes \ {"semicolon"}
      BY <1>1, <1>2 DEF Ends
    <2>2. tail \in Seq(Runes \ {"semicolon"})
      BY <2>1, SeqOver DEF Text
    <2> QED
      BY <2>2 DEF Clean
  <1>4. j \in S /\ \A x \in S : j <= x
    <2>1. S \subseteq Nat
      BY <1>1
    <2> HIDE DEF S
    <2> QED
      BY <1>3, <2>1, MinExists
  <1> HIDE DEF j
  <1>5. j \in 1 .. Len(tail) /\ tail[j] = "semicolon"
    BY <1>1, <1>4 DEF Ends
  <1> DEFINE k == j - 1
             p == SubSeq(tail, 1, k)
             q == SubSeq(tail, k + 1, Len(tail))
  <1>6. k \in 0 .. Len(tail) /\ k + 1 = j
    BY <1>1, <1>5
  <1> HIDE DEF k
  <1>7. tail = Cat(p, q)
    BY <1>6, CutAt DEF Text
  <1>8. p \in Text /\ Len(p) = k /\ \A i \in 1 .. k : p[i] = tail[i]
    BY <1>6, StartFacts DEF Text
  <1>9. q \in Text /\ Len(q) = Len(tail) - k /\ \A i \in 1 .. Len(tail) - k : q[i] = tail[k + i]
    <2>1. k + 1 \in 1 .. Len(tail) + 1 /\ Len(tail) \in (k + 1) - 1 .. Len(tail) /\ (k + 1) - 1 = k
      BY <1>1, <1>6
    <2>2. /\ q \in Seq(Runes)
          /\ Len(q) = Len(tail) - ((k + 1) - 1)
          /\ \A i \in 1 .. Len(tail) - ((k + 1) - 1) : q[i] = tail[((k + 1) - 1) + i]
      BY <2>1, PartFacts DEF Text
    <2> QED
      BY <2>1, <2>2 DEF Text
  <1> HIDE DEF p, q
  <1>10. p \in Clean
    <2>1. \A i \in 1 .. Len(p) : p[i] \in Runes \ {"semicolon"}
      <3> TAKE i \in 1 .. Len(p)
      <3>1. i \in 1 .. k /\ i \in 1 .. Len(tail) /\ ~(j <= i)
        BY <1>1, <1>6, <1>8
      <3>2. tail[i] # "semicolon"
        BY <1>1, <1>4, <3>1 DEF Ends
      <3> QED
        BY <1>2, <1>8, <3>1, <3>2
    <2>2. p \in Seq(Runes \ {"semicolon"})
      BY <1>8, <2>1, SeqOver DEF Text
    <2> QED
      BY <2>2 DEF Clean
  <1>11. 1 \in 1 .. Len(tail) - k
    BY <1>1, <1>5, <1>6
  <1>12. q[1] = "semicolon" /\ q # <<>>
    <2>1. q[1] = tail[k + 1]
      BY <1>9, <1>11
    <2>2. Len(q) # 0
      BY <1>9, <1>11
    <2> QED
      BY <1>5, <1>6, <2>1, <2>2, EmptySeq
  <1>13. PICK r \in Text : q = Cat(<<q[1]>>, r)
    BY <1>9, <1>12, FirstOf DEF Text
  <1> QED
    BY <1>7, <1>10, <1>12, <1>13

\* The bytes of a text cut at a semicolon.
LEMMA EncodeCut ==
  ASSUME NEW p \in Clean, NEW r \in Text
  PROVE  /\ Encode(Cat(p, Cat(<<"semicolon">>, r))) = Cat(Encode(p), Cat(<<"semicolon">>, Encode(r)))
         /\ Encode(p) \in Data /\ Encode(r) \in Data /\ <<"semicolon">> \in Data
         /\ p \in Text /\ <<"semicolon">> \in Text
         /\ Cat(p, Cat(<<"semicolon">>, r)) = Cat(Cat(p, <<"semicolon">>), r)
  <1> DEFINE e == <<"semicolon">>
  <1>1. "semicolon" \in Runes /\ "semicolon" \in Octets
    BY DEF Runes, Octets
  <1>2. e \in Text /\ Encode(e) = e /\ e \in Data
    <2>1. e \in Text /\ Encode(e) = Bytes("semicolon")
      BY <1>1, EncodeOne
    <2>2. Bytes("semicolon") = e
      BY BytesAre
    <2>3. e \in Data
      BY <1>1, Unit DEF Data
    <2> QED
      BY <2>1, <2>2, <2>3
  <1>3. p \in Text /\ Encode(p) \in Data /\ Encode(r) \in Data
    BY CleanBytes, EncodeType
  <1> HIDE DEF e
  <1>4. Cat(e, r) \in Text
    BY <1>2, CatFacts DEF Text
  <1>5. Encode(Cat(e, r)) = Cat(e, Encode(r))
    BY <1>2, EncodeCat
  <1>6. Encode(Cat(p, Cat(e, r))) = Cat(Encode(p), Encode(Cat(e, r)))
    BY <1>3, <1>4, EncodeCat
  <1>7. Cat(p, Cat(e, r)) = Cat(Cat(p, e), r)
    BY <1>2, <1>3, CatAssociative DEF Text
  <1> QED
    BY <1>2, <1>3, <1>5, <1>6, <1>7 DEF e

\* Whether a piece's semicolon has been read.
LEMMA SemicolonRead ==
  ASSUME NEW x \in Data, NEW u \in Data, NEW p \in Clean, NEW y \in Data,
         Cat(x, u) = Cat(Encode(p), Cat(<<"semicolon">>, y))
  PROVE  Semicolons(x) # {} <=> Len(Encode(p)) + 1 <= Len(x)
  <1> DEFINE e == <<"semicolon">>
             k == Len(Encode(p))
             one == 1
             z == Cat(e, y)
             d == Cat(x, u)
  <1>1. Encode(p) \in Data /\ \A m \in 1 .. k : Encode(p)[m] # "semicolon"
    BY CleanBytes
  <1>2. e \in Data /\ Len(e) = one /\ e[1] = "semicolon"
    BY Unit DEF Data, Octets
  <1>3. one = 1 /\ d = Cat(Encode(p), z)
    OBVIOUS
  <1> HIDE DEF e, one
  <1>4. z \in Data /\ Len(z) = one + Len(y) /\ Len(y) \in Nat
    BY <1>2, CatFacts DEF Data
  <1>5. z[1] = "semicolon" /\ 1 \in 1 .. Len(z)
    <2>1. 1 \in 1 .. Len(e)
      BY <1>2, <1>3
    <2>2. z[1] = e[1]
      BY <1>2, <2>1, CatLeft DEF Data
    <2>3. 1 \in 1 .. Len(z)
      <3> HIDE DEF z
      <3> QED
        BY <1>3, <1>4
    <2> QED
      BY <1>2, <2>2, <2>3
  <1> HIDE DEF z
  <1>6. \A m \in 1 .. k : d[m] # "semicolon"
    <2> TAKE m \in 1 .. k
    <2>1. Cat(Encode(p), z)[m] = Encode(p)[m]
      BY <1>1, <1>4, CatLeft DEF Data
    <2> QED
      BY <1>1, <1>3, <2>1
  <1>7. d[k + 1] = "semicolon"
    <2>1. Cat(Encode(p), z)[k + 1] = z[1]
      BY <1>1, <1>4, <1>5, CatRight DEF Data
    <2> QED
      BY <1>3, <1>5, <2>1
  <1>8. \A m \in 1 .. Len(x) : d[m] = x[m]
    BY CatLeft DEF Data
  <1>9. DOMAIN x = 1 .. Len(x) /\ Len(x) \in Nat /\ k \in Nat
    BY <1>1, ScanSets, LenProperties DEF Data
  <1> HIDE DEF d, k
  <1>10. ASSUME k + 1 <= Len(x) PROVE k + 1 \in Semicolons(x)
    <2>1. k + 1 \in 1 .. Len(x)
      BY <1>9, <1>10
    <2> QED
      BY <1>7, <1>8, <1>9, <2>1 DEF Semicolons
  <1>11. ASSUME NEW m \in Semicolons(x) PROVE k + 1 <= Len(x)
    <2>1. m \in 1 .. Len(x) /\ x[m] = "semicolon"
      BY <1>9 DEF Semicolons
    <2>2. m \notin 1 .. k
      BY <1>6, <1>8, <2>1
    <2> QED
      BY <1>9, <2>1, <2>2
  <1> QED
    BY <1>10, <1>11 DEF k

-----------------------------------------------------------------------------
(* What has been found *)

\* Every piece of s fits the buffer, and its statement is in its place in the list.
Fits(s) == \A i \in Ends(s) : Len(Encode(Before(s, i))) + 1 <= MaxToken
Listed(s, list) == \A i \in Ends(s) : list[Place(s, i)] = Statement(s, i)

\* The list is what StatementsFound says of s.
RightFor(s, list) ==
  /\ ~TooLong(s)
  /\ Len(list) = Cardinality(Ends(s)) + (IF LastWord(s) = <<>> THEN 0 ELSE 1)
  /\ Listed(s, list)
  /\ LastWord(s) # <<>> => Last(list) = LastStatement(s)

\* The statements of a text are those of what it begins with.
LEMMA StatementsOfLeft ==
  ASSUME NEW s \in Text, NEW t \in Text, NEW i \in Ends(s)
  PROVE  /\ Before(Cat(s, t), i) = Before(s, i)
         /\ Place(Cat(s, t), i) = Place(s, i)
         /\ Statement(Cat(s, t), i) = Statement(s, i)
  <1>1. i \in 1 .. Len(s)
    BY EndsType
  <1>2. Before(Cat(s, t), i) = Before(s, i) /\ Place(Cat(s, t), i) = Place(s, i)
    BY <1>1, PiecesOfLeft
  <1> QED
    BY <1>2, Zenon DEF Statement

\* What appending does to a list.
LEMMA AppendFacts ==
  ASSUME NEW A, NEW list \in Seq(A), NEW a \in A
  PROVE  /\ Append(list, a) \in Seq(A)
         /\ Len(Append(list, a)) = Len(list) + 1
         /\ \A i \in 1 .. Len(list) : Append(list, a)[i] = list[i]
         /\ Append(list, a)[Len(list) + 1] = a
  BY AppendProperties, LenProperties

\* One piece more, and its statement.
LEMMA AddPiece ==
  ASSUME NEW head \in Text, Closed(head), Fits(head),
         NEW list \in Seq(Data), Len(list) = Cardinality(Ends(head)), Listed(head, list),
         NEW p \in Clean, Len(Encode(p)) + 1 <= MaxToken,
         NEW more, more = Cat(head, Cat(p, <<"semicolon">>)),
         NEW longer, longer = Append(list, Encode(TrimLeft(p)))
  PROVE  /\ more \in Text /\ Closed(more) /\ Fits(more)
         /\ longer \in Seq(Data) /\ Len(longer) = Cardinality(Ends(more)) /\ Listed(more, longer)
  <1> DEFINE e == <<"semicolon">>
             q == Cat(p, e)
             a == Encode(TrimLeft(p))
             n == Len(more)
  <1>1. /\ more \in Text /\ Closed(more)
        /\ Ends(more) = Ends(head) \cup {n}
        /\ Cardinality(Ends(more)) = Cardinality(Ends(head)) + 1
        /\ Before(more, n) = p
        /\ Place(more, n) = Cardinality(Ends(more))
    BY PieceAdded, SMTT(20)
  <1>2. q \in Text
    <2>1. p \in Text /\ e \in Text
      BY CleanBytes, Unit DEF Text, Runes
    <2> HIDE DEF e
    <2> QED
      BY <2>1, CatFacts DEF Text
  <1>3. a \in Data
    <2>1. TrimLeft(p) \in Clean
      BY TrimLeftIs DEF Clean
    <2> QED
      BY <2>1, CleanBytes
  <1>4. more = Cat(head, q)
    OBVIOUS
  <1>5. Statement(more, n) = a
    BY <1>1, Zenon DEF Statement
  <1> HIDE DEF q, a, n
  <1>6. /\ longer \in Seq(Data) /\ Len(longer) = Len(list) + 1
        /\ \A i \in 1 .. Len(list) : longer[i] = list[i]
        /\ longer[Len(list) + 1] = a
    BY <1>3, AppendFacts DEF a
  <1>7. \A i \in Ends(head) : /\ Before(more, i) = Before(head, i)
                              /\ Place(more, i) = Place(head, i)
                              /\ Statement(more, i) = Statement(head, i)
    BY <1>2, <1>4, StatementsOfLeft
  <1>8. Fits(more)
    <2> SUFFICES ASSUME NEW i \in Ends(more) PROVE Len(Encode(Before(more, i))) + 1 <= MaxToken
      BY DEF Fits
    <2>1. CASE i \in Ends(head)
      <3>1. Len(Encode(Before(head, i))) + 1 <= MaxToken
        BY <2>1 DEF Fits
      <3> QED
        BY <1>7, <2>1, <3>1
    <2>2. CASE i = n
      BY <1>1, <2>2
    <2> QED
      BY <1>1, <2>1, <2>2
  <1>9. Listed(more, longer)
    <2> SUFFICES ASSUME NEW i \in Ends(more) PROVE longer[Place(more, i)] = Statement(more, i)
      BY DEF Listed
    <2>1. CASE i \in Ends(head)
      <3>1. list[Place(head, i)] = Statement(head, i)
        BY <2>1 DEF Listed
      <3>2. Place(head, i) \in 1 .. Len(list)
        BY <2>1, PlaceType
      <3>3. longer[Place(head, i)] = list[Place(head, i)]
        BY <1>6, <3>2
      <3> QED
        BY <1>7, <2>1, <3>1, <3>3
    <2>2. CASE i = n
      <3>1. Place(more, n) = Len(list) + 1
        BY <1>1
      <3> QED
        BY <1>5, <1>6, <2>2, <3>1
    <2> QED
      BY <1>1, <2>1, <2>2
  <1>10. Len(longer) = Cardinality(Ends(more))
    BY <1>1, <1>6
  <1> QED
    BY <1>1, <1>6, <1>8, <1>9, <1>10

\* A file whose rest has no semicolon: whether it is too long, and its last word.
LEMMA WholeFile ==
  ASSUME NEW head \in Text, Closed(head), Fits(head), NEW tail \in Clean,
         Len(Encode(tail)) < MaxToken, NEW s, s = Cat(head, tail)
  PROVE  /\ s \in Text /\ ~TooLong(s) /\ Ends(s) = Ends(head)
         /\ LastWord(s) = TrimRight(TrimLeft(tail))
         /\ \A i \in Ends(head) : Place(s, i) = Place(head, i) /\ Statement(s, i) = Statement(head, i)
  <1>1. tail \in Text /\ Encode(tail) \in Data
    BY CleanBytes
  <1>2. s \in Text
    BY <1>1, CatFacts DEF Text
  <1>3. Ends(s) = Ends(head)
    BY EndsOfTail
  <1>4. Remainder(s) = tail
    BY RemainderIs
  <1>5. \A i \in Ends(head) : /\ Before(s, i) = Before(head, i)
                              /\ Place(s, i) = Place(head, i)
                              /\ Statement(s, i) = Statement(head, i)
    BY <1>1, StatementsOfLeft
  <1>6. LastWord(s) = TrimRight(TrimLeft(tail))
    BY <1>4, Zenon DEF LastWord
  <1>7. ~TooLong(s)
    <2>1. ~(Len(Encode(Remainder(s))) >= MaxToken)
      <3>1. Len(Encode(tail)) \in Nat
        BY <1>1, LenProperties DEF Data
      <3> QED
        BY <1>4, <3>1, SplitAssumption
    <2>2. ASSUME NEW i \in Ends(s) PROVE ~(Len(Encode(Before(s, i))) + 1 > MaxToken)
      <3>1. Len(Encode(Before(head, i))) + 1 <= MaxToken
        BY <1>3 DEF Fits
      <3>2. Len(Encode(Before(head, i))) \in Nat
        <4>1. Before(head, i) \in Text
          <5>1. Len(head) \in Nat /\ i \in 1 .. Len(head) /\ Ends(head) \subseteq 1 .. Len(head)
            BY <1>3, EndsType
          <5> DEFINE M == {j \in Ends(head) : j < i} \cup {0}
                     k == Max(M)
          <5>2. M \subseteq 0 .. i - 1 /\ 0 \in M /\ i - 1 \in Nat
            BY <5>1
          <5> HIDE DEF M
          <5>3. k \in 0 .. i - 1
            BY <5>2, MaxExists
          <5> HIDE DEF k
          <5>4. k + 1 \in 1 .. Len(head) + 1 /\ i - 1 \in (k + 1) - 1 .. Len(head)
            BY <5>1, <5>3
          <5>5. SubSeq(head, k + 1, i - 1) \in Seq(Runes)
            BY <5>4, PartFacts DEF Text
          <5>6. Before(head, i) = SubSeq(head, k + 1, i - 1)
            BY Zenon DEF Before, k, M
          <5> QED
            BY <5>5, <5>6 DEF Text
        <4> QED
          BY <4>1, EncodeType, LenProperties DEF Data
      <3> QED
        BY <1>3, <1>5, <3>1, <3>2, SplitAssumption
    <2> QED
      BY <2>1, <2>2 DEF TooLong
  <1> QED
    BY <1>2, <1>3, <1>5, <1>6, <1>7

\* At the end of a file with nothing but spaces left, everything has been found.
LEMMA NothingLeft ==
  ASSUME NEW head \in Text, Closed(head), Fits(head), NEW tail \in Clean,
         Len(Encode(tail)) < MaxToken, NEW s, s = Cat(head, tail),
         NEW list \in Seq(Data), Len(list) = Cardinality(Ends(head)), Listed(head, list),
         TrimRight(TrimLeft(tail)) = <<>>
  PROVE  RightFor(s, list)
  <1>1. /\ s \in Text /\ ~TooLong(s) /\ Ends(s) = Ends(head) /\ LastWord(s) = <<>>
        /\ \A i \in Ends(head) : Place(s, i) = Place(head, i) /\ Statement(s, i) = Statement(head, i)
    BY WholeFile
  <1>2. Listed(s, list)
    BY <1>1 DEF Listed
  <1>3. Len(list) = Cardinality(Ends(s)) + 0
    BY <1>1, EndsType
  <1> QED
    BY <1>1, <1>2, <1>3 DEF RightFor

\* With something else left, its words complete the list.
LEMMA LastAdded ==
  ASSUME NEW head \in Text, Closed(head), Fits(head), NEW tail \in Clean,
         Len(Encode(tail)) < MaxToken, NEW s, s = Cat(head, tail),
         NEW list \in Seq(Data), Len(list) = Cardinality(Ends(head)), Listed(head, list),
         TrimRight(TrimLeft(tail)) # <<>>, NEW a \in Data, a = WordBytes(TrimRight(TrimLeft(tail)))
  PROVE  RightFor(s, Append(list, a)) /\ Append(list, a) \in Seq(Data)
  <1> DEFINE longer == Append(list, a)
             w == TrimRight(TrimLeft(tail))
  <1>1. /\ s \in Text /\ ~TooLong(s) /\ Ends(s) = Ends(head) /\ LastWord(s) = w
        /\ \A i \in Ends(head) : Place(s, i) = Place(head, i) /\ Statement(s, i) = Statement(head, i)
    BY WholeFile
  <1>2. /\ longer \in Seq(Data) /\ Len(longer) = Len(list) + 1
        /\ \A i \in 1 .. Len(list) : longer[i] = list[i]
        /\ longer[Len(list) + 1] = a
    BY AppendFacts
  <1>3. LastStatement(s) = a
    <2>1. a = WordBytes(w)
      OBVIOUS
    <2> HIDE DEF w
    <2> QED
      BY <1>1, <2>1, Zenon DEF LastStatement, WordBytes
  <1>4. LastWord(s) # <<>>
    BY <1>1
  <1> HIDE DEF longer, w
  <1>5. Listed(s, longer)
    <2> SUFFICES ASSUME NEW i \in Ends(head) PROVE longer[Place(head, i)] = Statement(head, i)
      BY <1>1 DEF Listed
    <2>1. list[Place(head, i)] = Statement(head, i)
      BY DEF Listed
    <2>2. Place(head, i) \in 1 .. Len(list)
      BY PlaceType
    <2> QED
      BY <1>2, <2>1, <2>2
  <1>6. Last(longer) = a
    BY <1>2 DEF Last
  <1>7. Len(longer) = Cardinality(Ends(s)) + 1
    BY <1>1, <1>2
  <1>8. RightFor(s, longer)
    BY <1>1, <1>3, <1>4, <1>5, <1>6, <1>7 DEF RightFor
  <1> QED
    BY <1>2, <1>8 DEF longer

\* A file with a piece that does not fit, or a rest that does not.
LEMMA TooLongFor ==
  ASSUME NEW head \in Text, Closed(head), NEW tail \in Text, NEW s, s = Cat(head, tail),
         \/ tail \in Clean /\ Len(Encode(tail)) >= MaxToken
         \/ \E p \in Clean, r \in Text : /\ tail = Cat(p, Cat(<<"semicolon">>, r))
                                         /\ Len(Encode(p)) + 1 > MaxToken
  PROVE  TooLong(s)
  <1>1. CASE tail \in Clean /\ Len(Encode(tail)) >= MaxToken
    <2>1. Remainder(s) = tail
      BY <1>1, RemainderIs
    <2> QED
      BY <1>1, <2>1 DEF TooLong
  <1>2. ASSUME NEW p \in Clean, NEW r \in Text,
               tail = Cat(p, Cat(<<"semicolon">>, r)), Len(Encode(p)) + 1 > MaxToken
        PROVE  TooLong(s)
    <2> DEFINE e == <<"semicolon">>
               q == Cat(p, e)
               more == Cat(head, q)
               n == Len(more)
    <2>1. p \in Text /\ e \in Text /\ tail = Cat(q, r)
      BY <1>2, EncodeCut
    <2>2. /\ more \in Text
          /\ Ends(more) = Ends(head) \cup {n}
          /\ Before(more, n) = p
      BY PieceAdded
    <2> HIDE DEF e
    <2>3. q \in Text
      BY <2>1, CatFacts DEF Text
    <2> HIDE DEF q
    <2>4. s = Cat(more, r)
      BY <2>1, <2>3, CatAssociative DEF Text
    <2> HIDE DEF more
    <2>5. n \in Ends(more) /\ n \in 1 .. Len(more) /\ Len(more) \in Nat
      BY <2>2, EndsType
    <2>6. Before(s, n) = p
      BY <2>2, <2>4, <2>5, StatementsOfLeft
    <2>7. n \in Ends(s)
      BY <2>2, <2>4, <2>5, EndsOfLeft
    <2> QED
      BY <1>2, <2>6, <2>7 DEF TooLong
  <1> QED
    BY <1>1, <1>2

-----------------------------------------------------------------------------
(* The scanner *)

\* The file from where the scanner is: the pieces of the head have been taken, the
\* tail is in the buffer or has not been read.
AtTail(head, tail) ==
  /\ file = Cat(head, tail) /\ Closed(head)
  /\ Fits(head) /\ Listed(head, stmts) /\ Len(stmts) = Cardinality(Ends(head))
  /\ Cat(buffer, unread) = Encode(tail)
  /\ eof => tail \in Clean /\ Len(buffer) < MaxToken

\* What the variables are, and that a file is at its end when nothing is unread.
SType ==
  /\ file \in Text /\ unread \in Data /\ buffer \in Data /\ eof \in BOOLEAN
  /\ stmts \in Seq(Data) /\ Len(buffer) <= MaxToken
  /\ eof => unread = <<>>

\* The invariant, for each state of the reader.
SInv ==
  /\ SType
  /\ reading = "idle" => file = <<>> /\ unread = <<>> /\ buffer = <<>> /\ eof = FALSE /\ stmts = <<>>
  /\ reading = "scanning" =>
       \/ \E head \in Text, tail \in Text : AtTail(head, tail)
       \/ eof /\ buffer = <<>> /\ RightFor(file, stmts)
  /\ reading = "done" => RightFor(file, stmts)
  /\ reading = "failed" => TooLong(file)

\* A buffer without semicolons is never a statement's before the end of the file.
LEMMA NothingFound ==
  ASSUME NEW head \in Text, NEW tail \in Text, SType, AtTail(head, tail), Found = MoreData
  PROVE  Semicolons(buffer) = {}
  <1>1. buffer \in Data /\ Semicolons(buffer) \subseteq 1 .. Len(buffer) /\ Len(buffer) \in Nat
    BY ScanSets DEF SType
  <1>2. CASE buffer = <<>>
    BY <1>1, <1>2, EmptySeq
  <1>3. CASE buffer # <<>>
    <2>1. scanStmts(buffer, eof) = MoreData
      BY <1>3, Zenon DEF Found
    <2> SUFFICES ASSUME Semicolons(buffer) # {} PROVE FALSE
      OBVIOUS
    <2>2. scanStmts(buffer, eof).advance = Min(Semicolons(buffer))
      BY DEF scanStmts
    <2>3. MoreData.advance = 0
      BY DEF MoreData
    <2>4. Min(Semicolons(buffer)) \in Semicolons(buffer)
      <3>1. Semicolons(buffer) \subseteq Nat
        BY <1>1
      <3> QED
        BY <3>1, MinExists
    <2> QED
      BY <1>1, <2>1, <2>2, <2>3, <2>4
  <1> QED
    BY <1>2, <1>3

\* A buffer and what is unread, with the first semicolon in the tail.
LEMMA TailWithSemicolon ==
  ASSUME NEW head \in Text, NEW tail \in Text, SType, AtTail(head, tail), tail \notin Clean
  PROVE  \E p \in Clean, r \in Text :
           /\ tail = Cat(p, Cat(<<"semicolon">>, r))
           /\ Cat(buffer, unread) = Cat(Encode(p), Cat(<<"semicolon">>, Encode(r)))
           /\ Semicolons(buffer) # {} <=> Len(Encode(p)) + 1 <= Len(buffer)
  <1> DEFINE e == <<"semicolon">>
  <1>1. PICK p \in Clean, r \in Text : tail = Cat(p, Cat(e, r))
    BY CutTail
  <1>2. Cat(buffer, unread) = Cat(Encode(p), Cat(e, Encode(r))) /\ Encode(r) \in Data
    BY <1>1, EncodeCut DEF AtTail
  <1>3. Semicolons(buffer) # {} <=> Len(Encode(p)) + 1 <= Len(buffer)
    BY <1>2, SemicolonRead DEF SType
  <1> QED
    BY <1>1, <1>2, <1>3

\* With no semicolon in the tail there is none in the buffer.
LEMMA TailWithout ==
  ASSUME NEW head \in Text, NEW tail \in Clean, SType, AtTail(head, tail)
  PROVE  Semicolons(buffer) = {}
  <1>1. buffer \in Data /\ unread \in Data /\ DOMAIN buffer = 1 .. Len(buffer)
    BY ScanSets DEF SType
  <1>2. \A m \in 1 .. Len(Encode(tail)) : Encode(tail)[m] # "semicolon"
    BY CleanBytes
  <1>3. Cat(buffer, unread) = Encode(tail)
    BY DEF AtTail
  <1>4. Len(Encode(tail)) = Len(buffer) + Len(unread) /\ Len(buffer) \in Nat /\ Len(unread) \in Nat
    BY <1>1, <1>3, CatFacts DEF Data
  <1>5. \A m \in 1 .. Len(buffer) : buffer[m] # "semicolon"
    <2> TAKE m \in 1 .. Len(buffer)
    <2>1. Cat(buffer, unread)[m] = buffer[m]
      BY <1>1, CatLeft DEF Data
    <2>2. m \in 1 .. Len(Encode(tail))
      BY <1>4
    <2> QED
      BY <1>2, <1>3, <2>1, <2>2
  <1> QED
    BY <1>1, <1>5 DEF Semicolons

\* An empty text trimmed is empty.
LEMMA EmptyTrimmed == TrimRight(TrimLeft(<<>>)) = <<>>
  <1> DEFINE s == <<>>
             c == TrimLeft(s)
             w == TrimRight(c)
  <1>1. s \in Text /\ Len(s) = 0
    BY EmptySeq DEF Text
  <1> HIDE DEF s
  <1>2. c \in Text /\ \E b \in Blanks : s = Cat(b, c)
    BY <1>1, TrimLeftIs DEF Text
  <1> HIDE DEF c
  <1>3. w \in Text /\ \E d \in Blanks : c = Cat(w, d)
    BY <1>2, TrimRightIs DEF Text
  <1> HIDE DEF w
  <1>4. Len(c) = 0
    <2>1. PICK b \in Blanks : s = Cat(b, c)
      BY <1>2
    <2>2. b \in Text
      BY BlankBytes
    <2>3. Len(s) = Len(b) + Len(c) /\ Len(b) \in Nat /\ Len(c) \in Nat
      BY <1>2, <2>1, <2>2, CatFacts DEF Text
    <2> DEFINE k == Len(b)
               l == Len(c)
    <2>4. 0 = k + l /\ k \in Nat /\ l \in Nat
      BY <1>1, <2>3
    <2> HIDE DEF k, l
    <2>5. l = 0
      BY <2>4
    <2> QED
      BY <2>5 DEF l
  <1>5. Len(w) = 0
    <2>1. PICK d \in Blanks : c = Cat(w, d)
      BY <1>3
    <2>2. d \in Text
      BY BlankBytes
    <2>3. Len(c) = Len(w) + Len(d) /\ Len(w) \in Nat /\ Len(d) \in Nat
      BY <1>3, <2>1, <2>2, CatFacts DEF Text
    <2> DEFINE k == Len(d)
               l == Len(w)
    <2>4. 0 = k + l /\ k \in Nat /\ l \in Nat
      BY <1>4, <2>3
    <2> HIDE DEF k, l
    <2>5. l = 0
      BY <2>4
    <2> QED
      BY <2>5 DEF l
  <1>6. w = <<>>
    BY <1>3, <1>5, EmptySeq DEF Text
  <1> QED
    BY <1>6 DEF w, c, s

\* Once everything has been taken at the end of the file, nothing is found.
LEMMA NothingInNothing == scanStmts(<<>>, TRUE) = MoreData
  <1> DEFINE s == <<>>
  <1>1. s \in Clean /\ Encode(s) = s /\ TrimRight(TrimLeft(s)) = <<>>
    BY EmptySeq, EncodeNothing, EmptyTrimmed DEF Clean
  <1> HIDE DEF s
  <1>2. scanStmts(Encode(s), TRUE) = MoreData
    BY <1>1, ScanBlank
  <1> QED
    BY <1>1, <1>2 DEF s

\* A statement taken from the buffer, with its semicolon.
LEMMA TakePiece ==
  ASSUME SInv, TakeStatement, NEW head \in Text, NEW tail \in Text, AtTail(head, tail),
         Semicolons(buffer) # {}
  PROVE  SInv'
  <1> DEFINE e == <<"semicolon">>
             empty == <<>>
             one == 1
  <1>0. SType /\ buffer \in Data /\ unread \in Data /\ stmts \in Seq(Data) /\ Len(buffer) <= MaxToken
    BY DEF SInv, SType
  <1>1. tail \notin Clean
    BY <1>0, TailWithout
  <1>2. ~eof
    BY <1>1 DEF AtTail
  <1> PICK p \in Clean, r \in Text :
           /\ tail = Cat(p, Cat(<<"semicolon">>, r))
           /\ Cat(buffer, unread) = Cat(Encode(p), Cat(<<"semicolon">>, Encode(r)))
           /\ Semicolons(buffer) # {} <=> Len(Encode(p)) + 1 <= Len(buffer)
    BY <1>0, <1>1, TailWithSemicolon
  <1>3. /\ tail = Cat(p, Cat(e, r)) /\ Cat(buffer, unread) = Cat(Encode(p), Cat(e, Encode(r)))
        /\ Len(Encode(p)) + 1 <= Len(buffer)
    OBVIOUS
  <1>4. Encode(p) \in Data /\ Encode(r) \in Data /\ e \in Data /\ p \in Text /\ e \in Text /\ Len(e) = one
    BY EncodeCut, Unit
  <1>5. empty \in Data /\ Len(empty) = 0 /\ one = 1
    BY EmptySeq DEF Data
  <1> DEFINE x == Cat(Encode(p), e)
             q == Cat(p, e)
             more == Cat(head, q)
             longer == Append(stmts, Encode(TrimLeft(p)))
             k == Len(Encode(p))
  <1>6. more = Cat(head, Cat(p, <<"semicolon">>))
    OBVIOUS
  <1> HIDE DEF e, empty, one
  <1>7. x \in Data /\ Len(x) = k + one /\ k \in Nat /\ Len(buffer) \in Nat
    BY <1>0, <1>4, CatFacts DEF Data
  <1>8. Cat(buffer, unread) = Cat(x, Encode(r))
    BY <1>3, <1>4, CatAssociative DEF Data
  <1>9. Len(x) <= Len(buffer) /\ Len(x) = k + 1
    <2> HIDE DEF x, k
    <2> QED
      BY <1>3, <1>5, <1>7 DEF k
  <1>10. PICK y \in Data : buffer = Cat(x, y) /\ Cat(y, unread) = Encode(r)
    <2> HIDE DEF x
    <2> QED
      BY <1>0, <1>4, <1>7, <1>8, <1>9, Overlap DEF Data
  <1>11. buffer = Cat(Encode(p), Cat(e, y))
    BY <1>4, <1>10, CatAssociative DEF Data
  <1>12. scanStmts(buffer, eof) = [advance |-> k + 1, token |-> Encode(TrimLeft(p))]
    BY <1>0, <1>11, ScanClosed DEF e
  <1>13. buffer # <<>>
    <2> HIDE DEF k, x
    <2> QED
      BY <1>5, <1>7, <1>9 DEF empty
  <1> HIDE DEF x, k
  <1>14. Found.advance = k + 1 /\ Found.token = Encode(TrimLeft(p))
    <2>1. Found = [advance |-> k + 1, token |-> Encode(TrimLeft(p))]
      BY <1>12, <1>13, Zenon DEF Found
    <2> QED
      BY <2>1
  <1>15. stmts' = longer /\ buffer' = SubSeq(buffer, (k + 1) + 1, Len(buffer))
    BY <1>14 DEF TakeStatement
  <1>16. buffer' = y
    <2>1. SubSeq(Cat(x, Cat(y, empty)), Len(x) + 1, Len(x) + Len(y)) = y
      BY <1>5, <1>7, Middle DEF Data
    <2>2. Cat(y, empty) = y
      BY CatEmpty DEF Data, empty
    <2>3. Len(buffer) = Len(x) + Len(y)
      BY <1>7, <1>10, CatFacts DEF Data
    <2> QED
      BY <1>9, <1>10, <1>15, <2>1, <2>2, <2>3
  <1>17. file' = file /\ unread' = unread /\ eof' = eof /\ reading' = reading /\ reading = "scanning"
    BY DEF TakeStatement
  <1>18. k + 1 <= MaxToken
    BY <1>0, <1>5, <1>7, <1>9, SplitAssumption
  <1>19. /\ more \in Text /\ Closed(more) /\ Fits(more)
         /\ longer \in Seq(Data) /\ Len(longer) = Cardinality(Ends(more)) /\ Listed(more, longer)
    BY <1>0, <1>6, <1>18, AddPiece DEF AtTail, k
  <1>20. file = Cat(more, r)
    <2>1. file = Cat(head, Cat(q, r)) /\ q \in Text
      BY <1>3, <1>4, CatAssociative, CatFacts DEF AtTail, Text
    <2> HIDE DEF q
    <2> QED
      BY <2>1, CatAssociative DEF Text
  <1> HIDE DEF more, longer, q
  <1>21. AtTail(more, r)'
    BY <1>2, <1>10, <1>15, <1>16, <1>17, <1>19, <1>20 DEF AtTail
  <1>22. Len(y) <= MaxToken
    <2>1. Len(buffer) = Len(x) + Len(y) /\ Len(y) \in Nat
      BY <1>7, <1>10, CatFacts DEF Data
    <2> QED
      BY <1>0, <1>5, <1>7, <1>9, <2>1, SplitAssumption
  <1>23. SType'
    BY <1>0, <1>2, <1>15, <1>16, <1>17, <1>19, <1>22 DEF SType
  <1> QED
    BY <1>17, <1>19, <1>21, <1>23 DEF SInv

\* At the end of the file the buffer holds all that is left.
LEMMA BufferAtEnd ==
  ASSUME NEW head \in Text, NEW tail \in Text, SType, AtTail(head, tail), unread = <<>>
  PROVE  buffer = Encode(tail) /\ (Semicolons(buffer) = {} => tail \in Clean)
  <1>1. Cat(buffer, <<>>) = buffer
    BY CatEmpty DEF SType, Data
  <1>2. buffer = Encode(tail)
    BY <1>1 DEF AtTail
  <1>3. ASSUME tail \notin Clean PROVE Semicolons(buffer) # {}
    <2> PICK p \in Clean, r \in Text :
             /\ tail = Cat(p, Cat(<<"semicolon">>, r))
             /\ Cat(buffer, unread) = Cat(Encode(p), Cat(<<"semicolon">>, Encode(r)))
             /\ Semicolons(buffer) # {} <=> Len(Encode(p)) + 1 <= Len(buffer)
      BY <1>3, TailWithSemicolon
    <2> DEFINE e == <<"semicolon">>
               z == Cat(e, Encode(r))
               one == 1
               k == Len(Encode(p))
    <2>1. Encode(p) \in Data /\ Encode(r) \in Data /\ e \in Data /\ Len(e) = one
      BY EncodeCut, Unit
    <2>2. buffer = Cat(Encode(p), z) /\ one = 1
      BY <1>1
    <2> HIDE DEF e, one
    <2>3. z \in Data /\ Len(z) = one + Len(Encode(r)) /\ Len(Encode(r)) \in Nat
      BY <2>1, CatFacts DEF Data
    <2> HIDE DEF z
    <2>4. Len(buffer) = k + Len(z) /\ k \in Nat
      BY <2>1, <2>2, <2>3, CatFacts DEF Data
    <2> HIDE DEF k
    <2>5. k + 1 <= Len(buffer)
      BY <2>2, <2>3, <2>4
    <2> QED
      BY <2>5 DEF k
  <1> QED
    BY <1>2, <1>3

\* The last statement taken, at the end of the file.
LEMMA TakeLast ==
  ASSUME SInv, TakeStatement, NEW head \in Text, NEW tail \in Text, AtTail(head, tail),
         Semicolons(buffer) = {}
  PROVE  SInv'
  <1>0. /\ SType /\ buffer \in Data /\ stmts \in Seq(Data) /\ eof \in BOOLEAN
        /\ eof => unread = <<>>
    BY DEF SInv, SType
  <1>1. buffer # <<>> \/ eof
    BY Zenon DEF TakeStatement, Found
  <1>2. Found = scanStmts(buffer, eof) /\ Found # MoreData
    BY <1>1, Zenon DEF TakeStatement, Found
  <1>3. eof
    BY <1>0, <1>2, ScanMore
  <1>4. tail \in Clean /\ Len(buffer) < MaxToken /\ unread = <<>>
    BY <1>0, <1>3 DEF AtTail
  <1>5. buffer = Encode(tail)
    BY <1>0, <1>4, BufferAtEnd
  <1> DEFINE w == TrimRight(TrimLeft(tail))
             a == WordBytes(w)
             longer == Append(stmts, a)
  <1>6. eof = TRUE
    BY <1>0, <1>3
  <1>7. w # <<>>
    <2> SUFFICES ASSUME w = <<>> PROVE FALSE
      OBVIOUS
    <2>1. scanStmts(Encode(tail), TRUE) = MoreData
      BY <1>4, ScanBlank
    <2> QED
      BY <1>2, <1>5, <1>6, <2>1
  <1>8. scanStmts(Encode(tail), TRUE) = [advance |-> Len(Encode(tail)), token |-> a] /\ a \in Data
    BY <1>4, <1>7, ScanLast
  <1>9. RightFor(file, longer) /\ longer \in Seq(Data)
    <2>1. file = Cat(head, tail) /\ Closed(head) /\ Fits(head)
          /\ Listed(head, stmts) /\ Len(stmts) = Cardinality(Ends(head))
      BY DEF AtTail
    <2> HIDE DEF a
    <2>2. a = WordBytes(TrimRight(TrimLeft(tail)))
      BY DEF a
    <2> QED
      BY <1>0, <1>4, <1>5, <1>7, <1>8, <2>1, <2>2, LastAdded
  <1> HIDE DEF a, w
  <1>10. Found.advance = Len(buffer) /\ Found.token = a
    <2>1. Found = [advance |-> Len(buffer), token |-> a]
      BY <1>2, <1>5, <1>6, <1>8, Zenon
    <2> QED
      BY <2>1
  <1>11. stmts' = longer /\ buffer' = SubSeq(buffer, Len(buffer) + 1, Len(buffer))
    BY <1>10 DEF TakeStatement
  <1>12. buffer' = <<>>
    <2>1. Len(buffer) \in Nat
      BY <1>0, LenProperties DEF Data
    <2>2. Len(buffer) + 1 \in 1 .. Len(buffer) + 1 /\ Len(buffer) \in (Len(buffer) + 1) - 1 .. Len(buffer)
      BY <2>1
    <2>3. /\ SubSeq(buffer, Len(buffer) + 1, Len(buffer)) \in Seq(Octets)
          /\ Len(SubSeq(buffer, Len(buffer) + 1, Len(buffer))) = Len(buffer) - ((Len(buffer) + 1) - 1)
      BY <1>0, <2>2, PartFacts DEF Data
    <2>4. Len(buffer) - ((Len(buffer) + 1) - 1) = 0
      BY <2>1
    <2> QED
      BY <1>11, <2>3, <2>4, EmptySeq
  <1>13. file' = file /\ unread' = unread /\ eof' = eof /\ reading' = reading /\ reading = "scanning"
    BY DEF TakeStatement
  <1> HIDE DEF longer
  <1>14. (eof /\ buffer = <<>> /\ RightFor(file, stmts))'
    BY <1>3, <1>9, <1>11, <1>12, <1>13
  <1>15. SType'
    <2>1. <<>> \in Data /\ Len(<<>>) <= MaxToken
      BY EmptySeq, SplitAssumption DEF Data
    <2> QED
      BY <1>0, <1>9, <1>11, <1>12, <1>13, <2>1 DEF SType
  <1> QED
    BY <1>13, <1>14, <1>15 DEF SInv

\* A statement taken, with its semicolon or at the end of the file.
LEMMA TakeStep ==
  ASSUME SInv, TakeStatement
  PROVE  SInv'
  <1>1. reading = "scanning" /\ Found # MoreData
    BY DEF TakeStatement
  <1>2. CASE eof /\ buffer = <<>>
    <2>1. Found = scanStmts(<<>>, TRUE)
      <3>1. eof = TRUE
        BY <1>2 DEF SInv, SType
      <3> QED
        BY <1>2, <3>1, Zenon DEF Found
    <2> QED
      BY <1>1, <2>1, NothingInNothing
  <1>3. ASSUME NEW head \in Text, NEW tail \in Text, AtTail(head, tail) PROVE SInv'
    <2>1. CASE Semicolons(buffer) = {}
      BY <1>3, <2>1, TakeLast
    <2>2. CASE Semicolons(buffer) # {}
      BY <1>3, <2>2, TakePiece
    <2> QED
      BY <2>1, <2>2
  <1> QED
    BY <1>1, <1>2, <1>3 DEF SInv

\* A read moves bytes from the file to the buffer, or finds the end of the file.
LEMMA ReadStep ==
  ASSUME SInv, ReadMore
  PROVE  SInv'
  <1>0. /\ SType /\ buffer \in Data /\ unread \in Data /\ stmts \in Seq(Data) /\ eof \in BOOLEAN
        /\ Len(buffer) \in Nat /\ Len(unread) \in Nat /\ file \in Text
    BY LenProperties DEF SInv, SType, Data
  <1>1. /\ reading = "scanning" /\ Found = MoreData /\ ~eof /\ Len(buffer) < MaxToken
        /\ file' = file /\ stmts' = stmts /\ reading' = reading
    BY DEF ReadMore
  <1> PICK head \in Text, tail \in Text : AtTail(head, tail)
    BY <1>1 DEF SInv
  <1>2. Semicolons(buffer) = {}
    BY <1>0, <1>1, NothingFound
  <1>3. /\ file = Cat(head, tail) /\ Closed(head) /\ Fits(head) /\ Listed(head, stmts)
        /\ Len(stmts) = Cardinality(Ends(head)) /\ Cat(buffer, unread) = Encode(tail)
    BY DEF AtTail
  <1>4. ASSUME NEW n \in 1 .. Min({MaxToken - Len(buffer), Len(unread)}),
               buffer' = buffer \o SubSeq(unread, 1, n),
               unread' = SubSeq(unread, n + 1, Len(unread)), eof' = eof
        PROVE  SInv'
    <2> DEFINE m == MaxToken - Len(buffer)
               l == Len(unread)
               k == Len(buffer)
    <2>1. n \in 0 .. l /\ n <= m /\ m \in Nat
      <3>1. m \in Nat /\ l \in Nat
        BY <1>0, <1>1, SplitAssumption
      <3>2. {m, l} \subseteq Nat /\ {m, l} # {} /\ n \in 1 .. Min({m, l})
        BY <1>4, <3>1
      <3> HIDE DEF m, l
      <3>3. Min({m, l}) <= m /\ Min({m, l}) <= l /\ Min({m, l}) \in Nat
        BY <3>2, MinExists
      <3> QED
        BY <3>1, <3>2, <3>3
    <2> DEFINE x == SubSeq(unread, 1, n)
               y == SubSeq(unread, n + 1, Len(unread))
    <2>2. unread = Cat(x, y)
      BY <1>0, <2>1, CutAt DEF Data
    <2>3. x \in Data /\ Len(x) = n
      BY <1>0, <2>1, StartFacts DEF Data
    <2>4. y \in Data
      <3>1. n + 1 \in 1 .. Len(unread) + 1 /\ Len(unread) \in (n + 1) - 1 .. Len(unread)
        BY <1>0, <2>1
      <3> QED
        BY <1>0, <3>1, PartFacts DEF Data
    <2>5. buffer' = Cat(buffer, x) /\ unread' = y
      BY <1>4 DEF Cat
    <2> HIDE DEF x, y
    <2>6. Cat(buffer', unread') = Encode(tail)
      BY <1>0, <1>3, <2>2, <2>3, <2>4, <2>5, CatAssociative DEF Data
    <2>7. buffer' \in Data /\ Len(buffer') = k + n
      BY <1>0, <2>3, <2>5, CatFacts DEF Data
    <2>8. Len(buffer') <= MaxToken
      <3>1. n <= MaxToken - k /\ k \in Nat /\ n \in Nat
        BY <1>0, <2>1
      <3> HIDE DEF k
      <3> QED
        BY <2>7, <3>1, SplitAssumption
    <2>9. AtTail(head, tail)'
      BY <1>1, <1>3, <1>4, <2>6 DEF AtTail
    <2>10. SType'
      BY <1>0, <1>1, <1>4, <2>4, <2>5, <2>7, <2>8 DEF SType
    <2> QED
      BY <1>1, <2>9, <2>10 DEF SInv
  <1>5. ASSUME unread = <<>>, eof' = TRUE, buffer' = buffer, unread' = unread
        PROVE  SInv'
    <2>1. tail \in Clean
      BY <1>0, <1>2, <1>5, BufferAtEnd
    <2>2. AtTail(head, tail)'
      BY <1>1, <1>3, <1>5, <2>1 DEF AtTail
    <2>3. SType'
      BY <1>0, <1>1, <1>5 DEF SType
    <2> QED
      BY <1>1, <2>2, <2>3 DEF SInv
  <1> QED
    BY <1>4, <1>5 DEF ReadMore

\* The scanner stops: everything has been found, or something did not fit.
LEMMA EndStep ==
  ASSUME SInv, EndScan
  PROVE  SInv'
  <1>0. /\ SType /\ buffer \in Data /\ unread \in Data /\ stmts \in Seq(Data) /\ eof \in BOOLEAN
        /\ Len(buffer) \in Nat /\ Len(unread) \in Nat /\ (eof => unread = <<>>)
    BY LenProperties DEF SInv, SType, Data
  <1>1. /\ reading = "scanning" /\ Found = MoreData
        /\ file' = file /\ unread' = unread /\ buffer' = buffer /\ eof' = eof /\ stmts' = stmts
    BY DEF EndScan
  <1>2. SType'
    BY <1>0, <1>1 DEF SType
  <1>3. CASE eof /\ reading' = "done"
    <2>1. eof = TRUE /\ unread = <<>>
      BY <1>0, <1>3
    <2>2. RightFor(file, stmts)
      <3>1. ASSUME NEW head \in Text, NEW tail \in Text, AtTail(head, tail)
            PROVE  RightFor(file, stmts)
        <4>1. /\ file = Cat(head, tail) /\ Closed(head) /\ Fits(head) /\ Listed(head, stmts)
              /\ Len(stmts) = Cardinality(Ends(head)) /\ tail \in Clean /\ Len(buffer) < MaxToken
          BY <1>3, <3>1 DEF AtTail
        <4>2. buffer = Encode(tail)
          BY <1>0, <2>1, <3>1, BufferAtEnd
        <4>3. TrimRight(TrimLeft(tail)) = <<>>
          <5> SUFFICES ASSUME TrimRight(TrimLeft(tail)) # <<>> PROVE FALSE
            OBVIOUS
          <5> DEFINE k == Len(Encode(tail))
                     a == WordBytes(TrimRight(TrimLeft(tail)))
          <5>1. scanStmts(Encode(tail), TRUE) = [advance |-> k, token |-> a] /\ k >= 1
            BY <4>1, ScanLast
          <5>2. scanStmts(Encode(tail), TRUE) = MoreData
            BY <1>1, <2>1, <4>2, Zenon DEF Found
          <5> HIDE DEF k, a
          <5>3. [advance |-> k, token |-> a] = [advance |-> 0, token |-> <<>>]
            BY <5>1, <5>2, Zenon DEF MoreData
          <5>4. [advance |-> k, token |-> a].advance = [advance |-> 0, token |-> <<>>].advance
            BY <5>3, Zenon
          <5>5. k = 0
            BY <5>4
          <5> QED
            BY <5>1, <5>5
        <4> QED
          BY <1>0, <4>1, <4>2, <4>3, NothingLeft
      <3> QED
        BY <1>1, <3>1 DEF SInv
    <2> QED
      BY <1>1, <1>2, <1>3, <2>2 DEF SInv
  <1>4. CASE ~eof /\ Len(buffer) = MaxToken /\ reading' = "failed"
    <2> PICK head \in Text, tail \in Text : AtTail(head, tail)
      BY <1>1, <1>4 DEF SInv
    <2>1. file = Cat(head, tail) /\ Closed(head) /\ Cat(buffer, unread) = Encode(tail)
      BY DEF AtTail
    <2>2. Semicolons(buffer) = {}
      BY <1>0, <1>1, NothingFound
    <2>3. TooLong(file)
      <3>1. CASE tail \in Clean
        <4>1. Len(Encode(tail)) = Len(buffer) + Len(unread)
          BY <1>0, <2>1, CatFacts DEF Data
        <4>2. Len(Encode(tail)) >= MaxToken
          BY <1>0, <1>4, <4>1, SplitAssumption
        <4>3. tail \in Clean /\ Len(Encode(tail)) >= MaxToken
          BY <3>1, <4>2
        <4> QED
          BY <2>1, <4>3, TooLongFor
      <3>2. CASE tail \notin Clean
        <4> PICK p \in Clean, r \in Text :
                 /\ tail = Cat(p, Cat(<<"semicolon">>, r))
                 /\ Cat(buffer, unread) = Cat(Encode(p), Cat(<<"semicolon">>, Encode(r)))
                 /\ Semicolons(buffer) # {} <=> Len(Encode(p)) + 1 <= Len(buffer)
          BY <1>0, <3>2, TailWithSemicolon
        <4>1. Len(Encode(p)) \in Nat
          BY CleanBytes, LenProperties DEF Data
        <4>2. Len(Encode(p)) + 1 > MaxToken
          BY <1>4, <2>2, <4>1, SplitAssumption
        <4>3. \E p2 \in Clean, r2 \in Text : /\ tail = Cat(p2, Cat(<<"semicolon">>, r2))
                                               /\ Len(Encode(p2)) + 1 > MaxToken
          BY <4>2
        <4> QED
          BY <2>1, <4>3, TooLongFor
      <3> QED
        BY <3>1, <3>2
    <2> QED
      BY <1>1, <1>2, <1>4, <2>3 DEF SInv
  <1> QED
    BY <1>3, <1>4 DEF EndScan

\* Opening a file: all of it is tail.
LEMMA OpenStep ==
  ASSUME SInv, OpenFile
  PROVE  SInv'
  <1> DEFINE empty == <<>>
  <1>1. /\ reading' = "scanning" /\ unread' = Encode(file') /\ file' \in Text
        /\ buffer' = empty /\ eof' = FALSE /\ stmts' = empty
    BY SplitAssumption DEF OpenFile, SInv, Text
  <1> PICK f \in Text : f = file'
    BY <1>1
  <1>2. Encode(f) \in Data
    BY EncodeType
  <1>3. empty \in Text /\ empty \in Data /\ empty \in Seq(Data) /\ Len(empty) = 0
    BY EmptySeq DEF Text, Data
  <1>4. Ends(empty) = {} /\ Cardinality(Ends(empty)) = 0
    <2>1. Ends(empty) \subseteq 1 .. Len(empty)
      <3> HIDE DEF empty
      <3> QED
        BY <1>3, EndsType
    <2>2. 1 .. 0 = {}
      OBVIOUS
    <2> HIDE DEF empty
    <2>3. Ends(empty) = {}
      BY <1>3, <2>1, <2>2
    <2> QED
      BY <2>3, FS_EmptySet
  <1>5. Fits(empty) /\ Listed(empty, empty) /\ Closed(empty)
    BY <1>4 DEF Fits, Listed, Closed
  <1>6. Cat(empty, f) = f /\ Cat(empty, Encode(f)) = Encode(f)
    BY <1>2, CatEmpty DEF Text, Data
  <1> HIDE DEF empty
  <1>7. AtTail(empty, f)'
    BY <1>1, <1>3, <1>4, <1>5, <1>6 DEF AtTail
  <1>8. SType'
    <2>1. 0 <= MaxToken
      BY SplitAssumption
    <2> QED
      BY <1>1, <1>2, <1>3, <2>1 DEF SType
  <1> QED
    BY <1>1, <1>3, <1>7, <1>8 DEF SInv

\* Before a file, and after it.
LEMMA IdleStates ==
  ASSUME file = <<>>, unread = <<>>, buffer = <<>>, eof = FALSE, stmts = <<>>, reading = "idle"
  PROVE  SInv
  <1>1. <<>> \in Text /\ <<>> \in Data /\ <<>> \in Seq(Data) /\ Len(<<>>) = 0
    BY EmptySeq DEF Text, Data
  <1>2. 0 <= MaxToken
    BY SplitAssumption
  <1>3. SType
    BY <1>1, <1>2 DEF SType
  <1> QED
    BY <1>3 DEF SInv

\* The scanner's invariant: between two calls of scanStmts the file is in two parts,
\* the pieces found, each a statement in its place, and a tail of which the buffer
\* holds the beginning.
THEOREM SplitInvariance == SplitSpec => []SInv
  <1>1. SplitInit => SInv
    BY IdleStates DEF SplitInit
  <1>2. SInv /\ [SplitNext]_splitVars => SInv'
    <2> SUFFICES ASSUME SInv, [SplitNext]_splitVars PROVE SInv'
      OBVIOUS
    <2>1. CASE OpenFile
      BY <2>1, OpenStep
    <2>2. CASE TakeStatement
      BY <2>2, TakeStep
    <2>3. CASE ReadMore
      BY <2>3, ReadStep
    <2>4. CASE EndScan
      BY <2>4, EndStep
    <2>5. CASE CloseFile
      <3>1. /\ file' = <<>> /\ unread' = <<>> /\ buffer' = <<>> /\ eof' = FALSE /\ stmts' = <<>>
            /\ reading' = "idle"
        BY <2>5 DEF CloseFile
      <3>2. <<>> \in Text /\ <<>> \in Data /\ <<>> \in Seq(Data) /\ Len(<<>>) = 0 /\ 0 <= MaxToken
        BY EmptySeq, SplitAssumption DEF Text, Data
      <3>3. SType'
        BY <3>1, <3>2 DEF SType
      <3> QED
        BY <3>1, <3>3 DEF SInv
    <2>6. CASE CannotRead
      BY <2>6 DEF CannotRead, SInv, SType
    <2>7. CASE UNCHANGED splitVars
      BY <2>7 DEF splitVars, SInv, SType, AtTail
    <2> QED
      BY <2>1, <2>2, <2>3, <2>4, <2>5, <2>6, <2>7 DEF SplitNext
  <1> QED
    BY <1>1, <1>2, PTL DEF SplitSpec

\* What is found in a file is what the file says.
THEOREM EveryStatementIsFound == SplitSpec => []StatementsFound
  <1>1. SInv => StatementsFound
    BY DEF SInv, RightFor, Listed, StatementsFound
  <1> QED
    BY <1>1, SplitInvariance, PTL

=============================================================================
