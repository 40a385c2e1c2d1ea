---------------------------- MODULE ListingProofs ----------------------------
(***************************************************************************)
(* Pages, walks and the iterator: for any names, built-in moods, ids and    *)
(* limits, whatever is added and deleted meanwhile.                         *)
(*                                                                          *)
(* A page is a prefix of what lies beyond its cursor: it holds everything   *)
(* that comes before anything it holds.  Prefixes can be glued together,    *)
(* when the first is all of its source or the second is empty, which is     *)
(* what ListMoods sees to.  That a list can be counted off, item by item,   *)
(* rests on a finite set of rows having a last one (LastExists).            *)
(*                                                                          *)
(* The invariant says where in the list a walk is.                          *)
(***************************************************************************)
EXTENDS ClientIter, FiniteSetTheorems, TLAPS

\* Rows that can be told apart by their ids.
Keyed(S) ==
  /\ IsFiniteSet(S) /\ \A r \in S : r.id \in Nat
  /\ \A r, s \in S : r.id = s.id => r = s

\* Nothing of S comes after r.
Ends(S, asc, r) == \A s \in S : s = r \/ Before(asc, s.id, r.id)

\* In either direction the ids are in a strict total order.
LEMMA BeforeOrders ==
  ASSUME NEW asc \in BOOLEAN, NEW i \in Int, NEW j \in Int, NEW k \in Int
  PROVE  /\ ~Before(asc, i, i)
         /\ i # j => Before(asc, i, j) \/ Before(asc, j, i)
         /\ Before(asc, i, j) => ~Before(asc, j, i)
         /\ Before(asc, i, j) /\ Before(asc, j, k) => Before(asc, i, k)
  BY DEF Before

\* Part of a table is as good a table.
LEMMA SubsetKeyed ==
  ASSUME NEW S, Keyed(S), NEW T, T \subseteq S
  PROVE  Keyed(T)
  BY FS_Subset DEF Keyed

\* A finite set of rows has a last one: otherwise a smallest subset without one, less
\* any of its rows, would have none either.
LEMMA LastExists ==
  ASSUME NEW S, Keyed(S), S # {}, NEW asc \in BOOLEAN
  PROVE  \E r \in S : Ends(S, asc, r)
  <1> DEFINE Endless == {U \in SUBSET S : U # {} /\ \A r \in U : ~Ends(U, asc, r)}
  <1>1. SUFFICES ASSUME S \in Endless PROVE FALSE
    OBVIOUS
  <1>2. IsFiniteSet(S)
    BY DEF Keyed
  <1>3. IsWellFoundedOn(StrictSubsetOrdering(S), FiniteSubsetsOf(S))
    BY FS_StrictSubsetOrderingWellFounded
  <1>4. Endless \subseteq FiniteSubsetsOf(S)
    BY <1>2, FS_Subset DEF FiniteSubsetsOf
  <1>5. PICK U \in Endless : \A V \in Endless : ~(<<V, U>> \in StrictSubsetOrdering(S))
    <2> HIDE DEF Endless
    <2> QED
      BY <1>1, <1>3, <1>4, WFMin
  <1>6. PICK x \in U : TRUE
    BY <1>5
  <1> DEFINE V == U \ {x}
  <1>7. <<V, U>> \in StrictSubsetOrdering(S)
    BY <1>5, <1>6 DEF StrictSubsetOrdering
  <1>8. V \notin Endless
    BY <1>5, <1>7
  <1>9. CASE V = {}
    <2>1. Ends(U, asc, x)
      BY <1>6, <1>9 DEF Ends
    <2> QED
      BY <1>5, <1>6, <2>1
  <1>10. CASE V # {}
    <2>1. PICK m \in V : Ends(V, asc, m)
      BY <1>5, <1>8, <1>10
    <2>2. x.id \in Int /\ m.id \in Int /\ x.id # m.id /\ \A s \in U : s.id \in Int
      BY <1>5, <1>6, <2>1 DEF Keyed
    <2>3. Before(asc, x.id, m.id) \/ Before(asc, m.id, x.id)
      BY <2>2, BeforeOrders
    <2>4. CASE Before(asc, x.id, m.id)
      <3>1. Ends(U, asc, m)
        BY <2>1, <2>4 DEF Ends
      <3> QED
        BY <1>5, <2>1, <3>1
    <2>5. CASE Before(asc, m.id, x.id)
      <3>1. ASSUME NEW s \in U, s # x, s # m PROVE Before(asc, s.id, x.id)
        <4>1. Before(asc, s.id, m.id)
          BY <2>1, <3>1 DEF Ends
        <4> QED
          BY <2>2, <2>5, <4>1, BeforeOrders
      <3>2. Ends(U, asc, x)
        BY <2>5, <3>1 DEF Ends
      <3> QED
        BY <1>5, <1>6, <3>2
    <2> QED
      BY <2>3, <2>4, <2>5
  <1> QED
    BY <1>9, <1>10

-----------------------------------------------------------------------------
(* Pages *)

Earlier(S, asc, r) == {s \in S : Before(asc, s.id, r.id)}

\* P is where S begins.
Prefix(P, S, asc) == P \subseteq S /\ \A r \in P, s \in S : Before(asc, s.id, r.id) => s \in P

\* A page holds what few enough rows come before.
LEMMA TakeByEarlier ==
  ASSUME NEW S, NEW asc, NEW n, NEW r
  PROVE  r \in Take(S, asc, n) <=> r \in S /\ Cardinality(Earlier(S, asc, r)) < n
  BY DEF Take, Earlier

\* What comes before a row can be counted, and is not all.
LEMMA EarlierCounts ==
  ASSUME NEW S, Keyed(S), NEW asc \in BOOLEAN, NEW r
  PROVE  /\ IsFiniteSet(Earlier(S, asc, r)) /\ Cardinality(Earlier(S, asc, r)) \in Nat
         /\ Cardinality(S) \in Nat
         /\ r \in S => Cardinality(Earlier(S, asc, r)) < Cardinality(S)
  <1> DEFINE E == Earlier(S, asc, r)
  <1>1. E \in SUBSET S /\ IsFiniteSet(S)
    BY DEF Earlier, Keyed
  <1> HIDE DEF E
  <1>2. IsFiniteSet(E) /\ Cardinality(E) <= Cardinality(S) /\ (Cardinality(S) = Cardinality(E) => S = E)
    BY <1>1, FS_Subset
  <1>3. Cardinality(E) \in Nat /\ Cardinality(S) \in Nat
    BY <1>1, <1>2, FS_CardinalityType
  <1>4. r \in S => r \notin E
    BY BeforeOrders DEF Keyed, E, Earlier
  <1> QED
    BY <1>2, <1>3, <1>4 DEF E

\* A page begins where its rows begin.
LEMMA TakeIsPrefix ==
  ASSUME NEW S, Keyed(S), NEW asc \in BOOLEAN, NEW n \in Nat
  PROVE  Prefix(Take(S, asc, n), S, asc)
  <1>1. Take(S, asc, n) \subseteq S
    BY DEF Take
  <1>2. ASSUME NEW r \in Take(S, asc, n), NEW s \in S, Before(asc, s.id, r.id)
        PROVE  s \in Take(S, asc, n)
    <2>1. Earlier(S, asc, s) \subseteq Earlier(S, asc, r)
      BY <1>1, <1>2, BeforeOrders DEF Earlier, Keyed
    <2>2. Cardinality(Earlier(S, asc, s)) <= Cardinality(Earlier(S, asc, r))
      BY <2>1, EarlierCounts, FS_Subset
    <2>3. Cardinality(Earlier(S, asc, r)) < n
      BY TakeByEarlier
    <2>4. Cardinality(Earlier(S, asc, s)) \in Nat /\ Cardinality(Earlier(S, asc, r)) \in Nat
      BY EarlierCounts
    <2>5. Cardinality(Earlier(S, asc, s)) < n
      BY <2>2, <2>3, <2>4
    <2> QED
      BY <1>2, <2>5, TakeByEarlier
  <1> QED
    BY <1>1, <1>2 DEF Prefix

\* A page does not overflow.
LEMMA TakeFits ==
  ASSUME NEW S, Keyed(S), NEW asc \in BOOLEAN, NEW n \in Nat
  PROVE  Cardinality(Take(S, asc, n)) \in Nat /\ Cardinality(Take(S, asc, n)) <= n
  <1> DEFINE T == Take(S, asc, n)
  <1>1. T \subseteq S
    BY DEF Take
  <1>2. Keyed(T) /\ IsFiniteSet(T) /\ Cardinality(T) \in Nat
    BY <1>1, SubsetKeyed, FS_CardinalityType DEF Keyed
  <1>3. CASE T = {}
    BY <1>2, <1>3, FS_EmptySet
  <1>4. CASE T # {}
    <2> HIDE DEF T
    <2>1. PICK m \in T : Ends(T, asc, m)
      BY <1>2, <1>4, LastExists
    <2>2. T \ {m} \in SUBSET Earlier(S, asc, m)
      BY <1>1, <2>1 DEF Ends, Earlier
    <2>3. IsFiniteSet(Earlier(S, asc, m)) /\ Cardinality(Earlier(S, asc, m)) \in Nat
      BY EarlierCounts
    <2>4. Cardinality(T \ {m}) <= Cardinality(Earlier(S, asc, m))
      BY <2>2, <2>3, FS_Subset
    <2>5. Cardinality(T \ {m}) = Cardinality(T) - 1
      BY <1>2, <2>1, FS_RemoveElement
    <2>6. Cardinality(Earlier(S, asc, m)) < n
      BY <2>1, TakeByEarlier DEF T
    <2> QED
      BY <1>2, <2>3, <2>4, <2>5, <2>6 DEF T
  <1> QED
    BY <1>2, <1>3, <1>4

\* A page that is not full is everything.
LEMMA TakeFills ==
  ASSUME NEW S, Keyed(S), NEW asc \in BOOLEAN, NEW n \in Nat
  PROVE  Cardinality(Take(S, asc, n)) < n => Take(S, asc, n) = S
  <1> DEFINE T == Take(S, asc, n)
  <1> SUFFICES ASSUME Cardinality(T) < n, S \ T # {} PROVE FALSE
    BY DEF Take
  <1>1. T \subseteq S
    BY DEF Take
  <1>2. Keyed(T) /\ IsFiniteSet(T) /\ Cardinality(T) \in Nat
    BY <1>1, SubsetKeyed, FS_CardinalityType DEF Keyed
  <1> HIDE DEF T
  <1>3. Keyed(S \ T)
    BY SubsetKeyed
  <1>4. PICK m \in S \ T : Ends(S \ T, ~asc, m)
    BY <1>3, LastExists
  <1>5. Earlier(S, asc, m) \in SUBSET T
    <2> SUFFICES ASSUME NEW s \in S, Before(asc, s.id, m.id), s \notin T PROVE FALSE
      BY DEF Earlier
    <2>1. s.id \in Int /\ m.id \in Int
      BY <1>4 DEF Keyed
    <2>2. s # m
      BY <2>1, BeforeOrders
    <2>3. Before(~asc, s.id, m.id)
      BY <1>4, <2>2 DEF Ends
    <2> QED
      BY <2>1, <2>3 DEF Before
  <1>6. Cardinality(Earlier(S, asc, m)) <= Cardinality(T)
    BY <1>2, <1>5, FS_Subset
  <1>7. Cardinality(Earlier(S, asc, m)) \in Nat
    BY EarlierCounts
  <1>8. Cardinality(Earlier(S, asc, m)) < n
    BY <1>2, <1>6, <1>7
  <1> QED
    BY <1>4, <1>8, TakeByEarlier DEF T

\* A page with room for everything holds it.
LEMMA TakeAll ==
  ASSUME NEW S, Keyed(S), NEW asc \in BOOLEAN, NEW n \in Nat, Cardinality(S) <= n
  PROVE  Take(S, asc, n) = S
  <1>1. ASSUME NEW r \in S PROVE r \in Take(S, asc, n)
    <2>1. Cardinality(Earlier(S, asc, r)) < n
      BY EarlierCounts
    <2> QED
      BY <2>1, TakeByEarlier
  <1> QED
    BY <1>1 DEF Take

\* Whatever a list begins with is what one would take of it.
LEMMA PrefixIsTake ==
  ASSUME NEW S, Keyed(S), NEW asc \in BOOLEAN, NEW P, Prefix(P, S, asc)
  PROVE  P = Take(S, asc, Cardinality(P))
  <1>1. P \subseteq S /\ Keyed(P) /\ IsFiniteSet(P) /\ Cardinality(P) \in Nat
    BY SubsetKeyed, FS_CardinalityType DEF Prefix, Keyed
  <1>2. ASSUME NEW r \in P PROVE Cardinality(Earlier(S, asc, r)) < Cardinality(P)
    <2>1. Earlier(S, asc, r) = Earlier(P, asc, r)
      BY <1>1 DEF Prefix, Earlier
    <2> QED
      BY <1>1, <2>1, EarlierCounts
  <1>3. ASSUME NEW r \in S \ P PROVE ~(Cardinality(Earlier(S, asc, r)) < Cardinality(P))
    <2>1. ASSUME NEW p \in P PROVE Before(asc, p.id, r.id)
      <3>1. p.id \in Int /\ r.id \in Int /\ p.id # r.id
        BY <1>1, <1>3 DEF Keyed
      <3>2. ~Before(asc, r.id, p.id)
        BY <1>3 DEF Prefix
      <3> QED
        BY <3>1, <3>2, BeforeOrders
    <2>2. P \in SUBSET Earlier(S, asc, r)
      BY <1>1, <2>1 DEF Earlier
    <2>3. Cardinality(P) <= Cardinality(Earlier(S, asc, r))
      BY <2>2, EarlierCounts, FS_Subset
    <2>4. Cardinality(Earlier(S, asc, r)) \in Nat
      BY EarlierCounts
    <2> QED
      BY <1>1, <2>3, <2>4
  <1> QED
    BY <1>1, <1>2, <1>3, TakeByEarlier

\* What a page is to the rows beyond its cursor.
PageOf(page, found, asc, n) ==
  /\ Prefix(page.items, found, asc)
  /\ Cardinality(page.items) \in Nat /\ Cardinality(page.items) <= n
  /\ page.more \in BOOLEAN
  /\ page.more => Cardinality(page.items) = n
  /\ ~page.more => page.items = found

\* What one query returns.
LEMMA PageFacts ==
  ASSUME NEW S, Keyed(S), NEW asc \in BOOLEAN, NEW at, NEW n \in Nat
  PROVE  /\ PageOf(Page(S, asc, at, n), Beyond(S, asc, at), asc, n)
         /\ Page(S, asc, at, n).more <=> Cardinality(Beyond(S, asc, at)) > n
  <1> DEFINE found == Beyond(S, asc, at)
             page == Page(S, asc, at, n)
  <1>1. Keyed(found) /\ Cardinality(found) \in Nat
    BY SubsetKeyed, FS_CardinalityType DEF Beyond, Keyed
  <1>2. page.items = Take(found, asc, n) /\ page.more \in BOOLEAN
    BY DEF Page
  <1>3. page.more <=> Cardinality(found) > n
    BY DEF Page
  <1> HIDE DEF found, page
  <1>4. Prefix(page.items, found, asc)
    BY <1>1, <1>2, TakeIsPrefix
  <1>5. Cardinality(page.items) \in Nat /\ Cardinality(page.items) <= n
    BY <1>1, <1>2, TakeFits
  <1>6. Cardinality(page.items) < n => page.items = found
    BY <1>1, <1>2, TakeFills
  <1>7. page.more => Cardinality(page.items) = n
    BY <1>1, <1>3, <1>5, <1>6
  <1>8. ~page.more => page.items = found
    BY <1>1, <1>2, <1>3, TakeAll
  <1> QED
    BY <1>2, <1>3, <1>4, <1>5, <1>7, <1>8 DEF PageOf, found, page

-----------------------------------------------------------------------------
(* The invariant *)

\* The serials hand out each id once, and the unique index each key.
Tables ==
  /\ kind \in {"moods", "conversations"} /\ serial \in 0 .. MaxId
  /\ rows \cup pending \subseteq [id : 1 .. serial, key : RowKeys]
  /\ \A r \in rows \cup pending : r.key \in KeysFor(r.id)
  /\ \A r, s \in rows \cup pending : r.id = s.id \/ r.key = s.key => r = s

\* The place a walk has come to: the cursor names it, what was shown is not beyond it,
\* and what is owed is in the list and has been shown or is beyond it.
Place ==
  /\ walk.step = "idle" => walk = NoWalk
  /\ walk.key = NoKey => walk.last = NoCursor
  /\ IsBuiltinKey(walk.key) => walk.last = Position(BuiltinRows, walk.key)
  /\ walk.step = "read" =>
       IF IsBuiltinKey(walk.key) THEN walk.at = Missing
       ELSE /\ walk.at = walk.last /\ walk.at \in 1 .. MaxId \cup {NoCursor}
            /\ walk.at = NoCursor <=> walk.key = NoKey
  /\ \A i \in walk.seen : walk.last # NoCursor /\ ~Before(walk.asc, walk.last, i)
  /\ walk.owed \subseteq IdsOf(Listed)
  /\ \A i \in walk.owed \ walk.seen : walk.last = NoCursor \/ Before(walk.asc, walk.last, i)

Replies == [status : {200, 400, 500}, items : SUBSET Ids, more : BOOLEAN]

LInv == Tables /\ walk \in Walks /\ Place /\ reply \subseteq Replies

-----------------------------------------------------------------------------
(* Rows *)

\* Rows with different small ids are finitely many.
LEMMA SmallIdsKeyed ==
  ASSUME NEW S, NEW n \in Nat, \A r \in S : r.id \in 1 .. n,
         \A r, s \in S : r.id = s.id => r = s
  PROVE  Keyed(S)
  <1> DEFINE f == [r \in S |-> r.id]
  <1>1. f \in Injection(S, 1 .. n)
    BY DEF Injection, IsInjective
  <1>2. IsFiniteSet(1 .. n)
    BY FS_Interval
  <1>3. IsFiniteSet(S)
    BY <1>1, <1>2, FS_Injection
  <1> QED
    BY <1>3 DEF Keyed

\* The built-in moods come after every row and are named like none.
LEMMA BuiltinFacts ==
  /\ BuiltinRows # {} /\ Keyed(BuiltinRows)
  /\ \A r \in BuiltinRows : /\ r.id \in MaxId + 1 .. MaxId + Len(BuiltinMoods)
                            /\ r.key \notin MoodNames /\ r.key # NoKey
  /\ \A r, s \in BuiltinRows : r.key = s.key => r = s
  <1>1. MaxId \in Nat /\ Len(BuiltinMoods) \in Nat \ {0} /\ 1 \in 1 .. Len(BuiltinMoods)
    BY ListingAssumption
  <1>2. \A r \in BuiltinRows : \E i \in 1 .. Len(BuiltinMoods) :
          r = [id |-> MaxId + i, key |-> BuiltinMoods[i]]
    BY DEF BuiltinRows
  <1>3. \A r \in BuiltinRows : /\ r.id \in MaxId + 1 .. MaxId + Len(BuiltinMoods)
                               /\ r.key \notin MoodNames /\ r.key # NoKey
    <2> SUFFICES ASSUME NEW r \in BuiltinRows
                 PROVE  /\ r.id \in MaxId + 1 .. MaxId + Len(BuiltinMoods)
                        /\ r.key \notin MoodNames /\ r.key # NoKey
      OBVIOUS
    <2>1. PICK i \in 1 .. Len(BuiltinMoods) : r = [id |-> MaxId + i, key |-> BuiltinMoods[i]]
      BY <1>2
    <2>2. BuiltinMoods[i] \notin MoodNames \cup {NoKey}
      BY ListingAssumption
    <2> QED
      BY <1>1, <2>1, <2>2
  <1>4. ASSUME NEW r \in BuiltinRows, NEW s \in BuiltinRows, r.id = s.id \/ r.key = s.key
        PROVE  r = s
    <2>1. PICK i \in 1 .. Len(BuiltinMoods) : r = [id |-> MaxId + i, key |-> BuiltinMoods[i]]
      BY <1>2
    <2>2. PICK j \in 1 .. Len(BuiltinMoods) : s = [id |-> MaxId + j, key |-> BuiltinMoods[j]]
      BY <1>2
    <2>3. i = j
      BY <1>1, <1>4, <2>1, <2>2, ListingAssumption
    <2> QED
      BY <2>1, <2>2, <2>3
  <1>5. \A r \in BuiltinRows : r.id \in 1 .. MaxId + Len(BuiltinMoods)
    BY <1>1, <1>3
  <1>6. Keyed(BuiltinRows)
    BY <1>1, <1>4, <1>5, SmallIdsKeyed
  <1>7. BuiltinRows # {}
    BY <1>1 DEF BuiltinRows
  <1> QED
    BY <1>3, <1>4, <1>6, <1>7

\* Rows and built-in moods are told apart by their ids and by their keys.
LEMMA TableFacts ==
  ASSUME Tables
  PROVE  /\ Keyed(rows) /\ Keyed(rows \cup BuiltinRows) /\ Keyed(Listed)
         /\ \A r \in rows : r.id \in 1 .. MaxId /\ r.key \in RowKeys
         /\ \A r \in rows, b \in BuiltinRows : r.id < b.id
         /\ \A r, s \in Listed : r.key = s.key => r = s
         /\ \A r \in Listed : r.key # NoKey /\ r.key \in Cursors /\ r.id \in Ids
  <1>1. MaxId \in Nat /\ Len(BuiltinMoods) \in Nat
    BY ListingAssumption
  <1>2. \A r \in rows : r.id \in 1 .. MaxId /\ r.key \in RowKeys
    BY <1>1 DEF Tables
  <1>3. \A r \in rows, b \in BuiltinRows : r.id < b.id
    BY <1>1, <1>2, BuiltinFacts
  <1>4. \A r \in rows \cup BuiltinRows : r.id \in 1 .. MaxId + Len(BuiltinMoods)
    BY <1>1, <1>2, BuiltinFacts
  <1>5. \A r, s \in rows \cup BuiltinRows : r.id = s.id => r = s
    <2> SUFFICES ASSUME NEW r \in rows \cup BuiltinRows, NEW s \in rows \cup BuiltinRows, r.id = s.id
                 PROVE  r = s
      OBVIOUS
    <2>1. CASE r \in rows /\ s \in rows
      BY <2>1 DEF Tables
    <2>2. CASE r \in BuiltinRows /\ s \in BuiltinRows
      BY <2>2, BuiltinFacts DEF Keyed
    <2>3. r.id < s.id \/ s.id < r.id => r.id # s.id
      BY <1>1, <1>4
    <2> QED
      BY <1>3, <2>1, <2>2, <2>3
  <1>6. Keyed(rows \cup BuiltinRows)
    BY <1>1, <1>4, <1>5, SmallIdsKeyed
  <1>7. Listed \subseteq rows \cup BuiltinRows /\ Keyed(rows) /\ Keyed(Listed)
    BY <1>6, SubsetKeyed DEF Listed
  <1>8. kind = "moods" => \A r \in rows : r.key \in MoodNames
    BY DEF Tables, KeysFor
  <1>9. \A r, s \in Listed : r.key = s.key => r = s
    BY <1>8, BuiltinFacts DEF Listed, Tables
  <1>10. \A r \in Listed : r.key # NoKey /\ r.key \in Cursors
    BY <1>2, BuiltinFacts, ListingAssumption DEF Listed, Cursors, RowKeys
  <1>11. \A r \in Listed : r.id \in Ids
    BY <1>4, <1>7 DEF Ids
  <1> QED
    BY <1>2, <1>3, <1>6, <1>7, <1>9, <1>10, <1>11

\* Where the row of a key is.
LEMMA PositionFacts ==
  ASSUME NEW S, NEW key, \A r, s \in S : r.key = s.key => r = s
  PROVE  /\ key = NoKey => Position(S, key) = NoCursor
         /\ key # NoKey /\ (\A r \in S : r.key # key) => Position(S, key) = Missing
         /\ key # NoKey => \A r \in S : r.key = key => Position(S, key) = r.id
  <1>1. ASSUME NEW r \in S, r.key = key PROVE (CHOOSE s \in S : s.key = key) = r
    BY <1>1
  <1> QED
    BY <1>1 DEF Position

\* Where a cursor of the moods is, in the rows and among the built-in ones.
LEMMA BuiltinPosition ==
  ASSUME Tables, NEW key
  PROVE  /\ IsBuiltinKey(key) =>
              /\ kind = "moods" /\ key # NoKey /\ Position(rows, key) = Missing
              /\ Position(BuiltinRows, key) \in MaxId + 1 .. MaxId + Len(BuiltinMoods)
              /\ \E b \in BuiltinRows : b.key = key /\ Position(BuiltinRows, key) = b.id
         /\ ~IsBuiltinKey(key) /\ kind = "moods" =>
              Position(BuiltinRows, key) = IF key = NoKey THEN NoCursor ELSE Missing
         /\ Position(rows, key) \in 1 .. MaxId \cup {NoCursor, Missing}
         /\ Position(rows, key) = NoCursor <=> key = NoKey
  <1>1. MaxId \in Nat
    BY ListingAssumption
  <1>2. \A r, s \in rows : r.key = s.key => r = s
    BY DEF Tables
  <1>3. \A r \in rows : r.id \in 1 .. MaxId
    BY TableFacts
  <1>4. key = NoKey => Position(rows, key) = NoCursor
    BY DEF Position
  <1>5. key # NoKey => Position(rows, key) \in 1 .. MaxId \cup {Missing}
    BY <1>2, <1>3, PositionFacts
  <1>6. key # NoKey => Position(rows, key) # NoCursor
    BY <1>1, <1>5 DEF NoCursor, Missing
  <1>7. CASE IsBuiltinKey(key)
    <2>1. PICK b \in BuiltinRows : b.key = key
      BY <1>7 DEF IsBuiltinKey
    <2>2. kind = "moods" /\ key # NoKey /\ key \notin MoodNames
      BY <1>7, <2>1, BuiltinFacts DEF IsBuiltinKey
    <2>3. Position(BuiltinRows, key) = b.id
      BY <2>1, <2>2, BuiltinFacts, PositionFacts
    <2>4. \A r \in rows : r.key # key
      BY <2>2 DEF Tables, KeysFor
    <2>5. Position(rows, key) = Missing
      BY <1>2, <2>2, <2>4, PositionFacts
    <2> QED
      BY <1>4, <1>5, <1>6, <1>7, <2>1, <2>2, <2>3, <2>5, BuiltinFacts
  <1>8. CASE ~IsBuiltinKey(key)
    <2>1. kind = "moods" => \A b \in BuiltinRows : b.key # key
      BY <1>8 DEF IsBuiltinKey
    <2>2. kind = "moods" => Position(BuiltinRows, key) = IF key = NoKey THEN NoCursor ELSE Missing
      BY <2>1, BuiltinFacts, PositionFacts
    <2> QED
      BY <1>4, <1>5, <1>6, <1>8, <2>2
  <1> QED
    BY <1>7, <1>8

-----------------------------------------------------------------------------
(* A list glued together from two sources *)

\* What a page glued together still is to the rows beyond its cursor.
Sheet(page, found, asc, n) ==
  /\ Prefix(page.items, found, asc)
  /\ Cardinality(page.items) \in Nat /\ Cardinality(page.items) <= n
  /\ page.more \in BOOLEAN

\* Two beginnings make one, if the second is only needed when the first is everything.
LEMMA PrefixGlued ==
  ASSUME NEW A, NEW B, NEW asc \in BOOLEAN, Keyed(A \cup B),
         \A a \in A, b \in B : Before(asc, a.id, b.id),
         NEW P, NEW Q, Prefix(P, A, asc), Prefix(Q, B, asc), Q = {} \/ P = A
  PROVE  Prefix(P \cup Q, A \cup B, asc)
  <1>1. \A a \in A \cup B : a.id \in Int
    BY DEF Keyed
  <1>2. P \subseteq A /\ Q \subseteq B
    BY DEF Prefix
  <1>3. ASSUME NEW r \in P \cup Q, NEW s \in A \cup B, Before(asc, s.id, r.id)
        PROVE  s \in P \cup Q
    <2>1. ~Before(asc, r.id, s.id)
      BY <1>1, <1>2, <1>3, BeforeOrders
    <2>2. CASE r \in P
      <3>1. s \in A
        BY <1>2, <2>1, <2>2
      <3> QED
        BY <1>3, <2>2, <3>1 DEF Prefix
    <2>3. CASE r \in Q
      BY <1>3, <2>3 DEF Prefix
    <2> QED
      BY <2>2, <2>3
  <1> QED
    BY <1>2, <1>3 DEF Prefix

\* Two pages together hold no more than both.
LEMMA UnionFits ==
  ASSUME NEW P, NEW Q, IsFiniteSet(P), IsFiniteSet(Q)
  PROVE  /\ Cardinality(P \cup Q) \in Nat
         /\ Cardinality(P \cup Q) <= Cardinality(P) + Cardinality(Q)
  <1>1. Cardinality(P \cup Q) = Cardinality(P) + Cardinality(Q) - Cardinality(P \cap Q)
    BY FS_Union
  <1>2. IsFiniteSet(P \cup Q) /\ IsFiniteSet(P \cap Q)
    BY FS_Union, FS_Intersection
  <1>3. /\ Cardinality(P) \in Nat /\ Cardinality(Q) \in Nat
        /\ Cardinality(P \cup Q) \in Nat /\ Cardinality(P \cap Q) \in Nat
    BY <1>2, FS_CardinalityType
  <1> QED
    BY <1>1, <1>3

\* One query is a special case.
LEMMA PageIsSheet ==
  ASSUME NEW S, Keyed(S), NEW asc \in BOOLEAN, NEW at, NEW n \in Nat
  PROVE  /\ Sheet(Page(S, asc, at, n), Beyond(S, asc, at), asc, n)
         /\ ~Page(S, asc, at, n).more => Page(S, asc, at, n).items = Beyond(S, asc, at)
  BY PageFacts DEF PageOf, Sheet

\* Two pages read one after the other, the second with what the first left of the limit.
TwoPages(S, asc, at, T, n) ==
  LET first == Page(S, asc, at, n)
      left == n - Cardinality(first.items)
      second == Page(T, asc, NoCursor, left)
  IN IF Cardinality(first.items) = left THEN [first EXCEPT !.more = TRUE]
     ELSE [items |-> first.items \cup second.items, more |-> second.more]

\* Two sources, one after the other, read like one.
LEMMA TwoPagesAreSheet ==
  ASSUME NEW S, NEW T, NEW asc \in BOOLEAN, NEW n \in Nat, NEW at,
         Keyed(S), Keyed(T), Keyed(Beyond(S, asc, at) \cup T),
         \A a \in Beyond(S, asc, at), b \in T : Before(asc, a.id, b.id)
  PROVE  /\ Sheet(TwoPages(S, asc, at, T, n), Beyond(S, asc, at) \cup T, asc, n)
         /\ T # {} /\ ~TwoPages(S, asc, at, T, n).more
              => TwoPages(S, asc, at, T, n).items = Beyond(S, asc, at) \cup T
  <1> DEFINE A == Beyond(S, asc, at)
             first == Page(S, asc, at, n)
             P == first.items
             left == n - Cardinality(P)
             second == Page(T, asc, NoCursor, left)
             Q == second.items
             page == TwoPages(S, asc, at, T, n)
  <1>1. PageOf(first, A, asc, n)
    BY PageFacts
  <1>2. left \in Nat /\ n = Cardinality(P) + left /\ Cardinality(P) \in Nat
    BY <1>1 DEF PageOf
  <1>3. PageOf(second, T, asc, left)
    <2>1. Beyond(T, asc, NoCursor) = T
      BY DEF Beyond
    <2> HIDE DEF left
    <2> QED
      BY <1>2, <2>1, PageFacts
  <1>4. page = IF Cardinality(P) = left THEN [first EXCEPT !.more = TRUE]
               ELSE [items |-> P \cup Q, more |-> second.more]
    BY Zenon DEF TwoPages
  <1>5. [first EXCEPT !.more = TRUE].items = P /\ [first EXCEPT !.more = TRUE].more = TRUE
    BY DEF Page
  <1> HIDE DEF A, first, P, left, second, Q, page
  <1>6. /\ Prefix(P, A, asc) /\ (Cardinality(P) = n \/ P = A)
        /\ Prefix(Q, T, asc) /\ Cardinality(Q) \in Nat /\ Cardinality(Q) <= left
        /\ second.more \in BOOLEAN
        /\ ~second.more => Q = T
    BY <1>1, <1>3 DEF PageOf, P, Q
  <1>7. IsFiniteSet(P) /\ IsFiniteSet(Q)
    <2>1. Keyed(A \cup T) /\ P \subseteq A \cup T /\ Q \subseteq A \cup T
      BY <1>6 DEF Prefix, A
    <2> QED
      BY <2>1, SubsetKeyed DEF Keyed
  <1>8. Q = {} \/ P = A
    <2>1. Q # {} => Cardinality(Q) # 0
      BY <1>7, FS_EmptySet
    <2> QED
      BY <1>2, <1>6, <2>1
  <1>9. Prefix(P \cup Q, A \cup T, asc)
    BY <1>6, <1>8, PrefixGlued DEF A
  <1>10. Prefix(P, A \cup T, asc)
    <2>1. Prefix({}, T, asc)
      BY DEF Prefix
    <2>2. Prefix(P \cup {}, A \cup T, asc)
      BY <1>6, <2>1, PrefixGlued DEF A
    <2>3. P \cup {} = P
      OBVIOUS
    <2> QED
      BY <2>2, <2>3
  <1>11. Cardinality(P \cup Q) \in Nat /\ Cardinality(P \cup Q) <= n
    BY <1>2, <1>6, <1>7, UnionFits
  <1>12. T # {} /\ Q = T => P \cup Q = A \cup T
    BY <1>8
  <1>13. CASE Cardinality(P) = left
    <2>1. page.items = P /\ page.more = TRUE
      BY <1>4, <1>5, <1>13
    <2>2. Cardinality(P) <= n
      BY <1>2, <1>13
    <2>3. Sheet(page, A \cup T, asc, n)
      BY <1>2, <1>10, <2>1, <2>2 DEF Sheet
    <2> QED
      BY <2>1, <2>3 DEF A, page
  <1>14. CASE Cardinality(P) # left
    <2>1. page = [items |-> P \cup Q, more |-> second.more]
      BY <1>4, <1>14
    <2>2. page.items = P \cup Q
      BY <2>1
    <2>3. page.more = second.more
      BY <2>1
    <2> QED
      BY <1>6, <1>9, <1>11, <1>12, <2>2, <2>3 DEF Sheet, A, page
  <1> QED
    BY <1>13, <1>14

\* The cursor of a query for moods: the built-in mood it names, or where the row it
\* names was found.
IsCursor(key, at, q) ==
  \/ IsBuiltinKey(key) /\ at = Missing /\ q = Position(BuiltinRows, key)
  \/ /\ ~IsBuiltinKey(key) /\ q = at /\ at \in 1 .. MaxId \cup {NoCursor}
     /\ at = NoCursor <=> key = NoKey

\* The two sources are one list: whatever its cursor, ListMoods returns the beginning of
\* what follows it there, and going up all of it when it says that there is no more.
LEMMA ListMoodsIsSheet ==
  ASSUME Tables, kind = "moods", NEW asc \in BOOLEAN, NEW n \in Nat,
         NEW key, NEW at, NEW q, IsCursor(key, at, q)
  PROVE  /\ Sheet(ListMoods(asc, key, at, n), Beyond(Listed, asc, q), asc, n)
         /\ asc /\ ~ListMoods(asc, key, at, n).more
              => ListMoods(asc, key, at, n).items = Beyond(Listed, asc, q)
  <1> DEFINE builtinAt == Position(BuiltinRows, key)
             page == ListMoods(asc, key, at, n)
  <1>1. MaxId \in Nat /\ Len(BuiltinMoods) \in Nat
    BY ListingAssumption
  <1>2. /\ Keyed(rows) /\ Keyed(BuiltinRows) /\ Keyed(rows \cup BuiltinRows) /\ BuiltinRows # {}
        /\ Listed = rows \cup BuiltinRows
    BY TableFacts, BuiltinFacts DEF Listed
  <1>3. /\ \A r \in rows : r.id \in 1 .. MaxId
        /\ \A b \in BuiltinRows : b.id \in MaxId + 1 .. MaxId + Len(BuiltinMoods)
        /\ \A r \in rows, b \in BuiltinRows : r.id < b.id
    BY TableFacts, BuiltinFacts
  <1>4. /\ IsBuiltinKey(key) => builtinAt \in MaxId + 1 .. MaxId + Len(BuiltinMoods)
        /\ ~IsBuiltinKey(key) => builtinAt = IF key = NoKey THEN NoCursor ELSE Missing
    BY BuiltinPosition
  <1> HIDE DEF builtinAt, page
  <1>5. CASE asc /\ IsBuiltinKey(key)
    <2>1. at = Missing /\ q = builtinAt
      BY <1>5 DEF IsCursor, builtinAt
    <2>2. page = Page(BuiltinRows, asc, q, n)
      BY <1>5, <2>1, Zenon DEF page, ListMoods, builtinAt
    <2>3. Beyond(rows \cup BuiltinRows, asc, q) = Beyond(BuiltinRows, asc, q)
      BY <1>1, <1>3, <1>4, <1>5, <2>1 DEF Beyond, Before, NoCursor
    <2>4. /\ Sheet(page, Beyond(BuiltinRows, asc, q), asc, n)
          /\ ~page.more => page.items = Beyond(BuiltinRows, asc, q)
      BY <1>2, <2>2, PageIsSheet
    <2> QED
      BY <1>2, <2>3, <2>4 DEF page
  <1>6. CASE asc /\ ~IsBuiltinKey(key)
    <2>1. q = at /\ at \in 1 .. MaxId \cup {NoCursor} /\ at # Missing
      BY <1>1, <1>6 DEF IsCursor, NoCursor, Missing
    <2>2. page = TwoPages(rows, asc, at, BuiltinRows, n)
      BY <1>6, <2>1, Zenon DEF page, ListMoods, TwoPages
    <2>3. Beyond(rows \cup BuiltinRows, asc, q) = Beyond(rows, asc, at) \cup BuiltinRows
      BY <1>1, <1>3, <1>6, <2>1 DEF Beyond, Before
    <2>4. Keyed(Beyond(rows, asc, at) \cup BuiltinRows)
      BY <1>2, SubsetKeyed DEF Beyond
    <2>5. \A a \in Beyond(rows, asc, at), b \in BuiltinRows : Before(asc, a.id, b.id)
      BY <1>3, <1>6 DEF Beyond, Before
    <2>6. /\ Sheet(TwoPages(rows, asc, at, BuiltinRows, n), Beyond(rows, asc, at) \cup BuiltinRows, asc, n)
          /\ BuiltinRows # {} /\ ~TwoPages(rows, asc, at, BuiltinRows, n).more
               => TwoPages(rows, asc, at, BuiltinRows, n).items = Beyond(rows, asc, at) \cup BuiltinRows
      BY <1>2, <2>4, <2>5, TwoPagesAreSheet
    <2> QED
      BY <1>2, <2>2, <2>3, <2>6 DEF page
  <1>7. CASE ~asc /\ ~IsBuiltinKey(key) /\ key # NoKey
    <2>1. q = at /\ at \in 1 .. MaxId /\ builtinAt = Missing
      BY <1>4, <1>7 DEF IsCursor
    <2>2. page = Page(rows, asc, q, n)
      BY <1>7, <2>1, Zenon DEF page, ListMoods, builtinAt
    <2>3. Beyond(rows \cup BuiltinRows, asc, q) = Beyond(rows, asc, q)
      BY <1>1, <1>3, <1>7, <2>1 DEF Beyond, Before, NoCursor
    <2> QED
      BY <1>2, <1>7, <2>2, <2>3, PageIsSheet DEF page
  <1>8. CASE ~asc /\ (IsBuiltinKey(key) \/ key = NoKey)
    <2>1. q = builtinAt /\ q \in {NoCursor} \cup MaxId + 1 .. MaxId + Len(BuiltinMoods)
      BY <1>4, <1>8 DEF IsCursor, builtinAt
    <2>2. builtinAt # Missing
      BY <1>1, <2>1 DEF NoCursor, Missing
    <2>3. page = TwoPages(BuiltinRows, asc, q, rows, n)
      BY <1>8, <2>1, <2>2, Zenon DEF page, ListMoods, TwoPages, builtinAt
    <2>4. Beyond(rows \cup BuiltinRows, asc, q) = Beyond(BuiltinRows, asc, q) \cup rows
      BY <1>1, <1>3, <1>8, <2>1 DEF Beyond, Before
    <2>5. Keyed(Beyond(BuiltinRows, asc, q) \cup rows)
      BY <1>2, SubsetKeyed DEF Beyond
    <2>6. \A a \in Beyond(BuiltinRows, asc, q), b \in rows : Before(asc, a.id, b.id)
      BY <1>1, <1>3, <1>8 DEF Beyond, Before
    <2>7. Sheet(TwoPages(BuiltinRows, asc, q, rows, n), Beyond(BuiltinRows, asc, q) \cup rows, asc, n)
      BY <1>2, <2>1, <2>5, <2>6, TwoPagesAreSheet
    <2> QED
      BY <1>2, <2>3, <2>4, <2>7, <1>8 DEF page
  <1> QED
    BY <1>5, <1>6, <1>7, <1>8

\* A query for conversations reads one source.
LEMMA ListConversationsIsSheet ==
  ASSUME Tables, kind = "conversations", NEW asc \in BOOLEAN, NEW n \in Nat, NEW at
  PROVE  /\ Sheet(ListConversations(asc, at, n), Beyond(Listed, asc, at), asc, n)
         /\ ~ListConversations(asc, at, n).more
              => ListConversations(asc, at, n).items = Beyond(Listed, asc, at)
  <1>1. Listed = rows /\ Keyed(rows)
    BY TableFacts DEF Listed
  <1>2. ListConversations(asc, at, n) = Page(rows, asc, at, n)
    BY DEF ListConversations
  <1> QED
    BY <1>1, <1>2, PageIsSheet

-----------------------------------------------------------------------------
(* The page a walk reads *)

\* The types of the fields of a walk.
LEMMA WalkTypes ==
  ASSUME walk \in Walks
  PROVE  /\ walk.step \in {"idle", "find", "read"} /\ walk.asc \in BOOLEAN
         /\ walk.limit \in 0 .. MaxLimit /\ walk.limit \in Nat
         /\ walk.key \in Cursors /\ walk.at \in Ids \cup {NoCursor, Missing}
         /\ walk.last \in Ids \cup {NoCursor} /\ walk.last \in Int
         /\ walk.seen \subseteq Ids /\ walk.owed \subseteq Ids
  <1>1. /\ walk.step \in {"idle", "find", "read"} /\ walk.asc \in BOOLEAN
        /\ walk.limit \in 0 .. MaxLimit
        /\ walk.key \in Cursors /\ walk.at \in Ids \cup {NoCursor, Missing}
        /\ walk.last \in Ids \cup {NoCursor}
        /\ walk.seen \subseteq Ids /\ walk.owed \subseteq Ids
    BY DEF Walks
  <1>2. walk.limit \in Nat /\ walk.last \in Int
    BY <1>1, ListingAssumption DEF Ids, NoCursor
  <1> QED
    BY <1>1, <1>2

\* Whichever list is read, the page is cut from what lies beyond the last item shown.
LEMMA ListingIsSheet ==
  ASSUME Tables, walk \in Walks, Place, walk.step = "read"
  PROVE  /\ Continues = walk.last
         /\ Sheet(Listing, Beyond(Listed, walk.asc, walk.last), walk.asc, walk.limit)
         /\ (kind = "conversations" \/ walk.asc) /\ ~Listing.more
              => Listing.items = Beyond(Listed, walk.asc, walk.last)
  <1>1. walk.asc \in BOOLEAN /\ walk.limit \in Nat
    BY WalkTypes
  <1>2. Continues = walk.last
    BY DEF Place, Continues
  <1>3. CASE kind = "moods"
    <2>1. IsCursor(walk.key, walk.at, walk.last)
      BY DEF Place, IsCursor
    <2>2. Listing = ListMoods(walk.asc, walk.key, walk.at, walk.limit)
      BY <1>3 DEF Listing
    <2>3. /\ Sheet(Listing, Beyond(Listed, walk.asc, walk.last), walk.asc, walk.limit)
          /\ walk.asc /\ ~Listing.more => Listing.items = Beyond(Listed, walk.asc, walk.last)
      BY <1>1, <1>3, <2>1, <2>2, ListMoodsIsSheet
    <2> QED
      BY <1>2, <1>3, <2>3
  <1>4. CASE kind = "conversations"
    <2>1. walk.at = walk.last
      BY <1>4 DEF Place, IsBuiltinKey
    <2>2. Listing = ListConversations(walk.asc, walk.at, walk.limit)
      BY <1>4 DEF Listing
    <2> QED
      BY <1>1, <1>2, <1>4, <2>1, <2>2, ListConversationsIsSheet
  <1> QED
    BY <1>3, <1>4 DEF Tables

\* The last item of a page is one, and nothing on the page comes after it.
LEMMA FinalOfPage ==
  ASSUME NEW S, Keyed(S), NEW asc \in BOOLEAN, NEW P, P \subseteq S, P # {}
  PROVE  Final(P, asc) \in P /\ Ends(P, asc, Final(P, asc))
  <1>1. \E r \in P : Ends(P, asc, r)
    BY SubsetKeyed, LastExists
  <1> QED
    BY <1>1 DEF Final, Ends

\* As many ids as items.
LEMMA IdsCount ==
  ASSUME NEW S, Keyed(S)
  PROVE  Cardinality(IdsOf(S)) = Cardinality(S)
  <1> DEFINE f == [r \in S |-> r.id]
  <1>1. f \in Bijection(S, IdsOf(S))
    <2>1. f \in Injection(S, IdsOf(S))
      BY DEF Injection, IsInjective, Keyed, IdsOf
    <2>2. f \in Surjection(S, IdsOf(S))
      BY DEF Surjection, IdsOf
    <2> QED
      BY <2>1, <2>2 DEF Bijection
  <1> QED
    BY <1>1, FS_Bijection DEF Keyed, ExistsBijection

-----------------------------------------------------------------------------
(* The invariant is kept *)

\* A walk is put together of fields of their types.
LEMMA WalkTyped ==
  ASSUME NEW step \in {"idle", "find", "read"}, NEW asc \in BOOLEAN, NEW limit \in 0 .. MaxLimit,
         NEW key \in Cursors, NEW at \in Ids \cup {NoCursor, Missing},
         NEW last \in Ids \cup {NoCursor}, NEW seen \in SUBSET Ids, NEW owed \in SUBSET Ids
  PROVE  [step |-> step, asc |-> asc, limit |-> limit, key |-> key, at |-> at,
          last |-> last, seen |-> seen, owed |-> owed] \in Walks
  BY DEF Walks

\* A client that is not walking.
LEMMA IdleWalk ==
  /\ NoWalk \in Walks /\ NoWalk.step = "idle" /\ NoWalk.key = NoKey /\ NoWalk.last = NoCursor
  /\ NoWalk.seen = {} /\ NoWalk.owed = {} /\ ~IsBuiltinKey(NoKey)
  <1>1. NoKey \in Cursors /\ 0 \in 0 .. MaxLimit
    BY ListingAssumption DEF Cursors
  <1>2. NoWalk \in Walks
    BY <1>1, WalkTyped DEF NoWalk
  <1>3. ~IsBuiltinKey(NoKey)
    BY BuiltinFacts DEF IsBuiltinKey
  <1> QED
    BY <1>2, <1>3 DEF NoWalk

\* The invariant holds at the start.
LEMMA InitLInv == Init => LInv
  <1> SUFFICES ASSUME Init PROVE LInv
    OBVIOUS
  <1>1. Tables
    BY ListingAssumption DEF Init, Tables
  <1>2. walk = NoWalk /\ reply = {}
    BY DEF Init
  <1>3. Place
    BY <1>2, IdleWalk DEF Place
  <1> QED
    BY <1>1, <1>2, <1>3, IdleWalk DEF LInv

\* A request that ends a walk.
LEMMA IdleKeeps ==
  ASSUME LInv, walk' = NoWalk, UNCHANGED <<kind, rows, serial, pending>>
  PROVE  Tables' /\ (walk \in Walks)' /\ Place'
  <1>1. Tables'
    BY DEF LInv, Tables, KeysFor
  <1>2. Place'
    BY IdleWalk DEF Place, IsBuiltinKey
  <1> QED
    BY <1>1, <1>2, IdleWalk

\* A request that is refused changes nothing.
LEMMA RejectArgsKeeps ==
  ASSUME LInv, RejectArgs
  PROVE  LInv'
  <1>1. UNCHANGED <<kind, rows, serial, pending, walk>>
    BY DEF RejectArgs
  <1>2. reply' \subseteq Replies
    BY DEF RejectArgs, Answer, Replies, IdsOf
  <1>3. Tables'
    BY <1>1 DEF LInv, Tables, KeysFor
  <1>4. Place'
    BY <1>1 DEF LInv, Place, IsBuiltinKey, Listed
  <1> QED
    BY <1>1, <1>2, <1>3, <1>4 DEF LInv

\* A statement that fails ends the walk.
LEMMA StatementFailsKeeps ==
  ASSUME LInv, StatementFails
  PROVE  LInv'
  <1>1. walk' = NoWalk /\ UNCHANGED <<kind, rows, serial, pending>>
    BY DEF StatementFails
  <1>2. reply' \subseteq Replies
    BY DEF StatementFails, Answer, Replies, IdsOf
  <1> QED
    BY <1>1, <1>2, IdleKeeps DEF LInv

\* Where in the list a key of it is.
LEMMA PlaceOfKey ==
  ASSUME Tables, NEW key \in {NoKey} \cup {r.key : r \in Listed}
  PROVE  /\ key \in Cursors
         /\ key = NoKey => Position(Listed, key) = NoCursor
         /\ key # NoKey => Position(Listed, key) \in Ids
         /\ IsBuiltinKey(key) => Position(Listed, key) = Position(BuiltinRows, key)
  <1>1. CASE key = NoKey
    BY <1>1, IdleWalk, PositionFacts, TableFacts DEF Cursors
  <1>2. CASE key # NoKey
    <2>1. PICK r \in Listed : r.key = key
      BY <1>2
    <2>2. Position(Listed, key) = r.id
      BY <1>2, <2>1, TableFacts, PositionFacts
    <2>3. r.key \in Cursors /\ r.id \in Ids
      BY <2>1, TableFacts
    <2>4. ASSUME IsBuiltinKey(key) PROVE Position(BuiltinRows, key) = r.id
      <3>1. PICK b \in BuiltinRows : b.key = key /\ Position(BuiltinRows, key) = b.id
        BY <2>4, BuiltinPosition
      <3>2. b \in Listed
        BY <2>4 DEF IsBuiltinKey, Listed
      <3> QED
        BY <2>1, <3>1, <3>2, TableFacts
    <2> QED
      BY <1>2, <2>1, <2>2, <2>3, <2>4
  <1> QED
    BY <1>1, <1>2

\* A walk starts at a row of the list, and is owed what follows it.
LEMMA StartWalkKeeps ==
  ASSUME LInv, StartWalk
  PROVE  LInv'
  <1>1. UNCHANGED <<kind, rows, serial, pending>> /\ reply' = {}
    BY DEF StartWalk
  <1>2. PICK asc \in BOOLEAN, limit \in 0 .. MaxLimit, key \in {NoKey} \cup {r.key : r \in Listed} :
          walk' = [NoWalk EXCEPT
            !.step = "find", !.asc = asc, !.limit = limit, !.key = key,
            !.last = Position(Listed, key),
            !.owed = IdsOf(Beyond(Listed, asc, Position(Listed, key)))]
    BY DEF StartWalk, Limits
  <1> DEFINE last == Position(Listed, key)
             owed == IdsOf(Beyond(Listed, asc, last))
  <1>3. walk' = [step |-> "find", asc |-> asc, limit |-> limit, key |-> key, at |-> NoCursor,
                 last |-> last, seen |-> {}, owed |-> owed]
    BY <1>2 DEF NoWalk
  <1>4. /\ key \in Cursors
        /\ key = NoKey => last = NoCursor
        /\ key # NoKey => last \in Ids
        /\ IsBuiltinKey(key) => last = Position(BuiltinRows, key)
    BY PlaceOfKey DEF LInv
  <1>5. owed \subseteq IdsOf(Listed) /\ owed \subseteq Ids
    BY TableFacts DEF IdsOf, Beyond, LInv
  <1>6. \A i \in owed : last = NoCursor \/ Before(asc, last, i)
    BY DEF IdsOf, Beyond
  <1> HIDE DEF last, owed
  <1>7. walk' \in Walks
    BY <1>3, <1>4, <1>5, WalkTyped
  <1>8. Tables'
    BY <1>1 DEF LInv, Tables, KeysFor
  <1>9. /\ walk'.step = "find" /\ walk'.key = key /\ walk'.last = last /\ walk'.asc = asc
        /\ walk'.seen = {} /\ walk'.owed = owed
    BY <1>3
  <1>10. Place'
    BY <1>1, <1>4, <1>5, <1>6, <1>9 DEF Place, IsBuiltinKey, Listed
  <1> QED
    BY <1>1, <1>7, <1>8, <1>10 DEF LInv

\* The cursor is where it was, or the records start afresh.
LEMMA FindCursorKeeps ==
  ASSUME LInv, FindCursor
  PROVE  LInv'
  <1> DEFINE at == Position(rows, walk.key)
  <1>1. UNCHANGED <<kind, rows, serial, pending>> /\ walk.step = "find"
    BY DEF FindCursor
  <1>2. Tables /\ walk \in Walks /\ Place
    BY DEF LInv
  <1>3. /\ IsBuiltinKey(walk.key) => at = Missing
        /\ at \in 1 .. MaxId \cup {NoCursor, Missing}
        /\ at = NoCursor <=> walk.key = NoKey
    BY <1>2, BuiltinPosition
  <1>4. at \in Ids \cup {NoCursor, Missing}
    BY <1>3, ListingAssumption DEF Ids
  <1>5. Tables'
    BY <1>1, <1>2 DEF Tables, KeysFor
  <1>6. CASE walk' = NoWalk /\ Answer(400, {}, FALSE)
    <2>1. reply' \subseteq Replies
      BY <1>6 DEF Answer, Replies, IdsOf
    <2> QED
      BY <1>1, <1>6, <2>1, IdleKeeps DEF LInv
  <1>7. CASE /\ reply' = {} /\ walk' = [walk EXCEPT !.step = "read", !.at = at]
             /\ at \in {Missing, walk.last} /\ (at # Missing \/ IsBuiltinKey(walk.key))
    <2>1. walk' \in Walks
      BY <1>2, <1>4, <1>7 DEF Walks
    <2>2. /\ walk'.step = "read" /\ walk'.at = at /\ walk'.asc = walk.asc /\ walk'.key = walk.key
          /\ walk'.last = walk.last /\ walk'.seen = walk.seen /\ walk'.owed = walk.owed
      BY <1>2, <1>7 DEF Walks
    <2>3. Place'
      BY <1>1, <1>2, <1>3, <1>7, <2>2 DEF Place, IsBuiltinKey, Listed
    <2> QED
      BY <1>5, <1>7, <2>1, <2>3 DEF LInv
  <1>8. CASE /\ reply' = {} /\ at \notin {Missing, walk.last}
             /\ walk' = [walk EXCEPT !.step = "read", !.at = at, !.last = at,
                           !.seen = {}, !.owed = IdsOf(Beyond(Listed, walk.asc, at))]
    <2> DEFINE owed == IdsOf(Beyond(Listed, walk.asc, at))
    <2>1. owed \subseteq IdsOf(Listed) /\ owed \subseteq Ids
      BY <1>2, TableFacts DEF IdsOf, Beyond
    <2>2. \A i \in owed : at = NoCursor \/ Before(walk.asc, at, i)
      BY DEF IdsOf, Beyond
    <2>3. at \in Ids \cup {NoCursor} /\ at \in 1 .. MaxId \cup {NoCursor}
      BY <1>3, <1>4, <1>8
    <2>4. ~IsBuiltinKey(walk.key)
      BY <1>3, <1>8
    <2> HIDE DEF owed
    <2>5. walk' = [walk EXCEPT !.step = "read", !.at = at, !.last = at, !.seen = {}, !.owed = owed]
      BY <1>8 DEF owed
    <2> HIDE DEF at
    <2>6. walk' \in Walks
      BY <1>2, <2>1, <2>3, <2>5 DEF Walks
    <2>7. /\ walk'.step = "read" /\ walk'.at = at /\ walk'.asc = walk.asc /\ walk'.key = walk.key
          /\ walk'.last = at /\ walk'.seen = {} /\ walk'.owed = owed
      BY <1>2, <2>5 DEF Walks
    <2>8. Place'
      BY <1>1, <1>3, <2>1, <2>2, <2>3, <2>4, <2>7 DEF Place, IsBuiltinKey, Listed
    <2> QED
      BY <1>5, <1>8, <2>6, <2>8 DEF LInv
  <1> QED
    BY <1>6, <1>7, <1>8 DEF FindCursor

\* The last item of the page becomes the place of the walk: what was shown before and with
\* it is not beyond it, and what is owed and was not shown is.
LEMMA ReadPageKeeps ==
  ASSUME LInv, ReadPage
  PROVE  LInv'
  <1> DEFINE page == Listing
             P == page.items
             final == Final(P, walk.asc)
             L == Beyond(Listed, walk.asc, walk.last)
  <1>1. UNCHANGED <<kind, rows, serial, pending>> /\ walk.step = "read"
    BY DEF ReadPage
  <1>2. Tables /\ walk \in Walks /\ Place
    BY DEF LInv
  <1>3. Sheet(page, L, walk.asc, walk.limit)
    BY <1>1, <1>2, ListingIsSheet
  <1>4. P \subseteq L /\ page.more \in BOOLEAN /\ Prefix(P, L, walk.asc)
    BY <1>3 DEF Sheet, Prefix
  <1>5. P \subseteq Listed /\ \A r \in P : walk.last = NoCursor \/ Before(walk.asc, walk.last, r.id)
    BY <1>4 DEF Beyond
  <1>6. IdsOf(P) \subseteq Ids
    BY <1>2, <1>5, TableFacts DEF IdsOf
  <1>7. /\ walk.asc \in BOOLEAN /\ walk.last \in Int
        /\ Keyed(Listed) /\ \A r \in Listed : r.id \in Int
    BY <1>2, WalkTypes, TableFacts DEF Keyed
  <1>8. CASE P = {} /\ walk' = NoWalk /\ Answer(500, {}, FALSE)
    <2>1. reply' \subseteq Replies
      BY <1>8 DEF Answer, Replies, IdsOf
    <2> QED
      BY <1>1, <1>8, <2>1, IdleKeeps DEF LInv
  <1>9. P # {} /\ Answer(200, P, page.more) => reply' \subseteq Replies
    BY <1>4, <1>6 DEF Answer, Replies
  <1>10. CASE P # {} /\ Answer(200, P, page.more) /\ ~page.more /\ walk' = NoWalk
    BY <1>1, <1>9, <1>10, IdleKeeps DEF LInv
  <1>11. CASE /\ P # {} /\ Answer(200, P, page.more)
              /\ walk' = [walk EXCEPT !.step = "find", !.key = final.key,
                            !.at = NoCursor, !.last = final.id, !.seen = @ \cup IdsOf(P)]
    <2>1. final \in P /\ Ends(P, walk.asc, final)
      BY <1>5, <1>7, <1>11, FinalOfPage
    <2>2. final \in Listed /\ final.id \in Ids /\ final.id \in Int /\ final.key \in Cursors /\ final.key # NoKey
      BY <1>2, <1>5, <1>7, <2>1, TableFacts
    <2>3. IsBuiltinKey(final.key) => final.id = Position(BuiltinRows, final.key)
      <3> SUFFICES ASSUME IsBuiltinKey(final.key) PROVE final.id = Position(BuiltinRows, final.key)
        OBVIOUS
      <3>1. PICK b \in BuiltinRows : b.key = final.key /\ Position(BuiltinRows, final.key) = b.id
        BY <1>2, BuiltinPosition
      <3>2. b \in Listed
        BY DEF IsBuiltinKey, Listed
      <3> QED
        BY <1>2, <2>2, <3>1, <3>2, TableFacts
    <2>4. final.id # NoCursor
      BY <2>2, ListingAssumption DEF Ids, NoCursor
    <2>5. ASSUME NEW i \in walk.seen PROVE ~Before(walk.asc, final.id, i)
      <3>1. walk.last # NoCursor /\ ~Before(walk.asc, walk.last, i)
        BY <1>2 DEF Place
      <3>2. i \in Int
        BY <1>2, WalkTypes, ListingAssumption DEF Ids
      <3>3. Before(walk.asc, walk.last, final.id)
        BY <1>5, <2>1, <3>1
      <3> QED
        BY <1>7, <2>2, <3>1, <3>2, <3>3, BeforeOrders
    <2>6. ASSUME NEW i \in IdsOf(P) PROVE ~Before(walk.asc, final.id, i)
      <3>1. PICK r \in P : r.id = i
        BY DEF IdsOf
      <3>2. r.id \in Int /\ (r = final \/ Before(walk.asc, r.id, final.id))
        BY <1>5, <1>7, <2>1 DEF Ends
      <3> QED
        BY <1>7, <2>2, <3>1, <3>2, BeforeOrders
    <2>7. ASSUME NEW i \in walk.owed, i \notin walk.seen \cup IdsOf(P)
          PROVE  Before(walk.asc, final.id, i)
      <3>1. PICK r \in Listed : r.id = i
        BY <1>2 DEF Place, IdsOf
      <3>2. walk.last = NoCursor \/ Before(walk.asc, walk.last, i)
        BY <1>2, <2>7 DEF Place
      <3>3. r \in L /\ r \notin P
        BY <2>7, <3>1, <3>2 DEF Beyond, IdsOf
      <3>4. ~Before(walk.asc, r.id, final.id) /\ r.id # final.id
        BY <1>4, <1>7, <2>1, <2>2, <3>3 DEF Prefix, Keyed
      <3> QED
        BY <1>7, <2>2, <3>1, <3>4, BeforeOrders
    <2> HIDE DEF P, page, final
    <2>8. walk' \in Walks
      <3>1. walk.seen \cup IdsOf(P) \in SUBSET Ids
        BY <1>2, <1>6, WalkTypes
      <3> QED
        BY <1>2, <1>11, <2>2, <3>1 DEF Walks
    <2>9. /\ walk'.step = "find" /\ walk'.asc = walk.asc /\ walk'.key = final.key
          /\ walk'.last = final.id /\ walk'.seen = walk.seen \cup IdsOf(P) /\ walk'.owed = walk.owed
      BY <1>2, <1>11 DEF Walks
    <2>10. walk.owed \subseteq IdsOf(Listed)
      BY <1>2 DEF Place
    <2>11. Place'
      BY <1>1, <2>2, <2>3, <2>4, <2>5, <2>6, <2>7, <2>9, <2>10 DEF Place, IsBuiltinKey, Listed
    <2>12. Tables'
      BY <1>1, <1>2 DEF Tables, KeysFor
    <2> QED
      BY <1>9, <1>11, <2>8, <2>11, <2>12 DEF LInv
  <1> QED
    BY <1>4, <1>8, <1>10, <1>11 DEF ReadPage

\* An id that is drawn is new, and the key of its row is nobody's.
LEMMA BeginInsertKeeps ==
  ASSUME LInv, BeginInsert
  PROVE  LInv'
  <1>1. UNCHANGED <<kind, rows, walk>> /\ reply' = {} /\ serial' = serial + 1 /\ serial < MaxId
    BY DEF BeginInsert
  <1>2. PICK key \in KeysFor(serial + 1) :
          /\ \A r \in rows \cup pending : r.key # key
          /\ pending' = pending \cup {[id |-> serial + 1, key |-> key]}
    BY DEF BeginInsert
  <1>3. Tables /\ walk \in Walks /\ Place
    BY DEF LInv
  <1>4. serial \in Nat /\ serial' \in 0 .. MaxId /\ MaxId \in Nat
    BY <1>1, <1>3, ListingAssumption DEF Tables
  <1> DEFINE new == [id |-> serial + 1, key |-> key]
  <1>5. new.id = serial + 1 /\ new.key = key /\ rows' \cup pending' = (rows \cup pending) \cup {new}
    BY <1>1, <1>2
  <1>6. key \in RowKeys
    BY <1>1, <1>3, <1>4 DEF KeysFor, RowKeys, Tables
  <1>7. new \in [id : 1 .. serial', key : RowKeys]
    BY <1>1, <1>4, <1>6
  <1>8. \A r \in rows \cup pending : /\ r \in [id : 1 .. serial', key : RowKeys]
                                     /\ r.id \in 1 .. serial /\ r.id # serial + 1
    BY <1>1, <1>3, <1>4 DEF Tables
  <1> HIDE DEF new
  <1>9. Tables'
    <2>1. \A r \in rows' \cup pending' : r \in [id : 1 .. serial', key : RowKeys]
      BY <1>5, <1>7, <1>8
    <2>2. \A r \in rows' \cup pending' : r.key \in KeysFor(r.id)'
      BY <1>1, <1>2, <1>3, <1>5 DEF Tables, KeysFor
    <2>3. \A r, s \in rows' \cup pending' : r.id = s.id \/ r.key = s.key => r = s
      BY <1>2, <1>3, <1>5, <1>8 DEF Tables
    <2> QED
      BY <1>1, <1>3, <1>4, <2>1, <2>2, <2>3 DEF Tables
  <1>10. Place'
    BY <1>1, <1>3 DEF Place, IsBuiltinKey, Listed
  <1> QED
    BY <1>1, <1>3, <1>9, <1>10 DEF LInv

\* A row that appears is owed to nobody.
LEMMA CommitInsertKeeps ==
  ASSUME LInv, CommitInsert
  PROVE  LInv'
  <1>1. UNCHANGED <<kind, serial, walk>> /\ reply' = {}
    BY DEF CommitInsert
  <1>2. Tables /\ walk \in Walks /\ Place
    BY DEF LInv
  <1>3. rows \subseteq rows' /\ rows' \cup pending' = rows \cup pending
    BY DEF CommitInsert
  <1>4. Tables'
    BY <1>1, <1>2, <1>3 DEF Tables, KeysFor
  <1>5. IdsOf(Listed) \subseteq IdsOf(Listed)'
    BY <1>1, <1>3 DEF Listed, IdsOf
  <1>6. Place'
    BY <1>1, <1>2, <1>5 DEF Place, IsBuiltinKey
  <1> QED
    BY <1>1, <1>2, <1>4, <1>6 DEF LInv

\* A row that goes is owed no longer.
LEMMA DeleteKeeps ==
  ASSUME LInv, Delete
  PROVE  LInv'
  <1>1. UNCHANGED <<kind, serial, pending>> /\ reply' = {}
    BY DEF Delete
  <1>2. Tables /\ walk \in Walks /\ Place
    BY DEF LInv
  <1>3. PICK r \in rows : rows' = rows \ {r} /\ walk' = [walk EXCEPT !.owed = @ \ {r.id}]
    BY DEF Delete
  <1>4. Tables'
    BY <1>1, <1>2, <1>3 DEF Tables, KeysFor
  <1>5. walk' \in Walks
    BY <1>2, <1>3 DEF Walks
  <1>6. /\ walk'.step = walk.step /\ walk'.asc = walk.asc /\ walk'.key = walk.key
        /\ walk'.at = walk.at /\ walk'.last = walk.last /\ walk'.seen = walk.seen
        /\ walk'.owed = walk.owed \ {r.id}
    BY <1>2, <1>3 DEF Walks
  <1>7. IdsOf(Listed) \ {r.id} \subseteq IdsOf(Listed)'
    BY <1>1, <1>3 DEF Listed, IdsOf
  <1>8. walk.step = "idle" => walk' = NoWalk
    <2> SUFFICES ASSUME walk = NoWalk PROVE walk' = NoWalk
      BY <1>2 DEF Place
    <2>1. walk.owed \ {r.id} = {}
      BY IdleWalk
    <2>2. walk' = [NoWalk EXCEPT !.owed = {}]
      BY <1>3, <2>1
    <2> QED
      BY <2>2 DEF NoWalk
  <1>9. Place'
    BY <1>1, <1>2, <1>6, <1>7, <1>8 DEF Place, IsBuiltinKey
  <1> QED
    BY <1>1, <1>4, <1>5, <1>9 DEF LInv

\* Every step keeps the invariant.
LEMMA StepLInv == LInv /\ [Next]_vars => LInv'
  <1> SUFFICES ASSUME LInv, [Next]_vars PROVE LInv'
    OBVIOUS
  <1>1. CASE UNCHANGED vars
    BY <1>1 DEF vars, LInv, Tables, KeysFor, Place, IsBuiltinKey, Listed
  <1> QED
    BY <1>1, RejectArgsKeeps, StartWalkKeeps, FindCursorKeeps, ReadPageKeeps,
       StatementFailsKeeps, BeginInsertKeeps, CommitInsertKeeps, DeleteKeeps DEF Next

\* The invariant has the types in it.
LEMMA TypesOfLInv == LInv => TypeOK
  <1> SUFFICES ASSUME LInv PROVE TypeOK
    OBVIOUS
  <1>1. 1 .. serial \subseteq 1 .. MaxId
    BY ListingAssumption DEF LInv, Tables
  <1>2. rows \subseteq Rows /\ pending \subseteq Rows
    BY <1>1 DEF LInv, Tables, Rows
  <1> QED
    BY <1>2 DEF LInv, Tables, TypeOK, Replies

\* The rows have the keys and ids they were given, and a walk's cursor, what it has been
\* shown and what it is owed fit together in every reachable state.
THEOREM ListingInvariant == Spec => []LInv
  BY InitLInv, StepLInv, PTL DEF Spec

\* The tables, the walk and the responses keep their types.
THEOREM ListingTypes == Spec => []TypeOK
  BY ListingInvariant, TypesOfLInv, PTL

-----------------------------------------------------------------------------
(* Theorems about the pages *)

\* What the answers of a step are: a page, or an error with nothing on it.
LEMMA Answered ==
  ASSUME Next
  PROVE  \/ walk.step = "read" /\ Answer(200, Listing.items, Listing.more)
         \/ \A r \in reply' : r.status # 200 /\ r.items = {}
  <1>1. ASSUME NEW status \in {400, 500}, Answer(status, {}, FALSE)
        PROVE  \A r \in reply' : r.status # 200 /\ r.items = {}
    BY <1>1 DEF Answer, IdsOf
  <1>2. CASE RejectArgs
    BY <1>1, <1>2 DEF RejectArgs
  <1>3. CASE FindCursor
    BY <1>1, <1>3 DEF FindCursor
  <1>4. CASE ReadPage
    <2>1. walk.step = "read" /\ (Answer(200, Listing.items, Listing.more) \/ Answer(500, {}, FALSE))
      BY <1>4 DEF ReadPage
    <2> QED
      BY <1>1, <2>1
  <1>5. CASE StartWalk \/ BeginInsert \/ CommitInsert \/ Delete
    BY <1>5 DEF StartWalk, BeginInsert, CommitInsert, Delete
  <1>6. CASE StatementFails
    BY <1>1, <1>6 DEF StatementFails
  <1> QED
    BY <1>2, <1>3, <1>4, <1>5, <1>6 DEF Next

\* What an answer with status 200 says is the page.
LEMMA PageAnswered ==
  ASSUME Next, NEW r \in reply', r.status = 200
  PROVE  walk.step = "read" /\ r.items = IdsOf(Listing.items) /\ r.more = Listing.more
  <1>1. walk.step = "read" /\ Answer(200, Listing.items, Listing.more)
    BY Answered
  <1> QED
    BY <1>1 DEF Answer

\* A page is a prefix, so it is what one would take from there.
LEMMA StepNoGap ==
  ASSUME LInv, [Next]_vars
  PROVE  [\A r \in reply' : r.status = 200 =>
            /\ Cardinality(r.items) <= walk.limit
            /\ r.items = IdsOf(Take(Beyond(Listed, walk.asc, Continues), walk.asc,
                                    Cardinality(r.items)))]_vars
  <1> SUFFICES ASSUME Next, NEW r \in reply', r.status = 200
               PROVE  /\ Cardinality(r.items) <= walk.limit
                      /\ r.items = IdsOf(Take(Beyond(Listed, walk.asc, Continues), walk.asc,
                                              Cardinality(r.items)))
    OBVIOUS
  <1> DEFINE L == Beyond(Listed, walk.asc, walk.last)
             P == Listing.items
  <1>1. walk.step = "read" /\ r.items = IdsOf(P)
    BY PageAnswered
  <1>2. Continues = walk.last /\ Sheet(Listing, L, walk.asc, walk.limit)
    BY <1>1, ListingIsSheet DEF LInv
  <1>3. Keyed(L) /\ walk.asc \in BOOLEAN
    BY TableFacts, SubsetKeyed, WalkTypes DEF LInv, Beyond
  <1>4. Prefix(P, L, walk.asc) /\ Cardinality(P) <= walk.limit
    BY <1>2 DEF Sheet
  <1> HIDE DEF L, P
  <1>5. Cardinality(IdsOf(P)) = Cardinality(P)
    BY <1>3, <1>4, SubsetKeyed, IdsCount DEF Prefix
  <1>6. P = Take(L, walk.asc, Cardinality(P))
    BY <1>3, <1>4, PrefixIsTake
  <1> QED
    BY <1>1, <1>2, <1>4, <1>5, <1>6 DEF L

\* What is beyond the place of the walk has not been shown.
LEMMA StepNothingTwice ==
  ASSUME LInv, [Next]_vars
  PROVE  [\A r \in reply' : r.items \cap walk.seen = {}]_vars
  <1> SUFFICES ASSUME Next, NEW r \in reply', NEW i \in r.items, i \in walk.seen
               PROVE  FALSE
    OBVIOUS
  <1>1. CASE r.status = 200
    <2>1. walk.step = "read" /\ r.items = IdsOf(Listing.items)
      BY <1>1, PageAnswered
    <2>2. Sheet(Listing, Beyond(Listed, walk.asc, walk.last), walk.asc, walk.limit)
      BY <2>1, ListingIsSheet DEF LInv
    <2>3. PICK s \in Listing.items : s.id = i
      BY <2>1 DEF IdsOf
    <2>4. walk.last = NoCursor \/ Before(walk.asc, walk.last, i)
      BY <2>2, <2>3 DEF Sheet, Prefix, Beyond
    <2> QED
      BY <2>4 DEF LInv, Place
  <1>2. CASE r.status # 200
    <2>1. r.items = {}
      BY <1>2, Answered DEF Answer
    <2> QED
      BY <2>1
  <1> QED
    BY <1>1, <1>2

\* A page without more is all there is beyond the place of the walk.
LEMMA StepWalkComplete ==
  ASSUME LInv, [Next]_vars
  PROVE  [\A r \in reply' :
            /\ r.status = 200 /\ ~r.more
            /\ kind = "conversations" \/ walk.asc
            => walk.owed \subseteq walk.seen \cup r.items]_vars
  <1> SUFFICES ASSUME Next, NEW r \in reply', r.status = 200, ~r.more,
                      kind = "conversations" \/ walk.asc,
                      NEW i \in walk.owed, i \notin walk.seen
               PROVE  i \in r.items
    OBVIOUS
  <1>1. walk.step = "read" /\ r.items = IdsOf(Listing.items) /\ r.more = Listing.more
    BY PageAnswered
  <1>2. Listing.items = Beyond(Listed, walk.asc, walk.last)
    BY <1>1, ListingIsSheet DEF LInv
  <1>3. PICK s \in Listed : s.id = i
    BY DEF LInv, Place, IdsOf
  <1>4. walk.last = NoCursor \/ Before(walk.asc, walk.last, i)
    BY DEF LInv, Place
  <1> QED
    BY <1>1, <1>2, <1>3, <1>4 DEF Beyond, IdsOf

\* Every page is what directly follows its cursor in the one list of rows and built-in
\* moods, no longer than the limit, although repository.ListMoods glues two together and
\* the row of the cursor was looked up in an earlier statement.
THEOREM PagesWithoutGaps == Spec => PagesHaveNoGap
  BY ListingInvariant, StepNoGap, PTL DEF Spec, PagesHaveNoGap

\* No page shows an item the walk was shown before, whatever was added or deleted between
\* its requests.
THEOREM NothingShownTwice == Spec => NothingTwice
  BY ListingInvariant, StepNothingTwice, PTL DEF Spec, NothingTwice

\* A walk over conversations, or up the moods, that is told there is no more has been shown
\* everything that was in the list throughout.
THEOREM WalksAreComplete == Spec => WalkComplete
  BY ListingInvariant, StepWalkComplete, PTL DEF Spec, WalkComplete

-----------------------------------------------------------------------------
(* The iterator *)

\* What the iterator's first page starts from.
LEMMA ServedIsSheet ==
  ASSUME Tables, NEW params
  PROVE  /\ Served(params).more \in BOOLEAN /\ Served(params).items \subseteq Listed
         /\ ~Served(params).more => Served(params).items = Listed
  <1>1. DefaultLimit \in Nat /\ TRUE \in BOOLEAN
    BY ClientIterAssumption
  <1>2. Beyond(Listed, TRUE, NoCursor) = Listed
    BY DEF Beyond
  <1>3. /\ Understood(params).asc = TRUE /\ Understood(params).key = NoKey
        /\ Understood(params).limit = DefaultLimit
    BY DEF Understood, Request
  <1>4. CASE kind = "moods"
    <2>1. Served(params) = ListMoods(TRUE, NoKey, NoCursor, DefaultLimit)
      BY <1>3, <1>4 DEF Served
    <2>2. IsCursor(NoKey, NoCursor, NoCursor)
      BY IdleWalk DEF IsCursor
    <2> DEFINE page == ListMoods(TRUE, NoKey, NoCursor, DefaultLimit)
    <2>3. /\ Sheet(page, Beyond(Listed, TRUE, NoCursor), TRUE, DefaultLimit)
          /\ ~page.more => page.items = Beyond(Listed, TRUE, NoCursor)
      BY <1>1, <1>4, <2>2, ListMoodsIsSheet
    <2> QED
      BY <1>2, <2>1, <2>3 DEF Sheet, Prefix
  <1>5. CASE kind = "conversations"
    <2>1. Served(params) = ListConversations(TRUE, NoCursor, DefaultLimit)
      BY <1>3, <1>5 DEF Served
    <2> DEFINE page == ListConversations(TRUE, NoCursor, DefaultLimit)
    <2>2. /\ Sheet(page, Beyond(Listed, TRUE, NoCursor), TRUE, DefaultLimit)
          /\ ~page.more => page.items = Beyond(Listed, TRUE, NoCursor)
      BY <1>1, <1>5, ListConversationsIsSheet
    <2> QED
      BY <1>2, <2>1, <2>2 DEF Sheet, Prefix
  <1> QED
    BY <1>4, <1>5 DEF Tables

\* What the iterator still owes it holds, once it has been told that there is no more.
IterInv ==
  /\ it \in Iters /\ Keyed(it.values) /\ it.owed \subseteq IdsOf(Listed)
  /\ ~it.hasMore /\ ~it.failed => it.owed \subseteq it.visited \cup IdsOf(it.values)

\* What is listed is what an iterator can hold.
LEMMA ListedItems ==
  ASSUME LInv
  PROVE  /\ Listed \in Items /\ IdsOf(Listed) \subseteq Ids
         /\ \A S \in Items : \A r \in S : r.id \in Ids
  <1>1. TypeOK /\ Tables
    BY TypesOfLInv DEF LInv
  <1>2. Listed \in Items
    BY <1>1 DEF Listed, Items, TypeOK
  <1>3. IdsOf(Listed) \subseteq Ids
    BY <1>1, TableFacts DEF IdsOf
  <1>4. \A r \in Rows \cup BuiltinRows : r.id \in Ids
    BY BuiltinFacts, ListingAssumption DEF Rows, Ids
  <1> QED
    BY <1>2, <1>3, <1>4 DEF Items

\* Nothing is held at the start, and everything is to come.
LEMMA IterInitInv == IterInit => LInv /\ IterInv
  <1> SUFFICES ASSUME IterInit PROVE LInv /\ IterInv
    OBVIOUS
  <1>1. LInv
    BY InitLInv DEF IterInit
  <1>2. PICK after, before \in {NoKey} \cup {r.key : r \in Listed} :
          it = [after |-> after, before |-> before, hasMore |-> TRUE, values |-> {},
                failed |-> FALSE, visited |-> {}, owed |-> IdsOf(Listed)]
    BY DEF IterInit
  <1>3. after \in Cursors /\ before \in Cursors
    BY <1>1, PlaceOfKey DEF LInv, Cursors
  <1>4. IdsOf(Listed) \subseteq Ids /\ {} \in Items
    BY <1>1, ListedItems DEF Items
  <1>5. it \in Iters
    BY <1>2, <1>3, <1>4 DEF Iters
  <1>6. it.owed = IdsOf(Listed) /\ it.hasMore = TRUE /\ it.values = {}
    BY <1>2
  <1>7. Keyed({})
    BY FS_EmptySet DEF Keyed
  <1> QED
    BY <1>1, <1>5, <1>6, <1>7 DEF IterInv

\* A page without more has everything that is listed.
LEMMA GetPageKeeps ==
  ASSUME LInv, IterInv, GetPage
  PROVE  IterInv'
  <1> DEFINE page == Served([after |-> it.after, before |-> it.before])
             P == page.items
             cursor == CursorOf(Final(P, TRUE))
             owed == IF it.visited = {} THEN IdsOf(Listed) ELSE it.owed
  <1>1. Tables /\ it \in Iters /\ UNCHANGED <<kind, rows>> /\ ~it.failed /\ it.values = {}
    BY DEF LInv, IterInv, GetPage, vars
  <1>2. Listed' = Listed /\ IdsOf(Listed)' = IdsOf(Listed)
    BY <1>1 DEF Listed, IdsOf
  <1>3. page.more \in BOOLEAN /\ P \subseteq Listed /\ (~page.more => P = Listed)
    BY <1>1, ServedIsSheet
  <1>4. P \in Items /\ owed \subseteq IdsOf(Listed) /\ owed \subseteq Ids
    BY <1>3, ListedItems DEF Items, IterInv
  <1>5. CASE it' = [it EXCEPT !.failed = TRUE]
    <2>1. it' \in Iters /\ it'.failed = TRUE /\ it'.owed = it.owed /\ it'.values = it.values
      BY <1>1, <1>5 DEF Iters
    <2> QED
      BY <1>2, <2>1 DEF IterInv
  <1>6. CASE /\ P # {}
             /\ it' = IF it.after # NoKey
                        THEN [it EXCEPT !.hasMore = page.more, !.values = P, !.owed = owed,
                                !.after = cursor]
                        ELSE [it EXCEPT !.hasMore = page.more, !.values = P, !.owed = owed,
                                !.before = cursor]
    <2>1. cursor \in Cursors
      <3>1. Final(P, TRUE) \in P
        BY <1>1, <1>3, <1>6, TableFacts, FinalOfPage
      <3> QED
        BY <1>1, <1>3, <3>1, TableFacts DEF CursorOf
    <2> HIDE DEF page, P, cursor, owed
    <2>2. it' \in Iters
      BY <1>1, <1>3, <1>4, <1>6, <2>1 DEF Iters
    <2>3. it'.hasMore = page.more /\ it'.values = P /\ it'.owed = owed
      BY <1>1, <1>6 DEF Iters
    <2>4. ~page.more => owed \subseteq IdsOf(P)
      BY <1>3, <1>4
    <2>5. Keyed(P)
      BY <1>1, <1>3, TableFacts, SubsetKeyed
    <2> QED
      BY <1>2, <1>4, <2>2, <2>3, <2>4, <2>5 DEF IterInv
  <1> QED
    BY <1>5, <1>6 DEF GetPage

\* There is a first value, and it becomes the current one.
LEMMA FirstValue ==
  ASSUME IterInv, Visit
  PROVE  \E first \in it.values :
           it' = [it EXCEPT !.values = @ \ {first}, !.visited = @ \cup {first.id}]
  <1>1. it.values # {} /\ Keyed(it.values)
    BY DEF Visit, IterInv
  <1>2. PICK r \in it.values : Ends(it.values, FALSE, r)
    BY <1>1, LastExists
  <1>3. \A s \in it.values : r.id <= s.id
    BY <1>1, <1>2 DEF Ends, Before, Keyed
  <1> QED
    BY <1>3 DEF Visit

\* What is not held any more has been visited.
LEMMA VisitKeeps ==
  ASSUME LInv, IterInv, Visit
  PROVE  IterInv'
  <1>1. PICK first \in it.values :
          it' = [it EXCEPT !.values = @ \ {first}, !.visited = @ \cup {first.id}]
    BY FirstValue
  <1>2. it \in Iters /\ Keyed(it.values) /\ it.values \in Items /\ UNCHANGED <<kind, rows>>
    BY DEF IterInv, Iters, Visit, vars
  <1>3. first.id \in Ids
    BY <1>2, ListedItems
  <1>4. it' \in Iters
    BY <1>1, <1>2, <1>3 DEF Iters, Items
  <1>5. /\ it'.values = it.values \ {first} /\ it'.visited = it.visited \cup {first.id}
        /\ it'.owed = it.owed /\ it'.hasMore = it.hasMore /\ it'.failed = it.failed
    BY <1>1, <1>2 DEF Iters
  <1>6. Keyed(it'.values)
    BY <1>2, <1>5, SubsetKeyed
  <1>7. it.visited \cup IdsOf(it.values) \subseteq it'.visited \cup IdsOf(it'.values)
    BY <1>5 DEF IdsOf
  <1>8. IdsOf(Listed)' = IdsOf(Listed)
    BY <1>2 DEF IdsOf, Listed
  <1> QED
    BY <1>4, <1>5, <1>6, <1>7, <1>8 DEF IterInv

\* What others delete is owed no longer.
LEMMA OthersKeep ==
  ASSUME LInv, IterInv, Others
  PROVE  IterInv'
  <1>1. it \in Iters /\ it' = [it EXCEPT !.owed = @ \cap IdsOf(Listed')]
    BY DEF IterInv, Others
  <1>2. it' \in Iters
    BY <1>1 DEF Iters
  <1>3. /\ it'.values = it.values /\ it'.visited = it.visited
        /\ it'.owed = it.owed \cap IdsOf(Listed') /\ it'.hasMore = it.hasMore
        /\ it'.failed = it.failed
    BY <1>1 DEF Iters
  <1>4. IdsOf(it'.values) = IdsOf(it.values) /\ IdsOf(Listed)' = IdsOf(Listed')
    BY <1>3 DEF IdsOf
  <1> QED
    BY <1>2, <1>3, <1>4 DEF IterInv

\* Every step of the iterator, too, keeps the invariants.
LEMMA StepIter ==
  ASSUME LInv, IterInv, [IterNext]_iterVars
  PROVE  [Next]_vars /\ IterInv'
  <1>1. [Next]_vars
    BY DEF IterNext, GetPage, Visit, Others, Next, iterVars
  <1>2. CASE UNCHANGED iterVars
    <2>1. kind' = kind /\ rows' = rows /\ it' = it
      BY <1>2 DEF iterVars, vars
    <2>2. IdsOf(Listed)' = IdsOf(Listed) /\ IdsOf(it.values)' = IdsOf(it.values)
      BY <2>1 DEF Listed, IdsOf
    <2>3. Keyed(it.values)' = Keyed(it.values)
      BY <2>1 DEF Keyed
    <2> QED
      BY <1>1, <2>1, <2>2, <2>3 DEF IterInv
  <1> QED
    BY <1>1, <1>2, GetPageKeeps, VisitKeeps, OthersKeep DEF IterNext

\* What holds of the listings holds under the client's iterator, and what the iterator
\* still owes it holds once it has been told that there is no more.
THEOREM IterInvariant == IterSpec => [](LInv /\ IterInv)
  <1>1. LInv /\ IterInv /\ [IterNext]_iterVars => (LInv /\ IterInv)'
    BY StepIter, StepLInv
  <1> QED
    BY <1>1, IterInitInv, PTL DEF IterSpec

\* The iterator's fields keep their types: its cursors are ones the service could send.
THEOREM IterTypes == IterSpec => []IterTypeOK
  <1>1. LInv /\ IterInv => IterTypeOK
    BY TypesOfLInv DEF IterInv, IterTypeOK
  <1> QED
    BY <1>1, IterInvariant, PTL

\* An iteration that ends without an error has been on every item that was in the list
\* from its first page to its end, however many pages it took.
THEOREM EverythingVisited == IterSpec => []VisitsAll
  <1>1. IterInv => VisitsAll
    BY DEF IterInv, VisitsAll, Exhausted, IdsOf
  <1> QED
    BY <1>1, IterInvariant, PTL

=============================================================================
