------------------------------ MODULE Listing ------------------------------
(***************************************************************************)
(* GET /moods and GET /conversations: how a list is cut into pages, and a   *)
(* client that walks it page by page while other requests add and delete    *)
(* items.  A page is two statements, one that finds the row the cursor      *)
(* names and one that reads from its id on; nothing ties them, or one page  *)
(* to the next, to one state of the table.                                  *)
(*                                                                          *)
(* One user, whose rows carry the serial ids 1 .. MaxId.  The built-in      *)
(* moods, which have no row, come after every row in ascending order; here  *)
(* they are rows with the ids that follow MaxId.  A definition marked       *)
(* Variant is what a plausible mistake would make of the one after it.      *)
(***************************************************************************)
EXTENDS Integers, FiniteSets, Sequences

CONSTANTS
  MoodNames,     \* names for user moods
  BuiltinMoods,  \* builtinMoods: the sequence of their names
  MaxId,         \* bound on the ids the sequence hands out
  MaxLimit,      \* maxListLimit
  DbMayFail,     \* whether statements may fail
  NoKey          \* the empty cursor

ASSUME ListingAssumption ==
  /\ MaxId \in Nat /\ MaxLimit \in Nat /\ Len(BuiltinMoods) \in Nat \ {0}
  /\ DbMayFail \in BOOLEAN
  /\ \A i, j \in 1 .. Len(BuiltinMoods) :
       BuiltinMoods[i] = BuiltinMoods[j] => i = j
  /\ \A i \in 1 .. Len(BuiltinMoods) : BuiltinMoods[i] \notin MoodNames \cup {NoKey}
  /\ NoKey \notin MoodNames \cup 1 .. MaxId

VARIABLES
  kind,     \* which list this is about: "moods" or "conversations"
  rows,     \* the user's rows [id, key] of that table
  serial,   \* the last id its sequence handed out
  pending,  \* rows whose INSERT has drawn its id but not committed
  walk,     \* the client's walk, and the request it is waiting for
  reply     \* the response sent by the latest step, as a set

vars == <<kind, rows, serial, pending, walk, reply>>

Ids == 1 .. MaxId + Len(BuiltinMoods)
BuiltinRows == {[id |-> MaxId + i, key |-> BuiltinMoods[i]] :
                  i \in 1 .. Len(BuiltinMoods)}

\* A conversation is known by a random public id that is not drawn twice, which
\* is as good as its serial; a mood by a name that may be used again.
KeysFor(id) == IF kind = "moods" THEN MoodNames ELSE {id}
RowKeys == MoodNames \cup 1 .. MaxId
Rows == [id : 1 .. MaxId, key : RowKeys]
Cursors == RowKeys \cup {NoKey} \cup {r.key : r \in BuiltinRows}

-----------------------------------------------------------------------------
(* Pages *)

NoCursor == -1   \* cursorID when the request names no cursor
Missing == 0     \* errCursorNotFound

Position(S, key) ==
  IF key = NoKey THEN NoCursor
  ELSE IF \E r \in S : r.key = key THEN (CHOOSE r \in S : r.key = key).id
  ELSE Missing

Before(asc, i, j) == IF asc THEN i < j ELSE i > j

\* Variant: the row of the cursor is part of what follows it.
FromCursor(S, asc, at) ==
  {r \in S : at = NoCursor \/ at = r.id \/ Before(asc, at, r.id)}

Beyond(S, asc, at) == {r \in S : at = NoCursor \/ Before(asc, at, r.id)}

Take(S, asc, n) ==
  {r \in S : Cardinality({s \in S : Before(asc, s.id, r.id)}) < n}

\* Variant: an off-by-one in the comparison with the limit.
PageForgetsOne(S, asc, at, limit) ==
  LET found == Beyond(S, asc, at) IN
    [items |-> Take(found, asc, limit), more |-> Cardinality(found) > limit + 1]

\* Variant: a page that is just full is taken for one that has more.
PageFullHasMore(S, asc, at, limit) ==
  LET found == Beyond(S, asc, at) IN
    [items |-> Take(found, asc, limit), more |-> Cardinality(found) >= limit]

\* Up to limit rows beyond the cursor, and whether the extra row the queries ask
\* for was there.
Page(S, asc, at, limit) ==
  LET found == Beyond(S, asc, at) IN
    [items |-> Take(found, asc, limit), more |-> Cardinality(found) > limit]

\* Variant: the limit of the second source is not reduced.
ListBothInFull(asc, key, at, limit) ==
  LET first == Page(rows, asc, at, limit)
      second == Page(BuiltinRows, asc, NoCursor, limit)
  IN [items |-> first.items \cup second.items, more |-> second.more]

\* repository.ListMoods reads two sources in turn: the user's rows and then the
\* built-ins, or the other way round when it descends.  at is where the query
\* for the user's rows found the cursor.  When the first source does not know
\* the cursor the second is asked with it; otherwise the second continues from
\* its beginning with what is left of the limit, unless the first returned
\* exactly as many as are left.
ListMoods(asc, key, at, limit) ==
  LET builtinAt == Position(BuiltinRows, key)
      firstRows == IF asc THEN rows ELSE BuiltinRows
      secondRows == IF asc THEN BuiltinRows ELSE rows
      firstAt == IF asc THEN at ELSE builtinAt
      secondAt == IF asc THEN builtinAt ELSE at
      first == Page(firstRows, asc, firstAt, limit)
      left == limit - Cardinality(first.items)
      second == Page(secondRows, asc, NoCursor, left)
  IN IF firstAt = Missing THEN Page(secondRows, asc, secondAt, limit)
     ELSE IF Cardinality(first.items) = left THEN [first EXCEPT !.more = TRUE]
     ELSE [items |-> first.items \cup second.items, more |-> second.more]

\* repository.ListConversations
ListConversations(asc, at, limit) == Page(rows, asc, at, limit)

-----------------------------------------------------------------------------
(* The walk of a client that passes the cursor of each page to the next     *)

NoWalk == [step |-> "idle", asc |-> TRUE, limit |-> 0, key |-> NoKey,
           at |-> NoCursor, last |-> NoCursor, seen |-> {}, owed |-> {}]

Walks == [step : {"idle", "find", "read"}, asc : BOOLEAN, limit : 0 .. MaxLimit,
          key : Cursors, at : Ids \cup {NoCursor, Missing},
          last : Ids \cup {NoCursor}, seen : SUBSET Ids, owed : SUBSET Ids]

Listed == IF kind = "moods" THEN rows \cup BuiltinRows ELSE rows
IdsOf(S) == {r.id : r \in S}

Init ==
  /\ kind \in {"moods", "conversations"}
  /\ rows = {} /\ serial = 0 /\ pending = {}
  /\ walk = NoWalk /\ reply = {}

Answer(status, items, more) ==
  reply' = {[status |-> status, items |-> IdsOf(items), more |-> more]}

\* getListArgs: two cursors, or a limit outside 0 .. maxListLimit.
RejectArgs ==
  /\ walk.step = "idle"
  /\ Answer(400, {}, FALSE)
  /\ UNCHANGED <<kind, rows, serial, pending, walk>>

\* Variant: the upper bound is not looked at.
LimitsUnbounded == 0 .. MaxLimit + 1

Limits == 0 .. MaxLimit

\* The first request of a walk: from the start, or from an item of the list in
\* either direction.  Without a cursor a request always ascends (sortAsc).  seen
\* and owed are not the client's: they record which ids it was shown, and which
\* of those it asked for have been listed all the time since.
StartWalk ==
  /\ walk.step = "idle"
  /\ \E asc \in BOOLEAN, limit \in Limits,
        key \in {NoKey} \cup {r.key : r \in Listed} :
       /\ key = NoKey => asc
       /\ walk' = [NoWalk EXCEPT
            !.step = "find", !.asc = asc, !.limit = limit, !.key = key,
            !.last = Position(Listed, key),
            !.owed = IdsOf(Beyond(Listed, asc, Position(Listed, key)))]
  /\ reply' = {}
  /\ UNCHANGED <<kind, rows, serial, pending>>

IsBuiltinKey(key) == kind = "moods" /\ \E r \in BuiltinRows : r.key = key

\* The query for the row of the cursor; nothing to do when there is no cursor.
\* A mood's name may by now belong to another row than the one the client was
\* shown, if the mood was deleted and made again: the walk then goes on from the
\* new row's place, and what the records say of it starts afresh.
FindCursor ==
  /\ walk.step = "find"
  /\ LET at == Position(rows, walk.key) IN
       \/ /\ at = Missing /\ ~IsBuiltinKey(walk.key)
          /\ walk' = NoWalk
          /\ Answer(400, {}, FALSE)
       \/ /\ at # Missing \/ IsBuiltinKey(walk.key)
          /\ walk' = IF at \in {Missing, walk.last}
                       THEN [walk EXCEPT !.step = "read", !.at = at]
                       ELSE [walk EXCEPT !.step = "read", !.at = at, !.last = at,
                               !.seen = {}, !.owed = IdsOf(Beyond(Listed, walk.asc, at))]
          /\ reply' = {}
  /\ UNCHANGED <<kind, rows, serial, pending>>

Listing ==
  IF kind = "moods" THEN ListMoods(walk.asc, walk.key, walk.at, walk.limit)
                    ELSE ListConversations(walk.asc, walk.at, walk.limit)

Final(S, asc) == CHOOSE r \in S : \A s \in S : s = r \/ Before(asc, s.id, r.id)

\* The handler reads its Cursor off the last item before it looks whether there
\* is one: an empty page is a panic, which WrapPanicC answers with 500.
ReadPage ==
  /\ walk.step = "read"
  /\ LET page == Listing
         final == Final(page.items, walk.asc)
     IN \/ /\ page.items = {}
           /\ walk' = NoWalk
           /\ Answer(500, {}, FALSE)
        \/ /\ page.items # {}
           /\ Answer(200, page.items, page.more)
           /\ walk' = IF page.more
                        THEN [walk EXCEPT !.step = "find", !.key = final.key,
                                !.at = NoCursor, !.last = final.id,
                                !.seen = @ \cup IdsOf(page.items)]
                        ELSE NoWalk
  /\ UNCHANGED <<kind, rows, serial, pending>>

\* Either statement of a page may fail; the walk is over.
StatementFails ==
  /\ DbMayFail /\ walk.step # "idle"
  /\ walk' = NoWalk
  /\ Answer(500, {}, FALSE)
  /\ UNCHANGED <<kind, rows, serial, pending>>

-----------------------------------------------------------------------------
(* Other requests of the same user: an INSERT draws its id from the sequence *)
(* and becomes visible later, so rows may appear in another order than that  *)
(* of their ids; the unique index makes a second INSERT of a key wait.       *)

BeginInsert ==
  /\ serial < MaxId
  /\ \E key \in KeysFor(serial + 1) :
       /\ \A r \in rows \cup pending : r.key # key
       /\ pending' = pending \cup {[id |-> serial + 1, key |-> key]}
  /\ serial' = serial + 1
  /\ reply' = {}
  /\ UNCHANGED <<kind, rows, walk>>

CommitInsert ==
  /\ \E r \in pending : /\ rows' = rows \cup {r}
                        /\ pending' = pending \ {r}
  /\ reply' = {}
  /\ UNCHANGED <<kind, serial, walk>>

Delete ==
  /\ \E r \in rows : /\ rows' = rows \ {r}
                     /\ walk' = [walk EXCEPT !.owed = @ \ {r.id}]
  /\ reply' = {}
  /\ UNCHANGED <<kind, serial, pending>>

Next ==
  \/ RejectArgs \/ StartWalk \/ FindCursor \/ ReadPage \/ StatementFails
  \/ BeginInsert \/ CommitInsert \/ Delete

Spec == Init /\ [][Next]_vars

-----------------------------------------------------------------------------
(* Properties *)

TypeOK ==
  /\ kind \in {"moods", "conversations"}
  /\ rows \subseteq Rows /\ pending \subseteq Rows
  /\ serial \in 0 .. MaxId
  /\ walk \in Walks
  /\ reply \subseteq [status : {200, 400, 500}, items : SUBSET Ids, more : BOOLEAN]

\* Where the list continues for the client: the id of the row its cursor names.
Continues == IF IsBuiltinKey(walk.key) THEN Position(BuiltinRows, walk.key)
                                       ELSE walk.at

\* A page never leaves a gap and never overflows: it is what directly follows
\* the cursor in the one list a client sees, no more than the limit, although
\* ListMoods glues it together from two sources.
PagesHaveNoGap ==
  [][ \A r \in reply' : r.status = 200 =>
        /\ Cardinality(r.items) <= walk.limit
        /\ r.items = IdsOf(Take(Beyond(Listed, walk.asc, Continues), walk.asc,
                                Cardinality(r.items))) ]_vars

\* A walk shows no item twice, whatever is added or deleted meanwhile, as long
\* as its cursor still names the row it was read off.
NothingTwice ==
  [][ \A r \in reply' : r.items \cap walk.seen = {} ]_vars

\* A walk over conversations, in either direction, or up the list of moods that
\* is told there is no more has been shown everything that was there throughout.
WalkComplete ==
  [][ \A r \in reply' :
        /\ r.status = 200 /\ ~r.more
        /\ kind = "conversations" \/ walk.asc
        => walk.owed \subseteq walk.seen \cup r.items ]_vars

-----------------------------------------------------------------------------
(* What the documents say *)

\* swagger.yaml: when has_more is false, the page is the end of the list.
NoMoreIsTheEnd ==
  [][ \A r \in reply' :
        r.status = 200 /\ ~r.more
        => IdsOf(Beyond(Listed, walk.asc, Continues)) \subseteq r.items ]_vars

\* README.md, on error handling: "We don't panic."  A listing with parameters
\* that are allowed is answered, be the list empty or not.
ListingsDoNotPanic == \A r \in reply : r.status # 500

=============================================================================
