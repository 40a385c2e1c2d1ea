----------------------------- MODULE ClientIter -----------------------------
(***************************************************************************)
(* The iterator of the Go client (client/iter.go) over the listings of the  *)
(* service, while other requests change the list.                           *)
(*                                                                          *)
(* A page without a cursor is read by one statement, so fetching it is one  *)
(* step; the walk of module Listing, a client that passes cursors as the    *)
(* service reads them, stays idle here.                                     *)
(***************************************************************************)
EXTENDS Listing

CONSTANT DefaultLimit  \* defaultListLimit

ASSUME ClientIterAssumption == DefaultLimit \in Nat \ {0}

VARIABLE it  \* the Iter; visited and owed record which items it has been on,
             \* and which have been in the list since it fetched its first page

iterVars == <<vars, it>>

Items == SUBSET (Rows \cup BuiltinRows)

Iters == [after : Cursors, before : Cursors, hasMore : BOOLEAN, values : Items,
          failed : BOOLEAN, visited : SUBSET Ids, owed : SUBSET Ids]

IterInit ==
  /\ Init
  /\ \E after, before \in {NoKey} \cup {r.key : r \in Listed} :
       it = [after |-> after, before |-> before, hasMore |-> TRUE, values |-> {},
             failed |-> FALSE, visited |-> {}, owed |-> IdsOf(Listed)]

Request(key, asc, limit) == [key |-> key, asc |-> asc, limit |-> limit]

\* What getListArgs finds in the query the client encodes.  The client writes
\* ending_after, starting_before and Limit; the service looks for
\* starting_after, ending_before and limit, and finds none of them.
Understood(params) == Request(NoKey, TRUE, DefaultLimit)

Served(params) ==
  LET req == Understood(params) IN
    IF kind = "moods" THEN ListMoods(req.asc, req.key, NoCursor, req.limit)
                      ELSE ListConversations(req.asc, NoCursor, req.limit)

\* Variant: the row's serial id, which the service keeps to itself.
SerialOf(item) == item.id

\* What the service sends as the cursor of a page that ends with item.
CursorOf(item) == item.key

\* getPage: the cursor of the page replaces After if one was given, and Before
\* otherwise.  The request may fail on its way, or its answer not be understood;
\* an empty list is always answered with an error (see ReadPage).
GetPage ==
  /\ ~it.failed /\ it.values = {} /\ it.hasMore
  /\ LET page == Served([after |-> it.after, before |-> it.before])
         cursor == CursorOf(Final(page.items, TRUE))
         got == [it EXCEPT !.hasMore = page.more, !.values = page.items,
                           !.owed = IF it.visited = {} THEN IdsOf(Listed) ELSE @]
     IN \/ it' = [it EXCEPT !.failed = TRUE]
        \/ /\ page.items # {}
           /\ it' = IF it.after # NoKey THEN [got EXCEPT !.after = cursor]
                                        ELSE [got EXCEPT !.before = cursor]
  /\ UNCHANGED vars

\* The rest of Next: the first value becomes the current one.
Visit ==
  /\ it.values # {}
  /\ LET first == CHOOSE r \in it.values : \A s \in it.values : r.id <= s.id IN
       it' = [it EXCEPT !.values = @ \ {first}, !.visited = @ \cup {first.id}]
  /\ UNCHANGED vars

Others ==
  /\ BeginInsert \/ CommitInsert \/ Delete
  /\ it' = [it EXCEPT !.owed = @ \cap IdsOf(Listed')]

\* Next returns false from now on.
Exhausted == it.failed \/ (it.values = {} /\ ~it.hasMore)

IterNext == GetPage \/ Visit \/ Others

\* The program that iterates keeps calling Next, and the service answers.
IterSpec == IterInit /\ [][IterNext]_iterVars /\ WF_iterVars(GetPage \/ Visit)

-----------------------------------------------------------------------------
(* Properties *)

\* The iterator's fields keep their types; the cursor it holds is one the service
\* could have sent or the one it was given.
IterTypeOK == TypeOK /\ it \in Iters

\* Next eventually returns false, as its comment says: at the end of the list or
\* at an error.  (It does not: a list that stays longer than a page has no end.)
IterEnds == <>Exhausted

\* The list fits in a page and ListMoods says so; it says that there is more when
\* the user's rows are exactly half a page, as many as are left of the limit.
Short == /\ Cardinality(Listed) <= DefaultLimit
         /\ kind = "moods" => 2 * Cardinality(rows) # DefaultLimit

\* Iter.Next eventually returns false, however many pages it has fetched from a
\* list that was longer, if the list is once short and stays so.
EndsOnceShort == <>[]Short => IterEnds

\* An iteration that ends without an error has been on every item that was in
\* the list from its first page to its end, whatever came and went between its
\* pages.
VisitsAll == Exhausted /\ ~it.failed => it.owed \subseteq it.visited

=============================================================================
