-------------------------------- MODULE Say --------------------------------
(***************************************************************************)
(* The request handlers of say/say.go with the repository methods they      *)
(* call (say/repository.go), run concurrently against one database.         *)
(*                                                                          *)
(* A handler goroutine holds no lock and opens no transaction.  It runs one *)
(* statement, keeps what it learnt in local variables and may run another,  *)
(* while other requests commit in between.  One action is one statement     *)
(* together with the code up to the next statement or to the response; the  *)
(* first statement is taken together with the arrival of the request.       *)
(***************************************************************************)
EXTENDS Schema

CONSTANTS
  Handlers,          \* the goroutines serving requests
  MaxInsertRetries,  \* maxInsertRetries
  DbMayFail          \* whether a statement may fail although it is legal

ASSUME SayAssumption ==
  /\ MaxInsertRetries \in Nat \ {0}
  /\ DbMayFail \in BOOLEAN

VARIABLES
  task,     \* what each handler is in the middle of, with its local variables
  answered  \* the response sent by the latest step, if it sent one

vars == <<moods, convos, lines, moodSerial, convoSerial, task, answered>>

Ops == {"GetMood", "SetMood", "DeleteMood", "CreateConversation",
        "GetConversation", "DeleteConversation",
        "CreateLine", "GetLine", "DeleteLine"}
Statuses == {200, 204, 400, 404, 500}
Tries == 0 .. MaxInsertRetries - 1
MoodIds == Serials \cup {NoMood}

Idle == [step |-> "idle"]

Tasks ==
  {Idle}
  \cup [step : {"insertMood"}, user : Users, name : Names, look : Looks]
  \cup [step : {"listBlockers"}, user : Users, name : Names]
  \cup [step : {"insertConvo"}, user : Users, tries : Tries]
  \cup [step : {"readLines"}, user : Users, pub : ConvoIds, convo : Serials]
  \cup [step : {"findConvo"}, user : Users, name : Names, mood : MoodIds,
        pub : ConvoIds]
  \cup [step : {"insertLine"}, user : Users, name : Names, mood : MoodIds,
        pub : ConvoIds, convo : Serials, tries : Tries]

Responses == [op : Ops, status : Statuses, user : Users, ids : SUBSET LineIds]

Init ==
  /\ TablesInit
  /\ task = [h \in Handlers |-> Idle]
  /\ answered = {}

Respond(h, op, u, status, ids) ==
  /\ task' = [task EXCEPT ![h] = Idle]
  /\ answered' = {[op |-> op, status |-> status, user |-> u, ids |-> ids]}

Continue(h, next) ==
  /\ task' = [task EXCEPT ![h] = next]
  /\ answered' = {}

\* The statement committed, but its result may be lost on the way back: the
\* handler sees an error and answers 500.
Acked(status) == IF DbMayFail THEN {status, 500} ELSE {status}

\* Variant: names are compared as they are spelled.
IsExactlyBuiltin(n) == n \in Builtins

IsBuiltin(n) == Lower[n] \in Builtins

\* repository.GetMood: the id the mood has, as a set that is empty for nil.  A
\* built-in counts only when it is spelled exactly.
GetMoodIds(u, n) == IF n \in Builtins THEN {NoMood}
                                      ELSE {m.id : m \in findMood(u, n)}

\* setLineMood: the joined row, or else the built-in of that name.
Renders(l) == IsBuiltin(l.name) \/ \E m \in moods : m.id = l.mood

ReadStatus(found) == IF \A l \in found : Renders(l) THEN 200 ELSE 500

\* Variant: the number of rows is not looked at.
DeletedAnyway(rows) == 204

DeleteStatus(rows) == IF rows = {} THEN 404 ELSE 204

-----------------------------------------------------------------------------
(* Moods *)

GetMood(h) ==
  /\ task[h] = Idle
  /\ \E u \in Users, n \in Names :
       Respond(h, "GetMood", u, IF GetMoodIds(u, n) = {} THEN 404 ELSE 200, {})
  /\ UNCHANGED tables

\* valid: eyes and tongue are each empty or two characters long.
SetMood(h) ==
  /\ task[h] = Idle
  /\ \E u \in Users, n \in Names, look \in Looks, valid \in BOOLEAN :
       \/ /\ ~valid \/ IsBuiltin(n)
          /\ Respond(h, "SetMood", u, 400, {})
          /\ UNCHANGED tables
       \/ /\ valid /\ ~IsBuiltin(n) /\ findMood(u, n) # {}
          /\ updateMood(u, n, look)
          /\ \E s \in Acked(200) : Respond(h, "SetMood", u, s, {})
       \/ /\ valid /\ ~IsBuiltin(n) /\ findMood(u, n) = {}
          /\ Continue(h, [step |-> "insertMood", user |-> u, name |-> n,
                          look |-> look])
          /\ UNCHANGED tables

\* The INSERT half of the racy upsert: its UPDATE half has found no row, and
\* another handler may have inserted one since.
SetMoodInsert(h) ==
  /\ task[h].step = "insertMood"
  /\ LET t == task[h] IN
       /\ insertMood(t.user, t.name, t.look)
       /\ \E s \in IF StoresMood(t.user, t.name) THEN Acked(200) ELSE {500} :
            Respond(h, "SetMood", t.user, s, {})

DeleteMood(h) ==
  /\ task[h] = Idle
  /\ \E u \in Users, n \in Names :
       \/ /\ IsBuiltin(n)
          /\ Respond(h, "DeleteMood", u, 400, {})
          /\ UNCHANGED tables
       \/ /\ ~IsBuiltin(n)
          /\ deleteMood(u, n)
          /\ \E s \in Acked(DeleteStatus(findMood(u, n))) :
               Respond(h, "DeleteMood", u, s, {})
       \/ /\ ~IsBuiltin(n) /\ MoodInUse(u, n)
          /\ Continue(h, [step |-> "listBlockers", user |-> u, name |-> n])
          /\ UNCHANGED tables

\* The foreign key refused the DELETE: look for the lines that are in the way.
DeleteMoodConflict(h) ==
  /\ task[h].step = "listBlockers"
  /\ LET t == task[h] IN
       Respond(h, "DeleteMood", t.user, 400,
               {l.pub : l \in findMoodLines(t.user, t.name)})
  /\ UNCHANGED tables

-----------------------------------------------------------------------------
(* Conversations *)

\* Variant: one attempt too many.
MayRetryOnceMore(i) == i < MaxInsertRetries

MayRetry(i) == i + 1 < MaxInsertRetries

\* Variant: the attempts are not counted.
SameTry(i) == i

NextTry(i) == i + 1

CreateConversation(h) ==
  /\ task[h] = Idle
  /\ \E u \in Users :
       \/ Respond(h, "CreateConversation", u, 400, {})   \* heading too long
       \/ Continue(h, [step |-> "insertConvo", user |-> u, tries |-> 0])
  /\ UNCHANGED tables

CreateConversationInsert(h) ==
  /\ task[h].step = "insertConvo"
  /\ \E p \in ConvoIds : LET t == task[h] IN
       /\ insertConvo(t.user, p)
       /\ \/ /\ convoSerial = MaxSerial
             /\ Respond(h, "CreateConversation", t.user, 500, {})
          \/ /\ convoSerial < MaxSerial /\ ~PubTaken(p)
             /\ \E s \in Acked(200) :
                  Respond(h, "CreateConversation", t.user, s, {})
          \/ /\ convoSerial < MaxSerial /\ PubTaken(p) /\ MayRetry(t.tries)
             /\ Continue(h, [t EXCEPT !.tries = NextTry(t.tries)])
          \/ /\ convoSerial < MaxSerial /\ PubTaken(p) /\ ~MayRetry(t.tries)
             /\ Respond(h, "CreateConversation", t.user, 500, {})

GetConversation(h) ==
  /\ task[h] = Idle
  /\ \E u \in Users, p \in ConvoIds :
       \/ /\ getConvo(u, p) = {}
          /\ Respond(h, "GetConversation", u, 404, {})
       \/ \E c \in getConvo(u, p) :
            Continue(h, [step |-> "readLines", user |-> u, pub |-> p,
                         convo |-> c.id])
  /\ UNCHANGED tables

\* The lines are read by the serial id found before.
GetConversationLines(h) ==
  /\ task[h].step = "readLines"
  /\ LET t == task[h]
         found == findConvoLines(t.convo) IN
       Respond(h, "GetConversation", t.user, ReadStatus(found),
               IF ReadStatus(found) = 200 THEN {l.pub : l \in found} ELSE {})
  /\ UNCHANGED tables

DeleteConversation(h) ==
  /\ task[h] = Idle
  /\ \E u \in Users, p \in ConvoIds :
       /\ deleteConvo(u, p)
       /\ \E s \in Acked(DeleteStatus(getConvo(u, p))) :
            Respond(h, "DeleteConversation", u, s, {})

-----------------------------------------------------------------------------
(* Lines *)

\* valid: think, animal and text are acceptable; a mood u does not have is not.
CreateLine(h) ==
  /\ task[h] = Idle
  /\ \E u \in Users, n \in Names, p \in ConvoIds, valid \in BOOLEAN :
       \/ /\ ~valid \/ GetMoodIds(u, n) = {}
          /\ Respond(h, "CreateLine", u, 400, {})
       \/ \E i \in GetMoodIds(u, n) :
         /\ valid
         /\ Continue(h, [step |-> "findConvo", user |-> u, name |-> n,
                         mood |-> i, pub |-> p])
  /\ UNCHANGED tables

\* InsertLine wraps sql.ErrNoRows, so the handler's test for it never holds and
\* a missing conversation is an internal error.
CreateLineFind(h) ==
  /\ task[h].step = "findConvo"
  /\ LET t == task[h] IN
       \/ /\ getConvo(t.user, t.pub) = {}
          /\ Respond(h, "CreateLine", t.user, 500, {})
       \/ \E c \in getConvo(t.user, t.pub) :
            Continue(h, [step |-> "insertLine", user |-> t.user,
                         name |-> t.name, mood |-> t.mood, pub |-> t.pub,
                         convo |-> c.id, tries |-> 0])
  /\ UNCHANGED tables

\* The unique index refuses a row before its foreign keys are looked at.
CreateLineInsert(h) ==
  /\ task[h].step = "insertLine"
  /\ \E q \in LineIds :
       LET t == task[h]
           l == [pub |-> q, convo |-> t.convo, mood |-> t.mood, name |-> t.name]
       IN /\ insertLine(l)
          /\ \/ /\ ~LineTaken(q) /\ ForeignKeysHold(l)
                /\ \E s \in Acked(200) :
                     Respond(h, "CreateLine", t.user, s,
                             IF s = 200 THEN {q} ELSE {})
             \/ /\ ~LineTaken(q) /\ ~ForeignKeysHold(l)
                /\ Respond(h, "CreateLine", t.user, 500, {})
             \/ /\ LineTaken(q) /\ MayRetry(t.tries)
                /\ Continue(h, [t EXCEPT !.tries = NextTry(t.tries)])
             \/ /\ LineTaken(q) /\ ~MayRetry(t.tries)
                /\ Respond(h, "CreateLine", t.user, 500, {})

GetLine(h) ==
  /\ task[h] = Idle
  /\ \E u \in Users, p \in ConvoIds, q \in LineIds :
       LET found == getLine(u, p, q) IN
       \/ found = {} /\ Respond(h, "GetLine", u, 404, {})
       \/ /\ found # {}
          /\ Respond(h, "GetLine", u, ReadStatus(found),
                     IF ReadStatus(found) = 200 THEN {q} ELSE {})
  /\ UNCHANGED tables

DeleteLine(h) ==
  /\ task[h] = Idle
  /\ \E u \in Users, p \in ConvoIds, q \in LineIds :
       /\ deleteLine(u, p, q)
       /\ \E s \in Acked(DeleteStatus(getLine(u, p, q))) :
            Respond(h, "DeleteLine", u, s, {})

-----------------------------------------------------------------------------
(* A statement that has no effect because the database, or the connection   *)
(* to it, failed: the handler answers 500 wherever it is.                   *)

StepOp == [insertMood |-> "SetMood", listBlockers |-> "DeleteMood",
           insertConvo |-> "CreateConversation", readLines |-> "GetConversation",
           findConvo |-> "CreateLine", insertLine |-> "CreateLine"]

DbFails(h) ==
  /\ DbMayFail
  /\ \/ /\ task[h] = Idle
        /\ \E u \in Users, op \in Ops \ {"CreateConversation"} :
             Respond(h, op, u, 500, {})
     \/ /\ task[h] # Idle
        /\ Respond(h, StepOp[task[h].step], task[h].user, 500, {})
  /\ UNCHANGED tables

\* The process dies, or is stopped and its grace period runs out: requests end
\* where they are, unanswered, and the new process starts with none.
Restart ==
  /\ task' = [h \in Handlers |-> Idle]
  /\ answered' = {}
  /\ UNCHANGED tables

Arrive(h) ==
  \/ GetMood(h) \/ SetMood(h) \/ DeleteMood(h)
  \/ CreateConversation(h) \/ GetConversation(h) \/ DeleteConversation(h)
  \/ CreateLine(h) \/ GetLine(h) \/ DeleteLine(h)

Advance(h) ==
  \/ SetMoodInsert(h) \/ DeleteMoodConflict(h)
  \/ CreateConversationInsert(h) \/ GetConversationLines(h)
  \/ CreateLineFind(h) \/ CreateLineInsert(h)

Next ==
  \/ \E h \in Handlers : Arrive(h) \/ Advance(h) \/ DbFails(h)
  \/ Restart

\* A goroutine that has begun a request is scheduled and its statements
\* return; nothing promises that another request arrives.
Fairness == \A h \in Handlers : WF_vars(Advance(h))

Spec == Init /\ [][Next]_vars /\ Fairness

-----------------------------------------------------------------------------
(* Properties *)

\* Every variable keeps its type, the local variables of each handler included:
\* a handler never starts an insert beyond maxInsertRetries.
TypeOK ==
  /\ TablesOK
  /\ task \in [Handlers -> Tasks]
  /\ answered \subseteq Responses

\* Every line hangs on a conversation, and the mood it was written in can still
\* be resolved: it is a row of the conversation's owner bearing the line's mood
\* name, or it is a built-in.  CreateLine reads the mood and the conversation in
\* two earlier statements, and either may be deleted, and its name or public id
\* taken again, before the line is inserted.
LinkIntegrity ==
  \A l \in lines : \E c \in convos :
    /\ c.id = l.convo
    /\ IF l.mood = NoMood
         THEN l.name \in Builtins
         ELSE \E m \in moods : /\ m.id = l.mood /\ m.user = c.user
                              /\ m.name = Lower[l.name]

\* A user has at most one mood under any spelling of a name, and none that hides
\* a built-in, although SetMood looks for the row and inserts it in two steps
\* and compares with the built-ins outside the database.
MoodKeys ==
  /\ \A m1, m2 \in moods :
       m1.user = m2.user /\ Lower[m1.name] = Lower[m2.name] => m1 = m2
  /\ \A m \in moods : ~IsBuiltin(m.name)

\* An id a handler carries from one statement to the next denotes the row it
\* looked up or no row at all; never a row created since for somebody else.
CapturedIds ==
  \A h \in Handlers :
    /\ task[h].step \in {"readLines", "insertLine"} =>
         \A c \in convos : c.id = task[h].convo =>
           c.user = task[h].user /\ c.pub = task[h].pub
    /\ task[h].step \in {"findConvo", "insertLine"} =>
         \A m \in moods : m.id = task[h].mood =>
           m.user = task[h].user /\ m.name = Lower[task[h].name]

Gone == (moods \ moods') \cup (convos \ convos') \cup (lines \ lines')
New == (moods' \ moods) \cup (convos' \ convos) \cup (lines' \ lines)

Truthful(r) ==
  /\ r.status \in {400, 404} => Gone \cup New = {}
  /\ r.status = 204 => Gone # {} /\ New = {}
  /\ r.op \in {"CreateConversation", "CreateLine"} /\ r.status = 200
       => Gone = {} /\ Cardinality(New) = 1

\* What a response says is what happened: rows change only in a step that
\* answers, a refusal (400, 404) changed nothing, a deletion reported as done
\* removed a row, a creation reported as done added exactly one.
AnswersTellTruth ==
  [][ /\ answered' = {} => Gone \cup New = {}
      /\ \A r \in answered' : Truthful(r) ]_vars

LinesOf(u) == {l \in lines : \E c \in convos : c.id = l.convo /\ c.user = u}

TouchesOnly(u) ==
  /\ \A m \in (moods \ moods') \cup (moods' \ moods) : m.user = u
  /\ \A c \in (convos \ convos') \cup (convos' \ convos) : c.user = u
  /\ lines \ lines' \subseteq LinesOf(u)
  /\ lines' \ lines \subseteq LinesOf(u)'

ShowsOwn(r) ==
  r.op \in {"GetConversation", "GetLine"} =>
    r.ids \subseteq {l.pub : l \in LinesOf(r.user)}

\* A request changes rows of the user who sent it and of nobody else, and shows
\* that user only lines of that user's conversations, even when the serial id
\* it works with was read before other requests ran.
OwnRowsOnly ==
  [][ \A r \in answered' : TouchesOnly(r.user) /\ ShowsOwn(r) ]_vars

\* The abstract store as it shows through the tables: rows without their serial
\* ids, and a line with the public id of its conversation.
Store == INSTANCE SayStore WITH
  shelf <- {[user |-> m.user, name |-> m.name, look |-> m.look] : m \in moods},
  talks <- {[pub |-> c.pub, user |-> c.user] : c \in convos},
  said <- {[pub |-> l.pub,
            talk |-> (CHOOSE c \in convos : c.id = l.convo).pub,
            mood |-> Lower[l.name]] : l \in lines}

\* Requests that run several statements, retry, and interleave with each other
\* at every statement, change the store only in ways the atomic operations of
\* SayStore can: the tables, their keys and the order of the statements see to
\* that without a transaction.
ImplementsStore == Store!StoreSpec

\* Every request is eventually answered, or lost in a restart: the retry loops
\* end and no step of a handler waits for another handler.
EveryRequestAnswered == \A h \in Handlers : task[h] # Idle ~> task[h] = Idle

\* What the comment beside the handler's test for sql.ErrNoRows says: adding a
\* line to a conversation the user does not have is answered Not Found.
MissingConversationIsNotFound ==
  [][ \A h \in Handlers :
        /\ task[h].step = "findConvo"
        /\ getConvo(task[h].user, task[h].pub) = {}
        /\ task'[h] = Idle
        => \A r \in answered' : r.status = 404 ]_vars

\* What the comment in DeleteMood says: after a conflict, list the lines that
\* prevent the deletion, that is, the lines that refer to the user's mood.
ConflictListsBlockers ==
  [][ \A h \in Handlers : task[h].step = "listBlockers" =>
        \A r \in answered' :
          r.ids = {l.pub : l \in {l \in lines :
                     \E m \in findMood(task[h].user, task[h].name) :
                       l.mood = m.id}} ]_vars

=============================================================================
