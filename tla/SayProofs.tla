----------------------------- MODULE SayProofs -----------------------------
(***************************************************************************)
(* Proofs about Say, for any number of handlers, users and names.           *)
(*                                                                          *)
(* The invariants of Say are not inductive: that a line finds its mood      *)
(* depends on what the handler inserting it remembers, which in turn is     *)
(* only right because a sequence never hands out an id twice.  IInv says    *)
(* all of it.  The argument has three layers: each SQL statement keeps the  *)
(* tables consistent (TablesInv), each statement only adds rows younger     *)
(* than every id remembered (RowsAge), and so what a handler remembers      *)
(* stays true of the tables (TaskOK).                                       *)
(*                                                                          *)
(* From IInv follow what the requests do and say, as action properties:     *)
(* whose rows a request touches and shows, and that its answer is true.     *)
(***************************************************************************)
EXTENDS Say, FiniteSetTheorems, TLAPS

USE SchemaAssumption, SayAssumption

Keys ==
  /\ \A m1, m2 \in moods : m1.id = m2.id => m1 = m2
  /\ \A c1, c2 \in convos : c1.id = c2.id \/ c1.pub = c2.pub => c1 = c2
  /\ \A m \in moods : m.id <= moodSerial /\ m.name = Lower[m.name]
  /\ \A c \in convos : c.id <= convoSerial

TablesInv == TablesOK /\ Keys /\ MoodKeys /\ LinkIntegrity

RemembersConvo(t) ==
  /\ t.convo <= convoSerial
  /\ \A c \in convos : c.id = t.convo => c.user = t.user /\ c.pub = t.pub

RemembersMood(t) ==
  /\ t.mood <= moodSerial
  /\ t.mood = NoMood => t.name \in Builtins
  /\ \A m \in moods : m.id = t.mood => m.user = t.user /\ m.name = Lower[t.name]

TaskOK(t) ==
  /\ t \in Tasks
  /\ t.step = "insertMood" => ~IsBuiltin(t.name)
  /\ t.step \in {"readLines", "insertLine"} => RemembersConvo(t)
  /\ t.step \in {"findConvo", "insertLine"} => RemembersMood(t)

IInv ==
  /\ TablesInv
  /\ task \in [Handlers -> Tasks]
  /\ \A h \in Handlers : TaskOK(task[h])
  /\ answered \subseteq Responses

\* How a statement may change the rows: a mood or a conversation that was not
\* there before has an id beyond the sequence's last value.
RowsAge ==
  /\ moodSerial <= moodSerial' /\ convoSerial <= convoSerial'
  /\ \A m \in moods' :
       \/ m.id > moodSerial
       \/ \E m0 \in moods : m0.id = m.id /\ m0.user = m.user /\ m0.name = m.name
  /\ \A c \in convos' : c.id > convoSerial \/ c \in convos

-----------------------------------------------------------------------------
(* Each statement keeps the tables consistent *)

\* A step that leaves the tables alone keeps them consistent.
LEMMA UnchangedTables ==
  ASSUME TablesInv, UNCHANGED tables
  PROVE  TablesInv' /\ RowsAge
BY SMT DEF TablesInv, TablesOK, Keys, MoodKeys, LinkIntegrity, tables, RowsAge,
   MoodRows, ConvoRows, LineRows, Serials, IsBuiltin, NoMood

\* The UPDATE half of setMood: the row keeps its id, its owner and its name.
LEMMA UpdateMoodKeeps ==
  ASSUME TablesInv, NEW u \in Users, NEW n \in Names, NEW look \in Looks,
         updateMood(u, n, look)
  PROVE  TablesInv' /\ RowsAge
<1> USE DEF TablesInv, TablesOK, MoodRows, Serials, NoMood
<1> DEFINE touch(m) == IF m \in findMood(u, n) THEN [m EXCEPT !.look = look] ELSE m
<1>1. /\ moods' = {touch(m) : m \in moods}
      /\ UNCHANGED <<convos, lines, moodSerial, convoSerial>>
  BY DEF updateMood
<1>2. \A m \in moods : /\ touch(m) \in MoodRows /\ touch(m).id = m.id
                       /\ touch(m).user = m.user /\ touch(m).name = m.name
  BY DEF findMood
<1> HIDE DEF touch
<1>3. TablesOK'
  BY <1>1, <1>2
<1>4. Keys'
  BY <1>1, <1>2 DEF Keys
<1>5. MoodKeys'
  BY <1>1, <1>2 DEF MoodKeys, IsBuiltin
<1>6. LinkIntegrity'
  BY <1>1, <1>2 DEF LinkIntegrity
<1>7. RowsAge
  BY <1>1, <1>2 DEF RowsAge
<1> QED
  BY <1>3, <1>4, <1>5, <1>6, <1>7

\* The INSERT half of setMood: the unique index keeps the keys, the sequence gives
\* an id that no row, no line and no handler has.
LEMMA InsertMoodKeeps ==
  ASSUME TablesInv, NEW u \in Users, NEW n \in Names, NEW look \in Looks,
         ~IsBuiltin(n), insertMood(u, n, look)
  PROVE  TablesInv' /\ RowsAge
<1> USE DEF TablesInv, TablesOK, MoodRows, Serials, NoMood
<1>1. CASE StoresMood(u, n)
  <2> DEFINE new == [id |-> moodSerial + 1, user |-> u, name |-> Lower[n], look |-> look]
  <2>1. /\ moodSerial < MaxSerial /\ moodSerial' = moodSerial + 1
        /\ moods' = moods \cup {new}
        /\ UNCHANGED <<convos, lines, convoSerial>>
        /\ findMood(u, n) = {}
    BY <1>1 DEF insertMood, StoresMood, Draw
  <2>2. /\ new \in MoodRows /\ new.id = moodSerial + 1 /\ new.user = u
        /\ new.name = Lower[n] /\ moodSerial \in Nat /\ moodSerial' \in 0 .. MaxSerial
    BY <2>1
  <2> HIDE DEF new
  <2>3. TablesOK'
    BY <2>1, <2>2
  <2>4. Keys'
    BY <2>1, <2>2 DEF Keys
  <2>5. MoodKeys'
    BY <2>1, <2>2 DEF MoodKeys, IsBuiltin, findMood
  <2>6. LinkIntegrity'
    BY <2>1, <2>2 DEF LinkIntegrity
  <2>7. RowsAge
    BY <2>1, <2>2 DEF RowsAge
  <2> QED
    BY <2>3, <2>4, <2>5, <2>6, <2>7
<1>2. CASE ~StoresMood(u, n)
  <2>1. /\ moodSerial' \in 0 .. MaxSerial /\ moodSerial <= moodSerial'
        /\ UNCHANGED <<moods, convos, lines, convoSerial>>
    BY <1>2 DEF insertMood, Draw
  <2> QED
    BY <2>1 DEF Keys, MoodKeys, IsBuiltin, LinkIntegrity, RowsAge
<1> QED
  BY <1>1, <1>2

\* deleteMood: the foreign key of lines refuses whenever a line would lose its mood.
LEMMA DeleteMoodKeeps ==
  ASSUME TablesInv, NEW u \in Users, NEW n \in Names, deleteMood(u, n)
  PROVE  TablesInv' /\ RowsAge
<1> USE DEF TablesInv, TablesOK
<1>1. /\ moods' = moods \ findMood(u, n)
      /\ \A m \in findMood(u, n), l \in lines : l.mood # m.id
      /\ UNCHANGED <<convos, lines, moodSerial, convoSerial>>
  BY DEF deleteMood, MoodInUse
<1>2. LinkIntegrity'
  BY <1>1 DEF LinkIntegrity
<1>3. TablesOK' /\ Keys' /\ MoodKeys'
  BY <1>1 DEF Keys, MoodKeys, IsBuiltin
<1>4. RowsAge
  BY <1>1 DEF RowsAge, Serials
<1> QED
  BY <1>2, <1>3, <1>4

\* insertConvo: the public id is checked, the serial id is new.
LEMMA InsertConvoKeeps ==
  ASSUME TablesInv, NEW u \in Users, NEW p \in ConvoIds, insertConvo(u, p)
  PROVE  TablesInv' /\ RowsAge
<1> USE DEF TablesInv, TablesOK, ConvoRows, Serials
<1>1. CASE convoSerial < MaxSerial /\ ~PubTaken(p)
  <2> DEFINE new == [id |-> convoSerial + 1, pub |-> p, user |-> u]
  <2>1. /\ convoSerial' = convoSerial + 1
        /\ convos' = convos \cup {new}
        /\ \A c \in convos : c.pub # p
        /\ UNCHANGED <<moods, lines, moodSerial>>
    BY <1>1 DEF insertConvo, PubTaken, Draw
  <2>2. /\ new \in ConvoRows /\ new.id = convoSerial + 1 /\ new.pub = p
        /\ convoSerial' \in 0 .. MaxSerial
    BY <1>1, <2>1
  <2> HIDE DEF new
  <2>3. TablesOK'
    BY <2>1, <2>2
  <2>4. Keys'
    BY <2>1, <2>2 DEF Keys
  <2>5. MoodKeys'
    BY <2>1 DEF MoodKeys, IsBuiltin
  <2>6. LinkIntegrity'
    BY <2>1 DEF LinkIntegrity
  <2>7. RowsAge
    BY <2>1, <2>2 DEF RowsAge
  <2> QED
    BY <2>3, <2>4, <2>5, <2>6, <2>7
<1>2. CASE ~(convoSerial < MaxSerial /\ ~PubTaken(p))
  <2>1. /\ convoSerial' \in 0 .. MaxSerial /\ convoSerial <= convoSerial'
        /\ UNCHANGED <<moods, convos, lines, moodSerial>>
    BY <1>2 DEF insertConvo, Draw
  <2> QED
    BY <2>1 DEF Keys, MoodKeys, IsBuiltin, LinkIntegrity, RowsAge
<1> QED
  BY <1>1, <1>2

\* deleteConvo: the cascade takes exactly the lines that hung on the row.
LEMMA DeleteConvoKeeps ==
  ASSUME TablesInv, NEW u \in Users, NEW p \in ConvoIds, deleteConvo(u, p)
  PROVE  TablesInv' /\ RowsAge
<1> USE DEF TablesInv, TablesOK
<1>1. /\ convos' = convos \ getConvo(u, p)
      /\ lines' = {l \in lines : \A c \in getConvo(u, p) : l.convo # c.id}
      /\ UNCHANGED <<moods, moodSerial, convoSerial>>
  BY DEF deleteConvo
<1>2. LinkIntegrity'
  BY <1>1 DEF LinkIntegrity
<1>3. TablesOK' /\ Keys' /\ MoodKeys'
  BY <1>1 DEF Keys, MoodKeys, IsBuiltin
<1>4. RowsAge
  BY <1>1 DEF RowsAge, Serials
<1> QED
  BY <1>2, <1>3, <1>4

\* The row CreateLine inserts joins what its handler remembers: the foreign keys
\* only say that the two rows exist, the task says whose they are.
LEMMA InsertLineKeeps ==
  ASSUME TablesInv, NEW t \in Tasks, t.step = "insertLine", NEW q \in LineIds,
         RemembersConvo(t), RemembersMood(t),
         insertLine([pub |-> q, convo |-> t.convo, mood |-> t.mood, name |-> t.name])
  PROVE  TablesInv' /\ RowsAge
<1> USE DEF TablesInv, TablesOK
<1> DEFINE new == [pub |-> q, convo |-> t.convo, mood |-> t.mood, name |-> t.name]
<1>1. /\ lines' = lines \/ (lines' = lines \cup {new} /\ ForeignKeysHold(new))
      /\ UNCHANGED <<moods, convos, moodSerial, convoSerial>>
  BY DEF insertLine
<1>2. /\ new \in LineRows /\ new.convo = t.convo /\ new.mood = t.mood
      /\ new.name = t.name
  BY DEF Tasks, Idle, LineRows, MoodIds
<1> HIDE DEF new
<1>3. TablesOK' /\ Keys' /\ MoodKeys'
  BY <1>1, <1>2 DEF Keys, MoodKeys, IsBuiltin
<1>4. LinkIntegrity'
  BY <1>1, <1>2 DEF LinkIntegrity, ForeignKeysHold, RemembersConvo, RemembersMood
<1>5. RowsAge
  BY <1>1 DEF RowsAge, Serials
<1> QED
  BY <1>3, <1>4, <1>5

\* deleteLine only takes lines away.
LEMMA DeleteLineKeeps ==
  ASSUME TablesInv, NEW u, NEW p, NEW q, deleteLine(u, p, q)
  PROVE  TablesInv' /\ RowsAge
<1>1. lines' \subseteq lines /\ UNCHANGED <<moods, convos, moodSerial, convoSerial>>
  BY DEF deleteLine
<1> QED
  BY <1>1 DEF TablesInv, TablesOK, Keys, MoodKeys, IsBuiltin, LinkIntegrity,
              RowsAge, Serials

-----------------------------------------------------------------------------
(* Each handler's memory stays true *)

\* The ids a handler carries are ids.
LEMMA TaskFields ==
  ASSUME NEW t \in Tasks
  PROVE  /\ t.step \in {"readLines", "insertLine"} => t.convo \in Serials
         /\ t.step \in {"findConvo", "insertLine"} => t.mood \in MoodIds
BY DEF Tasks, Idle

\* What a handler remembers stays true while the tables change: a row it knows is
\* the same row or gone, and an id drawn later is a larger one.
LEMMA TaskAges ==
  ASSUME TablesInv, TablesInv', RowsAge, NEW t, TaskOK(t)
  PROVE  TaskOK(t)'
<1> USE DEF TablesInv, TablesOK, Serials
<1>1. /\ {moodSerial, moodSerial'} \subseteq Nat /\ moodSerial <= moodSerial'
      /\ {convoSerial, convoSerial'} \subseteq Nat /\ convoSerial <= convoSerial'
  BY DEF RowsAge
<1>2. ASSUME t.step \in {"readLines", "insertLine"}
      PROVE  RemembersConvo(t)'
  <2>1. RemembersConvo(t) /\ t.convo \in Nat
    BY <1>2, TaskFields DEF TaskOK
  <2> QED
    BY <2>1, <1>1 DEF RemembersConvo, RowsAge
<1>3. ASSUME t.step \in {"findConvo", "insertLine"}
      PROVE  RemembersMood(t)'
  <2>1. RemembersMood(t) /\ t.mood \in Nat
    BY <1>3, TaskFields DEF TaskOK, MoodIds, NoMood
  <2> QED
    BY <2>1, <1>1 DEF RemembersMood, RowsAge
<1> QED
  BY <1>2, <1>3 DEF TaskOK

\* A step that changes the tables soundly and gives its handler a sound task.
LEMMA StepKeeps ==
  ASSUME IInv, TablesInv', RowsAge, NEW h \in Handlers, NEW t, TaskOK(t)',
         task' = [task EXCEPT ![h] = t], answered' \subseteq Responses
  PROVE  IInv'
<1>1. t \in Tasks /\ task \in [Handlers -> Tasks]
  BY DEF IInv, TaskOK
<1>2. ASSUME NEW g \in Handlers PROVE TaskOK(task[g])'
  <2>1. CASE g = h
    <3>1. task'[g] = t
      BY <1>1, <2>1
    <3> QED
      BY <3>1 DEF TaskOK, RemembersConvo, RemembersMood
  <2>2. CASE g # h
    <3> DEFINE s == task[g]
    <3>1. task'[g] = s
      BY <1>1, <2>2
    <3>2. \A x : TaskOK(x) => TaskOK(x)'
      BY TaskAges DEF IInv
    <3>3. TaskOK(s)
      BY DEF IInv
    <3> HIDE DEF s
    <3> QED
      BY <3>1, <3>2, <3>3 DEF TaskOK, RemembersConvo, RemembersMood
  <2> QED
    BY <2>1, <2>2
<1> QED
  BY <1>1, <1>2 DEF IInv

\* A handler without a request remembers nothing.
LEMMA IdleOK == TaskOK(Idle)'
BY DEF TaskOK, Idle, Tasks

\* A handler that has changed the tables soundly and answers.
LEMMA RespondKeeps ==
  ASSUME IInv, TablesInv', RowsAge, NEW h \in Handlers, NEW op \in Ops,
         NEW u \in Users, NEW status \in Statuses, NEW ids \in SUBSET LineIds,
         Respond(h, op, u, status, ids)
  PROVE  IInv'
<1>1. answered' \subseteq Responses
  BY DEF Respond, Responses
<1> QED
  BY <1>1, IdleOK, StepKeeps DEF Respond

\* A handler that only read the database and goes on with a sound task.
LEMMA ContinueKeeps ==
  ASSUME IInv, UNCHANGED tables, NEW h \in Handlers, NEW t, TaskOK(t),
         Continue(h, t)
  PROVE  IInv'
<1>1. TablesInv' /\ RowsAge
  BY UnchangedTables DEF IInv
<1>2. TaskOK(t)'
  BY <1>1, TaskAges DEF IInv
<1> QED
  BY <1>1, <1>2, StepKeeps DEF Continue

\* A handler that only read the database and answers.
LEMMA QuietRespondKeeps ==
  ASSUME IInv, UNCHANGED tables, NEW h \in Handlers, NEW op \in Ops,
         NEW u \in Users, NEW status \in Statuses, NEW ids \in SUBSET LineIds,
         Respond(h, op, u, status, ids)
  PROVE  IInv'
BY UnchangedTables, RespondKeeps DEF IInv

\* Whatever a handler answers is a status.
LEMMA StatusesOK ==
  /\ {200, 204, 400, 404, 500} \subseteq Statuses
  /\ \A s \in Statuses : Acked(s) \subseteq Statuses
  /\ \A r : ReadStatus(r) \in Statuses /\ DeleteStatus(r) \in Statuses
BY DEF Statuses, ReadStatus, DeleteStatus, Acked

\* The task a handler holds, seen through its step.
LEMMA TaskUsers ==
  ASSUME NEW t \in Tasks, t.step # "idle"
  PROVE  /\ t.user \in Users
         /\ t.step \in {"insertMood", "listBlockers", "insertConvo",
                       "readLines", "findConvo", "insertLine"}
         /\ t.step \in {"insertMood", "listBlockers", "findConvo", "insertLine"}
              => t.name \in Names
         /\ t.step = "insertMood" => t.look \in Looks
         /\ t.step \in {"readLines", "findConvo", "insertLine"} => t.pub \in ConvoIds
         /\ t.step \in {"insertConvo", "insertLine"} => t.tries \in Tries
BY DEF Tasks, Idle

-----------------------------------------------------------------------------
(* Each action keeps IInv *)

\* The handlers of /moods/:mood.
LEMMA MoodStepsKeep ==
  ASSUME IInv, NEW h \in Handlers,
         \/ GetMood(h) \/ SetMood(h) \/ SetMoodInsert(h)
         \/ DeleteMood(h) \/ DeleteMoodConflict(h)
  PROVE  IInv'
<1> USE StatusesOK DEF Ops
<1>1. CASE GetMood(h)
  BY <1>1, QuietRespondKeeps DEF GetMood
<1>2. CASE SetMood(h)
  <2> PICK u \in Users, n \in Names, look \in Looks, valid \in BOOLEAN :
        \/ /\ Respond(h, "SetMood", u, 400, {})
           /\ UNCHANGED tables
        \/ /\ updateMood(u, n, look)
           /\ \E s \in Acked(200) : Respond(h, "SetMood", u, s, {})
        \/ /\ Continue(h, [step |-> "insertMood", user |-> u, name |-> n,
                           look |-> look])
           /\ ~IsBuiltin(n) /\ UNCHANGED tables
    BY <1>2 DEF SetMood
  <2>1. CASE Respond(h, "SetMood", u, 400, {}) /\ UNCHANGED tables
    BY <2>1, QuietRespondKeeps
  <2>2. CASE /\ updateMood(u, n, look)
             /\ \E s \in Acked(200) : Respond(h, "SetMood", u, s, {})
    BY <2>2, UpdateMoodKeeps, RespondKeeps DEF IInv
  <2>3. CASE /\ Continue(h, [step |-> "insertMood", user |-> u, name |-> n,
                             look |-> look])
             /\ ~IsBuiltin(n) /\ UNCHANGED tables
    <3>1. TaskOK([step |-> "insertMood", user |-> u, name |-> n, look |-> look])
      BY <2>3 DEF TaskOK, Tasks
    <3> QED
      BY <2>3, <3>1, ContinueKeeps
  <2> QED
    BY <2>1, <2>2, <2>3
<1>3. CASE SetMoodInsert(h)
  <2> DEFINE t == task[h]
  <2>1. /\ t \in Tasks /\ t.step = "insertMood"
        /\ insertMood(t.user, t.name, t.look)
        /\ \E s \in Statuses : Respond(h, "SetMood", t.user, s, {})
    BY <1>3, StatusesOK DEF SetMoodInsert, IInv
  <2>2. /\ t.user \in Users /\ t.name \in Names /\ t.look \in Looks
        /\ ~IsBuiltin(t.name)
    BY <2>1, TaskUsers DEF IInv, TaskOK
  <2> QED
    BY <2>1, <2>2, InsertMoodKeeps, RespondKeeps DEF IInv
<1>4. CASE DeleteMood(h)
  <2> PICK u \in Users, n \in Names :
        \/ /\ Respond(h, "DeleteMood", u, 400, {})
           /\ UNCHANGED tables
        \/ /\ deleteMood(u, n)
           /\ \E s \in Acked(DeleteStatus(findMood(u, n))) :
                Respond(h, "DeleteMood", u, s, {})
        \/ /\ Continue(h, [step |-> "listBlockers", user |-> u, name |-> n])
           /\ UNCHANGED tables
    BY <1>4 DEF DeleteMood
  <2>1. CASE Respond(h, "DeleteMood", u, 400, {}) /\ UNCHANGED tables
    BY <2>1, QuietRespondKeeps
  <2>2. CASE /\ deleteMood(u, n)
             /\ \E s \in Acked(DeleteStatus(findMood(u, n))) :
                  Respond(h, "DeleteMood", u, s, {})
    BY <2>2, DeleteMoodKeeps, RespondKeeps DEF IInv
  <2>3. CASE /\ Continue(h, [step |-> "listBlockers", user |-> u, name |-> n])
             /\ UNCHANGED tables
    <3>1. TaskOK([step |-> "listBlockers", user |-> u, name |-> n])
      BY DEF TaskOK, Tasks
    <3> QED
      BY <2>3, <3>1, ContinueKeeps
  <2> QED
    BY <2>1, <2>2, <2>3
<1>5. CASE DeleteMoodConflict(h)
  <2> DEFINE t == task[h]
             blockers == {l.pub : l \in findMoodLines(t.user, t.name)}
  <2>1. /\ t \in Tasks /\ t.step = "listBlockers" /\ UNCHANGED tables
        /\ Respond(h, "DeleteMood", t.user, 400, blockers)
    BY <1>5 DEF DeleteMoodConflict, IInv
  <2>2. t.user \in Users
    BY <2>1, TaskUsers
  <2>3. blockers \in SUBSET LineIds
    BY DEF findMoodLines, IInv, TablesInv, TablesOK, LineRows
  <2> QED
    BY <2>1, <2>2, <2>3, QuietRespondKeeps
<1> QED
  BY <1>1, <1>2, <1>3, <1>4, <1>5

\* The handlers of /conversations and /conversations/:conversation.
LEMMA ConvoStepsKeep ==
  ASSUME IInv, NEW h \in Handlers,
         \/ CreateConversation(h) \/ CreateConversationInsert(h)
         \/ GetConversation(h) \/ GetConversationLines(h)
         \/ DeleteConversation(h)
  PROVE  IInv'
<1> USE StatusesOK DEF Ops
<1> PICK t \in Tasks : t = task[h]
  BY DEF IInv
<1>1. CASE CreateConversation(h)
  <2> PICK u \in Users :
        \/ Respond(h, "CreateConversation", u, 400, {})
        \/ Continue(h, [step |-> "insertConvo", user |-> u, tries |-> 0])
    BY <1>1 DEF CreateConversation
  <2>1. UNCHANGED tables
    BY <1>1 DEF CreateConversation
  <2>2. CASE Respond(h, "CreateConversation", u, 400, {})
    BY <2>1, <2>2, QuietRespondKeeps
  <2>3. CASE Continue(h, [step |-> "insertConvo", user |-> u, tries |-> 0])
    <3>1. TaskOK([step |-> "insertConvo", user |-> u, tries |-> 0])
      BY DEF TaskOK, Tasks, Tries
    <3> QED
      BY <2>1, <2>3, <3>1, ContinueKeeps
  <2> QED
    BY <2>2, <2>3
<1>2. CASE CreateConversationInsert(h)
  <2>1. t \in Tasks /\ t.step = "insertConvo" /\ t.user \in Users /\ t.tries \in Tries
    BY <1>2, TaskUsers DEF CreateConversationInsert, IInv
  <2>2. PICK p \in ConvoIds :
          /\ insertConvo(t.user, p)
          /\ \/ \E s \in Statuses :
                   Respond(h, "CreateConversation", t.user, s, {})
             \/ /\ MayRetry(t.tries)
                /\ Continue(h, [t EXCEPT !.tries = NextTry(t.tries)])
    BY <1>2 DEF CreateConversationInsert
  <2>3. TablesInv' /\ RowsAge
    BY <2>1, <2>2, InsertConvoKeeps DEF IInv
  <2>4. CASE \E s \in Statuses : Respond(h, "CreateConversation", t.user, s, {})
    BY <2>1, <2>3, <2>4, RespondKeeps
  <2>5. CASE /\ MayRetry(t.tries)
             /\ Continue(h, [t EXCEPT !.tries = NextTry(t.tries)])
    <3> DEFINE next == [t EXCEPT !.tries = NextTry(t.tries)]
    <3>1. next \in Tasks /\ next.step = "insertConvo"
      BY <2>1, <2>5 DEF Tasks, Idle, Tries, MayRetry, NextTry
    <3>2. TaskOK(next)'
      BY <3>1 DEF TaskOK
    <3>3. task' = [task EXCEPT ![h] = next] /\ answered' \subseteq Responses
      BY <2>5 DEF Continue
    <3> QED
      BY <2>3, <3>2, <3>3, StepKeeps, ZenonT(60)
  <2> QED
    BY <2>2, <2>4, <2>5
<1>3. CASE GetConversation(h)
  <2> PICK u \in Users, p \in ConvoIds :
        \/ Respond(h, "GetConversation", u, 404, {})
        \/ \E c \in getConvo(u, p) :
             Continue(h, [step |-> "readLines", user |-> u, pub |-> p,
                          convo |-> c.id])
    BY <1>3, ZenonT(60) DEF GetConversation
  <2>1. UNCHANGED tables
    BY <1>3 DEF GetConversation
  <2>2. CASE Respond(h, "GetConversation", u, 404, {})
    BY <2>1, <2>2, QuietRespondKeeps
  <2>3. ASSUME NEW c \in getConvo(u, p),
               Continue(h, [step |-> "readLines", user |-> u, pub |-> p,
                            convo |-> c.id])
        PROVE  IInv'
    <3> DEFINE next == [step |-> "readLines", user |-> u, pub |-> p, convo |-> c.id]
    <3>1. next \in Tasks
      BY DEF Tasks, getConvo, IInv, TablesInv, TablesOK, ConvoRows
    <3>2. RemembersConvo(next)
      BY DEF RemembersConvo, getConvo, IInv, TablesInv, Keys
    <3> QED
      BY <2>1, <2>3, <3>1, <3>2, ContinueKeeps DEF TaskOK
  <2> QED
    BY <2>2, <2>3, ZenonT(60)
<1>4. CASE GetConversationLines(h)
  <2> DEFINE found == findConvoLines(t.convo)
             ids == IF ReadStatus(found) = 200 THEN {l.pub : l \in found} ELSE {}
  <2>1. /\ t \in Tasks /\ t.step = "readLines" /\ UNCHANGED tables
        /\ Respond(h, "GetConversation", t.user, ReadStatus(found), ids)
    BY <1>4 DEF GetConversationLines, IInv
  <2>2. t.user \in Users
    BY <2>1, TaskUsers
  <2>3. ids \in SUBSET LineIds
    BY DEF findConvoLines, IInv, TablesInv, TablesOK, LineRows
  <2> HIDE DEF ids
  <2> QED
    BY <2>1, <2>2, <2>3, QuietRespondKeeps
<1>5. CASE DeleteConversation(h)
  BY <1>5, DeleteConvoKeeps, RespondKeeps DEF DeleteConversation, IInv
<1> QED
  BY <1>1, <1>2, <1>3, <1>4, <1>5

\* The handlers of /conversations/:conversation/lines.
LEMMA LineStepsKeep ==
  ASSUME IInv, NEW h \in Handlers,
         \/ CreateLine(h) \/ CreateLineFind(h) \/ CreateLineInsert(h)
         \/ GetLine(h) \/ DeleteLine(h)
  PROVE  IInv'
<1> USE StatusesOK DEF Ops
<1> PICK t \in Tasks : t = task[h]
  BY DEF IInv
<1>1. CASE CreateLine(h)
  <2> PICK u \in Users, n \in Names, p \in ConvoIds :
        \/ Respond(h, "CreateLine", u, 400, {})
        \/ \E i \in GetMoodIds(u, n) :
             Continue(h, [step |-> "findConvo", user |-> u, name |-> n,
                          mood |-> i, pub |-> p])
    BY <1>1 DEF CreateLine
  <2>1. UNCHANGED tables
    BY <1>1 DEF CreateLine
  <2>2. CASE Respond(h, "CreateLine", u, 400, {})
    BY <2>1, <2>2, QuietRespondKeeps
  <2>3. ASSUME NEW i \in GetMoodIds(u, n),
               Continue(h, [step |-> "findConvo", user |-> u, name |-> n,
                            mood |-> i, pub |-> p])
        PROVE  IInv'
    <3> DEFINE next == [step |-> "findConvo", user |-> u, name |-> n,
                        mood |-> i, pub |-> p]
    <3>1. \/ i = NoMood /\ n \in Builtins
          \/ \E m \in moods : m.id = i /\ m.user = u /\ m.name = Lower[n]
      BY DEF GetMoodIds, findMood, IInv, TablesInv, Keys
    <3>2. next \in Tasks
      BY <3>1 DEF Tasks, MoodIds, IInv, TablesInv, TablesOK, MoodRows
    <3>3. RemembersMood(next)
      BY <3>1 DEF RemembersMood, IInv, TablesInv, TablesOK, Keys, MoodRows,
                  Serials, NoMood
    <3> QED
      BY <2>1, <2>3, <3>2, <3>3, ContinueKeeps DEF TaskOK
  <2> QED
    BY <2>2, <2>3
<1>2. CASE CreateLineFind(h)
  <2>1. /\ t \in Tasks /\ t.step = "findConvo" /\ RemembersMood(t)
        /\ t.user \in Users /\ t.name \in Names /\ t.pub \in ConvoIds
        /\ t.mood \in MoodIds
    BY <1>2, TaskUsers, TaskFields DEF CreateLineFind, IInv, TaskOK
  <2>2. UNCHANGED tables
    BY <1>2 DEF CreateLineFind
  <2>3. CASE Respond(h, "CreateLine", t.user, 500, {})
    BY <2>1, <2>2, <2>3, QuietRespondKeeps
  <2> DEFINE next(c) == [step |-> "insertLine", user |-> t.user,
                         name |-> t.name, mood |-> t.mood, pub |-> t.pub,
                         convo |-> c.id, tries |-> 0]
  <2>4. ASSUME NEW c \in getConvo(t.user, t.pub), Continue(h, next(c))
        PROVE  IInv'
    <3>1. next(c) \in Tasks
      BY <2>1 DEF Tasks, Tries, getConvo, IInv, TablesInv, TablesOK, ConvoRows
    <3>2. RemembersConvo(next(c))
      BY DEF RemembersConvo, getConvo, IInv, TablesInv, Keys
    <3>3. RemembersMood(next(c))
      BY <2>1 DEF RemembersMood
    <3> QED
      BY <2>2, <2>4, <3>1, <3>2, <3>3, ContinueKeeps DEF TaskOK
  <2> QED
    BY <1>2, <2>3, <2>4 DEF CreateLineFind
<1>3. CASE CreateLineInsert(h)
  <2>1. /\ t \in Tasks /\ t.step = "insertLine" /\ t.user \in Users
        /\ t.tries \in Tries /\ RemembersConvo(t) /\ RemembersMood(t) /\ TaskOK(t)
    BY <1>3, TaskUsers DEF CreateLineInsert, IInv, TaskOK
  <2>2. PICK q \in LineIds :
          /\ insertLine([pub |-> q, convo |-> t.convo, mood |-> t.mood,
                         name |-> t.name])
          /\ \/ \E s \in Statuses, ids \in SUBSET LineIds :
                   Respond(h, "CreateLine", t.user, s, ids)
             \/ /\ MayRetry(t.tries)
                /\ Continue(h, [t EXCEPT !.tries = NextTry(t.tries)])
    BY <1>3 DEF CreateLineInsert
  <2>3. TablesInv' /\ RowsAge
    BY <2>1, <2>2, InsertLineKeeps DEF IInv
  <2>4. CASE \E s \in Statuses, ids \in SUBSET LineIds :
               Respond(h, "CreateLine", t.user, s, ids)
    BY <2>1, <2>3, <2>4, RespondKeeps
  <2>5. CASE /\ MayRetry(t.tries)
             /\ Continue(h, [t EXCEPT !.tries = NextTry(t.tries)])
    <3> DEFINE next == [t EXCEPT !.tries = NextTry(t.tries)]
    <3>1. next \in Tasks /\ next.step = "insertLine"
      BY <2>1, <2>5 DEF Tasks, Idle, Tries, MayRetry, NextTry
    <3>2. /\ next.convo = t.convo /\ next.mood = t.mood /\ next.user = t.user
          /\ next.pub = t.pub /\ next.name = t.name
      BY <2>1 DEF Tasks, Idle
    <3>3. TaskOK(t)'
      BY <2>1, <2>3, TaskAges DEF IInv
    <3>4. TaskOK(next)'
      BY <2>1, <3>1, <3>2, <3>3 DEF TaskOK, RemembersConvo, RemembersMood
    <3>5. task' = [task EXCEPT ![h] = next] /\ answered' \subseteq Responses
      BY <2>5 DEF Continue
    <3> QED
      BY <2>3, <3>4, <3>5, StepKeeps
  <2> QED
    BY <2>2, <2>4, <2>5
<1>4. CASE GetLine(h)
  <2> PICK u \in Users, q \in LineIds, s \in Statuses :
        \E ids \in SUBSET LineIds : Respond(h, "GetLine", u, s, ids)
    BY <1>4 DEF GetLine
  <2> QED
    BY <1>4, QuietRespondKeeps DEF GetLine
<1>5. CASE DeleteLine(h)
  BY <1>5, DeleteLineKeeps, RespondKeeps DEF DeleteLine, IInv
<1> QED
  BY <1>1, <1>2, <1>3, <1>4, <1>5

\* A failing statement and the end of the process change no table.
LEMMA OtherStepsKeep ==
  ASSUME IInv, (\E h \in Handlers : DbFails(h)) \/ Restart
  PROVE  IInv'
<1>1. CASE Restart
  <2>1. UNCHANGED tables /\ task' = [h \in Handlers |-> Idle] /\ answered' = {}
    BY <1>1 DEF Restart
  <2>2. TablesInv'
    BY <2>1, UnchangedTables DEF IInv
  <2>3. \A h \in Handlers : task'[h] = Idle
    BY <2>1
  <2>4. \A h \in Handlers : TaskOK(task[h])'
    BY <2>3, IdleOK DEF TaskOK, RemembersConvo, RemembersMood
  <2> QED
    BY <2>1, <2>2, <2>4 DEF IInv, Tasks
<1>2. ASSUME NEW h \in Handlers, DbFails(h) PROVE IInv'
  <2>1. UNCHANGED tables
    BY <1>2 DEF DbFails
  <2>2. \E u \in Users, op \in Ops : Respond(h, op, u, 500, {})
    <3>1. CASE task[h] = Idle
      BY <1>2, <3>1 DEF DbFails
    <3>2. CASE task[h] # Idle
      <4> PICK t \in Tasks : t = task[h]
        BY DEF IInv
      <4>1. t.step # "idle"
        BY <3>2 DEF Tasks, Idle
      <4>2. t.user \in Users /\ StepOp[t.step] \in Ops
        BY <4>1, TaskUsers DEF StepOp, Ops
      <4> QED
        BY <1>2, <3>2, <4>2 DEF DbFails
    <3> QED
      BY <3>1, <3>2
  <2> QED
    BY <2>1, <2>2, QuietRespondKeeps, StatusesOK
<1> QED
  BY <1>1, <1>2

\* The strengthened invariant holds initially and every action keeps it.
THEOREM Inductive == Spec => []IInv
<1>1. Init => IInv
  <2> SUFFICES ASSUME Init PROVE IInv
    OBVIOUS
  <2>1. TablesInv
    BY DEF Init, TablesInit, TablesInv, TablesOK, Keys, MoodKeys, LinkIntegrity
  <2>2. \A h \in Handlers : task[h] = Idle /\ Idle \in Tasks
    BY DEF Init, Tasks
  <2>3. \A h \in Handlers : TaskOK(task[h])
    BY <2>2 DEF TaskOK, Idle
  <2> QED
    BY <2>1, <2>2, <2>3 DEF Init, IInv, Tasks
<1>2. IInv /\ [Next]_vars => IInv'
  <2> SUFFICES ASSUME IInv, [Next]_vars PROVE IInv'
    OBVIOUS
  <2>1. ASSUME NEW h \in Handlers, Arrive(h) \/ Advance(h) PROVE IInv'
    BY <2>1, MoodStepsKeep, ConvoStepsKeep, LineStepsKeep DEF Arrive, Advance
  <2>2. CASE UNCHANGED vars
    <3>1. UNCHANGED <<tables, task, answered>>
      BY <2>2 DEF vars, tables
    <3>2. TablesInv' /\ RowsAge
      BY <3>1, UnchangedTables DEF IInv
    <3>3. \A t : TaskOK(t) => TaskOK(t)'
      BY <3>2, TaskAges DEF IInv
    <3>4. \A h \in Handlers : TaskOK(task[h])'
      BY <3>1, <3>3 DEF IInv, TaskOK, RemembersConvo, RemembersMood
    <3> QED
      BY <3>1, <3>2, <3>4 DEF IInv
  <2> QED
    BY <2>1, <2>2, OtherStepsKeep DEF Next
<1> QED
  BY <1>1, <1>2, PTL DEF Spec

\* Every variable keeps its type: the local variables of the handlers, the ids
\* they carry and the attempts they count (say/repository.go) included.
THEOREM TypeCorrect == Spec => []TypeOK
<1>1. IInv => TypeOK
  BY DEF IInv, TablesInv, TypeOK
<1> QED
  BY <1>1, Inductive, PTL

\* Every line keeps its conversation and a mood its author had: CreateLine needs
\* no transaction around its three statements.
THEOREM LinksHold == Spec => []LinkIntegrity
<1>1. IInv => LinkIntegrity
  BY DEF IInv, TablesInv
<1> QED
  BY <1>1, Inductive, PTL

\* SetMood, with its racy upsert, never gives a user two moods of one name nor a
\* mood that hides a built-in.
THEOREM MoodKeysHold == Spec => []MoodKeys
<1>1. IInv => MoodKeys
  BY DEF IInv, TablesInv
<1> QED
  BY <1>1, Inductive, PTL

\* What GetConversation and CreateLine remember of a conversation or a mood stays
\* true of whatever row has that id.
THEOREM CapturedIdsHold == Spec => []CapturedIds
<1>1. IInv => CapturedIds
  BY DEF IInv, CapturedIds, TaskOK, RemembersConvo, RemembersMood
<1> QED
  BY <1>1, Inductive, PTL

-----------------------------------------------------------------------------
(* What the requests do and say: action properties, from the invariant. *)

\* What a step that answers owes the user it answers.
OwnRows == \A r \in answered' : TouchesOnly(r.user) /\ ShowsOwn(r)

\* What a step that answers, or does not, says about the rows.
Truth ==
  /\ answered' = {} => Gone \cup New = {}
  /\ \A r \in answered' : Truthful(r)

\* A response that has been sent is the one that was made.
LEMMA OneAnswer ==
  ASSUME NEW h, NEW op, NEW u, NEW s, NEW ids, Respond(h, op, u, s, ids)
  PROVE  /\ answered' # {}
         /\ \A r \in answered' :
              r.op = op /\ r.user = u /\ r.status = s /\ r.ids = ids
BY DEF Respond

-----------------------------------------------------------------------------
(* Whose rows each statement touches *)

\* A step that leaves the tables alone touches nobody's rows.
LEMMA UnchangedTouchesNone ==
  ASSUME UNCHANGED tables, NEW u
  PROVE  TouchesOnly(u)
BY DEF tables, TouchesOnly

\* Both halves of setMood and deleteMood compare user_id.
LEMMA MoodStatementsTouchOwn ==
  ASSUME TablesInv, NEW u \in Users, NEW n \in Names, NEW look \in Looks,
         updateMood(u, n, look) \/ insertMood(u, n, look) \/ deleteMood(u, n)
  PROVE  TouchesOnly(u)
<1> USE DEF TablesInv, TablesOK, MoodRows, findMood
<1>1. UNCHANGED <<convos, lines>>
  BY DEF updateMood, insertMood, deleteMood
<1>2. \A m \in moods \ moods' : m.user = u
  BY DEF updateMood, insertMood, deleteMood
<1>3. \A m \in moods' \ moods : m.user = u
  <2>1. CASE updateMood(u, n, look)
    BY <2>1 DEF updateMood
  <2>2. CASE insertMood(u, n, look)
    BY <2>2 DEF insertMood
  <2>3. CASE deleteMood(u, n)
    BY <2>3 DEF deleteMood
  <2> QED
    BY <2>1, <2>2, <2>3
<1> QED
  BY <1>1, <1>2, <1>3 DEF TouchesOnly

\* insertConvo writes the user's id; deleteConvo compares it, and cascades only
\* to lines of the conversation it deletes.
LEMMA ConvoStatementsTouchOwn ==
  ASSUME TablesInv, NEW u \in Users, NEW p \in ConvoIds,
         insertConvo(u, p) \/ deleteConvo(u, p)
  PROVE  TouchesOnly(u)
<1>1. CASE insertConvo(u, p)
  BY <1>1 DEF insertConvo, TouchesOnly
<1>2. CASE deleteConvo(u, p)
  <2>1. /\ convos' = convos \ getConvo(u, p) /\ UNCHANGED moods
        /\ lines' = {l \in lines : \A c \in getConvo(u, p) : l.convo # c.id}
    BY <1>2 DEF deleteConvo
  <2>2. \A c \in getConvo(u, p) : c \in convos /\ c.user = u
    BY DEF getConvo
  <2>3. lines \ lines' \subseteq LinesOf(u)
    BY <2>1, <2>2 DEF LinesOf
  <2> QED
    BY <2>1, <2>2, <2>3 DEF TouchesOnly
<1> QED
  BY <1>1, <1>2

\* deleteLine reaches a line through a conversation of the user's.
LEMMA DeleteLineTouchesOwn ==
  ASSUME NEW u, NEW p, NEW q, deleteLine(u, p, q)
  PROVE  TouchesOnly(u)
BY DEF deleteLine, getLine, getConvo, LinesOf, TouchesOnly

\* insertLine knows the conversation by its serial id alone; that it is the
\* user's is what the handler remembers.
LEMMA InsertLineTouchesOwn ==
  ASSUME NEW t, RemembersConvo(t), NEW q,
         insertLine([pub |-> q, convo |-> t.convo, mood |-> t.mood, name |-> t.name])
  PROVE  TouchesOnly(t.user)
<1> DEFINE new == [pub |-> q, convo |-> t.convo, mood |-> t.mood, name |-> t.name]
<1>1. /\ lines' = lines \/ (lines' = lines \cup {new} /\ ForeignKeysHold(new))
      /\ UNCHANGED <<moods, convos>>
  BY DEF insertLine
<1>2. ForeignKeysHold(new) => \E c \in convos : c.id = new.convo /\ c.user = t.user
  BY DEF ForeignKeysHold, RemembersConvo
<1>3. lines' \ lines \subseteq LinesOf(t.user)'
  BY <1>1, <1>2 DEF LinesOf
<1> QED
  BY <1>1, <1>3 DEF TouchesOnly

-----------------------------------------------------------------------------
(* Whose rows each request touches and shows *)

\* A request that shows no lines.
LEMMA RespondOwn ==
  ASSUME NEW h, NEW op \in Ops \ {"GetConversation", "GetLine"}, NEW u, NEW s,
         NEW ids, Respond(h, op, u, s, ids), TouchesOnly(u)
  PROVE  OwnRows
BY DEF Respond, OwnRows, ShowsOwn

\* A request that shows lines and changes nothing.
LEMMA ShowOwn ==
  ASSUME NEW h, NEW op, NEW u, NEW s, NEW ids, Respond(h, op, u, s, ids),
         UNCHANGED tables, ids \subseteq {l.pub : l \in LinesOf(u)}
  PROVE  OwnRows
BY UnchangedTouchesNone DEF Respond, OwnRows, ShowsOwn

\* A step that does not answer.
LEMMA ContinueOwn ==
  ASSUME NEW h, NEW t, Continue(h, t)
  PROVE  OwnRows
BY DEF Continue, OwnRows

\* The handlers of /moods/:mood.
LEMMA MoodStepsOwn ==
  ASSUME IInv, NEW h \in Handlers,
         \/ GetMood(h) \/ SetMood(h) \/ SetMoodInsert(h)
         \/ DeleteMood(h) \/ DeleteMoodConflict(h)
  PROVE  OwnRows
<1> USE DEF Ops
<1>1. CASE GetMood(h)
  BY <1>1, UnchangedTouchesNone, RespondOwn DEF GetMood
<1>2. CASE SetMood(h)
  <2> PICK u \in Users, n \in Names, look \in Looks :
        \/ UNCHANGED tables /\ \E s : Respond(h, "SetMood", u, s, {})
        \/ updateMood(u, n, look) /\ \E s : Respond(h, "SetMood", u, s, {})
        \/ \E t : Continue(h, t)
    BY <1>2 DEF SetMood
  <2> QED
    BY UnchangedTouchesNone, MoodStatementsTouchOwn, RespondOwn, ContinueOwn
       DEF IInv
<1>3. CASE SetMoodInsert(h)
  <2> PICK t \in Tasks : t = task[h]
    BY DEF IInv
  <2>1. /\ t.step = "insertMood" /\ insertMood(t.user, t.name, t.look)
        /\ \E s : Respond(h, "SetMood", t.user, s, {})
    BY <1>3 DEF SetMoodInsert
  <2>2. TouchesOnly(t.user)
    BY <2>1, TaskUsers, MoodStatementsTouchOwn DEF IInv
  <2> QED
    BY <2>1, <2>2, RespondOwn
<1>4. CASE DeleteMood(h)
  <2> PICK u \in Users, n \in Names :
        \/ UNCHANGED tables /\ \E s : Respond(h, "DeleteMood", u, s, {})
        \/ deleteMood(u, n) /\ \E s : Respond(h, "DeleteMood", u, s, {})
        \/ \E t : Continue(h, t)
    BY <1>4 DEF DeleteMood
  <2>1. ASSUME deleteMood(u, n) PROVE TouchesOnly(u)
    BY <2>1 DEF deleteMood, findMood, TouchesOnly
  <2> QED
    BY <2>1, UnchangedTouchesNone, RespondOwn, ContinueOwn
<1>5. CASE DeleteMoodConflict(h)
  BY <1>5, UnchangedTouchesNone, RespondOwn DEF DeleteMoodConflict
<1> QED
  BY <1>1, <1>2, <1>3, <1>4, <1>5

\* The handlers of /conversations and /conversations/:conversation.  The lines
\* GetConversation shows hang on the conversation with the id it remembers.
LEMMA ConvoStepsOwn ==
  ASSUME IInv, NEW h \in Handlers,
         \/ CreateConversation(h) \/ CreateConversationInsert(h)
         \/ GetConversation(h) \/ GetConversationLines(h)
         \/ DeleteConversation(h)
  PROVE  OwnRows
<1> USE DEF Ops
<1>1. CASE CreateConversation(h)
  BY <1>1, UnchangedTouchesNone, RespondOwn, ContinueOwn DEF CreateConversation
<1>2. CASE CreateConversationInsert(h)
  <2> PICK t \in Tasks : t = task[h]
    BY DEF IInv
  <2>1. /\ t.step = "insertConvo"
        /\ \E p \in ConvoIds : insertConvo(t.user, p)
        /\ \/ \E s : Respond(h, "CreateConversation", t.user, s, {})
           \/ \E next : Continue(h, next)
    BY <1>2 DEF CreateConversationInsert
  <2>2. TouchesOnly(t.user)
    BY <2>1, TaskUsers, ConvoStatementsTouchOwn DEF IInv
  <2> QED
    BY <2>1, <2>2, RespondOwn, ContinueOwn
<1>3. CASE GetConversation(h)
  <2> PICK u \in Users :
        \/ UNCHANGED tables /\ Respond(h, "GetConversation", u, 404, {})
        \/ \E t : Continue(h, t)
    BY <1>3 DEF GetConversation
  <2> QED
    BY ShowOwn, ContinueOwn
<1>4. CASE GetConversationLines(h)
  <2> PICK t \in Tasks : t = task[h]
    BY DEF IInv
  <2> DEFINE found == findConvoLines(t.convo)
  <2>1. /\ t.step = "readLines" /\ UNCHANGED tables
        /\ \E ids \in {{}, {l.pub : l \in found}} : \E s :
             Respond(h, "GetConversation", t.user, s, ids)
    BY ONLY <1>4, t = task[h] DEF GetConversationLines
  <2>2. RemembersConvo(t)
    BY <2>1 DEF IInv, TaskOK
  <2>3. found \subseteq LinesOf(t.user)
    BY <2>2 DEF IInv, TablesInv, LinkIntegrity, RemembersConvo, findConvoLines,
                LinesOf
  <2> QED
    BY <2>1, <2>3, ShowOwn
<1>5. CASE DeleteConversation(h)
  BY <1>5, ConvoStatementsTouchOwn, RespondOwn DEF DeleteConversation, IInv
<1> QED
  BY <1>1, <1>2, <1>3, <1>4, <1>5

\* The handlers of /conversations/:conversation/lines.
LEMMA LineStepsOwn ==
  ASSUME IInv, NEW h \in Handlers,
         \/ CreateLine(h) \/ CreateLineFind(h) \/ CreateLineInsert(h)
         \/ GetLine(h) \/ DeleteLine(h)
  PROVE  OwnRows
<1> USE DEF Ops
<1>1. CASE CreateLine(h)
  BY ONLY <1>1, UnchangedTouchesNone, RespondOwn, ContinueOwn DEF CreateLine, Ops
<1>2. CASE CreateLineFind(h)
  BY <1>2, UnchangedTouchesNone, RespondOwn, ContinueOwn DEF CreateLineFind
<1>3. CASE CreateLineInsert(h)
  <2> PICK t \in Tasks : t = task[h]
    BY DEF IInv
  <2> PICK q \in LineIds :
        /\ t.step = "insertLine"
        /\ insertLine([pub |-> q, convo |-> t.convo, mood |-> t.mood,
                       name |-> t.name])
        /\ \/ \E s, ids : Respond(h, "CreateLine", t.user, s, ids)
           \/ \E next : Continue(h, next)
    BY <1>3 DEF CreateLineInsert
  <2>1. RemembersConvo(t)
    BY DEF IInv, TaskOK
  <2>2. TouchesOnly(t.user)
    BY <2>1, InsertLineTouchesOwn
  <2> QED
    BY <2>2, RespondOwn, ContinueOwn
<1>4. CASE GetLine(h)
  <2> PICK u \in Users, p \in ConvoIds, q \in LineIds :
        /\ UNCHANGED tables
        /\ \/ \E s : Respond(h, "GetLine", u, s, {})
           \/ /\ getLine(u, p, q) # {}
              /\ \E s : Respond(h, "GetLine", u, s, {q})
    BY ONLY <1>4, Zenon DEF GetLine
  <2>1. getLine(u, p, q) # {} => q \in {l.pub : l \in LinesOf(u)}
    BY DEF getLine, getConvo, LinesOf
  <2> QED
    BY <2>1, ShowOwn
<1>5. CASE DeleteLine(h)
  BY <1>5, DeleteLineTouchesOwn, RespondOwn DEF DeleteLine
<1> QED
  BY <1>1, <1>2, <1>3, <1>4, <1>5

\* Whatever runs in between, a request changes rows of its own user only, and
\* shows lines of that user's conversations only (say/repository.go).
THEOREM OwnRowsHold == Spec => OwnRowsOnly
<1>1. IInv /\ [Next]_vars => [OwnRows]_vars
  <2> SUFFICES ASSUME IInv, Next PROVE OwnRows
    OBVIOUS
  <2>1. CASE Restart
    BY <2>1 DEF Restart, OwnRows
  <2>2. ASSUME NEW h \in Handlers, DbFails(h) PROVE OwnRows
    <3> PICK op, u : UNCHANGED tables /\ Respond(h, op, u, 500, {})
      BY <2>2 DEF DbFails
    <3> QED
      BY ShowOwn
  <2>3. ASSUME NEW h \in Handlers, Arrive(h) \/ Advance(h) PROVE OwnRows
    BY <2>3, MoodStepsOwn, ConvoStepsOwn, LineStepsOwn DEF Arrive, Advance
  <2> QED
    BY <2>1, <2>2, <2>3 DEF Next
<1> QED
  BY <1>1, Inductive, PTL DEF Spec, OwnRowsOnly, OwnRows

-----------------------------------------------------------------------------
(* What each request says *)

\* A step that leaves the rows alone may say anything but that it deleted or
\* created one.
LEMMA QuietTruth ==
  ASSUME UNCHANGED <<moods, convos, lines>>, NEW h, NEW op, NEW u, NEW ids,
         NEW s \in {200, 400, 404, 500}, Respond(h, op, u, s, ids),
         s = 200 => op \notin {"CreateConversation", "CreateLine"}
  PROVE  Truth
<1>1. Gone = {} /\ New = {}
  BY DEF Gone, New
<1>2. answered' # {} /\ \A r \in answered' : r.status = s /\ r.op = op
  BY OneAnswer
<1> QED
  BY <1>1, <1>2 DEF Truth, Truthful

\* A step that does not answer leaves the rows alone.
LEMMA SilentTruth ==
  ASSUME UNCHANGED <<moods, convos, lines>>, NEW h, NEW t, Continue(h, t)
  PROVE  Truth
<1>1. answered' = {} /\ Gone = {} /\ New = {}
  BY DEF Continue, Gone, New
<1> QED
  BY <1>1 DEF Truth

\* An internal error promises nothing.
LEMMA ErrorTruth ==
  ASSUME NEW h, NEW op, NEW u, NEW ids, Respond(h, op, u, 500, ids)
  PROVE  Truth
<1>1. answered' # {} /\ \A r \in answered' : r.status = 500
  BY OneAnswer
<1> QED
  BY <1>1 DEF Truth, Truthful

\* DeleteStatus of the rows a deletion found.
LEMMA DeletionTruth ==
  ASSUME NEW h, NEW op \in {"DeleteMood", "DeleteConversation", "DeleteLine"},
         NEW u, NEW found, NEW s \in Acked(DeleteStatus(found)),
         Respond(h, op, u, s, {}),
         found = {} => Gone = {}, found # {} => Gone # {}, New = {}
  PROVE  Truth
<1>1. s = 500 \/ (s = 404 /\ found = {}) \/ (s = 204 /\ found # {})
  BY DEF Acked, DeleteStatus
<1>2. answered' # {} /\ \A r \in answered' : r.status = s
  BY OneAnswer
<1>3. \A r \in answered' : r.status # 200
  BY <1>1, <1>2
<1> QED
  BY <1>1, <1>2, <1>3 DEF Truth, Truthful

\* An acknowledged creation has added the row it made up.
LEMMA CreationTruth ==
  ASSUME NEW h, NEW op \in {"CreateConversation", "CreateLine"}, NEW u, NEW ids,
         NEW s \in Acked(200), Respond(h, op, u, s, ids),
         Gone = {}, NEW row, New = {row}
  PROVE  Truth
<1>1. answered' # {} /\ \A r \in answered' : r.status \in {200, 500}
  BY OneAnswer DEF Acked
<1>2. Cardinality(New) = 1
  BY FS_Singleton
<1> QED
  BY <1>1, <1>2 DEF Truth, Truthful

\* The handlers of /moods/:mood.
LEMMA MoodStepsTruth ==
  ASSUME NEW h \in Handlers,
         \/ GetMood(h) \/ SetMood(h) \/ SetMoodInsert(h)
         \/ DeleteMood(h) \/ DeleteMoodConflict(h)
  PROVE  Truth
<1> USE DEF tables
<1>1. CASE GetMood(h)
  BY <1>1, QuietTruth, SilentTruth DEF GetMood
<1>2. ASSUME NEW u, NEW s \in Acked(200), Respond(h, "SetMood", u, s, {})
      PROVE  Truth
  <2>1. /\ answered' # {}
        /\ \A r \in answered' : r.status \in {200, 500} /\ r.op = "SetMood"
    BY <1>2, OneAnswer DEF Acked
  <2> QED
    BY <2>1 DEF Truth, Truthful
<1>3. CASE SetMood(h)
  BY <1>3, <1>2, QuietTruth, SilentTruth DEF SetMood
<1>4. CASE SetMoodInsert(h)
  BY <1>4, <1>2, ErrorTruth DEF SetMoodInsert
<1>5. CASE DeleteMood(h)
  <2> PICK u \in Users, n \in Names :
        \/ UNCHANGED tables /\ Respond(h, "DeleteMood", u, 400, {})
        \/ /\ deleteMood(u, n)
           /\ \E s \in Acked(DeleteStatus(findMood(u, n))) :
                Respond(h, "DeleteMood", u, s, {})
        \/ UNCHANGED tables /\ \E t : Continue(h, t)
    BY <1>5 DEF DeleteMood
  <2>1. ASSUME deleteMood(u, n)
        PROVE  Gone = findMood(u, n) /\ New = {}
    BY <2>1 DEF deleteMood, findMood, Gone, New
  <2>2. CASE UNCHANGED tables /\ Respond(h, "DeleteMood", u, 400, {})
    BY <2>2, QuietTruth
  <2>3. CASE /\ deleteMood(u, n)
             /\ \E s \in Acked(DeleteStatus(findMood(u, n))) :
                  Respond(h, "DeleteMood", u, s, {})
    BY <2>1, <2>3, DeletionTruth
  <2>4. CASE UNCHANGED tables /\ \E t : Continue(h, t)
    BY <2>4, SilentTruth
  <2> QED
    BY <2>2, <2>3, <2>4
<1>6. CASE DeleteMoodConflict(h)
  BY <1>6, QuietTruth, SilentTruth DEF DeleteMoodConflict
<1> QED
  BY <1>1, <1>3, <1>4, <1>5, <1>6

\* The handlers of /conversations and /conversations/:conversation.
LEMMA ConvoStepsTruth ==
  ASSUME NEW h \in Handlers,
         \/ CreateConversation(h) \/ CreateConversationInsert(h)
         \/ GetConversation(h) \/ GetConversationLines(h)
         \/ DeleteConversation(h)
  PROVE  Truth
<1> USE DEF tables
<1>1. CASE CreateConversation(h)
  BY <1>1, QuietTruth, SilentTruth DEF CreateConversation
<1>2. CASE CreateConversationInsert(h)
  <2> PICK p \in ConvoIds :
        /\ insertConvo(task[h].user, p)
        /\ \/ Respond(h, "CreateConversation", task[h].user, 500, {})
           \/ /\ convoSerial < MaxSerial /\ ~PubTaken(p)
              /\ \E s \in Acked(200) :
                   Respond(h, "CreateConversation", task[h].user, s, {})
           \/ PubTaken(p) /\ \E t : Continue(h, t)
    BY <1>2 DEF CreateConversationInsert
  <2>1. CASE PubTaken(p) /\ \E t : Continue(h, t)
    BY <2>1, QuietTruth, SilentTruth DEF insertConvo
  <2>2. CASE /\ convoSerial < MaxSerial /\ ~PubTaken(p)
             /\ \E s \in Acked(200) :
                  Respond(h, "CreateConversation", task[h].user, s, {})
    <3> DEFINE row == [id |-> convoSerial', pub |-> p, user |-> task[h].user]
    <3>1. Gone = {} /\ New = {row}
      BY <2>2 DEF insertConvo, PubTaken, Gone, New
    <3> QED
      BY <2>2, <3>1, CreationTruth
  <2> QED
    BY <2>1, <2>2, ErrorTruth
<1>3. CASE GetConversation(h)
  <2>1. /\ UNCHANGED tables
        /\ \/ \E u : Respond(h, "GetConversation", u, 404, {})
           \/ \E t : Continue(h, t)
    BY <1>3 DEF GetConversation
  <2> QED
    BY <2>1, QuietTruth, SilentTruth
<1>4. CASE GetConversationLines(h)
  BY <1>4, QuietTruth, SilentTruth DEF GetConversationLines, ReadStatus
<1>5. CASE DeleteConversation(h)
  <2> PICK u \in Users, p \in ConvoIds :
        /\ deleteConvo(u, p)
        /\ \E s \in Acked(DeleteStatus(getConvo(u, p))) :
             Respond(h, "DeleteConversation", u, s, {})
    BY <1>5 DEF DeleteConversation
  <2>1. /\ getConvo(u, p) = {} => Gone = {}
        /\ getConvo(u, p) # {} => Gone # {}
        /\ New = {}
    BY DEF deleteConvo, getConvo, Gone, New
  <2> QED
    BY <2>1, DeletionTruth
<1> QED
  BY <1>1, <1>2, <1>3, <1>4, <1>5

\* The handlers of /conversations/:conversation/lines.
LEMMA LineStepsTruth ==
  ASSUME NEW h \in Handlers,
         \/ CreateLine(h) \/ CreateLineFind(h) \/ CreateLineInsert(h)
         \/ GetLine(h) \/ DeleteLine(h)
  PROVE  Truth
<1> USE DEF tables
<1>1. CASE CreateLine(h)
  <2>1. /\ UNCHANGED tables
        /\ \/ \E u : Respond(h, "CreateLine", u, 400, {})
           \/ \E t : Continue(h, t)
    BY <1>1 DEF CreateLine
  <2> QED
    BY <2>1, QuietTruth, SilentTruth
<1>2. CASE CreateLineFind(h)
  <2>1. /\ UNCHANGED tables
        /\ \/ Respond(h, "CreateLine", task[h].user, 500, {})
           \/ \E t : Continue(h, t)
    BY <1>2 DEF CreateLineFind
  <2> QED
    BY <2>1, ErrorTruth, SilentTruth
<1>3. CASE CreateLineInsert(h)
  <2> DEFINE row(q) == [pub |-> q, convo |-> task[h].convo, mood |-> task[h].mood,
                        name |-> task[h].name]
  <2> PICK q \in LineIds :
        /\ insertLine(row(q))
        /\ \/ /\ ~LineTaken(q) /\ ForeignKeysHold(row(q))
              /\ \E s \in Acked(200) : \E ids :
                   Respond(h, "CreateLine", task[h].user, s, ids)
           \/ Respond(h, "CreateLine", task[h].user, 500, {})
           \/ LineTaken(q) /\ \E t : Continue(h, t)
    BY <1>3 DEF CreateLineInsert
  <2>1. CASE LineTaken(q) /\ \E t : Continue(h, t)
    BY <2>1, QuietTruth, SilentTruth DEF insertLine
  <2>2. CASE /\ ~LineTaken(q) /\ ForeignKeysHold(row(q))
             /\ \E s \in Acked(200) : \E ids :
                  Respond(h, "CreateLine", task[h].user, s, ids)
    <3>1. Gone = {} /\ New = {row(q)}
      BY <2>2 DEF insertLine, LineTaken, Gone, New
    <3> QED
      BY <2>2, <3>1, CreationTruth
  <2> QED
    BY <2>1, <2>2, ErrorTruth
<1>4. CASE GetLine(h)
  BY <1>4, QuietTruth, SilentTruth DEF GetLine, ReadStatus
<1>5. CASE DeleteLine(h)
  <2> PICK u \in Users, p \in ConvoIds, q \in LineIds :
        /\ deleteLine(u, p, q)
        /\ \E s \in Acked(DeleteStatus(getLine(u, p, q))) :
             Respond(h, "DeleteLine", u, s, {})
    BY <1>5 DEF DeleteLine
  <2>1. Gone = getLine(u, p, q) /\ New = {}
    BY DEF deleteLine, getLine, Gone, New
  <2> QED
    BY <2>1, DeletionTruth
<1> QED
  BY <1>1, <1>2, <1>3, <1>4, <1>5

\* Refusals have changed nothing, acknowledged deletions and creations have
\* happened, and rows change only in a step that answers (say/say.go).
THEOREM AnswersAreTrue == Spec => AnswersTellTruth
<1>1. [Next]_vars => [Truth]_vars
  <2> SUFFICES ASSUME Next PROVE Truth
    OBVIOUS
  <2>1. CASE Restart
    BY <2>1 DEF Restart, tables, Truth, Gone, New
  <2>2. ASSUME NEW h \in Handlers, DbFails(h) PROVE Truth
    BY <2>2, ErrorTruth DEF DbFails
  <2>3. ASSUME NEW h \in Handlers, Arrive(h) \/ Advance(h) PROVE Truth
    BY <2>3, MoodStepsTruth, ConvoStepsTruth, LineStepsTruth DEF Arrive, Advance
  <2> QED
    BY <2>1, <2>2, <2>3 DEF Next
<1> QED
  BY <1>1, PTL DEF Spec, AnswersTellTruth, Truth

=============================================================================
