------------------------------- MODULE Schema -------------------------------
(***************************************************************************)
(* The PostgreSQL tables of schema.sql and the statements say/repository.go *)
(* prepares over them.  The service opens no transaction, so every          *)
(* statement commits on its own: an operator of this module is ONE atomic   *)
(* statement, and whatever happens between two of them is another request.  *)
(*                                                                          *)
(* A table is a set of rows.  The text columns no property depends on       *)
(* (heading, animal, text, think, created_at) are left out; eyes and tongue *)
(* are one value, a look.  A conversation or a line is known outside by its *)
(* public id, a mood by its owner and name; the serial id of a line only    *)
(* orders listings and is left out.                                         *)
(*                                                                          *)
(* A definition marked Variant is what a plausible mistake would make of    *)
(* the one after it; the properties are tried against it.                   *)
(***************************************************************************)
EXTENDS Naturals, FiniteSets

CONSTANTS
  Users,      \* the user ids a valid token can carry
  Names,      \* mood names as clients spell them
  Builtins,   \* the names of builtinMoods, which have no row
  Lower,      \* SQL lower() and the folding of strings.EqualFold
  Looks,      \* the (eyes, tongue) pairs
  ConvoIds,   \* what the random public id of a conversation is drawn from
  LineIds,    \* what the random public id of a line is drawn from
  MaxSerial   \* the last value of the sequence behind an id SERIAL column

ASSUME SchemaAssumption ==
  /\ Builtins \subseteq Names
  /\ Lower \in [Names -> Names]
  /\ \A n \in Names : Lower[Lower[n]] = Lower[n]
  /\ \A b \in Builtins : Lower[b] = b
  /\ MaxSerial \in Nat \ {0}

VARIABLES
  moods,       \* rows [id, user, name, look]
  convos,      \* rows [id, pub, user]
  lines,       \* rows [pub, convo, mood, name]: two foreign keys and mood_name
  moodSerial,  \* the last id the sequence of moods handed out
  convoSerial  \* the last id the sequence of conversations handed out

tables == <<moods, convos, lines, moodSerial, convoSerial>>

NoMood == 0                  \* mood_id IS NULL
Serials == 1 .. MaxSerial
MoodRows == [id : Serials, user : Users, name : Names, look : Looks]
ConvoRows == [id : Serials, pub : ConvoIds, user : Users]
LineRows == [pub : LineIds, convo : Serials,
             mood : Serials \cup {NoMood}, name : Names]

TablesOK ==
  /\ moods \subseteq MoodRows
  /\ convos \subseteq ConvoRows
  /\ lines \subseteq LineRows
  /\ moodSerial \in 0 .. MaxSerial
  /\ convoSerial \in 0 .. MaxSerial

TablesInit ==
  /\ moods = {} /\ convos = {} /\ lines = {}
  /\ moodSerial = 0 /\ convoSerial = 0

-----------------------------------------------------------------------------
(* Queries.  At most one row matches a mood's or a conversation's key; that *)
(* is what the unique indexes are for, so a query returns the set it finds. *)

findMood(u, n) == {m \in moods : m.user = u /\ Lower[m.name] = Lower[n]}

getConvo(u, p) == {c \in convos : c.user = u /\ c.pub = p}

findConvoLines(i) == {l \in lines : l.convo = i}

\* The condition is on mood_name as the line's author spelled it: no lower().
findMoodLines(u, n) ==
  {l \in lines : l.name = n /\ \E m \in moods : m.id = l.mood /\ m.user = u}

\* Variant: the owner of the conversation is not compared.
getLineOfAnyone(u, p, q) ==
  {l \in lines : l.pub = q /\ \E c \in convos : c.pub = p /\ c.id = l.convo}

getLine(u, p, q) ==
  {l \in lines : l.pub = q /\ \E c \in getConvo(u, p) : c.id = l.convo}

-----------------------------------------------------------------------------
(* Statements that write.  A sequence value is spent even by an INSERT that *)
(* a constraint then refuses; past the last value nextval() itself fails.   *)

Draw(serial) == IF serial < MaxSerial THEN serial + 1 ELSE serial

updateMood(u, n, look) ==
  /\ moods' = {IF m \in findMood(u, n) THEN [m EXCEPT !.look = look] ELSE m :
                 m \in moods}
  /\ UNCHANGED <<convos, lines, moodSerial, convoSerial>>

StoresMood(u, n) == moodSerial < MaxSerial /\ findMood(u, n) = {}

\* Variant: the id is the first one no row has, as without a sequence.
insertMoodReusingId(u, n, look) ==
  /\ moodSerial' = Draw(moodSerial)
  /\ moods' = IF StoresMood(u, n)
                THEN moods \cup {[id |-> CHOOSE i \in Serials :
                                            /\ \A m \in moods : m.id # i
                                            /\ \A j \in 1 .. i - 1 :
                                                 \E m \in moods : m.id = j,
                                  user |-> u, name |-> Lower[n], look |-> look]}
                ELSE moods
  /\ UNCHANGED <<convos, lines, convoSerial>>

insertMood(u, n, look) ==
  /\ moodSerial' = Draw(moodSerial)
  /\ moods' = IF StoresMood(u, n)
                THEN moods \cup {[id |-> moodSerial', user |-> u,
                                  name |-> Lower[n], look |-> look]}
                ELSE moods
  /\ UNCHANGED <<convos, lines, convoSerial>>

\* Variant: the service asks for the lines itself, by the name it was given.
MoodInUseByName(u, n) == findMoodLines(u, n) # {}

\* fk_lines_mood has no ON DELETE clause: a line that uses the row keeps it.
MoodInUse(u, n) == \E m \in findMood(u, n), l \in lines : l.mood = m.id

deleteMood(u, n) ==
  /\ ~MoodInUse(u, n)
  /\ moods' = moods \ findMood(u, n)
  /\ UNCHANGED <<convos, lines, moodSerial, convoSerial>>

PubTaken(p) == \E c \in convos : c.pub = p

insertConvo(u, p) ==
  /\ convoSerial' = Draw(convoSerial)
  /\ convos' = IF convoSerial < MaxSerial /\ ~PubTaken(p)
                 THEN convos \cup {[id |-> convoSerial', pub |-> p, user |-> u]}
                 ELSE convos
  /\ UNCHANGED <<moods, lines, moodSerial>>

\* fk_lines_conversation cascades.
deleteConvo(u, p) ==
  /\ convos' = convos \ getConvo(u, p)
  /\ lines' = {l \in lines : \A c \in getConvo(u, p) : l.convo # c.id}
  /\ UNCHANGED <<moods, moodSerial, convoSerial>>

LineTaken(q) == \E l \in lines : l.pub = q

\* Variant: lines.mood_id without its constraint.
ConvoKeyHolds(l) == \E c \in convos : c.id = l.convo

ForeignKeysHold(l) ==
  /\ \E c \in convos : c.id = l.convo
  /\ l.mood = NoMood \/ \E m \in moods : m.id = l.mood

insertLine(l) ==
  /\ lines' = IF ~LineTaken(l.pub) /\ ForeignKeysHold(l) THEN lines \cup {l}
                                                        ELSE lines
  /\ UNCHANGED <<moods, convos, moodSerial, convoSerial>>

deleteLine(u, p, q) ==
  /\ lines' = lines \ getLine(u, p, q)
  /\ UNCHANGED <<moods, convos, moodSerial, convoSerial>>

=============================================================================
