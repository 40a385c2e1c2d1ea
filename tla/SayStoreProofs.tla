--------------------------- MODULE SayStoreProofs ---------------------------
(***************************************************************************)
(* Say implements SayStore: for any number of handlers, users, names and    *)
(* retries, a step of a handler is one atomic operation of the store, or    *)
(* none at all.                                                             *)
(*                                                                          *)
(* Each writing statement is one operation.  Where the store demands a      *)
(* conversation and a mood at the instant a line appears, the handler only  *)
(* remembers them; where it refuses to drop a mood that is in use, the      *)
(* database only knows a foreign key.  The invariant IInv of SayProofs      *)
(* closes both gaps.                                                        *)
(***************************************************************************)
EXTENDS SayProofs

\* What the refinement mapping of Say makes of the tables.
Shelf == {[user |-> m.user, name |-> m.name, look |-> m.look] : m \in moods}
Talks == {[pub |-> c.pub, user |-> c.user] : c \in convos}
TalkOf(l) == (CHOOSE c \in convos : c.id = l.convo).pub
Said == {[pub |-> l.pub, talk |-> TalkOf(l), mood |-> Lower[l.name]] : l \in lines}

SameStore == UNCHANGED <<Shelf, Talks, Said>>

-----------------------------------------------------------------------------
(* The mapping *)

\* The conversation a line hangs on is the only one with its id.
LEMMA TalkIsConvo ==
  ASSUME TablesInv, NEW c \in convos, NEW l, l.convo = c.id
  PROVE  TalkOf(l) = c.pub
  BY DEF TalkOf, TablesInv, Keys

\* A line is said in a conversation of some user.
LEMMA LinesAreSaid ==
  ASSUME TablesInv, NEW l \in lines
  PROVE  \E c \in convos : c.id = l.convo /\ TalkOf(l) = c.pub
  BY TalkIsConvo DEF TablesInv, LinkIntegrity

\* While a line's conversation stays, so does what the line says.
LEMMA TalkStays ==
  ASSUME TablesInv, TablesInv', NEW l, NEW c \in convos, c \in convos', c.id = l.convo
  PROVE  TalkOf(l)' = TalkOf(l)
  <1>1. TalkOf(l) = c.pub
    BY TalkIsConvo
  <1>2. (\A d \in convos : d.id = l.convo => d = c)'
    BY DEF TablesInv, Keys
  <1>3. (CHOOSE d \in convos : d.id = l.convo)' = c
    BY <1>2
  <1> QED
    BY <1>1, <1>3 DEF TalkOf

\* What is open to a user, in the store and in the tables.
LEMMA TalksOfUser ==
  ASSUME NEW u, NEW p
  PROVE  p \in Store!TalksOf(u) <=> getConvo(u, p) # {}
  <1>1. Store!TalksOf(u) = {t.pub : t \in {t \in Talks : t.user = u}}
    BY DEF Store!TalksOf, Talks
  <1>2. \A t \in Talks : \E c \in convos : t.pub = c.pub /\ t.user = c.user
    BY DEF Talks
  <1>3. \A c \in convos : \E t \in Talks : t.pub = c.pub /\ t.user = c.user
    <2>1. ASSUME NEW c \in convos PROVE [pub |-> c.pub, user |-> c.user] \in Talks
      BY DEF Talks
    <2> QED
      BY <2>1
  <1> QED
    BY <1>1, <1>2, <1>3 DEF getConvo

\* The mood a statement finds is the one on the shelf under the folded name.
LEMMA MoodsOnShelf ==
  ASSUME TablesInv, NEW u, NEW n, NEW m \in moods
  PROVE  m \in findMood(u, n) <=> m.user = u /\ m.name = Lower[n]
  BY DEF findMood, TablesInv, Keys

-----------------------------------------------------------------------------
(* Each statement that writes is an operation of the store *)

\* The UPDATE half of setMood.
LEMMA UpdateMoodPuts ==
  ASSUME TablesInv, NEW u \in Users, NEW n \in Names, NEW look \in Looks,
         ~IsBuiltin(n), findMood(u, n) # {}, updateMood(u, n, look)
  PROVE  Store!PutMood(u, Lower[n], look)
  <1> DEFINE touch(m) == IF m \in findMood(u, n) THEN [m EXCEPT !.look = look] ELSE m
             row(m) == [user |-> m.user, name |-> m.name, look |-> m.look]
             new == [user |-> u, name |-> Lower[n], look |-> look]
             old == {x \in Shelf : x.user = u /\ x.name = Lower[n]}
  <1>1. moods' = {touch(m) : m \in moods} /\ UNCHANGED <<convos, lines>>
    BY DEF updateMood
  <1>2. \A m \in moods : m \in findMood(u, n) <=> m.user = u /\ m.name = Lower[n]
    BY MoodsOnShelf
  <1>3. \A m \in findMood(u, n) : row(touch(m)) = new
    BY <1>2 DEF findMood, MoodRows, TablesInv, TablesOK
  <1>4. \A m \in moods : m \notin findMood(u, n) => touch(m) = m
    OBVIOUS
  <1>5. Shelf' = {row(touch(m)) : m \in moods}
    BY <1>1 DEF Shelf
  <1>6. Shelf' = (Shelf \ old) \cup {new}
    <2> HIDE DEF touch
    <2>1. Shelf \ old = {row(m) : m \in moods \ findMood(u, n)}
      BY <1>2 DEF Shelf, findMood
    <2>2. new \in Shelf'
      <3>1. PICK m \in moods : m \in findMood(u, n)
        BY DEF findMood
      <3> QED
        BY <1>3, <1>5, <3>1
    <2>3. Shelf \ old \subseteq Shelf'
      BY <1>4, <1>5, <2>1
    <2>4. ASSUME NEW x \in Shelf' PROVE x \in (Shelf \ old) \cup {new}
      <3>1. PICK m \in moods : x = row(touch(m))
        BY <1>5
      <3> QED
        BY <1>3, <1>4, <2>1, <3>1
    <2> QED
      BY <2>2, <2>3, <2>4
  <1>7. Talks' = Talks /\ Said' = Said
    BY <1>1 DEF Talks, Said, TalkOf
  <1>8. Lower[n] \notin Builtins
    BY DEF IsBuiltin
  <1> QED
    BY <1>6, <1>7, <1>8 DEF Store!PutMood, Store!OnShelf, Shelf, Talks, Said, TalkOf

\* The INSERT half of setMood, unless the row is there by now or the sequence ends.
LEMMA InsertMoodPuts ==
  ASSUME TablesInv, NEW u \in Users, NEW n \in Names, NEW look \in Looks,
         ~IsBuiltin(n), insertMood(u, n, look)
  PROVE  Store!PutMood(u, Lower[n], look) \/ SameStore
  <1>1. UNCHANGED <<convos, lines>>
    BY DEF insertMood
  <1>2. Talks' = Talks /\ Said' = Said
    BY <1>1 DEF Talks, Said, TalkOf
  <1>3. CASE ~StoresMood(u, n)
    BY <1>2, <1>3 DEF insertMood, SameStore, Shelf
  <1>4. CASE StoresMood(u, n)
    <2> DEFINE new == [user |-> u, name |-> Lower[n], look |-> look]
               old == {x \in Shelf : x.user = u /\ x.name = Lower[n]}
               added == [id |-> moodSerial', user |-> u, name |-> Lower[n], look |-> look]
    <2>1. moods' = moods \cup {added}
      BY <1>4 DEF insertMood
    <2>2. added.user = u /\ added.name = Lower[n] /\ added.look = look
      OBVIOUS
    <2>3. Shelf' = Shelf \cup {new}
      <3> HIDE DEF added
      <3> QED
        BY <2>1, <2>2 DEF Shelf
    <2>4. old = {}
      BY <1>4, MoodsOnShelf DEF StoresMood, Shelf
    <2>5. Lower[n] \notin Builtins
      BY DEF IsBuiltin
    <2>6. Shelf' = (Shelf \ old) \cup {new}
      BY <2>3, <2>4
    <2> HIDE DEF old
    <2> QED
      BY <1>2, <2>5, <2>6 DEF Store!PutMood, Store!OnShelf, Shelf, Talks, Said, TalkOf, old
  <1> QED
    BY <1>3, <1>4

\* A line in a mood of that name, in a conversation of the user's, has the row in use:
\* the foreign key of lines refuses for the store.
LEMMA DeleteMoodDrops ==
  ASSUME TablesInv, NEW u \in Users, NEW n \in Names, ~IsBuiltin(n), deleteMood(u, n)
  PROVE  Store!DropMood(u, Lower[n])
  <1> DEFINE old == {x \in Shelf : x.user = u /\ x.name = Lower[n]}
  <1>1. /\ moods' = moods \ findMood(u, n) /\ UNCHANGED <<convos, lines>>
        /\ \A m \in findMood(u, n), l \in lines : l.mood # m.id
    BY DEF deleteMood, MoodInUse
  <1>2. Talks' = Talks /\ Said' = Said
    BY <1>1 DEF Talks, Said, TalkOf
  <1>3. Shelf' = Shelf \ old
    BY <1>1, MoodsOnShelf DEF Shelf
  <1>4. ASSUME NEW l \in lines, Lower[l.name] = Lower[n],
               NEW d \in convos, d.user = u, TalkOf(l) = d.pub
        PROVE  FALSE
    <2>1. PICK c \in convos :
            /\ c.id = l.convo
            /\ IF l.mood = NoMood THEN l.name \in Builtins
               ELSE \E m \in moods : m.id = l.mood /\ m.user = c.user /\ m.name = Lower[l.name]
      BY DEF TablesInv, LinkIntegrity
    <2>2. c = d
      BY <1>4, <2>1, TalkIsConvo DEF TablesInv, Keys
    <2>3. l.name \notin Builtins
      BY <1>4, SchemaAssumption DEF IsBuiltin
    <2>4. PICK m \in moods : m.id = l.mood /\ m.user = u /\ m.name = Lower[n]
      BY <1>4, <2>1, <2>2, <2>3
    <2>5. m \in findMood(u, n)
      BY <2>4, MoodsOnShelf
    <2> QED
      BY <1>1, <2>4, <2>5
  <1>5. ~Store!SaidIn(u, Lower[n])
    BY <1>4 DEF Store!SaidIn, Store!TalksOf, TalkOf
  <1> QED
    BY <1>2, <1>3, <1>5 DEF Store!DropMood, Store!OnShelf, Shelf, Talks, Said, TalkOf

\* insertConvo, unless the public id is taken or the sequence ends.
LEMMA InsertConvoOpens ==
  ASSUME TablesInv, TablesInv', NEW u \in Users, NEW p \in ConvoIds, insertConvo(u, p)
  PROVE  Store!OpenTalk(u, p) \/ SameStore
  <1>1. UNCHANGED <<moods, lines>>
    BY DEF insertConvo
  <1>2. CASE ~(convoSerial < MaxSerial /\ ~PubTaken(p))
    BY <1>1, <1>2 DEF insertConvo, SameStore, Shelf, Talks, Said, TalkOf
  <1>3. CASE convoSerial < MaxSerial /\ ~PubTaken(p)
    <2> DEFINE new == [pub |-> p, user |-> u]
               added == [id |-> convoSerial', pub |-> p, user |-> u]
    <2>1. convos' = convos \cup {added}
      BY <1>3 DEF insertConvo
    <2>2. added.user = u /\ added.pub = p
      OBVIOUS
    <2> HIDE DEF added
    <2>3. Talks' = Talks \cup {new}
      BY <2>1, <2>2 DEF Talks
    <2>4. \A l \in lines : TalkOf(l)' = TalkOf(l)
      BY <2>1, LinesAreSaid, TalkStays
    <2>5. Said' = Said
      BY <1>1, <2>4 DEF Said
    <2>6. \A t \in Talks : t.pub # p
      BY <1>3 DEF PubTaken, Talks
    <2>7. Shelf' = Shelf
      BY <1>1 DEF Shelf
    <2> QED
      BY <2>3, <2>5, <2>6, <2>7 DEF Store!OpenTalk, Shelf, Talks, Said, TalkOf
  <1> QED
    BY <1>2, <1>3

\* deleteConvo: the lines that go are those said in the conversation.
LEMMA DeleteConvoCloses ==
  ASSUME TablesInv, TablesInv', NEW u \in Users, NEW p \in ConvoIds, deleteConvo(u, p)
  PROVE  Store!CloseTalk(u, p) \/ SameStore
  <1>1. /\ convos' = convos \ getConvo(u, p) /\ moods' = moods
        /\ lines' = {l \in lines : \A c \in getConvo(u, p) : l.convo # c.id}
    BY DEF deleteConvo
  <1>2. CASE getConvo(u, p) = {}
    <2>1. convos' = convos /\ lines' = lines
      BY <1>1, <1>2
    <2> QED
      BY <1>1, <2>1 DEF SameStore, Shelf, Talks, Said, TalkOf
  <1>3. CASE getConvo(u, p) # {}
    <2>1. PICK d \in convos : getConvo(u, p) = {d} /\ d.user = u /\ d.pub = p
      BY <1>3 DEF getConvo, TablesInv, Keys
    <2>2. Shelf' = Shelf
      BY <1>1 DEF Shelf
    <2>3. Talks' = Talks \ {[pub |-> p, user |-> u]}
      <3>1. \A c \in convos : c # d => c.pub # p
        BY <2>1 DEF TablesInv, Keys
      <3> QED
        BY <1>1, <2>1, <3>1 DEF Talks
    <2>4. \A l \in lines : l \in lines' <=> TalkOf(l) # p
      <3>1. ASSUME NEW l \in lines PROVE l.convo = d.id <=> TalkOf(l) = p
        <4>1. PICK c \in convos : c.id = l.convo /\ TalkOf(l) = c.pub
          BY LinesAreSaid
        <4> QED
          BY <2>1, <4>1 DEF TablesInv, Keys
      <3> QED
        BY <1>1, <2>1, <3>1
    <2>5. \A l \in lines' : l \in lines /\ TalkOf(l)' = TalkOf(l)
      <3>1. ASSUME NEW l \in lines' PROVE TalkOf(l)' = TalkOf(l)
        <4>1. PICK c \in convos : c.id = l.convo
          BY <1>1, LinesAreSaid
        <4>2. c \in convos'
          BY <1>1, <2>1, <4>1
        <4> QED
          BY <4>1, <4>2, TalkStays
      <3> QED
        BY <1>1, <3>1
    <2>6. Said' = {x \in Said : x.talk # p}
      <3>1. Said' = {[pub |-> l.pub, talk |-> TalkOf(l), mood |-> Lower[l.name]] : l \in lines'}
        BY <2>5 DEF Said
      <3> QED
        BY <2>4, <2>5, <3>1 DEF Said
    <2>7. p \in Store!TalksOf(u)
      BY <1>3, TalksOfUser
    <2> QED
      BY <2>2, <2>3, <2>6, <2>7 DEF Store!CloseTalk, Shelf, Talks, Said, TalkOf
  <1> QED
    BY <1>2, <1>3

\* The row CreateLine inserts: what its handler remembers says that the two rows its
\* foreign keys find are the user's conversation and a mood of that name.
LEMMA InsertLineSpeaks ==
  ASSUME TablesInv, TablesInv', NEW t \in Tasks, t.step = "insertLine", NEW q \in LineIds,
         RemembersConvo(t), RemembersMood(t),
         insertLine([pub |-> q, convo |-> t.convo, mood |-> t.mood, name |-> t.name])
  PROVE  Store!Speak(t.user, t.pub, q, Lower[t.name]) \/ SameStore
  <1> DEFINE l == [pub |-> q, convo |-> t.convo, mood |-> t.mood, name |-> t.name]
             new == [pub |-> q, talk |-> t.pub, mood |-> Lower[t.name]]
  <1>1. moods' = moods /\ convos' = convos
    BY DEF insertLine
  <1>2. l.pub = q /\ l.convo = t.convo /\ l.mood = t.mood /\ l.name = t.name
    OBVIOUS
  <1>3. CASE ~(~LineTaken(l.pub) /\ ForeignKeysHold(l))
    BY <1>1, <1>3 DEF insertLine, SameStore, Shelf, Talks, Said, TalkOf
  <1>4. CASE ~LineTaken(l.pub) /\ ForeignKeysHold(l)
    <2>1. lines' = lines \cup {l}
      BY <1>4 DEF insertLine
    <2> HIDE DEF l
    <2>2. PICK c \in convos : c.id = t.convo /\ c.user = t.user /\ c.pub = t.pub
      BY <1>2, <1>4 DEF ForeignKeysHold, RemembersConvo
    <2>3. TalkOf(l) = t.pub
      BY <1>2, <2>2, TalkIsConvo
    <2>4. \A k : TalkOf(k)' = TalkOf(k)
      BY <1>1 DEF TalkOf
    <2>5. Said' = Said \cup {new}
      <3>1. Said' = {[pub |-> k.pub, talk |-> TalkOf(k), mood |-> Lower[k.name]] :
                       k \in lines \cup {l}}
        BY <2>1, <2>4 DEF Said
      <3> QED
        BY <1>2, <2>3, <3>1 DEF Said
    <2>6. t.pub \in Store!TalksOf(t.user)
      BY <2>2, TalksOfUser DEF getConvo
    <2>7. Lower[t.name] \in Builtins \/ Store!OnShelf(t.user, Lower[t.name]) # {}
      <3>1. CASE t.mood = NoMood
        BY <3>1, SchemaAssumption DEF RemembersMood
      <3>2. CASE t.mood # NoMood
        <4>1. PICK m \in moods : m.user = t.user /\ m.name = Lower[t.name]
          BY <1>2, <1>4, <3>2 DEF ForeignKeysHold, RemembersMood
        <4>2. [user |-> m.user, name |-> m.name, look |-> m.look] \in Shelf
          BY DEF Shelf
        <4> QED
          BY <4>1, <4>2 DEF Store!OnShelf, Shelf
      <3> QED
        BY <3>1, <3>2
    <2>8. \A x \in Said : x.pub # q
      BY <1>2, <1>4 DEF LineTaken, Said
    <2>9. Shelf' = Shelf /\ Talks' = Talks
      BY <1>1 DEF Shelf, Talks
    <2> QED
      BY <2>5, <2>6, <2>7, <2>8, <2>9 DEF Store!Speak, Shelf, Talks, Said, TalkOf
  <1> QED
    BY <1>3, <1>4

\* deleteLine: the line of that id in that conversation, if the conversation is the
\* user's.
LEMMA DeleteLineUnsays ==
  ASSUME TablesInv, NEW u \in Users, NEW p \in ConvoIds, NEW q \in LineIds,
         deleteLine(u, p, q)
  PROVE  Store!Unsay(u, p, q) \/ SameStore
  <1>1. lines' = lines \ getLine(u, p, q) /\ moods' = moods /\ convos' = convos
    BY DEF deleteLine
  <1>2. CASE getConvo(u, p) = {}
    <2>1. lines' = lines
      BY <1>1, <1>2 DEF getLine
    <2> QED
      BY <1>1, <2>1 DEF SameStore, Shelf, Talks, Said, TalkOf
  <1>3. CASE getConvo(u, p) # {}
    <2>1. PICK d \in convos : getConvo(u, p) = {d} /\ d.pub = p
      BY <1>3 DEF getConvo, TablesInv, Keys
    <2>2. ASSUME NEW l \in lines PROVE l \in lines' <=> l.pub # q \/ TalkOf(l) # p
      <3>1. PICK c \in convos : c.id = l.convo /\ TalkOf(l) = c.pub
        BY LinesAreSaid
      <3>2. l.convo = d.id <=> TalkOf(l) = p
        BY <2>1, <3>1 DEF TablesInv, Keys
      <3> QED
        BY <1>1, <2>1, <3>2 DEF getLine
    <2>3. Said' = {x \in Said : x.pub # q \/ x.talk # p}
      <3>1. Said' = {[pub |-> l.pub, talk |-> TalkOf(l), mood |-> Lower[l.name]] : l \in lines'}
        BY <1>1 DEF Said, TalkOf
      <3>2. lines' \subseteq lines
        BY <1>1
      <3> QED
        BY <2>2, <3>1, <3>2 DEF Said
    <2>4. p \in Store!TalksOf(u)
      BY <1>3, TalksOfUser
    <2>5. Shelf' = Shelf /\ Talks' = Talks
      BY <1>1 DEF Shelf, Talks
    <2> QED
      BY <2>3, <2>4, <2>5 DEF Store!Unsay, Shelf, Talks, Said, TalkOf
  <1> QED
    BY <1>2, <1>3

-----------------------------------------------------------------------------
(* Each step of a handler is an operation of the store, or none *)

\* A step that writes nothing.
LEMMA ReadersStutter ==
  ASSUME UNCHANGED tables
  PROVE  SameStore
  BY DEF tables, SameStore, Shelf, Talks, Said, TalkOf

\* The handlers of /moods/:mood.
LEMMA MoodStepsMap ==
  ASSUME IInv, NEW h \in Handlers,
         \/ GetMood(h) \/ SetMood(h) \/ SetMoodInsert(h)
         \/ DeleteMood(h) \/ DeleteMoodConflict(h)
  PROVE  Store!StoreNext \/ SameStore
  <1>1. TablesInv
    BY DEF IInv
  <1>2. CASE GetMood(h) \/ DeleteMoodConflict(h)
    BY <1>2, ReadersStutter DEF GetMood, DeleteMoodConflict
  <1>3. CASE SetMood(h)
    <2> PICK u \in Users, n \in Names, look \in Looks :
          \/ UNCHANGED tables
          \/ ~IsBuiltin(n) /\ findMood(u, n) # {} /\ updateMood(u, n, look)
      BY <1>3 DEF SetMood
    <2>1. SameStore \/ Store!PutMood(u, Lower[n], look)
      BY <1>1, ReadersStutter, UpdateMoodPuts
    <2> QED
      BY <2>1 DEF Store!StoreNext
  <1>4. CASE SetMoodInsert(h)
    <2> PICK t \in Tasks : t = task[h]
      BY DEF IInv
    <2>1. t.step = "insertMood" /\ insertMood(t.user, t.name, t.look) /\ TaskOK(t)
      BY <1>4 DEF SetMoodInsert, IInv
    <2>2. t.user \in Users /\ t.name \in Names /\ t.look \in Looks /\ ~IsBuiltin(t.name)
      BY <2>1, TaskUsers DEF TaskOK
    <2>3. SameStore \/ Store!PutMood(t.user, Lower[t.name], t.look)
      BY <1>1, <2>1, <2>2, InsertMoodPuts
    <2> QED
      BY <2>2, <2>3 DEF Store!StoreNext
  <1>5. CASE DeleteMood(h)
    <2> PICK u \in Users, n \in Names : UNCHANGED tables \/ (~IsBuiltin(n) /\ deleteMood(u, n))
      BY <1>5 DEF DeleteMood
    <2>1. SameStore \/ Store!DropMood(u, Lower[n])
      BY <1>1, ReadersStutter, DeleteMoodDrops
    <2> QED
      BY <2>1 DEF Store!StoreNext
  <1> QED
    BY <1>2, <1>3, <1>4, <1>5

\* The handlers of /conversations and /conversations/:conversation.
LEMMA ConvoStepsMap ==
  ASSUME IInv, IInv', NEW h \in Handlers,
         \/ CreateConversation(h) \/ CreateConversationInsert(h)
         \/ GetConversation(h) \/ GetConversationLines(h)
         \/ DeleteConversation(h)
  PROVE  Store!StoreNext \/ SameStore
  <1>1. TablesInv /\ TablesInv'
    BY DEF IInv
  <1>2. CASE CreateConversation(h) \/ GetConversation(h) \/ GetConversationLines(h)
    BY <1>2, ReadersStutter DEF CreateConversation, GetConversation, GetConversationLines
  <1>3. CASE CreateConversationInsert(h)
    <2> PICK t \in Tasks : t = task[h]
      BY DEF IInv
    <2>1. t.step = "insertConvo" /\ \E p \in ConvoIds : insertConvo(t.user, p)
      BY <1>3 DEF CreateConversationInsert
    <2>2. t.user \in Users
      BY <2>1, TaskUsers
    <2>3. PICK p \in ConvoIds : SameStore \/ Store!OpenTalk(t.user, p)
      BY <1>1, <2>1, <2>2, InsertConvoOpens
    <2> QED
      BY <2>2, <2>3 DEF Store!StoreNext
  <1>4. CASE DeleteConversation(h)
    <2> PICK u \in Users, p \in ConvoIds : deleteConvo(u, p)
      BY <1>4 DEF DeleteConversation
    <2>1. SameStore \/ Store!CloseTalk(u, p)
      BY <1>1, DeleteConvoCloses
    <2> QED
      BY <2>1 DEF Store!StoreNext
  <1> QED
    BY <1>2, <1>3, <1>4

\* The handlers of /conversations/:conversation/lines.
LEMMA LineStepsMap ==
  ASSUME IInv, IInv', NEW h \in Handlers,
         \/ CreateLine(h) \/ CreateLineFind(h) \/ CreateLineInsert(h)
         \/ GetLine(h) \/ DeleteLine(h)
  PROVE  Store!StoreNext \/ SameStore
  <1>1. TablesInv /\ TablesInv'
    BY DEF IInv
  <1>2. CASE CreateLine(h) \/ CreateLineFind(h) \/ GetLine(h)
    BY <1>2, ReadersStutter DEF CreateLine, CreateLineFind, GetLine
  <1>3. CASE CreateLineInsert(h)
    <2> PICK t \in Tasks : t = task[h]
      BY DEF IInv
    <2>1. t.step = "insertLine" /\ TaskOK(t)
      BY <1>3 DEF CreateLineInsert, IInv
    <2>2. t.user \in Users /\ t.name \in Names /\ t.pub \in ConvoIds
      BY <2>1, TaskUsers
    <2>3. PICK q \in LineIds :
            insertLine([pub |-> q, convo |-> t.convo, mood |-> t.mood, name |-> t.name])
      BY <1>3 DEF CreateLineInsert
    <2>4. SameStore \/ Store!Speak(t.user, t.pub, q, Lower[t.name])
      BY <1>1, <2>1, <2>3, InsertLineSpeaks DEF TaskOK
    <2> QED
      BY <2>2, <2>4 DEF Store!StoreNext
  <1>4. CASE DeleteLine(h)
    <2> PICK u \in Users, p \in ConvoIds, q \in LineIds : deleteLine(u, p, q)
      BY <1>4 DEF DeleteLine
    <2>1. SameStore \/ Store!Unsay(u, p, q)
      BY <1>1, DeleteLineUnsays
    <2> QED
      BY <2>1 DEF Store!StoreNext
  <1> QED
    BY <1>2, <1>3, <1>4

\* Handlers that run several statements, retry and interleave change the store in the
\* ways its atomic operations can, and in no other, whatever fails and whenever the
\* process is restarted.  This is about the tables: of what a handler that has read them
\* in several statements answers it says nothing.
THEOREM StoreImplemented == Spec => ImplementsStore
  <1>1. Init => Store!StoreInit
    BY DEF Init, TablesInit, Store!StoreInit
  <1>2. IInv /\ IInv' /\ [Next]_vars => [Store!StoreNext]_(Store!storeVars)
    <2> SUFFICES ASSUME IInv, IInv', [Next]_vars PROVE Store!StoreNext \/ SameStore
      BY DEF SameStore, Shelf, Talks, Said, TalkOf, Store!storeVars
    <2>1. ASSUME NEW h \in Handlers, Arrive(h) \/ Advance(h)
          PROVE  Store!StoreNext \/ SameStore
      BY <2>1, MoodStepsMap, ConvoStepsMap, LineStepsMap DEF Arrive, Advance
    <2>2. CASE (\E h \in Handlers : DbFails(h)) \/ Restart \/ UNCHANGED vars
      BY <2>2, ReadersStutter DEF DbFails, Restart, vars, tables
    <2> QED
      BY <2>1, <2>2 DEF Next
  <1> QED
    BY <1>1, <1>2, Inductive, PTL DEF Spec, ImplementsStore, Store!StoreSpec

=============================================================================
