------------------------------ MODULE SayStore ------------------------------
(***************************************************************************)
(* How the moods and conversations of the service may change: a store whose *)
(* operations take effect at one instant.  There are no serial ids, no      *)
(* tables, no handlers and no retries here; a line names its mood and its   *)
(* conversation, and the store itself refuses what would leave a line       *)
(* without either.  Responses are no part of it: one that is put together   *)
(* from two statements may show a state the store never was in.             *)
(***************************************************************************)
EXTENDS Naturals

CONSTANTS Users, Names, Builtins, Lower, Looks, ConvoIds, LineIds

VARIABLES
  shelf,  \* the moods users made: [user, name, look]
  talks,  \* the conversations: [pub, user]
  said    \* the lines: [pub, talk, mood]

storeVars == <<shelf, talks, said>>

StoreInit == shelf = {} /\ talks = {} /\ said = {}

OnShelf(u, n) == {m \in shelf : m.user = u /\ m.name = n}

TalksOf(u) == {t.pub : t \in {t \in talks : t.user = u}}

\* Whether a line of one of u's conversations is in the mood n.
SaidIn(u, n) == \E l \in said : l.mood = n /\ l.talk \in TalksOf(u)

\* SetMood replaces the look of a mood or adds the mood.
PutMood(u, n, look) ==
  /\ n \notin Builtins
  /\ shelf' = (shelf \ OnShelf(u, n))
                \cup {[user |-> u, name |-> n, look |-> look]}
  /\ UNCHANGED <<talks, said>>

\* DeleteMood refuses while the mood is in use.
DropMood(u, n) ==
  /\ ~SaidIn(u, n)
  /\ shelf' = shelf \ OnShelf(u, n)
  /\ UNCHANGED <<talks, said>>

\* CreateConversation takes a public id nobody else has.
OpenTalk(u, p) ==
  /\ \A t \in talks : t.pub # p
  /\ talks' = talks \cup {[pub |-> p, user |-> u]}
  /\ UNCHANGED <<shelf, said>>

\* DeleteConversation takes the lines with it.
CloseTalk(u, p) ==
  /\ p \in TalksOf(u)
  /\ talks' = talks \ {[pub |-> p, user |-> u]}
  /\ said' = {l \in said : l.talk # p}
  /\ UNCHANGED shelf

\* CreateLine speaks in a mood the user has, in a conversation the user owns,
\* both at the instant the line appears.
Speak(u, p, q, n) ==
  /\ p \in TalksOf(u)
  /\ n \in Builtins \/ OnShelf(u, n) # {}
  /\ \A l \in said : l.pub # q
  /\ said' = said \cup {[pub |-> q, talk |-> p, mood |-> n]}
  /\ UNCHANGED <<shelf, talks>>

Unsay(u, p, q) ==
  /\ p \in TalksOf(u)
  /\ said' = {l \in said : l.pub # q \/ l.talk # p}
  /\ UNCHANGED <<shelf, talks>>

StoreNext ==
  \E u \in Users :
    \/ \E n \in Names, look \in Looks : PutMood(u, Lower[n], look)
    \/ \E n \in Names : DropMood(u, Lower[n])
    \/ \E p \in ConvoIds : OpenTalk(u, p) \/ CloseTalk(u, p)
    \/ \E p \in ConvoIds, q \in LineIds :
         \/ \E n \in Names : Speak(u, p, q, Lower[n])
         \/ Unsay(u, p, q)

StoreSpec == StoreInit /\ [][StoreNext]_storeVars

=============================================================================
