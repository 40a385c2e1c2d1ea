----------------------------- MODULE AppProofs -----------------------------
(***************************************************************************)
(* Whatever fails while the process starts, serves and stops, and however   *)
(* many statements are prepared, resources are held while they are used and *)
(* given back at the end (app/app.go, saypi.go).                            *)
(***************************************************************************)
EXTENDS App, SequenceTheorems, TLAPS

\* What closeAll has still to close.
Closing == {closing[i] : i \in DOMAIN closing}

\* The resources and the closers at each stage of app.New and main.
Built ==
  /\ stage = "build_db" => open = {} /\ closers = <<>> /\ fate = "running"
  /\ stage = "build_limiter" => open = {DB} /\ closers = <<"db">>
  /\ stage = "prepare" => (\E s \in 0 .. NumStatements : open = 0 .. s) /\ closers = <<"db">>
  /\ stage \in {"listen", "serve", "stop"} => open = Everything /\ closers = <<"db", "say">>

\* Closing covers what has to be closed: everything, or the database.
Covered ==
  stage \in {"close", "exit"} /\ ~leaked =>
    /\ fate = "told" => open \subseteq Closing
    /\ fate = "failed" => (DB \in open => DB \in Closing)

\* The strengthened invariant: at the end there is nothing left to close.
AInv ==
  /\ AppTypeOK
  /\ Built
  /\ Covered
  /\ stage = "exit" /\ fate # "fatal" => closing = <<>>

-----------------------------------------------------------------------------

\* What there is to close: the statements are numbered, the database is 0.
LEMMA ResourceTypes == DB \in Everything /\ Stmts \subseteq Everything /\ Everything = 0 .. NumStatements
  BY AppAssumption DEF DB, Stmts, Everything

\* Before anything is prepared closeAll has at most the database to close, and
\* afterwards everything.
LEMMA ClosersCover ==
  ASSUME AppTypeOK
  PROVE  LET list == ClosedBy(1) \o ClosedBy(2) IN
           /\ list \in Seq(Everything)
           /\ closers = <<"db">> => list = <<DB>>
           /\ closers = <<"db", "say">> => Everything \subseteq {list[i] : i \in DOMAIN list}
  <1> DEFINE statements == [s \in Stmts |-> s]
  <1>1. statements \in Seq(Everything) /\ Len(statements) = NumStatements
    BY AppAssumption, ResourceTypes DEF Stmts
  <1>2. <<DB>> \in Seq(Everything) /\ <<>> \in Seq(Everything)
    BY ResourceTypes
  <1>3. CASE closers = <<>>
    <2>1. ClosedBy(1) = <<>> /\ ClosedBy(2) = <<>>
      BY <1>3 DEF ClosedBy
    <2>2. ClosedBy(1) \o ClosedBy(2) = <<>>
      BY <2>1
    <2>3. closers # <<"db">> /\ closers # <<"db", "say">>
      BY <1>3
    <2> QED
      BY <1>2, <2>2, <2>3
  <1>4. CASE closers = <<"db">>
    <2>1. ClosedBy(1) = <<DB>> /\ ClosedBy(2) = <<>>
      BY <1>4 DEF ClosedBy
    <2>2. <<DB>> \o <<>> = <<DB>>
      OBVIOUS
    <2>3. closers # <<"db", "say">>
      BY <1>4
    <2> QED
      BY <1>2, <2>1, <2>2, <2>3
  <1>5. CASE closers = <<"db", "say">>
    <2>1. ClosedBy(1) = <<DB>> /\ ClosedBy(2) = statements
      BY <1>5 DEF ClosedBy
    <2> DEFINE list == <<DB>> \o statements
    <2> HIDE DEF statements
    <2>2. list \in Seq(Everything) /\ DOMAIN list = 1 .. NumStatements + 1
      BY <1>1, <1>2, AppAssumption
    <2>3. list[1] = DB /\ \A s \in Stmts : list[s + 1] = statements[s]
      BY <1>1, <1>2, AppAssumption DEF Stmts
    <2>4. \A s \in Stmts : statements[s] = s
      BY DEF statements
    <2> HIDE DEF list
    <2>5. \A r \in Everything : \E i \in DOMAIN list : list[i] = r
      <3>1. ASSUME NEW r \in Everything PROVE \E i \in 1 .. NumStatements + 1 : list[i] = r
        <4>1. CASE r = DB
          BY <2>3, <4>1, AppAssumption
        <4>2. CASE r \in Stmts
          <5>1. r + 1 \in 1 .. NumStatements + 1 /\ list[r + 1] = r
            BY <2>3, <2>4, <4>2, AppAssumption DEF Stmts
          <5> QED
            BY <5>1
        <4> QED
          BY <4>1, <4>2 DEF Everything
      <3> QED
        BY <2>2, <3>1
    <2> QED
      BY <1>5, <2>1, <2>2, <2>5 DEF list
  <1> QED
    BY <1>3, <1>4, <1>5 DEF AppTypeOK

\* A list of one with something appended is the list of the two,
LEMMA AppendToOne ==
  ASSUME NEW S, NEW one \in Seq(S), NEW e \in S, NEW two \in Seq(S),
         Len(one) = 1, Len(two) = 2, two[1] = one[1], two[2] = e
  PROVE  Append(one, e) = two
  <1> DEFINE more == Append(one, e)
  <1>1. more \in Seq(S) /\ Len(more) = Len(one) + 1
    BY AppendProperties
  <1>2. more[Len(one) + 1] = e
    BY AppendProperties
  <1>3. \A i \in 1 .. Len(one) : more[i] = one[i]
    BY AppendProperties
  <1> HIDE DEF more
  <1>4. \A i \in 1 .. Len(two) : more[i] = two[i]
    BY <1>2, <1>3
  <1>5. more = two
    BY <1>1, <1>4, SeqEqual
  <1> QED
    BY <1>5 DEF more

\* as that of the closers is.
LEMMA BothClosers == Append(<<"db">>, "say") = <<"db", "say">>
  <1> DEFINE S == {"db", "say"}
             one == <<"db">>
             two == <<"db", "say">>
  <1>1. one \in Seq(S) /\ two \in Seq(S) /\ Len(one) = 1 /\ Len(two) = 2 /\ "say" \in S
    OBVIOUS
  <1>2. two[1] = one[1] /\ two[2] = "say"
    OBVIOUS
  <1>3. Append(one, "say") = two
    <2> HIDE DEF S, one, two
    <2> QED
      BY <1>1, <1>2, AppendToOne
  <1> QED
    BY <1>3

\* Nothing is open before the program starts.
LEMMA InitHolds == AppInit => AInv
  <1> SUFFICES ASSUME AppInit PROVE AInv
    OBVIOUS
  <1>1. closing \in Seq(Everything) /\ open \subseteq Everything
    BY DEF AppInit
  <1> QED
    BY <1>1, AppAssumption DEF AppInit, AInv, AppTypeOK, Built, Covered, Stages

\* No step of construction, serving or shutdown breaks AInv.
LEMMA StepHolds == AInv /\ [AppNext]_appVars => AInv'
  <1> SUFFICES ASSUME AInv, [AppNext]_appVars PROVE AInv'
    OBVIOUS
  <1> USE DEF AInv, AppTypeOK, Built, Covered, Stages
  <1>1. CASE OpenDB
    <2>1. CASE CloseAll("failed") /\ UNCHANGED <<open, closers>>
      BY <1>1, <2>1, ClosersCover DEF OpenDB, CloseAll, Closing
    <2>2. CASE stage' = "build_limiter" /\ open' = {DB} /\ closers' = <<"db">> /\ UNCHANGED <<closing, fate>>
      BY <1>1, <2>2, ResourceTypes DEF OpenDB
    <2> QED
      BY <1>1, <2>1, <2>2 DEF OpenDB
  <1>2. CASE BuildLimiter
    <2>1. 0 \in 0 .. NumStatements /\ {DB} = 0 .. 0
      BY AppAssumption DEF DB
    <2>2. \E s \in 0 .. NumStatements : open' = 0 .. s
      BY <1>2, <2>1 DEF BuildLimiter
    <2> QED
      BY <1>2, <2>2, AppAssumption DEF BuildLimiter, AuthSecret
  <1>3. CASE Prepare
    <2>1. CASE CloseAll("failed") /\ UNCHANGED <<open, closers>>
      <3>1. closing' = <<DB>> /\ closing' \in Seq(Everything)
        BY <1>3, <2>1, ClosersCover DEF Prepare, CloseAll
      <3>2. DB \in Closing'
        BY <3>1 DEF Closing
      <3> QED
        BY <1>3, <2>1, <3>1, <3>2 DEF Prepare, CloseAll
    <2>2. ASSUME NEW s \in Stmts, open' = DB .. s, UNCHANGED <<stage, closers, closing, fate>>
          PROVE  AInv'
      <3>1. s \in 0 .. NumStatements /\ open' = 0 .. s
        BY <2>2, AppAssumption DEF DB, Stmts
      <3>2. \E t \in 0 .. NumStatements : open' = 0 .. t
        BY <3>1
      <3>3. open' \subseteq Everything
        BY <3>1, AppAssumption, ResourceTypes
      <3> QED
        BY <1>3, <2>2, <3>2, <3>3 DEF Prepare
    <2> QED
      BY <1>3, <2>1, <2>2 DEF Prepare
  <1>4. CASE Finish
    <2>1. closers' = <<"db", "say">>
      BY <1>4, BothClosers DEF Finish
    <2> QED
      BY <1>4, <2>1 DEF Finish
  <1>5. CASE Listen \/ Signal \/ Fatal
    BY <1>5 DEF Listen, Signal, Fatal
  <1>6. CASE ServeReturns
    <2>1. closing' \in Seq(Everything) /\ open' \subseteq Closing'
      BY <1>6, ClosersCover DEF ServeReturns, CloseAll, Closing
    <2> QED
      BY <1>6, <2>1 DEF ServeReturns, CloseAll
  <1>7. CASE CloseNext
    <2>1. CASE open' = open \ {Head(closing)} /\ closing' = Tail(closing) /\ UNCHANGED leaked
      <3>1. closing' \in Seq(Everything)
        BY <1>7, <2>1 DEF CloseNext
      <3>2. \A r \in Closing : r = Head(closing) \/ r \in Closing'
        <4>1. ASSUME NEW i \in DOMAIN closing, i # 1
              PROVE  i - 1 \in DOMAIN closing' /\ closing'[i - 1] = closing[i]
          BY <1>7, <2>1, <4>1 DEF CloseNext
        <4> QED
          BY <1>7, <4>1 DEF CloseNext, Closing
      <3> QED
        BY <1>7, <2>1, <3>1, <3>2 DEF CloseNext
    <2>2. CASE closing' = <<>> /\ leaked' = TRUE /\ UNCHANGED open
      BY <1>7, <2>2 DEF CloseNext
    <2> QED
      BY <1>7, <2>1, <2>2 DEF CloseNext
  <1>8. CASE Exit
    BY <1>8 DEF Exit, Closing
  <1>9. CASE Start
    <2>1. closing' \in Seq(Everything) /\ open' \subseteq Everything
      BY <1>9 DEF Start
    <2> QED
      BY <1>9, <2>1 DEF Start
  <1>10. CASE UNCHANGED appVars
    BY <1>10 DEF appVars, Closing
  <1> QED
    BY <1>1, <1>2, <1>3, <1>4, <1>5, <1>6, <1>7, <1>8, <1>9, <1>10 DEF AppNext, MainStep

\* The strengthened invariant of the process holds in every reachable state.
THEOREM ProcessInductive == AppSpec => []AInv
  BY InitHolds, StepHolds, PTL DEF AppSpec

\* Whoever serves has every resource; a process told to stop gives all of them
\* back, one whose New fails gives the database back, unless a Close fails.
THEOREM ResourcesAreHeld == AppSpec => []ResourcesHeld
  <1>1. AInv => ResourcesHeld
    BY DEF AInv, AppTypeOK, Built, Covered, Closing, ResourcesHeld
  <1> QED
    BY <1>1, ProcessInductive, PTL

=============================================================================
