---------------------------- MODULE GuardProofs ----------------------------
(***************************************************************************)
(* The process that clients call is the process of module App: whatever     *)
(* requests do, they leave its resources alone, so that what AppProofs      *)
(* shows of the process holds while it serves any number of connections.    *)
(*                                                                          *)
(* And no handler runs unguarded: for any number of connections, statements *)
(* and keys, a request reaches its handler only past a working rate limiter *)
(* and, on the private routes, with the user its token stands for.          *)
(***************************************************************************)
EXTENDS ClientCalls, AppProofs

-----------------------------------------------------------------------------
(* The process, while it is called *)

\* A goroutine of a request, and a client, do nothing to the process.
LEMMA RequestsLeaveTheProcess ==
  ASSUME NEW c \in Conns,
         \/ (Work(c) \/ LockLog(c)) /\ UNCHANGED auth
         \/ Call(c) \/ Return(c) \/ SetAuthorization(c)
  PROVE  UNCHANGED appVars
  <1>1. CASE RateLimit(c) \/ StorePattern(c) \/ Authenticate(c)
    BY <1>1 DEF RateLimit, StorePattern, Authenticate, Enters, Advances
  <1>2. CASE \/ CreateUser(c) \/ GetUser(c) \/ Unmatched(c) \/ Animals(c)
             \/ ReadRows(c) \/ WriteRows(c) \/ DeleteRows(c)
    BY <1>2 DEF CreateUser, GetUser, Unmatched, Animals, ReadRows, WriteRows, DeleteRows,
                Handles, Advances
  <1>3. CASE LockLog(c) \/ PrintLines(c)
    BY <1>3 DEF LockLog, PrintLines, Advances
  <1>4. CASE Count(c) \/ Recover(c) \/ LogResponse(c)
    BY <1>4 DEF Count, Recover, LogResponse, Returns, Advances
  <1>5. CASE Call(c)
    BY <1>5 DEF Call, Arrive
  <1>6. CASE Return(c) \/ SetAuthorization(c)
    BY <1>6 DEF Return, SetAuthorization, pipeVars
  <1> QED
    BY <1>1, <1>2, <1>3, <1>4, <1>5, <1>6 DEF Work

\* What the clients see of the process are steps of it.
LEMMA StepsOfTheProcess == [CallNext]_callVars => [AppNext]_appVars
  <1> SUFFICES ASSUME [CallNext]_callVars PROVE [AppNext]_appVars
    OBVIOUS
  <1>1. CASE Main
    BY <1>1 DEF Main
  <1>2. CASE \E c \in Conns : \/ (Work(c) \/ LockLog(c)) /\ UNCHANGED auth
                              \/ Call(c) \/ Return(c) \/ SetAuthorization(c)
    BY <1>2, RequestsLeaveTheProcess
  <1>3. CASE UNCHANGED callVars
    BY <1>3 DEF callVars, pipeVars
  <1> QED
    BY <1>1, <1>2, <1>3 DEF CallNext

\* Clients, requests and process together implement the process alone.
THEOREM ServiceIsAProcess == CallSpec => AppSpec
  <1>1. CallInit => AppInit
    BY DEF CallInit
  <1> QED
    BY <1>1, StepsOfTheProcess, PTL DEF CallSpec, AppSpec

\* Whoever serves has every resource, and a process that was told to stop, or whose
\* New failed, has given them back: for any number of statements and connections.
THEOREM ServiceHoldsResources == CallSpec => []ResourcesHeld
  BY ServiceIsAProcess, ResourcesAreHeld, PTL

-----------------------------------------------------------------------------
(* The way in to a handler *)

Fields == DOMAIN Idle

\* A request that is neither on its way in nor with its handler.
Quiet(r) == DOMAIN r = Fields /\ r.step \notin {"entering", "handling"}

\* On the way in, a request that has passed the limiter has found a good one, and one
\* that has passed auth, the last wrapper, is with its handler.
Sound(r) ==
  /\ DOMAIN r = Fields
  /\ r.step = "entering" =>
       r.depth = 4 \/ (r.depth \in {5, 6} /\ r.route \in Private /\ limiter = "good")
  /\ r.step = "handling" =>
       /\ limiter = "good"
       /\ r.route \in Private => r.user = TRUE /\ r.token = UserSecret

\* The strengthened invariant.  While the limiter is being built nobody is served,
\* so that a request never sees it change.
GInv ==
  /\ limiter \in {"good", "nil"}
  /\ secret = UserSecret
  /\ DOMAIN req = Conns
  /\ \A c \in Conns : Sound(req[c])
  /\ stage \in {"exit", "build_db", "build_limiter"} => \A c \in Conns : req[c] = Idle

\* The fields of a request.
LEMMA FieldNames ==
  {"step", "depth", "route", "token", "user", "pattern", "panic", "panics", "did", "sent",
   "body", "cut", "logged", "counted"} = Fields
  BY DEF Fields, Idle

\* A connection without a request is quiet,
LEMMA IdleIsQuiet == Quiet(Idle)
  BY DEF Quiet, Idle, Fields

\* and of a quiet request Sound asks nothing more.
LEMMA QuietIsSound ==
  ASSUME NEW r, Quiet(r)
  PROVE  Sound(r)
  BY DEF Quiet, Sound

-----------------------------------------------------------------------------
(* Depths *)

\* A least element is the minimum.
LEMMA LeastIsMin ==
  ASSUME NEW S, NEW x \in S, x \in Nat, \A y \in S : y \in Nat /\ x <= y
  PROVE  Min(S) = x
  <1>1. \A z \in S : (\A y \in S : z <= y) => z = x
    OBVIOUS
  <1> QED
    BY <1>1 DEF Min

\* What wraps the handler of a private route,
LEMMA PrivateChain ==
  ASSUME NEW r, r.route \in Private
  PROVE  Chain(r) = <<"reqlog", "respond", "metrics", "limiter", "submux", "auth">>
  <1> DEFINE S == {"reqlog", "respond", "metrics", "limiter", "submux", "auth"}
             outer == <<"reqlog", "respond", "metrics", "limiter">>
             inner == <<"submux", "auth">>
             six == <<"reqlog", "respond", "metrics", "limiter", "submux", "auth">>
  <1>1. outer \in Seq(S) /\ Len(outer) = 4 /\ inner \in Seq(S) /\ Len(inner) = 2
    OBVIOUS
  <1>2. six \in Seq(S) /\ Len(six) = 6
    OBVIOUS
  <1>3. /\ \A i \in 1 .. 4 : six[i] = outer[i]
        /\ \A i \in 5 .. 6 : six[i] = inner[i - 4]
    OBVIOUS
  <1>4. outer \o inner = six
    <2> HIDE DEF S, outer, inner, six
    <2>1. outer \o inner \in Seq(S)
      BY <1>1, ConcatProperties
    <2>2. Len(outer \o inner) = Len(outer) + Len(inner)
      BY <1>1, ConcatProperties
    <2>3. \A i \in 1 .. Len(outer) + Len(inner) :
            (outer \o inner)[i] = IF i <= Len(outer) THEN outer[i] ELSE inner[i - Len(outer)]
      BY <1>1, ConcatProperties
    <2> DEFINE both == outer \o inner
    <2> HIDE DEF both
    <2>4. both \in Seq(S) /\ Len(both) = 6
      BY <1>1, <2>1, <2>2 DEF both
    <2>5. ASSUME NEW i \in 1 .. 6 PROVE both[i] = six[i]
      <3>1. i \in 1 .. Len(outer) + Len(inner)
        BY <1>1
      <3>2. both[i] = IF i <= Len(outer) THEN outer[i] ELSE inner[i - Len(outer)]
        BY <2>3, <3>1 DEF both
      <3>3. CASE i <= 4
        BY <1>1, <1>3, <3>2, <3>3
      <3>4. CASE i > 4
        <4>1. i \in 5 .. 6
          BY <3>4
        <4> QED
          BY <1>1, <1>3, <3>2, <4>1
      <3> QED
        BY <3>3, <3>4
    <2>6. both = six
      BY <1>2, <2>4, <2>5, SeqEqual
    <2> QED
      BY <2>6 DEF both
  <1> QED
    BY <1>4 DEF Chain, MainChain, PrivChain

\* so a request for it goes through the limiter, the submux and auth, one by one.
LEMMA PrivateWayIn ==
  ASSUME NEW r, r.route \in Private, r.depth \in {0, 4, 5, 6}
  PROVE  /\ HandlerDepth(r) = 7
         /\ NextIn(r) = IF r.depth = 0 THEN 4 ELSE r.depth + 1
  <1> DEFINE six == <<"reqlog", "respond", "metrics", "limiter", "submux", "auth">>
             S == {d \in r.depth + 1 .. Len(Chain(r)) : Chain(r)[d] \in OnEntry} \cup {HandlerDepth(r)}
             x == IF r.depth = 0 THEN 4 ELSE r.depth + 1
  <1>1. Chain(r) = six
    BY PrivateChain
  <1>2. Len(six) = 6 /\ \A d \in 1 .. 6 : six[d] \in OnEntry <=> d \in {4, 5, 6}
    BY DEF OnEntry
  <1>3. Len(Chain(r)) = 6 /\ HandlerDepth(r) = 7
    BY <1>1, <1>2 DEF HandlerDepth
  <1>4. S = {d \in r.depth + 1 .. 6 : d \in {4, 5, 6}} \cup {7}
    BY <1>1, <1>2, <1>3
  <1> HIDE DEF S
  <1>5. x \in S /\ x \in Nat /\ \A y \in S : y \in Nat /\ x <= y
    BY <1>4
  <1>6. Min(S) = x
    BY <1>5, LeastIsMin
  <1> QED
    BY <1>3, <1>6 DEF NextIn, S

\* A request for any other route reaches its handler right behind the limiter.
LEMMA PublicWayIn ==
  ASSUME NEW r, r.route \notin Private, r.depth \in {0, 4}
  PROVE  /\ HandlerDepth(r) = 5
         /\ NextIn(r) = IF r.depth = 0 THEN 4 ELSE 5
  <1> DEFINE S == {d \in r.depth + 1 .. Len(Chain(r)) : Chain(r)[d] \in OnEntry} \cup {HandlerDepth(r)}
             x == IF r.depth = 0 THEN 4 ELSE 5
  <1>1. Chain(r) = MainChain
    BY DEF Chain
  <1>2. Len(MainChain) = 4 /\ \A d \in 1 .. 4 : MainChain[d] \in OnEntry <=> d = 4
    BY DEF OnEntry, MainChain
  <1>3. Len(Chain(r)) = 4 /\ HandlerDepth(r) = 5
    BY <1>1, <1>2 DEF HandlerDepth
  <1>4. S = {d \in r.depth + 1 .. 4 : d = 4} \cup {5}
    BY <1>1, <1>2, <1>3
  <1> HIDE DEF S
  <1>5. x \in S /\ x \in Nat /\ \A y \in S : y \in Nat /\ x <= y
    BY <1>4
  <1>6. Min(S) = x
    BY <1>5, LeastIsMin
  <1> QED
    BY <1>3, <1>6 DEF NextIn, S

-----------------------------------------------------------------------------
(* Answers *)

\* A request that returns or panics is on its way out.
LEMMA AscendQuiet ==
  ASSUME NEW r, DOMAIN r = Fields
  PROVE  Quiet(Ascend(r)) /\ Quiet(Panic(r))
  BY FieldNames DEF Ascend, Panic, Quiet

\* Writing a header moves no request,
LEMMA WriteHeaderForms ==
  ASSUME NEW r, NEW status, DOMAIN r = Fields
  PROVE  DOMAIN WriteHeader(r, status) = Fields /\ WriteHeader(r, status).step = r.step
  BY FieldNames DEF WriteHeader

\* a handler that has written an answer returns,
LEMMA DataQuiet ==
  ASSUME NEW r, NEW status, NEW body, DOMAIN r = Fields, NEW q \in Data(r, status, body)
  PROVE  Quiet(q)
  <1> DEFINE headed == WriteHeader(r, status)
             cut == [headed EXCEPT !.cut = TRUE]
             full == [headed EXCEPT !.body = body]
  <1>1. DOMAIN cut = Fields /\ DOMAIN full = Fields
    BY WriteHeaderForms
  <1>2. q = Ascend(cut) \/ q = Panic(cut) \/ q = Ascend(full)
    BY DEF Data
  <1> QED
    BY <1>1, <1>2, AscendQuiet

\* one that has written an error does,
LEMMA ErrorsQuiet ==
  ASSUME NEW r, DOMAIN r = Fields
  PROVE  /\ \A status, code : \A q \in UserError(r, status, code) : Quiet(q)
         /\ \A q \in NotFound(r) : Quiet(q)
         /\ Quiet(InternalError(r))
  BY DataQuiet, FieldNames DEF UserError, NotFound, InternalError, Quiet

\* the answers of net/http do, too,
LEMMA PlainTextQuiet ==
  ASSUME NEW r, NEW status, DOMAIN r = Fields
  PROVE  \A q \in PlainText(r, status) : Quiet(q)
  <1>1. \A gone \in BOOLEAN :
          DOMAIN [WriteHeader(r, status) EXCEPT !.body = "text", !.did = "refused", !.cut = gone] = Fields
    BY WriteHeaderForms
  <1> QED
    BY <1>1, AscendQuiet DEF PlainText

\* and so does the empty one.
LEMMA NoContentQuiet ==
  ASSUME NEW r, DOMAIN r = Fields
  PROVE  \A q \in NoContent(r) : Quiet(q)
  <1>1. \A gone \in BOOLEAN : DOMAIN [WriteHeader(r, 204) EXCEPT !.cut = gone] = Fields
    BY WriteHeaderForms
  <1> QED
    BY <1>1, AscendQuiet DEF NoContent

\* What a handler has done is noted in the fields there are.
LEMMA OutcomesFormed ==
  ASSUME NEW r, DOMAIN r = Fields
  PROVE  /\ DOMAIN Done(r) = Fields /\ DOMAIN Refused(r) = Fields
         /\ DOMAIN [r EXCEPT !.did = "failed"] = Fields /\ DOMAIN Failed(r) = Fields
         /\ \A q \in Rejections(r) : Quiet(q)
  <1>1. /\ DOMAIN Done(r) = Fields /\ DOMAIN Refused(r) = Fields
        /\ DOMAIN [r EXCEPT !.did = "failed"] = Fields /\ DOMAIN Failed(r) = Fields
    BY DEF Done, Refused, Failed
  <1> QED
    BY <1>1, ErrorsQuiet DEF Rejections

-----------------------------------------------------------------------------
(* On the way in *)

\* A request that arrives goes to the limiter.
LEMMA ArrivalSound ==
  ASSUME NEW route, NEW token
  PROVE  Sound(Descend([Idle EXCEPT !.route = route, !.token = token]))
  <1> DEFINE r == [Idle EXCEPT !.route = route, !.token = token]
  <1>1. DOMAIN r = Fields /\ r.depth = 0
    BY FieldNames DEF Fields, Idle
  <1> HIDE DEF r
  <1>2. NextIn(r) = 4 /\ HandlerDepth(r) # 4
    BY <1>1, PrivateWayIn, PublicWayIn
  <1>3. DOMAIN Descend(r) = Fields /\ Descend(r).step = "entering" /\ Descend(r).depth = 4
    BY <1>1, <1>2, FieldNames DEF Descend
  <1> QED
    BY <1>3 DEF Sound, r

\* A good limiter lets a public request through to its handler, a private one to the
\* wrappers of the private mux.
LEMMA PassesLimiter ==
  ASSUME NEW r, DOMAIN r = Fields, r.depth = 4, limiter = "good"
  PROVE  Sound(Descend(r))
  <1>1. DOMAIN Descend(r) = Fields /\ Descend(r).route = r.route /\ Descend(r).depth = NextIn(r)
    BY FieldNames DEF Descend
  <1>2. CASE r.route \in Private
    <2>1. NextIn(r) = 5 /\ HandlerDepth(r) = 7
      BY <1>2, PrivateWayIn
    <2>2. Descend(r).step = "entering"
      BY <2>1, FieldNames DEF Descend
    <2> QED
      BY <1>1, <1>2, <2>1, <2>2 DEF Sound
  <1>3. CASE r.route \notin Private
    <2>1. NextIn(r) = 5 /\ HandlerDepth(r) = 5
      BY <1>3, PublicWayIn
    <2>2. Descend(r).step = "handling"
      BY <2>1, FieldNames DEF Descend
    <2> QED
      BY <1>1, <1>3, <2>2 DEF Sound
  <1> QED
    BY <1>2, <1>3

\* The pattern is stored one wrapper before the token is looked at.
LEMMA PassesSubmux ==
  ASSUME NEW r, DOMAIN r = Fields, r.depth = 5, r.route \in Private, limiter = "good"
  PROVE  Sound(Descend(r))
  <1>1. NextIn(r) = 6 /\ HandlerDepth(r) = 7
    BY PrivateWayIn
  <1>2. /\ DOMAIN Descend(r) = Fields /\ Descend(r).route = r.route
        /\ Descend(r).depth = 6 /\ Descend(r).step = "entering"
    BY <1>1, FieldNames DEF Descend
  <1> QED
    BY <1>2 DEF Sound

\* Whoever passes auth is the user its token stands for.
LEMMA PassesAuth ==
  ASSUME NEW r, DOMAIN r = Fields, r.depth = 6, r.route \in Private, limiter = "good",
         r.user = TRUE, r.token = UserSecret
  PROVE  Sound(Descend(r))
  <1>1. NextIn(r) = 7 /\ HandlerDepth(r) = 7
    BY PrivateWayIn
  <1>2. /\ DOMAIN Descend(r) = Fields /\ Descend(r).user = TRUE
        /\ Descend(r).token = UserSecret /\ Descend(r).step = "handling"
    BY <1>1, FieldNames DEF Descend
  <1> QED
    BY <1>2 DEF Sound

\* Where a request on its way in is, by the wrapper that is about to act.
LEMMA WrapperAtDepth ==
  ASSUME NEW r, r.depth = 4 \/ (r.depth \in {5, 6} /\ r.route \in Private)
  PROVE  /\ Chain(r)[r.depth] = "limiter" <=> r.depth = 4
         /\ Chain(r)[r.depth] = "submux" <=> r.depth = 5
         /\ Chain(r)[r.depth] = "auth" <=> r.depth = 6
  <1>1. CASE r.route \in Private
    BY <1>1, PrivateChain
  <1>2. CASE r.route \notin Private
    BY <1>2 DEF Chain, MainChain
  <1> QED
    BY <1>1, <1>2

-----------------------------------------------------------------------------
(* Steps *)

\* A step of one request, of a process that serves.
LEMMA BecomeKeeps ==
  ASSUME GInv, UNCHANGED appVars, NEW c \in Conns, NEW q, Become(c, q), Sound(q),
         req[c] # Idle \/ stage = "serve"
  PROVE  GInv'
  <1>1. DOMAIN req' = Conns /\ req'[c] = q /\ \A d \in Conns : d # c => req'[d] = req[d]
    BY DEF Become, GInv
  <1>2. ASSUME NEW d \in Conns PROVE Sound(req[d])' 
    <2>1. Sound(req'[d])
      BY <1>1 DEF GInv
    <2> QED
      BY <2>1 DEF Sound, appVars
  <1>3. stage' \notin {"exit", "build_db", "build_limiter"}
    BY DEF GInv, appVars
  <1> QED
    BY <1>1, <1>2, <1>3 DEF GInv, appVars

\* Only a good limiter lets a request pass; a nil one panics.
LEMMA RateLimitKeeps ==
  ASSUME GInv, NEW c \in Conns, RateLimit(c)
  PROVE  GInv'
  <1> DEFINE r == req[c]
  <1>1. r.step = "entering" /\ Chain(r)[r.depth] = "limiter" /\ UNCHANGED appVars
    BY DEF RateLimit, Enters, Advances
  <1>2. Sound(r) /\ DOMAIN r = Fields /\ r.depth = 4
    BY <1>1, WrapperAtDepth DEF GInv, Sound
  <1>3. r # Idle
    BY <1>1 DEF Idle
  <1>4. CASE limiter = "nil"
    <2>1. Become(c, Panic([r EXCEPT !.did = "failed"]))
      BY <1>4 DEF RateLimit
    <2>2. Sound(Panic([r EXCEPT !.did = "failed"]))
      BY <1>2, OutcomesFormed, AscendQuiet, QuietIsSound
    <2> QED
      BY <1>1, <1>3, <2>1, <2>2, BecomeKeeps
  <1>5. CASE limiter = "good" /\ Become(c, Descend(r))
    BY <1>1, <1>2, <1>3, <1>5, PassesLimiter, BecomeKeeps
  <1>6. CASE \E q \in PlainText(r, 429) : Become(c, q)
    BY <1>1, <1>2, <1>3, <1>6, PlainTextQuiet, QuietIsSound, BecomeKeeps
  <1> QED
    BY <1>4, <1>5, <1>6 DEF RateLimit, GInv

\* The submux only remembers the pattern.
LEMMA StorePatternKeeps ==
  ASSUME GInv, NEW c \in Conns, StorePattern(c)
  PROVE  GInv'
  <1> DEFINE r == req[c]
             q == [r EXCEPT !.pattern = r.route # "unmatched"]
  <1>1. r.step = "entering" /\ Chain(r)[r.depth] = "submux" /\ UNCHANGED appVars
    BY DEF StorePattern, Enters, Advances
  <1>2. Sound(r) /\ DOMAIN r = Fields /\ r.depth = 5 /\ r.route \in Private /\ limiter = "good"
    BY <1>1, WrapperAtDepth DEF GInv, Sound
  <1>3. r # Idle
    BY <1>1 DEF Idle
  <1>4. DOMAIN q = Fields /\ q.depth = 5 /\ q.route \in Private
    BY <1>2, FieldNames
  <1>5. Become(c, Descend(q))
    BY DEF StorePattern
  <1> HIDE DEF q
  <1>6. Sound(Descend(q))
    BY <1>2, <1>4, PassesSubmux
  <1> QED
    BY <1>1, <1>3, <1>5, <1>6, BecomeKeeps

\* A token that auth lets through is signed with the key of the process, which is
\* that of the configuration.
LEMMA AuthenticateKeeps ==
  ASSUME GInv, NEW c \in Conns, Authenticate(c)
  PROVE  GInv'
  <1> DEFINE r == req[c]
             q == [r EXCEPT !.user = TRUE]
             refused == [r EXCEPT !.did = "refused"]
  <1>1. r.step = "entering" /\ Chain(r)[r.depth] = "auth" /\ UNCHANGED appVars
    BY DEF Authenticate, Enters, Advances
  <1>2. Sound(r) /\ DOMAIN r = Fields /\ r.depth = 6 /\ r.route \in Private /\ limiter = "good"
    BY <1>1, WrapperAtDepth DEF GInv, Sound
  <1>3. r # Idle
    BY <1>1 DEF Idle
  <1>4. DOMAIN refused = Fields
    BY <1>2
  <1>5. CASE \E status, code : \E a \in UserError(refused, status, code) : Become(c, a)
    <2> HIDE DEF refused
    <2>1. PICK status, code : \E a \in UserError(refused, status, code) : Become(c, a)
      BY <1>5
    <2>2. PICK a \in UserError(refused, status, code) : Become(c, a)
      BY <2>1
    <2>3. Sound(a)
      BY <1>4, <2>2, ErrorsQuiet, QuietIsSound
    <2> QED
      BY <1>1, <1>3, <2>2, <2>3, BecomeKeeps
  <1>6. CASE getUser(r.token) /\ Become(c, Descend(q))
    <2>1. DOMAIN q = Fields /\ q.depth = 6 /\ q.route \in Private /\ q.user = TRUE /\ q.token = r.token
      BY <1>2, FieldNames
    <2>2. q.token = UserSecret
      BY <1>6, <2>1 DEF getUser, GInv
    <2> HIDE DEF q
    <2>3. Sound(Descend(q))
      BY <1>2, <2>1, <2>2, PassesAuth
    <2> QED
      BY <1>1, <1>3, <1>6, <2>3, BecomeKeeps
  <1> QED
    BY <1>5, <1>6 DEF Authenticate

\* Whatever is answered, the request is on its way out.
LEMMA AnswerKeeps ==
  ASSUME GInv, UNCHANGED appVars, NEW c \in Conns, req[c] # Idle,
         \E q : Quiet(q) /\ Become(c, q)
  PROVE  GInv'
  BY QuietIsSound, BecomeKeeps

\* A handler that fails is left.
LEMMA FailsQuiet ==
  ASSUME NEW c \in Conns, DOMAIN req[c] = Fields, Fails(c)
  PROVE  \E q : Quiet(q) /\ Become(c, q)
  <1> DEFINE r == Failed(req[c])
  <1>1. DOMAIN r = Fields
    BY OutcomesFormed
  <1>2. Become(c, InternalError(r)) \/ Become(c, Panic(r))
    BY DEF Fails
  <1> HIDE DEF r
  <1>3. Quiet(InternalError(r)) /\ Quiet(Panic(r))
    BY <1>1, ErrorsQuiet, AscendQuiet
  <1> QED
    BY <1>2, <1>3

\* So is one whose write is not acknowledged.
LEMMA UnacknowledgedQuiet ==
  ASSUME NEW c \in Conns, DOMAIN req[c] = Fields, Unacknowledged(c)
  PROVE  \E q : Quiet(q) /\ Become(c, q)
  <1>1. DOMAIN Done(req[c]) = Fields
    BY OutcomesFormed
  <1> QED
    BY <1>1, ErrorsQuiet DEF Unacknowledged

\* No handler brings another request to its handler.
LEMMA HandlersKeep ==
  ASSUME GInv, NEW c \in Conns,
         \/ CreateUser(c) \/ GetUser(c) \/ Unmatched(c)
         \/ Animals(c) \/ ReadRows(c) \/ WriteRows(c) \/ DeleteRows(c)
  PROVE  GInv'
  <1> DEFINE r == req[c]
             failed == Failed(r)
  <1>1. r.step = "handling" /\ UNCHANGED appVars
    BY DEF CreateUser, GetUser, Unmatched, Animals, ReadRows, WriteRows, DeleteRows, Handles, Advances
  <1>2. r # Idle
    BY <1>1 DEF Idle
  <1>3. DOMAIN r = Fields
    BY DEF GInv, Sound
  <1>4. DOMAIN Done(r) = Fields /\ DOMAIN Refused(r) = Fields /\ DOMAIN failed = Fields
    BY <1>3, OutcomesFormed
  <1>5. Quiet(Panic(failed))
    BY <1>4, AscendQuiet
  <1>6. \A q \in NotFound(Refused(r)) : Quiet(q)
    BY <1>4, ErrorsQuiet
  <1>7. \A q \in NoContent(Done(r)) : Quiet(q)
    BY <1>4, NoContentQuiet
  <1>8. \A body : \A q \in Data(Done(r), 200, body) : Quiet(q)
    BY <1>4, DataQuiet
  <1>9. \A q \in Rejections(r) : Quiet(q)
    BY <1>3, OutcomesFormed
  <1>10. DOMAIN failed = Fields /\ Quiet(InternalError(failed))
    BY <1>4, ErrorsQuiet
  <1> HIDE DEF failed
  <1>11. \E q : Quiet(q) /\ Become(c, q)
    <2>1. CASE CreateUser(c)
      BY <1>8, <1>10, <2>1 DEF CreateUser, failed
    <2>2. CASE GetUser(c)
      BY <1>6, <1>7, <2>2 DEF GetUser
    <2>3. CASE Unmatched(c)
      BY <1>3, <2>3, PlainTextQuiet DEF Unmatched
    <2>4. CASE Animals(c)
      BY <1>8, <2>4 DEF Animals
    <2>5. CASE ReadRows(c)
      BY <1>3, <1>5, <1>6, <1>8, <1>9, <2>5, FailsQuiet DEF ReadRows, failed
    <2>6. CASE WriteRows(c)
      BY <1>3, <1>8, <1>9, <2>6, FailsQuiet, UnacknowledgedQuiet DEF WriteRows
    <2>7. CASE DeleteRows(c)
      <3>1. \A q \in NotFound(Refused(r)) : Quiet(WriteHeader(q, 204))
        BY <1>6, WriteHeaderForms DEF Quiet
      <3>2. \A q \in NotFound(Refused(r)) : Quiet(IF q.panic THEN q ELSE WriteHeader(q, 204))
        BY <1>6, <3>1
      <3> QED
        BY <1>3, <1>6, <1>7, <1>9, <2>7, <3>2, FailsQuiet, UnacknowledgedQuiet DEF DeleteRows
    <2> QED
      BY <2>1, <2>2, <2>3, <2>4, <2>5, <2>6, <2>7
  <1> QED
    BY <1>1, <1>2, <1>11, AnswerKeeps

\* Nothing on the way out does.
LEMMA WayOutKeeps ==
  ASSUME GInv, NEW c \in Conns,
         LockLog(c) \/ PrintLines(c) \/ Count(c) \/ Recover(c) \/ LogResponse(c)
  PROVE  GInv'
  <1> DEFINE r == req[c]
  <1>1. r.step \in {"logging", "printing", "leaving"} /\ UNCHANGED appVars
    BY DEF LockLog, PrintLines, Count, Recover, LogResponse, Returns, Advances
  <1>2. r # Idle
    BY <1>1 DEF Idle
  <1>3. DOMAIN r = Fields
    BY DEF GInv, Sound
  <1>4. \E q : Quiet(q) /\ Become(c, q)
    <2>1. CASE LockLog(c)
      <3>1. Quiet([r EXCEPT !.step = "printing"])
        BY <1>3, FieldNames DEF Quiet
      <3> QED
        BY <2>1, <3>1 DEF LockLog
    <2>2. CASE PrintLines(c)
      BY <1>3, <2>2, ErrorsQuiet DEF PrintLines
    <2>3. CASE Count(c)
      <3> DEFINE q == [r EXCEPT !.counted = IF HasPattern(r) THEN Append(@, r.sent) ELSE @]
      <3>1. DOMAIN q = Fields /\ Become(c, Ascend(q))
        BY <1>3, <2>3 DEF Count
      <3> QED
        BY <3>1, AscendQuiet
    <2>4. CASE Recover(c)
      <3>1. Quiet([r EXCEPT !.step = "logging", !.panic = FALSE, !.panics = @ + 1])
        BY <1>3, FieldNames DEF Quiet
      <3> QED
        BY <2>4, <3>1 DEF Recover
    <2>5. CASE LogResponse(c)
      <3> DEFINE q == [r EXCEPT !.logged = Append(@, r.sent)]
      <3>1. DOMAIN q = Fields /\ Become(c, Ascend(q))
        BY <1>3, <2>5 DEF LogResponse
      <3> QED
        BY <3>1, AscendQuiet
    <2> QED
      BY <2>1, <2>2, <2>3, <2>4, <2>5
  <1> QED
    BY <1>1, <1>2, <1>4, AnswerKeeps

\* Nor do the clients: a new request has yet to reach the limiter.
LEMMA ClientsKeep ==
  ASSUME GInv, NEW c \in Conns, Call(c) \/ Return(c) \/ SetAuthorization(c)
  PROVE  GInv'
  <1>1. CASE Call(c)
    <2>1. PICK route, token : Arrive(c, route, token)
      BY <1>1 DEF Call
    <2> DEFINE q == Descend([Idle EXCEPT !.route = route, !.token = token])
    <2>2. Become(c, q) /\ stage = "serve" /\ UNCHANGED appVars
      BY <2>1 DEF Arrive
    <2>3. Sound(q)
      BY ArrivalSound
    <2> QED
      BY <2>2, <2>3, BecomeKeeps
  <1>2. CASE Return(c)
    <2>1. req[c] # Idle
      BY <1>2 DEF Return, Idle
    <2> QED
      BY <1>2, <2>1, IdleIsQuiet, AnswerKeeps DEF Return
  <1>3. CASE SetAuthorization(c)
    BY <1>3 DEF SetAuthorization, pipeVars, appVars, GInv, Sound
  <1> QED
    BY <1>1, <1>2, <1>3

\* A step of main: requests stay as they are, or end with the process.  The limiter
\* and the key change only while there are none.
LEMMA MainKeeps ==
  ASSUME GInv, Main
  PROVE  GInv'
  <1>1. Sound(Idle)'
    BY FieldNames DEF Sound, Idle, Fields
  <1>2. CASE stage' = "exit"
    <2>1. req' = [c \in Conns |-> Idle]
      BY <1>2 DEF Main
    <2>2. Fatal \/ Exit
      BY <1>2 DEF Main, AppNext, MainStep, OpenDB, BuildLimiter, Prepare, Finish, Listen,
                 ServeReturns, CloseNext, Signal, Start, CloseAll
    <2>3. UNCHANGED <<limiter, secret>>
      BY <2>2 DEF Fatal, Exit
    <2> QED
      BY <1>1, <2>1, <2>3 DEF GInv
  <1>3. CASE stage' # "exit"
    <2>1. req' = req /\ AppNext
      BY <1>3 DEF Main
    <2>2. CASE OpenDB \/ BuildLimiter \/ Start
      <3>1. \A c \in Conns : req'[c] = Idle
        BY <2>1, <2>2 DEF GInv, OpenDB, BuildLimiter, Start
      <3>2. limiter' \in {"good", "nil"} /\ secret' = UserSecret
        BY <2>2 DEF GInv, OpenDB, BuildLimiter, Start, AuthSecret
      <3> QED
        BY <1>1, <2>1, <3>1, <3>2 DEF GInv
    <2>3. CASE Prepare \/ Finish \/ Listen \/ ServeReturns \/ CloseNext \/ Signal
      <3>1. UNCHANGED <<limiter, secret>> /\ stage' \notin {"build_db", "build_limiter"}
        BY <2>3 DEF Prepare, Finish, Listen, ServeReturns, CloseNext, Signal, CloseAll
      <3> QED
        BY <1>3, <2>1, <3>1 DEF GInv, Sound
    <2> QED
      BY <1>3, <2>1, <2>2, <2>3 DEF AppNext, MainStep, Fatal, Exit
  <1> QED
    BY <1>2, <1>3

-----------------------------------------------------------------------------

\* Before the program starts nobody is served.
LEMMA GuardInit == CallInit => GInv
  <1> SUFFICES ASSUME CallInit PROVE GInv
    OBVIOUS
  <1>1. Sound(Idle)
    BY IdleIsQuiet, QuietIsSound
  <1> QED
    BY <1>1 DEF CallInit, AppInit, PipeInit, GInv

\* No step lets a request in that GInv keeps out.
LEMMA GuardStep == GInv /\ [CallNext]_callVars => GInv'
  <1> SUFFICES ASSUME GInv, [CallNext]_callVars PROVE GInv'
    OBVIOUS
  <1>1. CASE Main
    BY <1>1, MainKeeps
  <1>2. ASSUME NEW c \in Conns, Work(c) \/ LockLog(c) PROVE GInv'
    BY <1>2, RateLimitKeeps, StorePatternKeeps, AuthenticateKeeps, HandlersKeep, WayOutKeeps DEF Work
  <1>3. ASSUME NEW c \in Conns, Call(c) \/ Return(c) \/ SetAuthorization(c) PROVE GInv'
    BY <1>3, ClientsKeep
  <1>4. CASE UNCHANGED callVars
    BY <1>4 DEF callVars, pipeVars, appVars, GInv, Sound
  <1> QED
    BY <1>1, <1>2, <1>3, <1>4 DEF CallNext

\* No handler runs without a working limiter, and no private one for anybody but
\* the user the token stands for, also in a process whose limiter could not be
\* built and after any number of restarts.
THEOREM HandlersAreGuarded == CallSpec => []HandlersGuarded
  <1>1. GInv => HandlersGuarded
    BY DEF GInv, Sound, HandlersGuarded
  <1> QED
    BY <1>1, GuardInit, GuardStep, PTL DEF CallSpec

=============================================================================
