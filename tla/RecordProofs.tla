---------------------------- MODULE RecordProofs ----------------------------
(***************************************************************************)
(* What becomes of a request is on record, and its client is told the       *)
(* truth: for any number of connections, whatever the handlers answer,      *)
(* wherever a write fails, a limiter is missing or a handler panics, and    *)
(* however often the process is restarted.                                  *)
(*                                                                          *)
(* The invariant says where on its way a request is, and what has been sent, *)
(* logged and counted by then.  A request is first Inside the wrappers that *)
(* answer; when it comes out by returning it is AtMetrics, when it comes    *)
(* out by a panic it is AtRespond; from both it goes to AtReqlog, or ends   *)
(* when the answer to a panic panics too.                                   *)
(***************************************************************************)
EXTENDS GuardProofs

\* The tokens a client can have: an issued one is signed with the key of the
\* configuration.
Given == {NoToken, Garbled, UserSecret}

\* How deep a request is that has not been answered.
Deep(r) == r.depth \in {4, 5} \/ (r.depth \in {6, 7} /\ r.route \in Private)

\* UserExists is asked about a token, never about none.
TokenOK(r) == r.token \in Given /\ (r.route = "get_user" => r.token # NoToken)

\* Nothing has been sent, logged or counted.
Unanswered(r) ==
  /\ r.sent = 0 /\ r.body = "none" /\ r.cut = FALSE
  /\ r.panic = FALSE /\ r.panics = 0

Unrecorded(r) == r.logged = <<>> /\ r.counted = <<>>

\* A success is one, what was done is told as a success or as an internal failure after
\* a write, and nobody with a good token is told that it is none.
Tells(r) ==
  /\ r.sent \in {200, 204} =>
       /\ r.did = "done"
       /\ r.route = "get_user" => r.sent = 204
       /\ r.route = "create_user" => r.body = UserSecret
       /\ WantsValue(r.route) => r.body # "none"
  /\ r.did = "done" =>
       \/ r.sent \in {200, 204}
       \/ r.sent = 500 /\ r.body = "internal_failure" /\ r.route \in Writing
  /\ r.sent \notin {200, 204} =>
       /\ r.body = "bearer_auth_required" => r.token = NoToken
       /\ r.body = "auth_invalid" => r.token # UserSecret
       /\ r.body = "not_found" /\ r.route = "get_user" => r.token # UserSecret /\ r.sent = 404

\* An answer has been written, and it is true if all of it was.
Told(r) == r.sent # 0 /\ (r.cut \/ Tells(r))

\* A panic is on its way because the client is gone, or before anything was sent.
Broken(r) == r.cut \/ (r.sent = 0 /\ r.body = "none" /\ r.did = "failed")

\* What metrics has counted of a request that has left it.
CountedOf(r) == IF HasPattern(r) /\ r.panics = 0 THEN <<r.sent>> ELSE <<>>

\* A request that is still to be answered by a handler, or by a wrapper inside metrics.
Answering(r) == r \in Requests /\ TokenOK(r) /\ Deep(r) /\ Unanswered(r) /\ Unrecorded(r)

\* Behind metrics: on the way in, with its handler, or about to be told of a failure.
Inside(r) ==
  /\ r.step \in {"entering", "handling", "logging", "printing"}
  /\ Deep(r) /\ Unanswered(r) /\ Unrecorded(r)
  /\ r.step = "entering" => r.depth = 4 \/ (r.depth \in {5, 6} /\ r.route \in Private)
  /\ r.step \in {"logging", "printing"} =>
       r.did = "failed" \/ (r.did = "done" /\ r.route \in Writing)

\* Answered, and to be counted.
AtMetrics(r) ==
  /\ r.step = "leaving" /\ r.depth = 3
  /\ r.panic = FALSE /\ r.panics = 0 /\ Unrecorded(r) /\ Told(r)

\* With WrapPanicC: the panic is to be recovered, or has been and is to be answered.
AtRespond(r) ==
  /\ r.depth = 2 /\ Unrecorded(r) /\ Broken(r)
  /\ \/ r.step = "leaving" /\ r.panic = TRUE /\ r.panics = 0
     \/ r.step \in {"logging", "printing"} /\ r.panic = FALSE /\ r.panics = 1

\* Answered and counted, and to be logged.
AtReqlog(r) ==
  /\ r.step = "leaving" /\ r.depth = 1 /\ r.panic = FALSE
  /\ r.logged = <<>> /\ r.counted = CountedOf(r) /\ Told(r)

\* Logged and counted, or dropped by net/http because the client was gone.
Ended(r) ==
  /\ r.step = "ended" /\ r.depth = 0
  /\ \/ /\ r.panic = FALSE /\ Told(r)
        /\ r.logged = <<r.sent>> /\ r.counted = CountedOf(r)
     \/ /\ r.panic = TRUE /\ r.cut = TRUE /\ r.panics = 1 /\ Unrecorded(r)

\* Where a request can be, and what is known of it there.
Phase(r) ==
  /\ r \in Requests
  /\ r = Idle \/ (TokenOK(r) /\ (Inside(r) \/ AtMetrics(r) \/ AtRespond(r) \/ AtReqlog(r) \/ Ended(r)))

\* The strengthened invariant.
RInv ==
  /\ secret = UserSecret
  /\ req \in [Conns -> Requests] /\ \A c \in Conns : Phase(req[c])
  /\ lock \subseteq Conns
  /\ auth \in [Conns -> Given]

-----------------------------------------------------------------------------
(* Depths on the way out *)

\* A greatest element is the maximum.
LEMMA GreatestIsMax ==
  ASSUME NEW S, NEW x \in S, x \in Nat, \A y \in S : y \in Nat /\ y <= x
  PROVE  Max(S) = x
  <1>1. \A z \in S : (\A y \in S : z >= y) => z = x
    OBVIOUS
  <1> QED
    BY <1>1 DEF Max

\* The outer wrappers are those of every request.
LEMMA OuterWrappers ==
  ASSUME NEW r
  PROVE  /\ Chain(r)[1] = "reqlog" /\ Chain(r)[2] = "respond"
         /\ Chain(r)[3] = "metrics" /\ Chain(r)[4] = "limiter"
         /\ r.route \in Private => Chain(r)[5] = "submux" /\ Chain(r)[6] = "auth"
  <1>1. CASE r.route \in Private
    BY <1>1, PrivateChain
  <1>2. CASE r.route \notin Private
    BY <1>2 DEF Chain, MainChain
  <1> QED
    BY <1>1, <1>2

\* Where a request goes that returns: to metrics, from there to reqlog, and out.
LEMMA WayOut ==
  ASSUME NEW r, r.panic = FALSE, Deep(r) \/ r.depth \in {1, 2, 3}
  PROVE  /\ r.depth = 1 => NextOut(r) = 0
         /\ r.depth \in {2, 3} => NextOut(r) = 1
         /\ Deep(r) => NextOut(r) = 3
  <1> DEFINE S == {d \in 1 .. r.depth - 1 : Chain(r)[d] \in OnReturn(r)} \cup {0}
             x == IF r.depth = 1 THEN 0 ELSE IF r.depth \in {2, 3} THEN 1 ELSE 3
  <1>1. OnReturn(r) = {"reqlog", "metrics"} /\ r.depth \in 1 .. 7
    BY DEF OnReturn, Deep
  <1>2. \A d \in 1 .. r.depth - 1 : Chain(r)[d] \in OnReturn(r) <=> d \in {1, 3}
    BY <1>1, OuterWrappers DEF Deep
  <1>3. S = {d \in 1 .. r.depth - 1 : d \in {1, 3}} \cup {0}
    BY <1>2
  <1> HIDE DEF S
  <1>4. x \in S /\ x \in Nat /\ \A y \in S : y \in Nat /\ y <= x
    BY <1>1, <1>3
  <1>5. Max(S) = x
    BY <1>4, GreatestIsMax
  <1> QED
    BY <1>5 DEF NextOut, S, Deep

\* A panic goes to WrapPanicC, and one from there to net/http.
LEMMA PanicWayOut ==
  ASSUME NEW r, r.panic = TRUE, Deep(r) \/ r.depth = 2
  PROVE  /\ r.depth = 2 => NextOut(r) = 0
         /\ Deep(r) => NextOut(r) = 2
  <1> DEFINE S == {d \in 1 .. r.depth - 1 : Chain(r)[d] \in OnReturn(r)} \cup {0}
             x == IF r.depth = 2 THEN 0 ELSE 2
  <1>1. OnReturn(r) = {"respond"} /\ r.depth \in 1 .. 7
    BY DEF OnReturn, Deep
  <1>2. \A d \in 1 .. r.depth - 1 : Chain(r)[d] \in OnReturn(r) <=> d = 2
    BY <1>1, OuterWrappers DEF Deep
  <1>3. S = {d \in 1 .. r.depth - 1 : d = 2} \cup {0}
    BY <1>2
  <1> HIDE DEF S
  <1>4. x \in S /\ x \in Nat /\ \A y \in S : y \in Nat /\ y <= x
    BY <1>1, <1>3 DEF Deep
  <1>5. Max(S) = x
    BY <1>4, GreatestIsMax
  <1> QED
    BY <1>5 DEF NextOut, S, Deep

-----------------------------------------------------------------------------
(* Moves through the chain *)

\* What a move through the chain leaves alone.
Alike(q, r) ==
  /\ q.route = r.route /\ q.token = r.token /\ q.user = r.user /\ q.pattern = r.pattern
  /\ q.panics = r.panics /\ q.did = r.did /\ q.sent = r.sent /\ q.body = r.body
  /\ q.logged = r.logged /\ q.counted = r.counted

\* The depths of the three outer wrappers, and outside of them.
LEMMA OuterDepths == {0, 1, 2, 3} \subseteq Depths
  BY DEF Depths

\* Going out changes where a request is, not what it has done.
LEMMA AscendMoves ==
  ASSUME NEW r \in Requests, NEW d \in Depths, NextOut(r) = d
  PROVE  /\ Ascend(r) \in Requests /\ Ascend(r).depth = d
         /\ Ascend(r).step = IF d = 0 THEN "ended" ELSE "leaving"
         /\ Ascend(r).cut = (r.cut \/ (r.panic /\ d = 0))
         /\ Ascend(r).panic = r.panic /\ Alike(Ascend(r), r)
  <1> DEFINE s == IF d = 0 THEN "ended" ELSE "leaving"
             cut == r.cut \/ (r.panic /\ d = 0)
  <1>1. s \in Steps /\ cut \in BOOLEAN
    BY DEF Steps, Requests
  <1>2. Ascend(r) = [r EXCEPT !.depth = d, !.step = s, !.cut = cut]
    BY DEF Ascend, Requests
  <1> HIDE DEF s, cut
  <1>3. Ascend(r) \in Requests
    BY <1>1, <1>2 DEF Requests
  <1>4. /\ Ascend(r).depth = d /\ Ascend(r).step = s /\ Ascend(r).cut = cut
        /\ Ascend(r).panic = r.panic
    BY <1>2 DEF Requests
  <1>5. Alike(Ascend(r), r)
    BY <1>2 DEF Requests, Alike
  <1> QED
    BY <1>3, <1>4, <1>5 DEF s, cut

\* A handler or an inner wrapper that returns: metrics is next.
LEMMA ReturnsToMetrics ==
  ASSUME NEW r \in Requests, TokenOK(r), Deep(r), Unrecorded(r), Told(r),
         r.panic = FALSE, r.panics = 0
  PROVE  Phase(Ascend(r))
  <1>1. NextOut(r) = 3
    BY WayOut
  <1> DEFINE q == Ascend(r)
  <1>2. /\ q \in Requests /\ q.depth = 3 /\ q.step = "leaving" /\ q.panic = FALSE
        /\ q.cut = r.cut /\ Alike(q, r)
    BY <1>1, OuterDepths, AscendMoves DEF Requests
  <1> HIDE DEF q
  <1>3. TokenOK(q) /\ AtMetrics(q)
    BY <1>2 DEF Alike, TokenOK, AtMetrics, Unrecorded, Told, Tells
  <1> QED
    BY <1>2, <1>3 DEF Phase, q

\* A handler or an inner wrapper that panics: WrapPanicC is next.
LEMMA PanicsToRespond ==
  ASSUME NEW r \in Requests, TokenOK(r), Deep(r), Unrecorded(r), Broken(r), r.panics = 0
  PROVE  Phase(Panic(r))
  <1> DEFINE p == [r EXCEPT !.panic = TRUE]
             q == Ascend(p)
  <1>1. p \in Requests
    BY DEF Requests
  <1>2. p.panic = TRUE /\ p.depth = r.depth /\ p.cut = r.cut /\ Alike(p, r)
    BY DEF Requests, Alike
  <1> HIDE DEF p
  <1>3. Deep(p)
    BY <1>2 DEF Deep, Alike
  <1>4. NextOut(p) = 2
    BY <1>2, <1>3, PanicWayOut
  <1>5. /\ q \in Requests /\ q.depth = 2 /\ q.step = "leaving" /\ q.panic = TRUE
        /\ q.cut = r.cut /\ Alike(q, p)
    BY <1>1, <1>2, <1>4, OuterDepths, AscendMoves DEF Requests
  <1> HIDE DEF q
  <1>6. TokenOK(q) /\ AtRespond(q)
    BY <1>2, <1>5 DEF Alike, TokenOK, AtRespond, Unrecorded, Broken
  <1> QED
    BY <1>5, <1>6 DEF Phase, Panic, p, q

\* WrapPanicC that returns: reqlog is next.
LEMMA ReturnsToReqlog ==
  ASSUME NEW r \in Requests, TokenOK(r), r.depth \in {2, 3}, r.panic = FALSE,
         r.logged = <<>>, r.counted = CountedOf(r), Told(r)
  PROVE  Phase(Ascend(r))
  <1>1. NextOut(r) = 1
    BY WayOut
  <1> DEFINE q == Ascend(r)
  <1>2. /\ q \in Requests /\ q.depth = 1 /\ q.step = "leaving" /\ q.panic = FALSE
        /\ q.cut = r.cut /\ Alike(q, r)
    BY <1>1, OuterDepths, AscendMoves DEF Requests
  <1> HIDE DEF q
  <1>3. TokenOK(q) /\ AtReqlog(q)
    BY <1>2 DEF Alike, TokenOK, AtReqlog, Told, Tells, CountedOf, HasPattern
  <1> QED
    BY <1>2, <1>3 DEF Phase, q

\* A panic in WrapPanicC's own answer leaves the chain.
LEMMA PanicsOut ==
  ASSUME NEW r \in Requests, TokenOK(r), r.depth = 2, r.panics = 1, Unrecorded(r)
  PROVE  Phase(Panic(r))
  <1> DEFINE p == [r EXCEPT !.panic = TRUE]
             q == Ascend(p)
  <1>1. p \in Requests
    BY DEF Requests
  <1>2. p.panic = TRUE /\ p.depth = r.depth /\ Alike(p, r)
    BY DEF Requests, Alike
  <1> HIDE DEF p
  <1>3. NextOut(p) = 0
    BY <1>2, PanicWayOut
  <1>4. /\ q \in Requests /\ q.depth = 0 /\ q.step = "ended" /\ q.panic = TRUE
        /\ q.cut = TRUE /\ Alike(q, p)
    BY <1>1, <1>2, <1>3, OuterDepths, AscendMoves DEF Requests
  <1> HIDE DEF q
  <1>5. TokenOK(q) /\ Ended(q)
    BY <1>2, <1>4 DEF Alike, TokenOK, Ended, Unrecorded
  <1> QED
    BY <1>4, <1>5 DEF Phase, Panic, p, q

\* On the way in the next wrapper is one of those the request has still to pass.
LEMMA DescendInside ==
  ASSUME NEW r \in Requests, TokenOK(r), Unanswered(r), Unrecorded(r),
         r.depth \in {0, 4} \/ (r.depth \in {5, 6} /\ r.route \in Private)
  PROVE  Phase(Descend(r))
  <1>1. /\ NextIn(r) \in {4, 5, 6, 7}
        /\ NextIn(r) \in {6, 7} => r.route \in Private
        /\ NextIn(r) # HandlerDepth(r) => NextIn(r) = 4 \/ (NextIn(r) \in {5, 6} /\ r.route \in Private)
    BY PrivateWayIn, PublicWayIn
  <1>2. PICK d \in {4, 5, 6, 7} : d = NextIn(r)
    BY <1>1
  <1>3. PICK s \in {"handling", "entering"} : /\ Descend(r) = [r EXCEPT !.depth = d, !.step = s]
                                              /\ s = "entering" => d # HandlerDepth(r)
    BY <1>2 DEF Descend
  <1> DEFINE q == [r EXCEPT !.depth = d, !.step = s]
  <1>4. d \in Depths /\ s \in Steps
    BY DEF Depths, Steps
  <1>5. q \in Requests
    BY <1>4 DEF Requests
  <1>6. /\ q \in Requests /\ q.depth = d /\ q.step = s /\ q.route = r.route /\ q.token = r.token
        /\ q.sent = r.sent /\ q.body = r.body /\ q.cut = r.cut /\ q.panic = r.panic
        /\ q.panics = r.panics /\ q.logged = r.logged /\ q.counted = r.counted
    BY <1>5 DEF Requests
  <1> HIDE DEF q
  <1>7. TokenOK(q) /\ Deep(q) /\ Unanswered(q) /\ Unrecorded(q)
    BY <1>1, <1>2, <1>6 DEF TokenOK, Deep, Unanswered, Unrecorded
  <1>8. Inside(q)
    BY <1>1, <1>2, <1>3, <1>6, <1>7 DEF Inside
  <1> QED
    BY <1>3, <1>6, <1>7, <1>8 DEF Phase, q

-----------------------------------------------------------------------------
(* Answers *)

\* Writing leaves a request where it is.
SamePlace(q, r) ==
  /\ q.step = r.step /\ q.depth = r.depth /\ q.route = r.route /\ q.token = r.token
  /\ q.user = r.user /\ q.pattern = r.pattern /\ q.panic = r.panic /\ q.panics = r.panics
  /\ q.logged = r.logged /\ q.counted = r.counted

\* Only the first header that is written counts.
LEMMA HeaderWrites ==
  ASSUME NEW r \in Requests, NEW status \in Statuses
  PROVE  /\ WriteHeader(r, status) \in Requests
         /\ WriteHeader(r, status).sent = IF r.sent = 0 THEN status ELSE r.sent
         /\ WriteHeader(r, status).did = r.did /\ WriteHeader(r, status).body = r.body
         /\ WriteHeader(r, status).cut = r.cut
         /\ SamePlace(WriteHeader(r, status), r)
  <1> DEFINE sent == IF r.sent = 0 THEN status ELSE r.sent
  <1>1. sent \in Statuses
    BY DEF Requests
  <1>2. WriteHeader(r, status) = [r EXCEPT !.sent = sent]
    BY DEF WriteHeader, Requests
  <1> HIDE DEF sent
  <1>3. WriteHeader(r, status) \in Requests
    BY <1>1, <1>2 DEF Requests
  <1>4. /\ WriteHeader(r, status).sent = sent /\ WriteHeader(r, status).did = r.did
        /\ WriteHeader(r, status).body = r.body /\ WriteHeader(r, status).cut = r.cut
    BY <1>2 DEF Requests
  <1>5. SamePlace(WriteHeader(r, status), r)
    BY <1>2 DEF Requests, SamePlace
  <1> QED
    BY <1>3, <1>4, <1>5 DEF sent

\* The status line of an answer: the first one counts.
Heads(r, status) == IF r.sent = 0 THEN status ELSE r.sent

\* An answer is a status line, and a body or a write that failed.
Writes(h, r, status, body, q) ==
  /\ SamePlace(h, r) /\ h.did = r.did /\ h.sent = Heads(r, status)
  /\ \/ h.cut = TRUE /\ (q = Ascend(h) \/ q = Panic(h))
     \/ r.cut = FALSE /\ h.body = body /\ q = Ascend(h)

\* Data writes a header first, and then what Writes says.
LEMMA DataWrites ==
  ASSUME NEW r \in Requests, NEW status \in Statuses, NEW body \in Bodies,
         NEW q \in Data(r, status, body)
  PROVE  \E h \in Requests : Writes(h, r, status, body, q)
  <1> DEFINE headed == WriteHeader(r, status)
             cut == [headed EXCEPT !.cut = TRUE]
             full == [headed EXCEPT !.body = body]
  <1>1. /\ headed \in Requests /\ headed.sent = Heads(r, status)
        /\ headed.did = r.did /\ SamePlace(headed, r)
    BY HeaderWrites DEF Heads
  <1>2. \/ q = Ascend(cut) \/ q = Panic(cut)
        \/ r.cut = FALSE /\ q = Ascend(full)
    BY DEF Data, Requests
  <1> HIDE DEF headed
  <1>3. cut \in Requests /\ full \in Requests
    BY <1>1 DEF Requests
  <1>4. /\ cut.cut = TRUE /\ cut.sent = headed.sent /\ cut.did = headed.did
        /\ full.body = body /\ full.sent = headed.sent /\ full.did = headed.did
    BY <1>1 DEF Requests
  <1>5. SamePlace(cut, headed) /\ SamePlace(full, headed)
    BY <1>1 DEF Requests, SamePlace
  <1> HIDE DEF cut, full
  <1>6. SamePlace(cut, r) /\ SamePlace(full, r)
    BY <1>1, <1>5 DEF SamePlace
  <1> QED
    BY <1>1, <1>2, <1>3, <1>4, <1>6 DEF Writes

\* What a request is told if its answer comes through.
Truthful(r, status, body) ==
  /\ status \in {200, 204} =>
       /\ r.did = "done" /\ r.route # "get_user" /\ body # "none"
       /\ r.route = "create_user" => body = UserSecret
  /\ r.did = "done" =>
       \/ status \in {200, 204}
       \/ status = 500 /\ body = "internal_failure" /\ r.route \in Writing
  /\ status \notin {200, 204} =>
       /\ body = "bearer_auth_required" => r.token = NoToken
       /\ body = "auth_invalid" => r.token # UserSecret
       /\ body = "not_found" /\ r.route = "get_user" => r.token # UserSecret /\ status = 404

\* The answer of a handler or an inner wrapper.
LEMMA DataAnswers ==
  ASSUME NEW r, Answering(r),
         NEW status \in Statuses \ {0}, NEW body \in Bodies, Truthful(r, status, body),
         NEW q \in Data(r, status, body)
  PROVE  Phase(q)
  <1>0. r \in Requests /\ status \in Statuses
    BY DEF Answering
  <1>1. PICK h \in Requests : Writes(h, r, status, body, q)
    BY <1>0, DataWrites
  <1>2. TokenOK(h) /\ Deep(h) /\ Unrecorded(h) /\ h.panic = FALSE /\ h.panics = 0 /\ h.sent = status
    BY <1>1 DEF Answering, Writes, SamePlace, TokenOK, Deep, Unrecorded, Unanswered, Heads
  <1>3. CASE h.cut = TRUE /\ (q = Ascend(h) \/ q = Panic(h))
    <2>1. Told(h) /\ Broken(h)
      BY <1>2, <1>3 DEF Told, Broken
    <2> QED
      BY <1>2, <1>3, <2>1, ReturnsToMetrics, PanicsToRespond
  <1>4. CASE h.body = body /\ q = Ascend(h)
    <2>1. Tells(h)
      BY <1>1, <1>2, <1>4 DEF Truthful, Tells, Writes, SamePlace
    <2>2. Told(h)
      BY <1>2, <2>1 DEF Told
    <2> QED
      BY <1>2, <1>4, <2>2, ReturnsToMetrics
  <1> QED
    BY <1>1, <1>3, <1>4 DEF Writes

\* The answer to a panic, which tells of the failure unless the client is gone.
LEMMA PanicAnswers ==
  ASSUME NEW r \in Requests, TokenOK(r), r.depth = 2, r.panic = FALSE, r.panics = 1,
         Unrecorded(r), Broken(r), NEW q \in UserError(r, 500, "internal_failure")
  PROVE  Phase(q)
  <1>1. 500 \in Statuses
    BY DEF Statuses
  <1>2. "internal_failure" \in Bodies
    BY DEF Bodies, Codes
  <1>3. PICK h \in Requests : Writes(h, r, 500, "internal_failure", q)
    <2>1. q \in Data(r, 500, "internal_failure")
      BY DEF UserError
    <2> QED
      BY <1>1, <1>2, <2>1, DataWrites
  <1>4. /\ TokenOK(h) /\ Unrecorded(h) /\ h.depth = 2 /\ h.panic = FALSE /\ h.panics = 1
        /\ h.sent # 0
    BY <1>3 DEF Writes, SamePlace, TokenOK, Unrecorded, Heads
  <1>5. h.logged = <<>> /\ h.counted = CountedOf(h)
    BY <1>4 DEF Unrecorded, CountedOf
  <1>6. CASE h.cut = TRUE /\ q = Panic(h)
    BY <1>4, <1>6, PanicsOut
  <1>7. CASE h.cut = TRUE /\ q = Ascend(h)
    <2>1. Told(h)
      BY <1>4, <1>7 DEF Told
    <2> QED
      BY <1>4, <1>5, <1>7, <2>1, ReturnsToReqlog
  <1>8. CASE r.cut = FALSE /\ h.body = "internal_failure" /\ q = Ascend(h)
    <2>1. h.sent = 500 /\ h.did = "failed"
      BY <1>3, <1>8 DEF Writes, Broken, Heads
    <2>2. Told(h)
      BY <1>8, <2>1 DEF Told, Tells
    <2> QED
      BY <1>4, <1>5, <1>8, <2>2, ReturnsToReqlog
  <1> QED
    BY <1>3, <1>6, <1>7, <1>8 DEF Writes

\* What is noted of a request before it is answered.
LEMMA Marks ==
  ASSUME NEW r, Answering(r), NEW did \in Outcomes, NEW q, q = [r EXCEPT !.did = did]
  PROVE  /\ Answering(q) /\ q.did = did /\ q.route = r.route /\ q.token = r.token
  <1>1. r \in Requests
    BY DEF Answering
  <1>2. q \in Requests
    BY <1>1 DEF Requests
  <1>3. /\ q.did = did /\ q.route = r.route /\ q.token = r.token /\ q.depth = r.depth
        /\ q.sent = r.sent /\ q.body = r.body /\ q.cut = r.cut
    BY <1>1 DEF Requests
  <1>4. q.panic = r.panic /\ q.panics = r.panics /\ q.logged = r.logged /\ q.counted = r.counted
    BY <1>1 DEF Requests
  <1> QED
    BY <1>2, <1>3, <1>4 DEF Answering, TokenOK, Deep, Unanswered, Unrecorded

\* A handler notes what it has done before it answers.
LEMMA OutcomesMark ==
  ASSUME NEW r, Answering(r)
  PROVE  /\ Answering(Done(r)) /\ Done(r).did = "done"
         /\ Done(r).route = r.route /\ Done(r).token = r.token
         /\ Answering(Refused(r)) /\ Refused(r).did = "refused"
         /\ Refused(r).route = r.route /\ Refused(r).token = r.token
  <1>1. "done" \in Outcomes /\ "refused" \in Outcomes
    BY DEF Outcomes
  <1> QED
    BY <1>1, Marks DEF Done, Refused

\* An internal error is on its way, of a handler that failed or of a write that was done.
LEMMA InternalErrorPhase ==
  ASSUME NEW r, Answering(r), r.did = "failed" \/ (r.did = "done" /\ r.route \in Writing)
  PROVE  Phase(InternalError(r))
  <1> DEFINE q == InternalError(r)
  <1>1. "logging" \in Steps
    BY DEF Steps
  <1>2. q = [r EXCEPT !.step = "logging"]
    BY DEF InternalError
  <1> HIDE DEF q
  <1>3. q \in Requests
    BY <1>1, <1>2 DEF Answering, Requests
  <1>4. /\ q.did = r.did /\ q.route = r.route /\ q.token = r.token /\ q.depth = r.depth
        /\ q.sent = r.sent /\ q.body = r.body /\ q.cut = r.cut /\ q.step = "logging"
    BY <1>2 DEF Answering, Requests
  <1>5. q.panic = r.panic /\ q.panics = r.panics /\ q.logged = r.logged /\ q.counted = r.counted
    BY <1>2 DEF Answering, Requests
  <1>6. TokenOK(q) /\ Inside(q)
    BY <1>4, <1>5 DEF Answering, Inside, TokenOK, Deep, Unanswered, Unrecorded
  <1> QED
    BY <1>3, <1>6 DEF Phase, q

\* A handler that fails panics, or answers with an internal error.
LEMMA FailureMarks ==
  ASSUME NEW r, Answering(r), NEW p, p = [r EXCEPT !.did = "failed"]
  PROVE  Phase(Panic(p)) /\ Phase(InternalError(p))
  <1>1. "failed" \in Outcomes
    BY DEF Outcomes
  <1>2. Answering(p) /\ p.did = "failed"
    BY <1>1, Marks
  <1>3. p.sent = 0 /\ p.body = "none"
    BY <1>2 DEF Answering, Unanswered
  <1>4. Phase(Panic(p))
    BY <1>2, <1>3, PanicsToRespond DEF Answering, Unanswered, Broken
  <1> QED
    BY <1>2, <1>4, InternalErrorPhase

\* A refusal with the code of its type of error.
LEMMA RefusalAnswers ==
  ASSUME NEW r, Answering(r), r.did = "refused",
         NEW status \in Statuses \ {0, 200, 204}, NEW code \in Codes,
         code = "bearer_auth_required" => r.token = NoToken,
         code = "auth_invalid" => r.token # UserSecret,
         code = "not_found" /\ r.route = "get_user" => r.token # UserSecret /\ status = 404,
         NEW q \in UserError(r, status, code)
  PROVE  Phase(q)
  <1>1. code \in Bodies /\ status \in Statuses \ {0}
    BY DEF Bodies
  <1>2. Truthful(r, status, code)
    BY DEF Truthful
  <1>3. q \in Data(r, status, code)
    BY DEF UserError
  <1> QED
    BY <1>1, <1>2, <1>3, DataAnswers

\* A refused request is told so,
LEMMA RefusalsAnswer ==
  ASSUME NEW r, Answering(r), r.route = "get_user" => r.token # UserSecret
  PROVE  \A q \in NotFound(Refused(r)) : Phase(q)
  <1> SUFFICES ASSUME NEW q \in NotFound(Refused(r)) PROVE Phase(q)
    OBVIOUS
  <1> DEFINE p == Refused(r)
  <1>1. Answering(p) /\ p.did = "refused" /\ p.route = r.route /\ p.token = r.token
    BY OutcomesMark
  <1>2. 404 \in Statuses \ {0, 200, 204}
    BY DEF Statuses
  <1>3. "not_found" \in Codes
    BY DEF Codes
  <1>4. q \in UserError(p, 404, "not_found")
    BY DEF NotFound
  <1> HIDE DEF p
  <1> QED
    BY <1>1, <1>2, <1>3, <1>4, RefusalAnswers

\* as is one whose input is rejected.
LEMMA RejectionsAnswer ==
  ASSUME NEW r, Answering(r)
  PROVE  \A q \in Rejections(r) : Phase(q)
  <1> SUFFICES ASSUME NEW q \in Rejections(r) PROVE Phase(q)
    OBVIOUS
  <1> DEFINE p == Refused(r)
  <1>1. Answering(p) /\ p.did = "refused" /\ p.route = r.route /\ p.token = r.token
    BY OutcomesMark
  <1>2. 400 \in Statuses \ {0, 200, 204}
    BY DEF Statuses
  <1>3. "invalid_params" \in Codes
    BY DEF Codes
  <1>4. q \in UserError(p, 400, "invalid_params")
    BY DEF Rejections
  <1> HIDE DEF p
  <1> QED
    BY <1>1, <1>2, <1>3, <1>4, RefusalAnswers

\* Data for who asked for data.
LEMMA SuccessAnswers ==
  ASSUME NEW r, Answering(r), r.route # "get_user",
         NEW body \in Bodies \ {"none"}, r.route = "create_user" => body = UserSecret
  PROVE  \A q \in Data(Done(r), 200, body) : Phase(q)
  <1> SUFFICES ASSUME NEW q \in Data(Done(r), 200, body) PROVE Phase(q)
    OBVIOUS
  <1> DEFINE p == Done(r)
  <1>1. Answering(p) /\ p.did = "done" /\ p.route = r.route
    BY OutcomesMark
  <1>2. 200 \in Statuses \ {0}
    BY DEF Statuses
  <1> HIDE DEF p
  <1>3. Truthful(p, 200, body)
    BY <1>1 DEF Truthful
  <1>4. q \in Data(p, 200, body)
    BY DEF p
  <1> QED
    BY <1>1, <1>2, <1>3, <1>4, DataAnswers

\* The answer of what was done with nothing to show for it.
LEMMA NoContentAnswers ==
  ASSUME NEW r, Answering(r), r.route \in {"get_user", "remove"}
  PROVE  \A q \in NoContent(Done(r)) : Phase(q)
  <1> SUFFICES ASSUME NEW q \in NoContent(Done(r)) PROVE Phase(q)
    OBVIOUS
  <1> DEFINE p == Done(r)
             w == WriteHeader(p, 204)
  <1>1. PICK gone \in BOOLEAN : q = Ascend([w EXCEPT !.cut = gone])
    BY DEF NoContent
  <1> DEFINE h == [w EXCEPT !.cut = gone]
  <1>2. Answering(p) /\ p.did = "done" /\ p.route = r.route
    BY OutcomesMark
  <1>3. 204 \in Statuses
    BY DEF Statuses
  <1> HIDE DEF p
  <1>4. w \in Requests /\ w.sent = 204 /\ w.did = "done" /\ SamePlace(w, p)
    BY <1>2, <1>3, HeaderWrites DEF Answering, Unanswered
  <1> HIDE DEF w
  <1>5. h \in Requests
    BY <1>4 DEF Requests
  <1>6. h.sent = 204 /\ h.did = "done" /\ SamePlace(h, w)
    BY <1>4 DEF Requests, SamePlace
  <1>7. q = Ascend(h)
    BY <1>1
  <1> HIDE DEF h
  <1>8. TokenOK(h) /\ Deep(h) /\ Unrecorded(h) /\ h.panic = FALSE /\ h.panics = 0 /\ h.route = r.route
    BY <1>2, <1>4, <1>6 DEF Answering, SamePlace, TokenOK, Deep, Unanswered, Unrecorded
  <1>9. Told(h)
    BY <1>6, <1>8 DEF Told, Tells, WantsValue
  <1> QED
    BY <1>5, <1>7, <1>8, <1>9, ReturnsToMetrics

\* A body, an outcome and a lost client keep a request what it is.
LEMMA TextWrites ==
  ASSUME NEW h \in Requests, NEW body \in Bodies, NEW did \in Outcomes, NEW gone \in BOOLEAN
  PROVE  [h EXCEPT !.body = body, !.did = did, !.cut = gone] \in Requests
  BY DEF Requests

\* Unknown routes and requests over the limit are answered in plain text.
LEMMA PlainTextAnswers ==
  ASSUME NEW r, Answering(r), NEW status \in {404, 429}
  PROVE  \A q \in PlainText(r, status) : Phase(q)
  <1> SUFFICES ASSUME NEW q \in PlainText(r, status) PROVE Phase(q)
    OBVIOUS
  <1> DEFINE h == WriteHeader(r, status)
  <1>0. PICK gone \in BOOLEAN :
          q = Ascend([h EXCEPT !.body = "text", !.did = "refused", !.cut = gone])
    BY DEF PlainText
  <1> DEFINE t == [h EXCEPT !.body = "text", !.did = "refused", !.cut = gone]
  <1>1. status \in Statuses /\ "text" \in Bodies /\ "refused" \in Outcomes
    BY DEF Statuses, Bodies, Outcomes
  <1>2. h \in Requests /\ h.sent = status /\ SamePlace(h, r)
    BY <1>1, HeaderWrites DEF Answering, Unanswered
  <1>3. q = Ascend(t)
    BY <1>0
  <1> HIDE DEF h
  <1>4. t \in Requests
    BY <1>1, <1>2, TextWrites
  <1>5. t.sent = status /\ t.body = "text" /\ t.did = "refused"
    BY <1>2 DEF Requests
  <1>6. SamePlace(t, h)
    BY <1>2 DEF Requests, SamePlace
  <1> HIDE DEF t
  <1>7. TokenOK(t) /\ Deep(t) /\ Unrecorded(t) /\ t.panic = FALSE /\ t.panics = 0
    BY <1>2, <1>6 DEF Answering, SamePlace, TokenOK, Deep, Unanswered, Unrecorded
  <1>8. Told(t)
    BY <1>1, <1>5 DEF Told, Tells
  <1> QED
    BY <1>3, <1>4, <1>7, <1>8, ReturnsToMetrics

\* A second header after an answer says nothing.
LEMMA SecondHeader ==
  ASSUME NEW r, Answering(r), NEW q \in NotFound(Refused(r))
  PROVE  WriteHeader(q, 204) = q
  <1> DEFINE p == Refused(r)
  <1>1. p \in Requests /\ p.sent = 0
    BY OutcomesMark DEF Answering, Unanswered
  <1>2. 404 \in Statuses
    BY DEF Statuses
  <1>3. "not_found" \in Bodies
    BY DEF Bodies, Codes
  <1>4. q \in Data(p, 404, "not_found")
    BY DEF NotFound, UserError
  <1> HIDE DEF p
  <1>5. PICK h \in Requests : Writes(h, p, 404, "not_found", q)
    BY <1>1, <1>2, <1>3, <1>4, DataWrites
  <1>6. h.sent = 404
    BY <1>1, <1>5 DEF Writes, Heads
  <1>7. q = Ascend(h) \/ q = Panic(h)
    BY <1>5 DEF Writes
  <1>8. q.sent = 404
    <2>1. Ascend(h).sent = 404
      BY <1>6 DEF Ascend, Requests
    <2>2. Panic(h).sent = 404
      BY <1>6 DEF Panic, Ascend, Requests
    <2> QED
      BY <1>7, <2>1, <2>2
  <1>9. q = [x \in DOMAIN q |-> q[x]]
    BY <1>7 DEF Ascend, Panic
  <1> QED
    BY <1>8, <1>9 DEF WriteHeader

-----------------------------------------------------------------------------
(* Where a request is, by what is about to happen to it *)

\* What is known of a request on its way in or with its handler,
LEMMA OnTheWayIn ==
  ASSUME NEW r, Phase(r), r.step \in {"entering", "handling"}
  PROVE  /\ Answering(r)
         /\ r.step = "entering" => r.depth = 4 \/ (r.depth \in {5, 6} /\ r.route \in Private)
  <1>1. r # Idle /\ ~AtMetrics(r) /\ ~AtRespond(r) /\ ~AtReqlog(r) /\ ~Ended(r)
    BY DEF Idle, AtMetrics, AtRespond, AtReqlog, Ended
  <1> QED
    BY <1>1 DEF Phase, Inside, Answering

\* with each wrapper on its way out,
LEMMA OnTheWayOut ==
  ASSUME NEW r, Phase(r), r.step = "leaving"
  PROVE  /\ r \in Requests /\ TokenOK(r)
         /\ Chain(r)[r.depth] = "metrics" => AtMetrics(r)
         /\ Chain(r)[r.depth] = "respond" => AtRespond(r)
         /\ Chain(r)[r.depth] = "reqlog" => AtReqlog(r)
  <1>1. r # Idle /\ ~Inside(r) /\ ~Ended(r)
    BY DEF Idle, Inside, Ended
  <1>2. r \in Requests /\ TokenOK(r) /\ (AtMetrics(r) \/ AtRespond(r) \/ AtReqlog(r))
    BY <1>1 DEF Phase
  <1>3. AtMetrics(r) => Chain(r)[r.depth] = "metrics"
    BY OuterWrappers DEF AtMetrics
  <1>4. AtRespond(r) => Chain(r)[r.depth] = "respond"
    BY OuterWrappers DEF AtRespond
  <1>5. AtReqlog(r) => Chain(r)[r.depth] = "reqlog"
    BY OuterWrappers DEF AtReqlog
  <1> QED
    BY <1>2, <1>3, <1>4, <1>5

\* while its panic is logged,
LEMMA AtTheLog ==
  ASSUME NEW r, Phase(r), r.step \in {"logging", "printing"}
  PROVE  r \in Requests /\ TokenOK(r) /\ (Inside(r) \/ AtRespond(r))
  <1>1. r # Idle /\ ~AtMetrics(r) /\ ~AtReqlog(r) /\ ~Ended(r)
    BY DEF Idle, AtMetrics, AtReqlog, Ended
  <1> QED
    BY <1>1 DEF Phase

\* and when it has ended.
LEMMA AtTheEnd ==
  ASSUME NEW r, Phase(r), r.step = "ended"
  PROVE  r \in Requests /\ TokenOK(r) /\ Ended(r)
  <1>1. r # Idle /\ ~Inside(r) /\ ~AtMetrics(r) /\ ~AtRespond(r) /\ ~AtReqlog(r)
    BY DEF Idle, Inside, AtMetrics, AtRespond, AtReqlog
  <1> QED
    BY <1>1 DEF Phase

-----------------------------------------------------------------------------
(* Steps *)

\* A connection without a request.
LEMMA IdlePhase == Idle \in Requests /\ Phase(Idle)
  <1>1. /\ "idle" \in Steps /\ 0 \in Depths /\ "unmatched" \in Routes /\ NoToken \in Tokens
        /\ 0 \in 0..1
    BY DEF Steps, Depths, Routes, Private, Tokens
  <1>2. "nothing" \in Outcomes /\ 0 \in Statuses /\ "none" \in Bodies /\ <<>> \in Records
    BY DEF Outcomes, Statuses, Bodies, Records
  <1>3. Idle \in Requests
    BY <1>1, <1>2 DEF Idle, Requests
  <1> QED
    BY <1>3 DEF Phase

\* A step of one request.
LEMMA BecomePhase ==
  ASSUME RInv, NEW c \in Conns, NEW q, Become(c, q), Phase(q),
         UNCHANGED <<appVars, auth>>, lock' \subseteq Conns
  PROVE  RInv'
  <1>1. q \in Requests
    BY DEF Phase
  <1>2. req' \in [Conns -> Requests] /\ req'[c] = q /\ \A d \in Conns : d # c => req'[d] = req[d]
    BY <1>1 DEF Become, RInv
  <1> QED
    BY <1>2 DEF RInv, appVars

\* The limiter answers, or lets the request on to its route.
LEMMA RateLimitPhase ==
  ASSUME RInv, NEW c \in Conns, RateLimit(c), UNCHANGED auth
  PROVE  RInv'
  <1> DEFINE r == req[c]
  <1>1. Phase(r) /\ r.step = "entering" /\ Chain(r)[r.depth] = "limiter" /\ UNCHANGED <<appVars, lock>>
    BY DEF RInv, RateLimit, Enters, Advances
  <1>2. Answering(r)
    BY <1>1, OnTheWayIn
  <1>3. r.depth = 4
    BY <1>1, OnTheWayIn, WrapperAtDepth
  <1>4. lock' \subseteq Conns
    BY <1>1 DEF RInv
  <1>5. Phase(Panic([r EXCEPT !.did = "failed"]))
    BY <1>2, FailureMarks
  <1>6. Phase(Descend(r))
    BY <1>2, <1>3, DescendInside DEF Answering
  <1>7. \A q \in PlainText(r, 429) : Phase(q)
    BY <1>2, PlainTextAnswers
  <1>8. \E q : Phase(q) /\ Become(c, q)
    BY <1>5, <1>6, <1>7 DEF RateLimit
  <1> QED
    BY <1>1, <1>4, <1>8, BecomePhase

\* The submux lets it on to auth.
LEMMA StorePatternPhase ==
  ASSUME RInv, NEW c \in Conns, StorePattern(c), UNCHANGED auth
  PROVE  RInv'
  <1> DEFINE r == req[c]
             p == [r EXCEPT !.pattern = r.route # "unmatched"]
  <1>1. Phase(r) /\ r.step = "entering" /\ Chain(r)[r.depth] = "submux" /\ UNCHANGED <<appVars, lock>>
    BY DEF RInv, StorePattern, Enters, Advances
  <1>2. Answering(r)
    BY <1>1, OnTheWayIn
  <1>3. r.depth = 5 /\ r.route \in Private
    BY <1>1, OnTheWayIn, WrapperAtDepth
  <1>4. lock' \subseteq Conns
    BY <1>1 DEF RInv
  <1>5. p \in Requests /\ p.depth = 5 /\ p.route \in Private /\ p.token = r.token
    BY <1>2, <1>3 DEF Answering, Requests
  <1>6. Unanswered(p)
    BY <1>2 DEF Answering, Unanswered, Requests
  <1>7. Unrecorded(p) /\ p.route = r.route
    BY <1>2 DEF Answering, Unrecorded, Requests
  <1>8. Become(c, Descend(p))
    BY DEF StorePattern
  <1> HIDE DEF p
  <1>9. TokenOK(p)
    BY <1>2, <1>5, <1>7 DEF Answering, TokenOK
  <1>10. Phase(Descend(p))
    BY <1>5, <1>6, <1>7, <1>9, DescendInside
  <1> QED
    BY <1>1, <1>4, <1>8, <1>10, BecomePhase

\* auth answers, fails, or lets it on to its handler.
LEMMA AuthenticatePhase ==
  ASSUME RInv, NEW c \in Conns, Authenticate(c), UNCHANGED auth
  PROVE  RInv'
  <1> DEFINE r == req[c]
             p == [r EXCEPT !.user = TRUE]
             refused == [r EXCEPT !.did = "refused"]
  <1>1. Phase(r) /\ r.step = "entering" /\ Chain(r)[r.depth] = "auth" /\ UNCHANGED <<appVars, lock>>
    BY DEF RInv, Authenticate, Enters, Advances
  <1>2. Answering(r)
    BY <1>1, OnTheWayIn
  <1>3. r.depth = 6 /\ r.route \in Private
    BY <1>1, OnTheWayIn, WrapperAtDepth
  <1>4. lock' \subseteq Conns
    BY <1>1 DEF RInv
  <1>5. Answering(refused) /\ refused.did = "refused" /\ refused.route = r.route /\ refused.token = r.token
    BY <1>2, OutcomesMark DEF Refused
  <1>6. 401 \in Statuses \ {0, 200, 204}
    BY DEF Statuses
  <1>7. "bearer_auth_required" \in Codes /\ "auth_invalid" \in Codes
    BY DEF Codes
  <1>8. "get_user" \notin Private
    BY DEF Private, Writing
  <1>9. CASE r.token = NoToken /\ \E a \in UserError(refused, 401, "bearer_auth_required") : Become(c, a)
    <2> HIDE DEF refused
    <2>1. PICK a \in UserError(refused, 401, "bearer_auth_required") : Become(c, a)
      BY <1>9
    <2>2. Phase(a)
      BY <1>5, <1>6, <1>7, <1>9, <2>1, RefusalAnswers
    <2> QED
      BY <1>1, <1>4, <2>1, <2>2, BecomePhase
  <1>10. CASE ~getUser(r.token) /\ \E a \in UserError(refused, 401, "auth_invalid") : Become(c, a)
    <2> HIDE DEF refused
    <2>1. PICK a \in UserError(refused, 401, "auth_invalid") : Become(c, a)
      BY <1>10
    <2>2. refused.token # UserSecret
      BY <1>5, <1>10 DEF getUser, RInv
    <2>3. Phase(a)
      BY <1>5, <1>6, <1>7, <2>1, <2>2, RefusalAnswers
    <2> QED
      BY <1>1, <1>4, <2>1, <2>3, BecomePhase
  <1>11. CASE Become(c, Descend(p))
    <2>1. p \in Requests /\ p.depth = 6 /\ p.route \in Private /\ p.token = r.token
      BY <1>2, <1>3 DEF Answering, Requests
    <2>2. Unanswered(p)
      BY <1>2 DEF Answering, Unanswered, Requests
    <2>3. Unrecorded(p) /\ p.route = r.route
      BY <1>2 DEF Answering, Unrecorded, Requests
    <2> HIDE DEF p
    <2>4. TokenOK(p)
      BY <1>2, <2>1, <2>3 DEF Answering, TokenOK
    <2>5. Phase(Descend(p))
      BY <2>1, <2>2, <2>3, <2>4, DescendInside
    <2> QED
      BY <1>1, <1>4, <1>11, <2>5, BecomePhase
  <1> QED
    BY <1>9, <1>10, <1>11 DEF Authenticate

\* A handler that fails, one way or the other.
LEMMA FailsPhase ==
  ASSUME NEW c \in Conns, Answering(req[c]), Fails(c)
  PROVE  \E q : Phase(q) /\ Become(c, q)
  <1> DEFINE p == Failed(req[c])
  <1>1. Phase(Panic(p)) /\ Phase(InternalError(p))
    BY FailureMarks DEF Failed
  <1>2. Become(c, InternalError(p)) \/ Become(c, Panic(p))
    BY DEF Fails
  <1> HIDE DEF p
  <1> QED
    BY <1>1, <1>2

\* A write that is not acknowledged.
LEMMA UnacknowledgedPhase ==
  ASSUME NEW c \in Conns, Answering(req[c]), req[c].route \in Writing, Unacknowledged(c)
  PROVE  \E q : Phase(q) /\ Become(c, q)
  <1> DEFINE p == Done(req[c])
  <1>1. Answering(p) /\ p.did = "done" /\ p.route \in Writing
    BY OutcomesMark
  <1>2. Become(c, InternalError(p))
    BY DEF Unacknowledged
  <1> HIDE DEF p
  <1> QED
    BY <1>1, <1>2, InternalErrorPhase

\* The token that CreateUser answers with is a body of its own.
LEMMA TokenIsBody == UserSecret \in Bodies \ {"none"}
  BY AppAssumption, PipelineAssumption DEF Bodies

\* The handlers answer, or fail.
LEMMA HandlersPhase ==
  ASSUME RInv, NEW c \in Conns, UNCHANGED auth,
         \/ CreateUser(c) \/ GetUser(c) \/ Unmatched(c)
         \/ Animals(c) \/ ReadRows(c) \/ WriteRows(c) \/ DeleteRows(c)
  PROVE  RInv'
  <1> DEFINE r == req[c]
             p == Failed(r)
  <1>1. Phase(r) /\ r.step = "handling" /\ UNCHANGED <<appVars, lock>>
    BY DEF RInv, CreateUser, GetUser, Unmatched, Animals, ReadRows, WriteRows, DeleteRows,
           Handles, Advances
  <1>2. Answering(r)
    BY <1>1, OnTheWayIn
  <1>3. lock' \subseteq Conns
    BY <1>1 DEF RInv
  <1>4. Phase(Panic(p)) /\ Phase(InternalError(p))
    BY <1>2, FailureMarks DEF Failed
  <1>5. \A q \in Rejections(r) : Phase(q)
    BY <1>2, RejectionsAnswer
  <1>6. r.route # "get_user" => \A q \in NotFound(Refused(r)) : Phase(q)
    BY <1>2, RefusalsAnswer
  <1>7. "data" \in Bodies \ {"none"}
    BY DEF Bodies
  <1>8. r.route \notin {"get_user", "create_user"} => \A q \in Data(Done(r), 200, "data") : Phase(q)
    BY <1>2, <1>7, SuccessAnswers
  <1> HIDE DEF p
  <1>9. \E q : Phase(q) /\ Become(c, q)
    <2>1. CASE CreateUser(c)
      <3>1. r.route = "create_user" /\ secret = UserSecret
        BY <2>1 DEF CreateUser, Handles, RInv
      <3>2. \A q \in Data(Done(r), 200, secret) : Phase(q)
        BY <1>2, <3>1, TokenIsBody, SuccessAnswers
      <3> QED
        BY <1>4, <2>1, <3>2 DEF CreateUser, p
    <2>2. CASE GetUser(c)
      <3>1. r.route = "get_user" /\ secret = UserSecret
        BY <2>2 DEF GetUser, Handles, RInv
      <3>2. \A q \in NoContent(Done(r)) : Phase(q)
        BY <1>2, <3>1, NoContentAnswers
      <3>3. ~getUser(r.token) => \A q \in NotFound(Refused(r)) : Phase(q)
        BY <1>2, <3>1, RefusalsAnswer DEF getUser
      <3> QED
        BY <2>2, <3>2, <3>3 DEF GetUser
    <2>3. CASE Unmatched(c)
      <3>1. \A q \in PlainText(r, 404) : Phase(q)
        BY <1>2, PlainTextAnswers
      <3> QED
        BY <2>3, <3>1 DEF Unmatched
    <2>4. CASE Animals(c)
      <3>1. r.route = "animals"
        BY <2>4 DEF Animals, Handles
      <3> QED
        BY <1>8, <2>4, <3>1 DEF Animals
    <2>5. CASE ReadRows(c)
      <3>1. r.route = "read"
        BY <2>5 DEF ReadRows, Handles
      <3>2. \A q \in Data(Done(r), 200, "data") \cup NotFound(Refused(r)) : Phase(q)
        BY <1>6, <1>8, <3>1
      <3> QED
        BY <1>2, <1>4, <1>5, <2>5, <3>2, FailsPhase DEF ReadRows, p
    <2>6. CASE WriteRows(c)
      <3>1. r.route = "write" /\ r.route \in Writing
        BY <2>6 DEF WriteRows, Handles, Writing
      <3>2. \A q \in Data(Done(r), 200, "data") : Phase(q)
        BY <1>8, <3>1
      <3> QED
        BY <1>2, <1>5, <2>6, <3>1, <3>2, FailsPhase, UnacknowledgedPhase DEF WriteRows
    <2>7. CASE DeleteRows(c)
      <3>1. r.route = "remove"
        BY <2>7 DEF DeleteRows, Handles
      <3>2. \A q \in NoContent(Done(r)) : Phase(q)
        BY <1>2, <3>1, NoContentAnswers
      <3>3. \A q \in NotFound(Refused(r)) : Phase(q)
        BY <1>6, <3>1
      <3>4. \A q \in NotFound(Refused(r)) : WriteHeader(q, 204) = q
        BY <1>2, SecondHeader
      <3>5. CASE Fails(c)
        BY <1>2, <3>5, FailsPhase
      <3>6. CASE \E q \in Rejections(r) : Become(c, q)
        BY <1>5, <3>6
      <3>7. CASE \E q \in NoContent(Done(r)) \cup NotFound(Refused(r)) : Become(c, q)
        BY <3>2, <3>3, <3>7
      <3>8. CASE \E q \in NotFound(Refused(r)) : Become(c, IF q.panic THEN q ELSE WriteHeader(q, 204))
        BY <3>3, <3>4, <3>8
      <3>9. CASE Unacknowledged(c)
        BY <1>2, <3>1, <3>9, UnacknowledgedPhase DEF Writing
      <3> QED
        BY <2>7, <3>5, <3>6, <3>7, <3>8, <3>9 DEF DeleteRows
    <2> QED
      BY <2>1, <2>2, <2>3, <2>4, <2>5, <2>6, <2>7
  <1> QED
    BY <1>1, <1>3, <1>9, BecomePhase

\* A log of one line.
LEMMA FirstRecord ==
  ASSUME NEW status \in Statuses
  PROVE  Append(<<>>, status) = <<status>> /\ <<status>> \in Records /\ <<>> \in Records
  BY DEF Records

\* A request that gets the log's lock stays where it is.
LEMMA LockLogPhase ==
  ASSUME RInv, NEW c \in Conns, LockLog(c), UNCHANGED auth
  PROVE  RInv'
  <1> DEFINE r == req[c]
             q == [r EXCEPT !.step = "printing"]
  <1>1. Phase(r) /\ r.step = "logging" /\ UNCHANGED appVars /\ lock' = {c} /\ Become(c, q)
    BY DEF RInv, LockLog, Advances
  <1>2. r \in Requests /\ TokenOK(r) /\ (Inside(r) \/ AtRespond(r))
    BY <1>1, AtTheLog
  <1>3. "printing" \in Steps
    BY DEF Steps
  <1>4. q \in Requests
    BY <1>2, <1>3 DEF Requests
  <1>5. q.step = "printing" /\ q.depth = r.depth /\ q.panic = r.panic /\ q.cut = r.cut
    BY <1>2 DEF Requests
  <1>6. Alike(q, r)
    BY <1>2 DEF Requests, Alike
  <1> HIDE DEF q
  <1>7. TokenOK(q)
    BY <1>2, <1>6 DEF TokenOK, Alike
  <1>8. Inside(r) => Inside(q)
    BY <1>1, <1>5, <1>6 DEF Inside, Alike, Deep, Unanswered, Unrecorded
  <1>9. AtRespond(r) => AtRespond(q)
    BY <1>1, <1>5, <1>6 DEF AtRespond, Alike, Unrecorded, Broken
  <1>10. Phase(q)
    BY <1>2, <1>4, <1>7, <1>8, <1>9 DEF Phase
  <1> QED
    BY <1>1, <1>10, BecomePhase

\* The answer of InternalError comes from inside metrics, that of WrapPanicC from
\* outside.
LEMMA PrintLinesPhase ==
  ASSUME RInv, NEW c \in Conns, PrintLines(c), UNCHANGED auth
  PROVE  RInv'
  <1> DEFINE r == req[c]
  <1>1. Phase(r) /\ r.step = "printing" /\ UNCHANGED appVars
    BY DEF RInv, PrintLines, Advances
  <1>2. lock' \subseteq Conns
    BY DEF RInv, PrintLines
  <1>3. PICK q \in UserError(r, 500, "internal_failure") : Become(c, q)
    BY DEF PrintLines
  <1>4. r \in Requests /\ TokenOK(r) /\ (Inside(r) \/ AtRespond(r))
    BY <1>1, AtTheLog
  <1>5. CASE Inside(r)
    <2>1. Answering(r) /\ (r.did = "failed" \/ (r.did = "done" /\ r.route \in Writing))
      BY <1>1, <1>4, <1>5 DEF Inside, Answering
    <2>2. Truthful(r, 500, "internal_failure")
      BY <2>1 DEF Truthful
    <2>3. 500 \in Statuses \ {0}
      BY DEF Statuses
    <2>4. "internal_failure" \in Bodies
      BY DEF Bodies, Codes
    <2>5. q \in Data(r, 500, "internal_failure")
      BY <1>3 DEF UserError
    <2> QED
      BY <1>1, <1>2, <1>3, <2>1, <2>2, <2>3, <2>4, <2>5, DataAnswers, BecomePhase
  <1>6. CASE AtRespond(r)
    <2>1. r.depth = 2 /\ r.panic = FALSE /\ r.panics = 1 /\ Unrecorded(r) /\ Broken(r)
      BY <1>1, <1>6 DEF AtRespond
    <2>2. Phase(q)
      BY <1>3, <1>4, <2>1, PanicAnswers
    <2> QED
      BY <1>1, <1>2, <1>3, <2>2, BecomePhase
  <1> QED
    BY <1>4, <1>5, <1>6

\* metrics counts what has been answered, once.
LEMMA CountPhase ==
  ASSUME RInv, NEW c \in Conns, Count(c), UNCHANGED auth
  PROVE  RInv'
  <1> DEFINE r == req[c]
             counts == IF HasPattern(r) THEN <<r.sent>> ELSE <<>>
             q == [r EXCEPT !.counted = counts]
  <1>1. Phase(r) /\ r.step = "leaving" /\ Chain(r)[r.depth] = "metrics" /\ UNCHANGED <<appVars, lock>>
    BY DEF RInv, Count, Returns, Advances
  <1>2. r \in Requests /\ TokenOK(r) /\ AtMetrics(r)
    BY <1>1, OnTheWayOut
  <1>3. lock' \subseteq Conns
    BY <1>1 DEF RInv
  <1>4. r.sent \in Statuses /\ r.counted = <<>>
    BY <1>2 DEF Requests, AtMetrics, Unrecorded
  <1>5. Append(r.counted, r.sent) = <<r.sent>>
    BY <1>4, FirstRecord
  <1>6. Become(c, Ascend(q))
    <2>1. Become(c, Ascend([r EXCEPT !.counted =
                              IF HasPattern(r) THEN Append(r.counted, r.sent) ELSE r.counted]))
      BY <1>2 DEF Count, Requests
    <2> QED
      BY <1>4, <1>5, <2>1
  <1>7. counts \in Records
    BY <1>4, FirstRecord
  <1> HIDE DEF counts
  <1>8. q \in Requests
    BY <1>2, <1>7 DEF Requests
  <1>9. /\ q.depth = r.depth /\ q.panic = r.panic /\ q.panics = r.panics
        /\ q.logged = r.logged /\ q.counted = counts
        /\ q.route = r.route /\ q.pattern = r.pattern /\ q.token = r.token
    BY <1>2 DEF Requests
  <1>10. q.sent = r.sent /\ q.cut = r.cut /\ q.did = r.did /\ q.body = r.body
    BY <1>2 DEF Requests
  <1> HIDE DEF q
  <1>11. TokenOK(q) /\ q.depth = 3 /\ q.panic = FALSE /\ q.logged = <<>>
    BY <1>2, <1>9 DEF TokenOK, AtMetrics, Unrecorded
  <1>12. q.counted = CountedOf(q)
    BY <1>2, <1>9, <1>10 DEF counts, CountedOf, HasPattern, AtMetrics
  <1>13. Told(q)
    BY <1>2, <1>9, <1>10 DEF AtMetrics, Told, Tells
  <1>14. Phase(Ascend(q))
    BY <1>8, <1>11, <1>12, <1>13, ReturnsToReqlog
  <1> QED
    BY <1>1, <1>3, <1>6, <1>14, BecomePhase

\* WrapPanicC recovers a panic and counts it.
LEMMA RecoverPhase ==
  ASSUME RInv, NEW c \in Conns, Recover(c), UNCHANGED auth
  PROVE  RInv'
  <1> DEFINE r == req[c]
             q == [r EXCEPT !.step = "logging", !.panic = FALSE, !.panics = 1]
  <1>1. Phase(r) /\ r.step = "leaving" /\ Chain(r)[r.depth] = "respond" /\ UNCHANGED <<appVars, lock>>
    BY DEF RInv, Recover, Returns, Advances
  <1>2. r \in Requests /\ TokenOK(r) /\ AtRespond(r)
    BY <1>1, OnTheWayOut
  <1>3. lock' \subseteq Conns
    BY <1>1 DEF RInv
  <1>4. r.panics = 0
    BY <1>1, <1>2 DEF AtRespond
  <1>5. Become(c, q)
    BY <1>2, <1>4 DEF Recover, Requests
  <1>6. "logging" \in Steps /\ FALSE \in BOOLEAN /\ 1 \in 0..1
    BY DEF Steps
  <1>7. \A s \in Steps, b \in BOOLEAN, n \in 0..1 :
          [r EXCEPT !.step = s, !.panic = b, !.panics = n] \in Requests
    BY <1>2 DEF Requests
  <1>8. q \in Requests
    BY <1>6, <1>7
  <1>9. /\ q.step = "logging" /\ q.panic = FALSE /\ q.panics = 1 /\ q.depth = r.depth
        /\ q.cut = r.cut /\ q.sent = r.sent /\ q.body = r.body /\ q.did = r.did
    BY <1>2 DEF Requests
  <1>10. /\ q.route = r.route /\ q.token = r.token
         /\ q.logged = r.logged /\ q.counted = r.counted
    BY <1>2 DEF Requests
  <1> HIDE DEF q
  <1>11. TokenOK(q)
    BY <1>2, <1>10 DEF TokenOK
  <1>12. AtRespond(q)
    BY <1>2, <1>9, <1>10 DEF AtRespond, Unrecorded, Broken
  <1>13. Phase(q)
    BY <1>8, <1>11, <1>12 DEF Phase
  <1> QED
    BY <1>1, <1>3, <1>5, <1>13, BecomePhase

\* reqlog writes the one line of a request.
LEMMA LogResponsePhase ==
  ASSUME RInv, NEW c \in Conns, LogResponse(c), UNCHANGED auth
  PROVE  RInv'
  <1> DEFINE r == req[c]
             p == [r EXCEPT !.logged = <<r.sent>>]
             q == Ascend(p)
  <1>1. Phase(r) /\ r.step = "leaving" /\ Chain(r)[r.depth] = "reqlog" /\ UNCHANGED <<appVars, lock>>
    BY DEF RInv, LogResponse, Returns, Advances
  <1>2. r \in Requests /\ TokenOK(r) /\ AtReqlog(r)
    BY <1>1, OnTheWayOut
  <1>3. lock' \subseteq Conns
    BY <1>1 DEF RInv
  <1>4. r.sent \in Statuses /\ r.logged = <<>>
    BY <1>2 DEF Requests, AtReqlog
  <1>5. Append(r.logged, r.sent) = <<r.sent>> /\ <<r.sent>> \in Records
    BY <1>4, FirstRecord
  <1>6. Become(c, q)
    <2>1. Become(c, Ascend([r EXCEPT !.logged = Append(r.logged, r.sent)]))
      BY <1>2 DEF LogResponse, Requests
    <2> QED
      BY <1>5, <2>1
  <1>7. p \in Requests
    BY <1>2, <1>5 DEF Requests
  <1>8. /\ p.depth = 1 /\ p.panic = FALSE /\ p.panics = r.panics /\ p.sent = r.sent
        /\ p.logged = <<r.sent>> /\ p.counted = r.counted
    BY <1>2 DEF Requests, AtReqlog
  <1>9. /\ p.route = r.route /\ p.token = r.token /\ p.pattern = r.pattern
        /\ p.cut = r.cut /\ p.did = r.did /\ p.body = r.body
    BY <1>2 DEF Requests
  <1> HIDE DEF p
  <1>10. NextOut(p) = 0
    BY <1>8, WayOut
  <1>11. /\ q \in Requests /\ q.depth = 0 /\ q.step = "ended" /\ q.panic = FALSE
         /\ q.cut = p.cut /\ Alike(q, p)
    BY <1>7, <1>8, <1>10, OuterDepths, AscendMoves DEF Requests
  <1> HIDE DEF q
  <1>12. TokenOK(q)
    BY <1>2, <1>9, <1>11 DEF TokenOK, Alike
  <1>13. Told(q)
    BY <1>2, <1>8, <1>9, <1>11 DEF AtReqlog, Told, Tells, Alike
  <1>14. q.logged = <<q.sent>> /\ q.counted = CountedOf(q)
    BY <1>2, <1>8, <1>9, <1>11 DEF AtReqlog, CountedOf, HasPattern, Alike
  <1>15. Phase(q)
    BY <1>11, <1>12, <1>13, <1>14 DEF Phase, Ended
  <1> QED
    BY <1>1, <1>3, <1>6, <1>15, BecomePhase

-----------------------------------------------------------------------------
(* What the client makes of a response *)

\* A call returns without an error only when it was done and its answer came through;
\* what was done is an error only when the answer was lost, or could not be given.
LEMMA OkIsDone ==
  ASSUME NEW r \in Requests, Ended(r)
  PROVE  /\ Do(r) = "ok" => r.did = "done" /\ r.cut = FALSE /\ Tells(r) /\ r.sent \in {200, 204}
         /\ r.did = "done" => \/ Do(r) = "transport" /\ r.cut = TRUE
                              \/ Do(r) = "ok"
                              \/ Do(r) = "internal_failure" /\ r.route \in Writing
  <1>1. CASE r.cut = TRUE
    BY <1>1 DEF Do
  <1>2. CASE r.cut = FALSE
    <2>1. Tells(r)
      BY <1>2 DEF Ended, Told
    <2>2. r.sent \in {0, 200, 204, 400, 401, 404, 429, 500} /\ r.sent # 0
      BY <1>2 DEF Requests, Statuses, Ended, Told
    <2>3. CASE r.sent \in {200, 204}
      <3>1. WantsValue(r.route) => r.body # "none"
        BY <2>1, <2>3 DEF Tells
      <3>2. Do(r) = "ok"
        BY <1>2, <2>3, <3>1 DEF Do
      <3> QED
        BY <1>2, <2>1, <2>3, <3>2 DEF Tells
    <2>4. CASE r.sent \notin {200, 204}
      <3>1. Do(r) = Reify(r.body)
        BY <1>2, <2>2, <2>4 DEF Do
      <3>2. Reify(r.body) # "ok"
        BY DEF Reify, Registered, Codes
      <3>3. r.body = "internal_failure" => Reify(r.body) = "internal_failure"
        BY DEF Reify, Registered, Codes
      <3>4. r.did = "done" => r.body = "internal_failure" /\ r.route \in Writing
        BY <2>1, <2>4 DEF Tells
      <3> QED
        BY <3>1, <3>2, <3>3, <3>4
    <2> QED
      BY <2>3, <2>4
  <1> QED
    BY <1>1, <1>2 DEF Requests

\* A type of error that the client tells apart was in the body of an error.
LEMMA RegisteredErrors ==
  ASSUME NEW r \in Requests, Ended(r), NEW code \in Codes, Do(r) = code
  PROVE  Tells(r) /\ r.sent \notin {200, 204} /\ r.body = code
  <1>1. code \notin {"ok", "transport", "unexpected", "unparsed", "untyped"}
    BY DEF Codes
  <1>2. r.cut = FALSE
    BY <1>1 DEF Do, Requests
  <1>3. Tells(r)
    BY <1>2 DEF Ended, Told
  <1>4. r.sent > 399 /\ Reify(r.body) = code
    BY <1>1, <1>2 DEF Do
  <1>5. r.body = code
    BY <1>1, <1>4 DEF Reify
  <1> QED
    BY <1>3, <1>4, <1>5

\* A new request has done nothing yet.
LEMMA CallPhase ==
  ASSUME RInv, NEW c \in Conns, Call(c)
  PROVE  RInv'
  <1>1. PICK route \in Calls[c] : \E token \in Sends(c, route) : Arrive(c, route, token)
    BY DEF Call
  <1>2. PICK token \in Sends(c, route) : Arrive(c, route, token)
    BY <1>1
  <1>3. route \in Routes /\ auth[c] \in Given
    BY <1>1, CallsAssumption DEF RInv
  <1>4. "get_user" \notin Private /\ "create_user" \notin Private
    BY DEF Private, Writing
  <1>5. token \in Given /\ (route = "get_user" => token # NoToken)
    <2>1. CASE route \in Private
      <3>1. Sends(c, route) = {auth[c]}
        BY <1>4, <2>1 DEF Sends
      <3> QED
        BY <1>2, <1>3, <1>4, <2>1, <3>1
    <2>2. CASE route = "create_user"
      <3>1. Sends(c, route) = {NoToken}
        BY <1>4, <2>2 DEF Sends
      <3> QED
        BY <1>2, <2>2, <3>1 DEF Given
    <2>3. CASE route = "get_user"
      <3>1. Sends(c, route) = {auth[c], Garbled} \ {NoToken}
        BY <1>4, <2>3 DEF Sends
      <3> QED
        BY <1>2, <1>3, <3>1 DEF Given
    <2> QED
      BY <1>3, <2>1, <2>2, <2>3 DEF Routes
  <1>6. token \in Tokens
    BY <1>5, AppAssumption DEF Given, Tokens
  <1> DEFINE r == [Idle EXCEPT !.route = route, !.token = token]
  <1>7. r \in Requests
    BY <1>3, <1>6, IdlePhase DEF Requests
  <1>8. r.route = route /\ r.token = token /\ r.depth = 0
    BY DEF Idle
  <1>9. Unanswered(r) /\ Unrecorded(r)
    BY DEF Unanswered, Unrecorded, Idle
  <1>10. Become(c, Descend(r)) /\ UNCHANGED <<appVars, lock>>
    BY <1>2 DEF Arrive
  <1> HIDE DEF r
  <1>11. TokenOK(r)
    BY <1>5, <1>8 DEF TokenOK
  <1>12. Phase(Descend(r))
    BY <1>7, <1>8, <1>9, <1>11, DescendInside
  <1>13. UNCHANGED auth /\ lock' \subseteq Conns
    BY <1>10 DEF Call, RInv
  <1> QED
    BY <1>10, <1>12, <1>13, BecomePhase

\* The token that Authorize keeps is the one CreateUser has issued.
LEMMA ReturnPhase ==
  ASSUME RInv, NEW c \in Conns, Return(c)
  PROVE  RInv'
  <1> DEFINE r == req[c]
  <1>1. Phase(r) /\ r.step = "ended" /\ Become(c, Idle) /\ UNCHANGED <<appVars, lock>>
    BY DEF RInv, Return
  <1>2. r \in Requests /\ Ended(r)
    BY <1>1, AtTheEnd
  <1>3. r.route = "create_user" /\ Do(r) = "ok" => r.body = UserSecret
    <2>1. SUFFICES ASSUME r.route = "create_user", Do(r) = "ok" PROVE r.body = UserSecret
      OBVIOUS
    <2>2. Tells(r) /\ r.sent \in {200, 204}
      BY <1>2, <2>1, OkIsDone
    <2> QED
      BY <2>1, <2>2 DEF Tells
  <1>4. auth' \in [Conns -> Given]
    BY <1>3 DEF Return, RInv, Given
  <1>5. req' \in [Conns -> Requests] /\ \A d \in Conns : Phase(req'[d])
    BY <1>1, IdlePhase DEF Become, RInv
  <1> QED
    BY <1>1, <1>4, <1>5 DEF RInv, appVars

\* Another token is for the client's next request.
LEMMA SetAuthorizationPhase ==
  ASSUME RInv, NEW c \in Conns, SetAuthorization(c)
  PROVE  RInv'
  <1>1. auth' \in [Conns -> Given] /\ UNCHANGED <<req, lock, secret>>
    BY DEF SetAuthorization, RInv, Given, pipeVars, appVars
  <1> QED
    BY <1>1 DEF RInv

\* A step of main: requests stay, or end with the process; the key is the same again.
LEMMA MainPhase ==
  ASSUME RInv, Main, UNCHANGED auth
  PROVE  RInv'
  <1>1. secret' = UserSecret
    BY DEF Main, AppNext, MainStep, OpenDB, BuildLimiter, AuthSecret, Prepare, Fatal, Finish,
           Listen, ServeReturns, CloseNext, Exit, Signal, Start, CloseAll, RInv
  <1>2. req' \in [Conns -> Requests] /\ \A c \in Conns : Phase(req'[c])
    <2>1. CASE stage' = "exit"
      <3>1. req' = [c \in Conns |-> Idle]
        BY <2>1 DEF Main
      <3> QED
        BY <3>1, IdlePhase
    <2>2. CASE stage' # "exit"
      BY <2>2 DEF Main, RInv
    <2> QED
      BY <2>1, <2>2
  <1>3. lock' \subseteq Conns
    BY DEF Main, RInv
  <1> QED
    BY <1>1, <1>2, <1>3 DEF RInv

-----------------------------------------------------------------------------

\* At first there are no requests.
LEMMA RecordInit == CallInit => RInv
  <1> SUFFICES ASSUME CallInit PROVE RInv
    OBVIOUS
  <1>1. req = [c \in Conns |-> Idle] /\ lock = {} /\ secret = UserSecret
    BY DEF CallInit, PipeInit, AppInit
  <1>2. req \in [Conns -> Requests] /\ \A c \in Conns : Phase(req[c])
    BY <1>1, IdlePhase
  <1>3. auth \in [Conns -> Given]
    BY DEF CallInit, Given
  <1> QED
    BY <1>1, <1>2, <1>3 DEF RInv

\* No step breaks RInv.
LEMMA RecordStep == RInv /\ [CallNext]_callVars => RInv'
  <1> SUFFICES ASSUME RInv, [CallNext]_callVars PROVE RInv'
    OBVIOUS
  <1>1. CASE Main /\ UNCHANGED auth
    BY <1>1, MainPhase
  <1>2. ASSUME NEW c \in Conns, Work(c) \/ LockLog(c), UNCHANGED auth PROVE RInv'
    BY <1>2, RateLimitPhase, StorePatternPhase, AuthenticatePhase, HandlersPhase, LockLogPhase,
       PrintLinesPhase, CountPhase, RecoverPhase, LogResponsePhase DEF Work
  <1>3. ASSUME NEW c \in Conns, Call(c) \/ Return(c) \/ SetAuthorization(c) PROVE RInv'
    BY <1>3, CallPhase, ReturnPhase, SetAuthorizationPhase
  <1>4. CASE UNCHANGED callVars
    BY <1>4 DEF callVars, pipeVars, appVars, RInv
  <1> QED
    BY <1>1, <1>2, <1>3, <1>4 DEF CallNext

\* So it holds always.
LEMMA RecordInvariant == CallSpec => []RInv
  BY RecordInit, RecordStep, PTL DEF CallSpec

\* Every step keeps the state of the service and of its clients within its types.
THEOREM CallTypes == CallSpec => []CallTypeOK
  <1>1. AInv => AppTypeOK
    BY DEF AInv
  <1>2. RInv => PipeTypeOK
    BY DEF RInv, PipeTypeOK
  <1>3. RInv => auth \in [Conns -> Tokens]
    <2>1. Given \subseteq Tokens
      BY AppAssumption DEF Given, Tokens
    <2> QED
      BY <2>1 DEF RInv
  <1>4. AInv /\ RInv => CallTypeOK
    BY <1>1, <1>2, <1>3 DEF CallTypeOK
  <1> QED
    BY <1>4, ServiceIsAProcess, ProcessInductive, RecordInvariant, PTL

\* Every request that ends has been logged once, with the status the client was sent,
\* and counted once, under its pattern or among the panics; only one whose client is
\* gone escapes the log, by a second panic in WrapPanicC.
THEOREM RequestsOnRecord == CallSpec => []OnRecord
  <1>1. RInv => OnRecord
    <2> SUFFICES ASSUME RInv, NEW c \in Conns, req[c].step = "ended"
                 PROVE  LET r == req[c] IN
                          /\ r.logged = IF r.panic THEN <<>> ELSE <<r.sent>>
                          /\ r.counted = IF HasPattern(r) /\ r.panics = 0 THEN <<r.sent>> ELSE <<>>
                          /\ r.panic => r.panics = 1 /\ r.cut
      BY DEF OnRecord
    <2> DEFINE r == req[c]
    <2>1. Phase(r)
      BY DEF RInv
    <2>2. Ended(r)
      BY <2>1, AtTheEnd
    <2> HIDE DEF r
    <2>3. /\ r.logged = IF r.panic THEN <<>> ELSE <<r.sent>>
          /\ r.counted = IF HasPattern(r) /\ r.panics = 0 THEN <<r.sent>> ELSE <<>>
          /\ r.panic => r.panics = 1 /\ r.cut
      BY <2>2 DEF Ended, CountedOf, Unrecorded
    <2> QED
      BY <2>3 DEF r
  <1> QED
    BY <1>1, RecordInvariant, PTL

\* A call returns without an error only when the handler did what was asked and the
\* answer came through; any error but a lost answer, or an internal failure of a
\* writing route, means that it was not done; and UserExists says yes or no just as
\* the service did.
THEOREM ReportsTrue == CallSpec => []ReportsAreTrue
  <1>1. ASSUME NEW r, Phase(r), r.step = "ended"
        PROVE  /\ Do(r) = "ok" => r.did = "done" /\ ~r.cut
               /\ r.did = "done" => \/ Do(r) \in {"ok", "transport"}
                                    \/ Do(r) = "internal_failure" /\ r.route \in Writing
               /\ r.route = "get_user" =>
                    /\ UserExists(r) = "exists" <=> r.did = "done" /\ ~r.cut
                    /\ UserExists(r) = "absent" => r.token = Garbled /\ r.sent = 404
    <2>1. r \in Requests /\ TokenOK(r) /\ Ended(r)
      BY <1>1, AtTheEnd
    <2>2. Do(r) = "ok" => r.did = "done" /\ ~r.cut
      BY <2>1, OkIsDone
    <2>3. r.did = "done" => \/ Do(r) = "transport" /\ r.cut
                            \/ Do(r) = "ok"
                            \/ Do(r) = "internal_failure" /\ r.route \in Writing
      BY <2>1, OkIsDone
    <2>4. ASSUME r.route = "get_user", Do(r) = "ok" PROVE r.sent = 204
      <3>1. Tells(r) /\ r.sent \in {200, 204}
        BY <2>1, <2>4, OkIsDone
      <3> QED
        BY <2>4, <3>1 DEF Tells
    <2>5. ASSUME r.route = "get_user", Do(r) = "not_found" PROVE r.token = Garbled /\ r.sent = 404
      <3>1. "not_found" \in Codes
        BY DEF Codes
      <3>2. Tells(r) /\ r.sent \notin {200, 204} /\ r.body = "not_found"
        BY <2>1, <2>5, <3>1, RegisteredErrors
      <3> QED
        BY <2>1, <2>5, <3>2 DEF Tells, TokenOK, Given
    <2>6. ASSUME r.route = "get_user"
          PROVE  /\ UserExists(r) = "exists" <=> Do(r) = "ok"
                 /\ UserExists(r) = "absent" => Do(r) = "not_found"
      BY <2>4, <2>6 DEF UserExists
    <2>7. "get_user" \notin Writing
      BY DEF Writing
    <2>8. ASSUME r.route = "get_user" PROVE Do(r) = "ok" <=> r.did = "done" /\ ~r.cut
      BY <2>2, <2>3, <2>7, <2>8
    <2> QED
      BY <2>2, <2>3, <2>5, <2>6, <2>8
  <1>2. RInv => ReportsAreTrue
    BY <1>1 DEF RInv, ReportsAreTrue
  <1> QED
    BY <1>2, RecordInvariant, PTL

\* A token that was issued is good at every process started later, too: nobody who
\* sends one is told that it is missing or invalid, or that its user does not exist.
THEOREM IssuedTokensSurvive == CallSpec => []TokensSurvive
  <1>1. ASSUME NEW r, Phase(r), r.step = "ended", r.token \in Secrets
        PROVE  /\ Do(r) \notin {"auth_invalid", "bearer_auth_required"}
               /\ r.route = "get_user" => UserExists(r) # "absent"
    <2>1. r \in Requests /\ TokenOK(r) /\ Ended(r)
      BY <1>1, AtTheEnd
    <2>2. r.token = UserSecret /\ r.token # NoToken
      BY <1>1, <2>1, PipelineAssumption DEF TokenOK, Given
    <2>3. {"auth_invalid", "bearer_auth_required", "not_found"} \subseteq Codes
      BY DEF Codes
    <2>4. ASSUME NEW code \in {"auth_invalid", "bearer_auth_required"}, Do(r) = code PROVE FALSE
      <3>1. Tells(r) /\ r.sent \notin {200, 204} /\ r.body = code
        BY <2>1, <2>3, <2>4, RegisteredErrors
      <3> QED
        BY <2>2, <2>4, <3>1 DEF Tells
    <2>5. ASSUME r.route = "get_user", Do(r) = "not_found" PROVE FALSE
      <3>1. Tells(r) /\ r.sent \notin {200, 204} /\ r.body = "not_found"
        BY <2>1, <2>3, <2>5, RegisteredErrors
      <3> QED
        BY <2>2, <2>5, <3>1 DEF Tells
    <2>6. ASSUME r.route = "get_user", Do(r) = "ok" PROVE r.sent = 204
      <3>1. Tells(r) /\ r.sent \in {200, 204}
        BY <2>1, <2>6, OkIsDone
      <3> QED
        BY <2>6, <3>1 DEF Tells
    <2>7. r.route = "get_user" => UserExists(r) # "absent"
      BY <2>5, <2>6 DEF UserExists
    <2> QED
      BY <2>4, <2>7
  <1>2. RInv => TokensSurvive
    BY <1>1 DEF RInv, TokensSurvive
  <1> QED
    BY <1>2, RecordInvariant, PTL

=============================================================================
