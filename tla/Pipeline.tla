------------------------------ MODULE Pipeline ------------------------------
(***************************************************************************)
(* Requests on their way through the wrappers of app.New: package reqlog    *)
(* logs them, respond catches panics, metrics counts them, the limiter      *)
(* rejects some, auth demands a token, a handler answers.                   *)
(*                                                                          *)
(* Each connection has a goroutine that works on one request.  It descends  *)
(* a chain of wrappers to a handler and unwinds again, by returning or by   *)
(* panicking.  The handlers of package say are abstracted to the shapes of  *)
(* their answers; module Say has what they do to the tables.                *)
(***************************************************************************)
EXTENDS App, FiniteSetsExt

CONSTANTS
  Conns,    \* connections
  Calls,    \* Calls[c]: the routes connection c uses, a bound on the environment
  NoToken,  \* no Authorization header
  Garbled   \* a string that is no token of this service

ASSUME PipelineAssumption ==
  /\ NoToken \notin Secrets /\ Garbled \notin Secrets /\ NoToken # Garbled
  /\ "none" \notin Secrets   \* a token is a body, not the lack of one

VARIABLES
  req,  \* req[c]: the request on connection c
  lock  \* the connection whose goroutine holds logMutex, if any

pipeVars == <<appVars, req, lock>>

\* A token is an id and its MAC; what matters of it is the key of the MAC.
Tokens == Secrets \cup {NoToken, Garbled}

\* The routes that change the tables: those that create and update, and the DELETEs.
Writing == {"write", "remove"}

\* The routes of the private mux: the list of animals, the others that only read, the
\* writing ones, and the paths it has no pattern for.
Private == {"animals", "read", "unmatched"} \cup Writing
Routes == {"create_user", "get_user"} \cup Private

ASSUME CallsAssumption == \A c \in Conns : Calls[c] \subseteq Routes

Codes == {"bearer_auth_required", "auth_invalid", "not_found", "invalid_params",
          "internal_failure"}

Steps == {"idle", "entering", "handling", "logging", "printing", "leaving", "ended"}
Depths == 0..7
Outcomes == {"nothing", "done", "refused", "failed"}
Statuses == {0, 200, 204, 400, 401, 404, 429, 500}
Bodies == {"none", "data", "text"} \cup Codes \cup Secrets
Records == Seq(Statuses)

Requests ==
  [step : Steps, depth : Depths, route : Routes, token : Tokens,
   user : BOOLEAN,     \* auth.User is in the context
   pattern : BOOLEAN,  \* WrapSubmuxC has stored a pattern
   panic : BOOLEAN, panics : 0..1,     \* unwinding by a panic; counted panics
   did : Outcomes,                     \* what the handler has done of what was asked
   sent : Statuses, body : Bodies,     \* status line, 0 for none yet, and body
   cut : BOOLEAN,                      \* a write failed: the client is gone
   logged : Records, counted : Records]  \* statuses in the log and the metrics

Idle ==
  [step |-> "idle", depth |-> 0, route |-> "unmatched", token |-> NoToken,
   user |-> FALSE, pattern |-> FALSE, panic |-> FALSE, panics |-> 0,
   did |-> "nothing", sent |-> 0, body |-> "none", cut |-> FALSE,
   logged |-> <<>>, counted |-> <<>>]

PipeInit == req = [c \in Conns |-> Idle] /\ lock = {}

-----------------------------------------------------------------------------
(* The chain of wrappers *)

\* Variant: panics are caught outside the request log.
MainChainSwapped == <<"respond", "reqlog", "metrics", "limiter">>

\* The wrappers of mainMux and of privMux, outermost first.
MainChain == <<"reqlog", "respond", "metrics", "limiter">>

PrivChain == <<"submux", "auth">>

Chain(r) == IF r.route \in Private THEN MainChain \o PrivChain ELSE MainChain

HandlerDepth(r) == Len(Chain(r)) + 1

\* Wrappers that act before they call the inner handler, and those that act when
\* it has returned; a panic passes all but WrapPanicC by.
OnEntry == {"limiter", "submux", "auth"}
OnReturn(r) == IF r.panic THEN {"respond"} ELSE {"reqlog", "metrics"}

\* The next wrapper to act on the way in, or the handler; on the way out, or 0.
NextIn(r) ==
  Min({d \in r.depth + 1 .. Len(Chain(r)) : Chain(r)[d] \in OnEntry} \cup {HandlerDepth(r)})
NextOut(r) ==
  Max({d \in 1 .. r.depth - 1 : Chain(r)[d] \in OnReturn(r)} \cup {0})

\* The request as it reaches the next wrapper, or the handler, on its way in.
Descend(r) ==
  [r EXCEPT !.depth = NextIn(r),
            !.step = IF NextIn(r) = HandlerDepth(r) THEN "handling" ELSE "entering"]

\* The request as it goes back to the next wrapper, or out of the chain.  A panic
\* that no wrapper recovers is net/http's, which drops the connection.
Ascend(r) ==
  [r EXCEPT !.depth = NextOut(r),
            !.step = IF NextOut(r) = 0 THEN "ended" ELSE "leaving",
            !.cut = @ \/ (r.panic /\ NextOut(r) = 0)]

Panic(r) == Ascend([r EXCEPT !.panic = TRUE])

-----------------------------------------------------------------------------
(* Package respond *)

\* Only the first WriteHeader of a response counts, for the client and for the
\* writers that metrics and reqlog put around it.
WriteHeader(r, status) == [r EXCEPT !.sent = IF @ = 0 THEN status ELSE @]

\* Data: the status, then the body.  When the client is gone, the write fails with
\* a broken pipe, which is noted, or with another error, which is a panic.
Data(r, status, body) ==
  LET headed == WriteHeader(r, status)
      cut == [headed EXCEPT !.cut = TRUE]
  IN {Ascend(cut), Panic(cut)}
       \cup (IF r.cut THEN {} ELSE {Ascend([headed EXCEPT !.body = body])})

\* UserError: its code tells the client which type of error it was.
UserError(r, status, code) == Data(r, status, code)

NotFound(r) == UserError(r, 404, "not_found")

\* logError, and UserError once the lines are printed (see PrintLines).  It says nothing
\* of what the handler had done before.
InternalError(r) == [r EXCEPT !.step = "logging"]

\* http.Error and http.NotFound of the libraries: text, and no word of a failed write,
\* be the client there or gone.
PlainText(r, status) ==
  {Ascend([WriteHeader(r, status) EXCEPT !.body = "text", !.did = "refused", !.cut = gone]) :
     gone \in BOOLEAN}

-----------------------------------------------------------------------------
(* On the way in *)

Become(c, r) == req' = [req EXCEPT ![c] = r]
Advances(c, step) == req[c].step = step /\ UNCHANGED appVars

Enters(c, wrapper) ==
  /\ Advances(c, "entering") /\ UNCHANGED lock
  /\ Chain(req[c])[req[c].depth] = wrapper

\* A request for a route, carrying a token in its header or, for get_user, its path.
Arrive(c, route, token) ==
  /\ stage = "serve"
  /\ req[c] = Idle
  /\ Become(c, Descend([Idle EXCEPT !.route = route, !.token = token]))
  /\ UNCHANGED <<appVars, lock>>

\* Variant: without a limiter there is no limit.
RateLimitOptional(c) ==
  /\ Enters(c, "limiter")
  /\ \/ Become(c, Descend(req[c]))
     \/ limiter = "good" /\ \E r \in PlainText(req[c], 429) : Become(c, r)

\* HTTPRateLimiter.RateLimit.  A nil limiter is dereferenced.
RateLimit(c) ==
  /\ Enters(c, "limiter")
  /\ IF limiter = "nil" THEN Become(c, Panic([req[c] EXCEPT !.did = "failed"]))
     ELSE \/ Become(c, Descend(req[c]))
          \/ \E r \in PlainText(req[c], 429) : Become(c, r)

\* WrapSubmuxC stores the pattern the private mux has matched, if any.
StorePattern(c) ==
  /\ Enters(c, "submux")
  /\ Become(c, Descend([req[c] EXCEPT !.pattern = req[c].route # "unmatched"]))

\* Controller.getUser: the MAC in the token is the one this process would make.
getUser(token) == token = secret

\* Controller.WrapC.
Authenticate(c) ==
  /\ Enters(c, "auth")
  /\ LET r == req[c]
         refused == [r EXCEPT !.did = "refused"]
     IN \/ /\ r.token = NoToken
           /\ \E a \in UserError(refused, 401, "bearer_auth_required") : Become(c, a)
        \/ /\ r.token # NoToken /\ ~getUser(r.token)
           /\ \E a \in UserError(refused, 401, "auth_invalid") : Become(c, a)
        \/ /\ getUser(r.token)
           /\ Become(c, Descend([r EXCEPT !.user = TRUE]))

-----------------------------------------------------------------------------
(* Handlers *)

Handles(c, route) ==
  /\ Advances(c, "handling") /\ UNCHANGED lock
  /\ req[c].route = route

Done(r) == [r EXCEPT !.did = "done"]
Refused(r) == [r EXCEPT !.did = "refused"]
Failed(r) == [r EXCEPT !.did = "failed"]

\* A status line alone, with no word of a failed write either.
NoContent(r) == {Ascend([WriteHeader(r, 204) EXCEPT !.cut = gone]) : gone \in BOOLEAN}

\* Controller.CreateUser: the body is a new token.  The source of random ids may fail.
CreateUser(c) ==
  /\ Handles(c, "create_user")
  /\ \/ \E r \in Data(Done(req[c]), 200, secret) : Become(c, r)
     \/ Become(c, InternalError(Failed(req[c])))

\* Controller.GetUser looks at the token in the path.
GetUser(c) ==
  /\ Handles(c, "get_user")
  /\ \E r \in IF getUser(req[c].token) THEN NoContent(Done(req[c]))
                                       ELSE NotFound(Refused(req[c])) : Become(c, r)

\* The mux has no handler for the path.
Unmatched(c) ==
  /\ Handles(c, "unmatched")
  /\ \E r \in PlainText(req[c], 404) : Become(c, r)

\* The user of a handler of package say; without one it panics.
mustUserID(r) == r.user

\* What every handler of package say may come to: a statement that fails and leaves
\* the tables as they were, as each one does when the database has been closed.
Fails(c) ==
  LET r == Failed(req[c]) IN
    IF mustUserID(r) THEN Become(c, InternalError(r)) ELSE Become(c, Panic(r))

\* And what a handler that writes may come to: its write has committed, and then its
\* result is lost on the way, or the new line cannot be rendered.
Unacknowledged(c) ==
  /\ mustUserID(req[c]) /\ DB \in open
  /\ Become(c, InternalError(Done(req[c])))

\* Validation, and the rules about built-in moods (action_not_allowed, also a 400):
\* no statement is needed to refuse.
Rejections(r) == UserError(Refused(r), 400, "invalid_params")

\* GetAnimals.
Animals(c) ==
  /\ Handles(c, "animals")
  /\ \E r \in Data(Done(req[c]), 200, "data") : Become(c, r)

\* The handlers that only read.  A listing panics on an empty page.
ReadRows(c) ==
  /\ Handles(c, "read")
  /\ \/ /\ mustUserID(req[c])
        /\ \E r \in Rejections(req[c]) : Become(c, r)
     \/ /\ mustUserID(req[c]) /\ DB \in open
        /\ \/ \E r \in Data(Done(req[c]), 200, "data") \cup NotFound(Refused(req[c])) : Become(c, r)
           \/ Become(c, Panic(Failed(req[c])))
     \/ Fails(c)

\* SetMood, CreateConversation and CreateLine, which answer with what they have
\* written.  None finds that something is missing (CreateLine's test for it is dead).
WriteRows(c) ==
  /\ Handles(c, "write")
  /\ \/ /\ mustUserID(req[c])
        /\ \E r \in Rejections(req[c]) : Become(c, r)
     \/ /\ mustUserID(req[c]) /\ DB \in open
        /\ \E r \in Data(Done(req[c]), 200, "data") : Become(c, r)
     \/ Unacknowledged(c) \/ Fails(c)

\* The handlers that delete.  DeleteConversation and DeleteLine go on after NotFound
\* and write a second header; DeleteMood returns.
DeleteRows(c) ==
  /\ Handles(c, "remove")
  /\ \/ /\ mustUserID(req[c])
        /\ \E r \in Rejections(req[c]) : Become(c, r)
     \/ /\ mustUserID(req[c]) /\ DB \in open
        /\ \/ \E r \in NoContent(Done(req[c])) \cup NotFound(Refused(req[c])) : Become(c, r)
           \/ \E r \in NotFound(Refused(req[c])) :
                Become(c, IF r.panic THEN r ELSE WriteHeader(r, 204))
     \/ Unacknowledged(c) \/ Fails(c)

-----------------------------------------------------------------------------
(* On the way out *)

\* logError prints the lines of one error together.
LockLog(c) ==
  /\ Advances(c, "logging")
  /\ lock = {} /\ lock' = {c}
  /\ Become(c, [req[c] EXCEPT !.step = "printing"])

\* Variant: logMutex is not unlocked.
PrintLinesLocked(c) ==
  /\ Advances(c, "printing") /\ UNCHANGED lock
  /\ \E r \in UserError(req[c], 500, "internal_failure") : Become(c, r)

\* The lines, the deferred Unlock, and the answer of InternalError or WrapPanicC.
PrintLines(c) ==
  /\ Advances(c, "printing") /\ lock' = lock \ {c}
  /\ \E r \in UserError(req[c], 500, "internal_failure") : Become(c, r)

Returns(c, wrapper) ==
  /\ Advances(c, "leaving") /\ UNCHANGED lock
  /\ Chain(req[c])[req[c].depth] = wrapper

\* The pattern metrics.WrapC can name: the outer "/*" alone comes out empty.
HasPattern(r) == r.route \notin Private \/ r.pattern

\* metrics.WrapC: one more request, and one more response of this status.
Count(c) ==
  /\ Returns(c, "metrics")
  /\ LET r == req[c] IN
       Become(c, Ascend([r EXCEPT !.counted = IF HasPattern(r) THEN Append(@, r.sent) ELSE @]))

\* WrapPanicC counts the panic and answers, whatever has been answered before.
Recover(c) ==
  /\ Returns(c, "respond")
  /\ Become(c, [req[c] EXCEPT !.step = "logging", !.panic = FALSE, !.panics = @ + 1])

\* reqlog.WrapC: the event http_response.
LogResponse(c) ==
  /\ Returns(c, "reqlog")
  /\ Become(c, Ascend([req[c] EXCEPT !.logged = Append(@, req[c].sent)]))

-----------------------------------------------------------------------------

\* What the goroutine of connection c does, except wait for the mutex.
Work(c) ==
  \/ RateLimit(c) \/ StorePattern(c) \/ Authenticate(c)
  \/ CreateUser(c) \/ GetUser(c) \/ Unmatched(c) \/ Animals(c)
  \/ ReadRows(c) \/ WriteRows(c) \/ DeleteRows(c)
  \/ PrintLines(c) \/ Count(c) \/ Recover(c) \/ LogResponse(c)

\* The requests of a process end with it.
Main ==
  /\ AppNext
  /\ IF stage' = "exit" THEN req' = [c \in Conns |-> Idle] /\ lock' = {}
                        ELSE UNCHANGED <<req, lock>>

-----------------------------------------------------------------------------
(* Properties *)

PipeTypeOK ==
  /\ \A c \in Conns : req[c] \in Requests
  /\ lock \in SUBSET Conns

\* A handler runs only behind a working limiter, and a private one only for the
\* user its token stands for: a limiter that could not be built, and whose error
\* was lost, lets nothing through.
HandlersGuarded ==
  \A c \in Conns : LET r == req[c] IN
    r.step = "handling" =>
      /\ limiter = "good"
      /\ r.route \in Private => r.user /\ r.token = UserSecret

\* Every request that comes to its end is on record: logged once with the status
\* the client was sent, and counted once, under its pattern if it has one or among
\* the panics.  Only a request whose client is gone can escape the log, by a
\* second panic in WrapPanicC.
OnRecord ==
  \A c \in Conns : LET r == req[c] IN
    r.step = "ended" =>
      /\ r.logged = IF r.panic THEN <<>> ELSE <<r.sent>>
      /\ r.counted = IF HasPattern(r) /\ r.panics = 0 THEN <<r.sent>> ELSE <<>>
      /\ r.panic => r.panics = 1 /\ r.cut

\* Every request that arrives leaves the chain, or dies with the process.
EveryRequestEnds == \A c \in Conns : req[c] # Idle ~> req[c].step \in {"ended", "idle"}

=============================================================================
