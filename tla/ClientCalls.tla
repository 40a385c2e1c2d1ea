---------------------------- MODULE ClientCalls ----------------------------
(***************************************************************************)
(* The Go client (client/client.go) over the service of module Pipeline.    *)
(*                                                                          *)
(* Each connection belongs to a Client, which makes one call at a time: a   *)
(* call sends a request, and what the caller is told is read off the        *)
(* response alone.                                                          *)
(***************************************************************************)
EXTENDS Pipeline

VARIABLE auth  \* auth[c]: Client.auth, the token the client sends

callVars == <<pipeVars, auth>>

CallInit == AppInit /\ PipeInit /\ auth = [c \in Conns |-> NoToken]

\* The codes of the errors that are registered when the program starts.
Registered == Codes

\* UnmarshalJSON of an error body: the registered type, another error that has the
\* code and the message, or none when the body is no JSON.
Reify(body) ==
  IF body = "text" THEN "unparsed" ELSE IF body \in Registered THEN body ELSE "untyped"

\* Calls with a value to decode the response into.
WantsValue(route) == route \in {"create_user", "animals", "read", "write"}

\* Do: what it makes of a response.
Do(r) ==
  IF r.cut THEN "transport"
  ELSE IF r.sent > 399 THEN Reify(r.body)
  ELSE IF r.sent > 299 \/ r.sent < 199 THEN "unexpected"
  ELSE IF WantsValue(r.route) /\ r.body = "none" THEN "unparsed" ELSE "ok"

\* Variant: any error is taken for an absent user.
UserExistsHasty(r) == IF Do(r) = "ok" /\ r.sent = 204 THEN "exists" ELSE "absent"

\* UserExists: no error, and the answer.
UserExists(r) ==
  CASE Do(r) = "not_found" -> "absent"
    [] Do(r) = "ok" -> IF r.sent = 204 THEN "exists" ELSE "absent"
    [] OTHER -> "error"

\* NewRequest and the request's arrival.  CreateUser does not look at the token it
\* is sent; UserExists asks about the client's own user or about something else.
Sends(c, route) ==
  CASE route \in Private      -> {auth[c]}
    [] route = "create_user" -> {NoToken}
    [] route = "get_user"    -> {auth[c], Garbled} \ {NoToken}

Call(c) ==
  /\ UNCHANGED auth
  /\ \E route \in Calls[c] : \E token \in Sends(c, route) : Arrive(c, route, token)

\* A client with a use for a token; the others are there to compete.
Authorizes(c) == Calls[c] \cap Private # {}

\* Variant: Authorize keeps what it is sent, also in an answer that is an error.
ReturnHasty(c) ==
  /\ req[c].step = "ended"
  /\ Become(c, Idle) /\ UNCHANGED <<appVars, lock>>
  /\ \/ /\ req[c].route = "create_user" /\ Authorizes(c)
        /\ auth' = [auth EXCEPT ![c] = req[c].body]
     \/ UNCHANGED auth

\* The response arrives, or is lost.  Authorize keeps the token it was given,
\* CreateUser does not.
Return(c) ==
  /\ req[c].step = "ended"
  /\ Become(c, Idle) /\ UNCHANGED <<appVars, lock>>
  /\ \/ /\ req[c].route = "create_user" /\ Do(req[c]) = "ok" /\ Authorizes(c)
        /\ auth' = [auth EXCEPT ![c] = req[c].body]
     \/ UNCHANGED auth

\* SetAuthorization with a string from elsewhere.
SetAuthorization(c) ==
  /\ req[c] = Idle /\ Authorizes(c)
  /\ auth' = [auth EXCEPT ![c] = Garbled]
  /\ UNCHANGED pipeVars

CallNext ==
  \/ Main /\ UNCHANGED auth
  \/ \E c \in Conns : \/ (Work(c) \/ LockLog(c)) /\ UNCHANGED auth
                      \/ Call(c) \/ Return(c) \/ SetAuthorization(c)

\* A goroutine that can run does, and the mutex is not kept from one that waits.
CallSpec ==
  /\ CallInit /\ [][CallNext]_callVars
  /\ \A c \in Conns : WF_callVars(Work(c) /\ UNCHANGED auth) /\ SF_callVars(LockLog(c) /\ UNCHANGED auth)

-----------------------------------------------------------------------------
(* Properties *)

CallTypeOK == AppTypeOK /\ PipeTypeOK /\ auth \in [Conns -> Tokens]

\* A call returns without an error only when the handler did what was asked and its
\* answer came through: not after a 404 followed by a 204, a rejection in plain text,
\* a panic after the header, or a handler on a closed database.  What was done is
\* reported as an error only when the answer is lost, or as an internal failure when
\* a write has committed and its result is lost or cannot be rendered; every other
\* error means that it was not done.  And UserExists says yes just when it was found,
\* and no only when the service said so, not when it was too busy.
ReportsAreTrue ==
  \A c \in Conns : LET r == req[c] IN
    r.step = "ended" =>
      /\ Do(r) = "ok" => r.did = "done" /\ ~r.cut
      /\ r.did = "done" => \/ Do(r) \in {"ok", "transport"}
                           \/ Do(r) = "internal_failure" /\ r.route \in Writing
      /\ r.route = "get_user" =>
           /\ UserExists(r) = "exists" <=> r.did = "done" /\ ~r.cut
           /\ UserExists(r) = "absent" => r.token = Garbled /\ r.sent = 404

\* A token the service has issued stays good, also for a process started later:
\* nobody who authorized is told that authorization is missing or invalid, or that
\* the user does not exist.
TokensSurvive ==
  \A c \in Conns : LET r == req[c] IN
    r.step = "ended" /\ r.token \in Secrets =>
      /\ Do(r) \notin {"auth_invalid", "bearer_auth_required"}
      /\ r.route = "get_user" => UserExists(r) # "absent"

=============================================================================
