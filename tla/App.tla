-------------------------------- MODULE App --------------------------------
(***************************************************************************)
(* The life of the process: app.New builds the App one resource at a time,  *)
(* main serves until it is told to stop, and App.Close releases what New    *)
(* acquired (app/app.go, saypi.go).                                         *)
(*                                                                          *)
(* A resource is the database handle or a prepared statement.  The router   *)
(* and the wrappers that New puts together are in module Pipeline.          *)
(***************************************************************************)
EXTENDS Naturals, Sequences

CONSTANTS
  NumStatements,  \* how many statements newRepository prepares
  Secrets,        \* keys a token can be signed with
  UserSecret      \* Configuration.UserSecret, the same at every start

ASSUME AppAssumption == NumStatements \in Nat \ {0} /\ UserSecret \in Secrets

VARIABLES
  stage,    \* where main is
  open,     \* the resources that are open
  closers,  \* App.closers: the database, then the controller of package say
  closing,  \* the resources closeAll has still to close
  limiter,  \* the rate limiter: "good", or "nil" when it could not be built
  secret,   \* Controller.secret of package auth
  fate,     \* how the process ends: "failed" in New, "told" to stop, "fatal"
  leaked    \* a Close has returned an error

appVars == <<stage, open, closers, closing, limiter, secret, fate, leaked>>

DB == 0
Stmts == 1..NumStatements
Everything == {DB} \cup Stmts

Stages == {"build_db", "build_limiter", "prepare", "listen", "serve", "stop", "close", "exit"}

AppInit ==
  /\ stage = "build_db"
  /\ open = {} /\ closers = <<>> /\ closing = <<>>
  /\ limiter = "nil" /\ secret = UserSecret
  /\ fate = "running" /\ leaked = FALSE

\* What the i-th closer closes, if there is one: the controller closes the
\* statements of its repository in the order they were prepared in.
ClosedBy(i) ==
  IF i \notin DOMAIN closers THEN <<>>
  ELSE IF closers[i] = "db" THEN <<DB>> ELSE [s \in Stmts |-> s]

\* closeAll over the closers there are, two at most.
CloseAll(why) ==
  /\ stage' = "close" /\ fate' = why
  /\ closing' = ClosedBy(1) \o ClosedBy(2)

\* Variant: the database is not handed to closeAll.
OpenDBForgets ==
  /\ stage = "build_db"
  /\ stage' = "build_limiter" /\ open' = {DB} /\ closers' = <<>>
  /\ UNCHANGED <<closing, limiter, secret, fate, leaked>>

\* buildDB opens a handle, which needs no connection yet; only a data source
\* name that cannot be parsed makes it fail, and then there is nothing to close.
OpenDB ==
  /\ stage = "build_db"
  /\ \/ /\ stage' = "build_limiter"
        /\ open' = {DB} /\ closers' = <<"db">>
        /\ UNCHANGED <<closing, fate>>
     \/ /\ CloseAll("failed")
        /\ UNCHANGED <<open, closers>>
  /\ UNCHANGED <<limiter, secret, leaked>>

\* Variant: a fresh key for each process.
AuthSecretFresh == Secrets

\* The key tokens are signed with.
AuthSecret == {UserSecret}

\* buildLimiter and auth.New.  The error of the first lands in the variable that
\* the second assigns, which is looked at only then: New goes on without a limiter.
BuildLimiter ==
  /\ stage = "build_limiter"
  /\ limiter' \in {"good", "nil"}
  /\ secret' \in AuthSecret
  /\ stage' = "prepare"
  /\ UNCHANGED <<open, closers, closing, fate, leaked>>

\* newRepository: one statement after the other.  When the database refuses one,
\* or say.New cannot load a picture later, those prepared are left to the database
\* handle, which New closes.
Prepare ==
  /\ stage = "prepare"
  /\ \/ /\ \E s \in Stmts : open = DB .. s - 1 /\ open' = DB .. s
        /\ UNCHANGED <<stage, closers, closing, fate>>
     \/ CloseAll("failed") /\ UNCHANGED <<open, closers>>
  /\ UNCHANGED <<limiter, secret, leaked>>

\* The end of say.New and of New.
Finish ==
  /\ stage = "prepare" /\ open = Everything
  /\ stage' = "listen" /\ closers' = Append(closers, "say")
  /\ UNCHANGED <<open, closing, limiter, secret, fate, leaked>>

Listen ==
  /\ stage = "listen" /\ stage' = "serve"
  /\ UNCHANGED <<open, closers, closing, limiter, secret, fate, leaked>>

\* log.Fatalf: the port is taken, or Serve fails.  It exits without running the
\* deferred Close.
Fatal ==
  /\ stage \in {"listen", "serve"}
  /\ stage' = "exit" /\ fate' = "fatal"
  /\ UNCHANGED <<open, closers, closing, limiter, secret, leaked>>

\* graceful closes the listener when a signal arrives.
Signal ==
  /\ stage = "serve" /\ stage' = "stop"
  /\ UNCHANGED <<open, closers, closing, limiter, secret, fate, leaked>>

\* graceful.Serve returns, and main runs the deferred Close.  Requests may still
\* be running: main does not wait for them, and the grace period has an end.
ServeReturns ==
  /\ stage = "stop"
  /\ CloseAll("told")
  /\ UNCHANGED <<open, closers, limiter, secret, leaked>>

\* One resource of closeAll; an error is where it stops.
CloseNext ==
  /\ stage = "close" /\ closing # <<>>
  /\ \/ /\ open' = open \ {Head(closing)}
        /\ closing' = Tail(closing)
        /\ UNCHANGED leaked
     \/ /\ closing' = <<>> /\ leaked' = TRUE
        /\ UNCHANGED open
  /\ UNCHANGED <<stage, closers, limiter, secret, fate>>

\* The end of main, or its log.Fatalf when New has failed.
Exit ==
  /\ stage = "close" /\ closing = <<>>
  /\ stage' = "exit"
  /\ UNCHANGED <<open, closers, closing, limiter, secret, fate, leaked>>

\* Somebody starts the program again, with the same configuration.
Start ==
  /\ stage = "exit"
  /\ stage' = "build_db"
  /\ open' = {} /\ closers' = <<>> /\ closing' = <<>>
  /\ limiter' = "nil" /\ fate' = "running" /\ leaked' = FALSE
  /\ UNCHANGED secret

\* What main does of its own accord.
MainStep ==
  \/ OpenDB \/ BuildLimiter \/ Prepare \/ Finish \/ Listen
  \/ ServeReturns \/ CloseNext \/ Exit

AppNext == MainStep \/ Fatal \/ Signal \/ Start

AppSpec == AppInit /\ [][AppNext]_appVars

-----------------------------------------------------------------------------
(* Properties *)

AppTypeOK ==
  /\ stage \in Stages
  /\ open \subseteq Everything
  /\ closers \in {<<>>, <<"db">>, <<"db", "say">>}
  /\ closing \in Seq(Everything)
  /\ limiter \in {"good", "nil"} /\ secret \in Secrets
  /\ fate \in {"running", "failed", "told", "fatal"} /\ leaked \in BOOLEAN

\* Whoever serves has the database and every statement.  A process told to stop
\* ends with nothing open, and one whose New failed ends with the database
\* closed, so that the statements prepared on it are void; unless a Close failed.
\* Failures in the middle of New, and closeAll over what there is by then.
ResourcesHeld ==
  /\ stage \in {"listen", "serve", "stop"} => open = Everything
  /\ stage = "exit" /\ ~leaked =>
       /\ fate = "told" => open = {}
       /\ fate = "failed" => DB \notin open

=============================================================================
