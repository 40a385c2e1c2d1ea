# saypi: specifications and proofs

saypi is an HTTP service in Go that keeps, for each user, moods (a name, eyes and
a tongue for a cow) and conversations made of lines, in three PostgreSQL tables.
This directory holds TLA+ models of it, the TLC configurations that check them
and TLAPS proofs of what they check. `PROJECT.json` lists the runs, the findings, the
hazards the properties are aimed at, and which lines each definition models.

## The system

| Part | Source | State | Operations |
|---|---|---|---|
| tables and statements | `schema.sql`, `say/repository.go` (constants) | `moods`, `conversations`, `lines`, their sequences | 15 prepared statements |
| repository and controller | `say/repository.go`, `say/say.go` | none but the tables; local variables of each request | get, set, delete moods; create, get, delete conversations and lines; two listings |
| client iterator | `client/iter.go` | the page in hand, the cursors, `hasMore`, `err` | `Next`, `getPage` |
| HTTP client | `client/client.go` | a token, a base URL | one call per route |
| authentication | `auth/auth.go` | a secret | create and check self-contained tokens |
| middleware | `reqlog`, `metrics`, `respond` | a request-id counter, a log mutex, a metrics backend | wrap each request; answer data, user errors, panics |
| construction and shutdown | `app/app.go`, `saypi.go` | the list of closers | `New`, `Close`, graceful serve |
| cow rendering | `say/cowsay.go` | none | fill a template, draw a balloon |
| user errors | `usererrors` | a registry filled by `init` | JSON encoding by type name |
| database utilities | `dbutil` | none | test databases, statement splitter |

Each HTTP request runs in its own goroutine. Handlers share nothing but the
database, take no lock and **open no transaction**: a handler runs one statement,
keeps what it learnt in local variables, and may run another. What makes the
code hard to test is what other requests do between two statements of one:

* `SetMood` is an upsert in one statement that is not atomic (`TODO: Racy upsert`).
* `CreateLine` reads the mood, then the conversation, then inserts a row with the
  two ids it read, retrying while its random public id collides.
* `GetConversation` reads the lines by a serial id found before.
* `DeleteMood` relies on a foreign key, and looks for the culprits afterwards.
* A listing looks its cursor up in one statement and reads the page in another;
  `ListMoods` glues a page from the user's rows and the built-in moods.
* A statement can commit although the handler is told it failed; the process can
  stop between any two.

Around the handlers, each request passes a chain of wrappers (request log, panic
recovery, metrics, rate limiter, and for most routes authentication), which unwinds
by return or by panic. Hard to test there:

* a panic skips the wrappers it passes; a handler may answer twice; a client may be
  gone when it is answered, and the answer to that panics as well;
* all requests share the mutex of the error log;
* `New` can fail half way, and loses the error of the rate limiter; `main` closes the
  database while requests may still run; `log.Fatalf` closes nothing;
* a client has the response alone to tell what happened, and tokens that must be good
  after a restart.

Two algorithms depend on what Go or the operating system leaves open: the order of a
map (`cowText`) and the chunks a file is read in (`scanStmts`).

What correctness means, part by part:

* tables: every line has its conversation and a mood that can be resolved; a user
  has one mood per name, and none that hides a built-in one;
* handlers: an id carried over a statement still means the row it was read from;
  requests touch rows of their own user only; a response tells what happened;
  together they change the tables as a store with atomic operations would; each one is
  answered;
* listings: a page is a contiguous piece of the list no longer than the limit; a
  walk repeats nothing and misses nothing that stayed;
* iterator: ends, and has visited what was in the list all along, also when the list changes
  between its pages;
* process: holds its resources while it serves, gives them back when it ends;
* chain: nothing is handled unguarded, every request ends, and is on record once;
* client: reports success only when the handler did what was asked, an error after it was
  done only when the result was lost, and an answer about a user only when the service
  gave it; its token outlives the process;
* texts: independent of order and chunks.

## Modules

| Module | What it is |
|---|---|
| `Schema` | the tables and the statements of `repository.go`, one operator per prepared statement, under its Go name |
| `Say` | the handlers as sequences of statements, and their properties |
| `SayStore` | the abstract store: how moods, conversations and lines may change, by atomic operations |
| `SayProofs` | theorems about `Say`: its invariants, what its steps do and its responses say |
| `SayStoreProofs` | the proof that `Say` implements `SayStore` |
| `Listing` | the two listings and a client that walks them |
| `ClientIter` | the Go client's iterator over `Listing` |
| `ListingProofs` | theorems about `Listing` and `ClientIter` |
| `App` | the life of the process: construction, serving, shutdown, restart |
| `AppProofs` | theorems about `App` |
| `Pipeline` | requests in the chain of wrappers of that process |
| `ClientCalls` | Go clients calling it |
| `GuardProofs` | theorems about `ClientCalls`: the process while it is called, and what a handler can count on |
| `RecordProofs` | theorems about `ClientCalls`: what becomes of a request, and what its client is told |
| `SplitStatements` | `readSQL` and its split function |
| `SplitProofs` | theorems about `SplitStatements` |
| `Cow` | the replacement of placeholders in a picture |
| `CowProofs` | theorems about `Cow` |
| `MCSay`, `MCListing`, `MCClientIter`, `MCClientCalls`, `MCText` | instances for TLC |

`Say` EXTENDS `Schema`; `ClientIter` EXTENDS `Listing`; `Say` refines `SayStore`
through the instance `Store`. `ClientCalls` EXTENDS `Pipeline`, which EXTENDS `App`: one
specification of clients, requests and process together. `MCText` puts
`SplitStatements` and `Cow`, which have nothing to do with each other, into one
instance that does one job at a time.

### Schema

A table is a set of rows. `moods` rows have `id`, `user`, `name` and `look` (eyes
and tongue as one value); `convos` rows `id`, `pub` (the random public id) and
`user`; `lines` rows `pub`, the foreign keys `convo` and `mood` (0 for NULL) and
`name` (`mood_name` as its author spelled it). `moodSerial` and `convoSerial` are
the sequences behind `id SERIAL`; a failed INSERT spends a value too. `Lower` is
SQL `lower()`; the model assumes that `strings.EqualFold`, which the built-ins are
compared with, folds letters alike, which holds for the letters of their names in ASCII.

`setMood` is two operators, `updateMood` and `insertMood`, because its CTE is not
atomic: the INSERT half runs when the UPDATE half has found nothing, and another
request may commit in between. Every other statement is atomic in PostgreSQL's
READ COMMITTED, as one row is concerned and the unique indexes and foreign keys
serialise the rest. A foreign key refuses an insert when the row it names is gone
(`ForeignKeysHold`), and a delete when a line needs the row (`MoodInUse`).

### Say

`task[h]` says what handler goroutine `h` is in the middle of: the statement it is
about to run, and the local variables the rest of it needs. The first statement of
a request is taken with its arrival; each later one is an action:

| Request | Actions | Code |
|---|---|---|
| PUT /moods/:mood | `SetMood`, `SetMoodInsert` | `SetMood` |
| DELETE /moods/:mood | `DeleteMood`, `DeleteMoodConflict` | `DeleteMood` |
| GET /moods/:mood | `GetMood` | `GetMood` |
| POST /conversations | `CreateConversation`, `CreateConversationInsert` (per attempt) | `CreateConversation`, `NewConversation` |
| GET /conversations/:c | `GetConversation`, `GetConversationLines` | `GetConversation` |
| DELETE /conversations/:c | `DeleteConversation` | `DeleteConversation` |
| POST .../lines | `CreateLine`, `CreateLineFind`, `CreateLineInsert` (per attempt) | `CreateLine`, `InsertLine` |
| GET .../lines/:l | `GetLine` | `GetLine` |
| DELETE .../lines/:l | `DeleteLine` | `DeleteLine` |

`answered` holds the response the latest step sent: operation, status, user, and
the ids of the lines it shows or counts. `DbFails` is any statement that fails
without effect; `Acked` the one whose success is lost on its way back; `Restart`
the end of the process, by a crash or after the grace period.

Validation that reads nothing (lengths, `think`, `animal`) is one Boolean. A status
is the first one written: `DeleteConversation` and `DeleteLine` write 204 after a
404, which `net/http` drops. Rendering a cow does not fail for an animal that has
been checked. A form that does not decode is answered 500 like a failed statement.

### SayStore

Sets of moods, conversations and lines without ids or handlers. `Say` maps its
rows to them by forgetting serial ids. A line of the store names its mood and its
conversation, and `Speak` and `DropMood` demand at one instant what the code
establishes over several statements. It has no responses: GetConversation, say, may
answer 200 without lines for a conversation that is deleted between its two statements,
which no state of the store shows. What responses say is `AnswersTellTruth`'s matter.

### Listing

One user. Rows carry their serial ids; built-in moods are rows beyond `MaxId`, as
the ascending list shows them last. `FindCursor` and `ReadPage` are the two
statements of a page; `BeginInsert` and `CommitInsert` split an INSERT where the
id is drawn, so that rows appear in another order than their ids. `seen` and
`owed` in `walk` are history: what the walk has shown, and what it must still show
because it was there from the start. When a mood is deleted and another takes its
name, a cursor naming it moves; the code gives no promise across such a move, and
the history starts afresh there. Nothing here would notice an item that such a move
repeats or skips. `StatementFails` ends a walk with 500, as each statement may where
`DbMayFail` says so.

### ClientIter

`it` is the `Iter`. `Understood` is what the service finds in the parameters the
client encodes, which is nothing: the two disagree about every name. A page without
a cursor is read by one statement, so `GetPage` is one step; a request may fail for
reasons of its own, and the iteration has then ended with an error. It starts with any
of the two cursors given, or none.

### App

`stage` is where `main` is. `open` holds what is open, the database (0) and the
statements in the order they were prepared in (Go ranges over a map, so the order
is any); `closers` is `App.closers`, `closing` what `closeAll` has still to close. Each
of `OpenDB`, `BuildLimiter`, `Prepare` (one statement) and `Finish` may fail as the code
can: `buildLimiter`'s error is lost, so that it succeeds with no limiter. `Fatal` is
`log.Fatalf` after the resources are held. `graceful` is a library: `Signal` closes
the listener, and `ServeReturns` may come while requests run, as main does not wait
for them longer than the grace period. `Start` is the next process.

### Pipeline

`req[c]` is the request on connection `c`: how deep in its chain it is, whether it is
entering, handled, waiting for the log's mutex, printing, or leaving, and whether it
leaves by a panic; what has been sent, logged and counted. `MainChain` and `PrivChain`
are the wrappers in the order `New` installs them. A wrapper that acts on the way in is
an action (`RateLimit`, `StorePattern`, `Authenticate`), and so is one that acts on
the way out (`Count`, `Recover`, `LogResponse`); `NextIn` and `NextOut` skip the
others, and a panic skips all but `WrapPanicC`.

The private handlers are abstracted to `Animals`, `ReadRows`, `WriteRows`, `DeleteRows`
and `Unmatched`: the shapes of their answers, with panics on an empty page and the second
header after a 404. `did` is history, what the handler really did, whatever it answers: a
handler that writes may have done it and answer 500, as the acknowledgement was lost or the
new line could not be rendered (`Unacknowledged`). A write to a client
that is gone ends in a note or in a panic, by the kind of error; the client is without
its response also where nobody notices, after a 204 or a text of a library (`cut`). A token is the key
its MAC was made with; that a MAC cannot be made without the key is assumed.

### ClientCalls

A client makes one call at a time. `Do` is what it makes of a response, by status and
body; `Reify` the lookup of the body's code among the registered errors. `Sends` is the
token it puts into a request.

### SplitStatements

A file is a sequence of runes, `Encode`d to bytes, with one letter and one space of two
bytes so that a read can part a rune. `ReadMore` reads any number of bytes the buffer
has room for. `CannotRead` is a file that does not open, or a read that fails, which
makes `readSQL` return that error and no statements. `StatementsFound` compares with a definition over the runes of the
whole file. A last statement without a semicolon that ends in a wide rune loses its
last byte, because `end = i + 1` (`schema.go:102`) counts a byte for the rune: the
definition says so.

### Cow

`Replace` is `strings.Replace` everywhere, `ReplaceNext` takes any replacement that is
left. `DrawnAlike` compares every order with one pass that replaces each placeholder
in place. Eyes or a tongue of a backslash followed by a backslash or an @ are exempt:
their pictures differ from one answer to the next, by the order of the map.

## Runs

| Run | Shows | Distinct states |
|---|---|---|
| `say_safety` | the invariants of `Say` and what a step may not do | about 577 000 |
| `say_store` | `Say` implements `SayStore` | about 190 000 |
| `say_live` | requests are answered, and truly, over collisions | about 363 000 |
| `listing` | pages and walks | about 810 000 |
| `client_iter` | the iterator over lists that grow longer than a page and shrink | about 63 000 |
| `service` | clients, requests and the process together | about 213 000 |
| `text` | statements from chunks, pictures in any order | about 54 000 |
| `say_missing`, `say_blockers`, `listing_end`, `listing_empty`, `client_iter_long` | the findings | |

**Bounds.** `say_safety` has two users, two handlers, two names with two spellings
each (a built-in and another), two conversation ids, two line ids, two values of
each sequence and two attempts. Every statement touches rows of at most one request
and the races are between pairs of requests, so two handlers meet in every way two
can; two users tell own rows from others'; two serial values let a row be deleted
and made again under its name with a new id, which is what captured ids must
survive; two public ids are enough for a collision, and for a public id to be taken
again. With two serial values a conversation that collides has none left to try
again with; that is what `say_live` has four for. `say_store` trades the second line
id for a second look, since that is what `PutMood` replaces. `say_live` has a single
public id and a single line id, so each insert after the first collides as long as
the first row stays: until `MaxInsertRetries` (3) are spent, which after one row
takes four values of the sequence, or until the row is deleted and a later try
succeeds. It has two handlers, and names of one spelling to stay small. `listing`
has ids up to 5, three built-ins and limits up to 4, so that a page can lie in
either source, span both, be exactly full and be empty; statements may fail. In
`listing_empty` they do not, so that a 500 is a panic, and they play no part in
`listing_end`. `client_iter` has a default limit of three, with up to four
conversations or moods beside three built-ins: an iteration meets two pages and
more, of lists that change between them, and ends when the list has shrunk. In
`client_iter_long` it need not. What exceeds `MaxSerial` is modelled as the
sequence's own failure, so no bound cuts a behaviour off in `Say`; in `Listing`,
`MaxId` bounds insertions.

`service` has two connections, of a client that makes every call and of one that creates
users: enough for one goroutine to wait for another's mutex, and for a panic beside an
error. Two statements are enough for `Prepare` to fail before, between and after them,
and for `closeAll` to fail at each resource. The second key is what a process would
sign with if it did not come from the configuration. Calls repeat without a bound,
over any number of processes.

`text` has every file of at most four runes of five kinds, with a buffer of five bytes,
so that statements and spaces meet its end from both sides; and the surroundings
placeholders have in the pictures of `say/internal/cows`, in five templates, with eyes
or a tongue of any two characters of four kinds. Outside the rune-by-rune comparison
the length of a statement plays no part, and no picture has other surroundings.

**Symmetry and views.** Handlers, users, public ids and looks are interchangeable
(`Symmetric`); only safety runs use it. The view `Situation` leaves out `answered`
(`reply` in `Listing`), on which no action depends: action properties are still
evaluated on every step.

**Fairness.** `Say` assumes weak fairness of `Advance(h)`: Go schedules a runnable
goroutine, and a statement returns, since `database/sql` fails it when its connection
breaks. No fairness makes requests arrive, and `Restart` may happen at any time.
`ClientCalls` assumes weak fairness of what a goroutine does (`Work`) and strong fairness
of taking the log's mutex: Go's `sync.Mutex` hands itself to a goroutine that has waited
for a millisecond, so others cannot keep it away for ever. Nothing makes `main` stop.
`ClientIter` assumes that the program keeps calling `Next` and the service answers.
`MCClientIter` switches deadlock checking off because an iterator that is exhausted
with no other requests left to make has nothing to do.

**Variants.** A definition marked *Variant* is what a plausible mistake would make of
the definition after it. Each property of a passing run fails when the variant
`PROJECT.json` names takes the definition's place; so none holds vacuously.

## Findings

1. `say_missing`: a line for a conversation that does not exist is answered 500. The
   handler's branch for `sql.ErrNoRows` is dead as the repository wraps the error.
2. `say_blockers`: the lines that prevent deleting a mood are looked up by exact
   spelling, everything else ignores case: a conflict can list no lines.
3. `listing_end`: listing moods backwards, a full first page of built-ins for a user
   without moods says `has_more: false` while built-ins remain.
4. `listing_empty`: an empty page panics, that of a user without conversations and that of
   any list with limit 0.
5. `client_iter_long`: over more than a page, the client's iterator does not end unless the
   list shrinks.

Met while modelling, and allowed for by the definitions rather than shown by a run of
their own: rejections of the limiter and unknown paths are answered in plain text,
although `README.md:117` has every error as a concrete type, and a client can only say
it could not parse them (`Reify`); a private request the limiter rejects, and one for
an unknown path, is not counted, because only the submux would name its pattern
(`HasPattern`); a panic whose value is no error is logged without it, as
`respond.go:128` formats the nil `err`; the exemption of `DrawnAlike` and the lost byte of
`StatementsFound`, above.

## Proofs

### The handlers

`SayProofs` and `SayStoreProofs` prove for any users, names, handlers,
sequences and retries, from
`SchemaAssumption` (built-ins are names in lower case, `Lower` is idempotent,
`MaxSerial` is positive) and `SayAssumption` (`MaxInsertRetries` is positive):

| Theorem | States |
|---|---|
| `Inductive` | `Spec => []IInv` |
| `TypeCorrect` | `Spec => []TypeOK` |
| `LinksHold` | `Spec => []LinkIntegrity` |
| `MoodKeysHold` | `Spec => []MoodKeys` |
| `CapturedIdsHold` | `Spec => []CapturedIds` |
| `OwnRowsHold` | `Spec => OwnRowsOnly` |
| `AnswersAreTrue` | `Spec => AnswersTellTruth` |
| `StoreImplemented` | `Spec => ImplementsStore` |

None of the invariants is inductive alone. That `CreateLineInsert` keeps
`LinkIntegrity` depends on what its handler remembers: the foreign keys only say that
some row has the id, not that it is the author's mood of that name or the author's
conversation. What the handler remembers is right only because ids are never drawn
twice, that is, because every row and every remembered id lies at or below its
sequence (`Keys`, `RemembersConvo`, `RemembersMood`). And `MoodKeys` after
`SetMoodInsert` depends on the handler having checked the name against the built-ins
(`TaskOK`). `IInv` is their conjunction. The proof has three layers:

1. each statement keeps the tables consistent, and only adds rows younger than any
   remembered id (`RowsAge`): one lemma per writing statement, `UpdateMoodKeeps` to
   `DeleteLineKeeps`;
2. under such a change every handler's memory stays true (`TaskAges`), so a step that
   gives its own handler a sound task keeps `IInv` (`StepKeeps`, `RespondKeeps`,
   `ContinueKeeps`);
3. each action is one of those (`MoodStepsKeep`, `ConvoStepsKeep`, `LineStepsKeep`,
   `OtherStepsKeep`).

The two action properties follow. `OwnRowsOnly` needs `IInv` where a handler works by
serial id: the conversation `insertLine` writes to, and the one whose lines are read,
are the user's because `RemembersConvo` says so; everywhere else the statement itself
compares `user_id`. `AnswersTellTruth` needs no invariant: each status is computed from
what the statement found, in the same step.

`StoreImplemented` is a refinement under the mapping of `Say`: the shelf is the moods
without their ids, the talks the conversations, and what is said the lines, each with
the name of the mood and the public id of the conversation its foreign keys lead to. One
lemma per writing statement shows that it is one operation of the store (`UpdateMoodPuts`
to `DeleteLineUnsays`); every other step is a stutter (`ReadersStutter`). Two of them need
`IInv`. `insertLine` writes the ids its handler read two statements ago, while `Speak`
demands the user's conversation and mood at this instant: `RemembersConvo` and
`RemembersMood` say that if the foreign keys find rows they are still those
(`InsertLineSpeaks`). And `DropMood` demands that nobody speaks in the mood by name, while
the database refuses by id: with `LinkIntegrity`, the lines with the name are those with
the id (`DeleteMoodDrops`). That deleting a conversation takes its lines and no others
away, and so leaves every other line what it said, is again that ids are unique
(`TalkStays`).

### The process and its requests

`AppProofs` and `GuardProofs` prove for any number of statements and
connections, any calls and any keys, from `AppAssumption` (a statement is prepared, and
`UserSecret` is a key); of `PipelineAssumption` they use nothing:

| Theorem | States |
|---|---|
| `ProcessInductive` | `AppSpec => []AInv` |
| `ResourcesAreHeld` | `AppSpec => []ResourcesHeld` |
| `ServiceIsAProcess` | `CallSpec => AppSpec` |
| `ServiceHoldsResources` | `CallSpec => []ResourcesHeld` |
| `HandlersAreGuarded` | `CallSpec => []HandlersGuarded` |

`ResourcesHeld` says nothing of the stage `close`, while its promise about the end is
kept there, one resource after the other. `AInv` adds what is open and who closes it at
each stage of `New` (`Built`), and that what `closeAll` has still to close covers what
is open, or the database after a failure (`Covered`). The list that `closeAll` starts
with covers it by `ClosersCover`; `CloseNext` takes one off both, and at the end the list
is empty. `ServiceIsAProcess` carries this over to the whole: no action of a request or
a client changes a variable of `App`, and `Main` is a step of it.

`HandlersGuarded` speaks of handlers alone. `GInv` adds what a request has met by the
depth it has reached (`Sound`): past depth 4, the limiter, there is a good one, and
past 6, `auth`, a user. That the limiter and the key do not change under a request
needs the last conjunct: nobody is served while they are made, as a process ends
without requests. `PrivateWayIn` and `PublicWayIn` compute the depths from the order of
the wrappers; each action either lets the request pass one (`PassesLimiter`,
`PassesSubmux`, `PassesAuth`) or sends it out again (`Quiet`, `AnswerKeeps`).

`RecordProofs` proves, from `AppAssumption`, `PipelineAssumption` (what is no token, or
not a good one, is no key) and `CallsAssumption` (clients call the routes there are):

| Theorem | States |
|---|---|
| `CallTypes` | `CallSpec => []CallTypeOK` |
| `RequestsOnRecord` | `CallSpec => []OnRecord` |
| `ReportsTrue` | `CallSpec => []ReportsAreTrue` |
| `IssuedTokensSurvive` | `CallSpec => []TokensSurvive` |

The three properties speak of requests that have ended, and say nothing of the way there.
`RInv` says where a request is and what has been sent, logged and counted by then: it is
`Inside`, unanswered and unrecorded, until it is answered; `AtMetrics` when it comes out
by returning, `AtRespond` when a panic took it past the metrics; `AtReqlog` from both; and
`Ended`. An answer is true from the moment it is written (`Told`), or cut off, and no
later phase writes another. Each action moves a request from one phase to the next, and
leaves the others alone as it writes `req` at one connection. `WayOut` computes from the
order of the wrappers which of them a request meets next, by return or by panic. Tokens
survive because the only key a token was ever made with is the one in the configuration,
which a restart reads again: `secret = UserSecret` and `Given` are conjuncts of `RInv`.

### Listings

`ListingProofs` proves for any names, built-in moods, ids and limits, from
`ListingAssumption` (there are built-in moods, with names of their own, and the empty
cursor is no key) and `ClientIterAssumption` (the default limit is positive):

| Theorem | States |
|---|---|
| `ListingTypes` | `Spec => []TypeOK` |
| `PagesWithoutGaps` | `Spec => PagesHaveNoGap` |
| `NothingShownTwice` | `Spec => NothingTwice` |
| `WalksAreComplete` | `Spec => WalkComplete` |
| `IterTypes` | `IterSpec => []IterTypeOK` |
| `EverythingVisited` | `IterSpec => []VisitsAll` |

First what a page is. It is a `Prefix` of what lies beyond the cursor, it has no more than
`n` items, and it has all of them or exactly `n` (`TakeIsPrefix`, `TakeFits`, `TakeFills`).
The last two count: a page's last item has all others before it, and the first item it
left out has the whole page before it. That a finite set of rows has a last one
(`LastExists`) is an induction, which goes through as a minimal counterexample by the
library's `WFMin` on strict subsets. Whatever is a prefix is what one would take of
that size (`PrefixIsTake`): this is the form in which `PagesHaveNoGap` asks for it.

Then what `ListMoods` makes of two sources (`TwoPagesAreSheet`): the second page is empty
unless the first was all of its source, so the union is a prefix of both lists, one
after the other, and if nothing more is announced and the second source is not empty,
it is everything. Going up, the second source is the built-in moods, of which there are
some; going down it is the user's rows, of which there may be none, and that is finding 3.
`ListMoodsIsSheet` puts the kinds of cursors and both directions together.

Then where a walk is. `LInv` relates the cursor, the row it was found at, what was shown
and what is owed (`Place`): what was shown is not beyond the last item shown, what is
owed is in the list, and what is owed and was not shown is beyond it. Each action keeps
it (`StartWalkKeeps` to `DeleteKeeps`), for `ReadPage` because its new place is the last
item of a prefix. The three action properties are read off `LInv` and the lemmas on pages.

For the iterator `IterInv` adds that, once it has been told that there is no more, what it
owes it holds or has visited: each page is the first one, as the service does not understand
the client's cursors (finding 5), and the one without more is the whole list. That items
come twice when there was more than a page follows, and no property denies it.

### Statements

`SplitProofs` proves for any files and any size of the buffer, from `SplitAssumption`
(files are sequences of the five runes, and the buffer has room for a byte):

| Theorem | States |
|---|---|
| `SplitInvariance` | `SplitSpec => []SInv` |
| `EveryStatementIsFound` | `SplitSpec => []StatementsFound` |

`StatementsFound` speaks of the end. `SInv` says where the scanner is before: the file is
a head, empty or ending in a semicolon, and a tail (`AtTail`). Every piece of the head fits
the buffer, and its statement is in its place in the list. The buffer and the unread bytes
together are the encoding of the tail, wherever the reads have put the border between
them, within a rune too. A step of the scanner is then a statement about texts:

* if there is a semicolon in the buffer it is the tail's first (`SemicolonRead`), all
  before it is in the buffer (`Overlap`), and what `scanStmts` finds there is the tail's
  first piece without its leading spaces (`ScanClosed`): it moves to the head (`AddPiece`);
* if there is none, nothing is found before the end of the file (`ScanMore`): a read
  leaves the sum of buffer and unread bytes as it is; or the buffer is full, and the piece
  it begins, or the rest, is too long for it (`TooLongFor`);
* at the end of the file the tail has no semicolon, and is found up to the first byte of
  its last word's last rune (`ScanLast`), or is nothing but spaces (`ScanBlank`).

`scanStmts` looks at bytes, and `StatementsFound` at runes. That they agree rests on what
bytes can stand where: none of a semicolon but in a semicolon (`CleanBytes`), and no text
ends in the first byte of a space of two (`NoHalfRune`), which `IsSpace` takes for a
rune of its own. `Encode` is a recursion in a community module; that it distributes over
concatenation (`EncodeCat`) is an induction on length, as a fact about a set of numbers
(`Upward`), since the library's induction principles take an operator.

### Pictures

`CowProofs` proves for any pictures and looks, from `CowAssumption` (texts are sequences of
the symbols there are, eyes and tongue have no characters or two) and
`PicturesAssumption`: without its comments a picture is `Legible`:

| Theorem | States |
|---|---|
| `CowInvariance` | `CowSpec => []CInv` |
| `EveryPictureIsTheOneMeant` | `CowSpec => []DrawnAlike` |

Without `PicturesAssumption` the theorem is false: in a template with a backslash before
`$eyes`, eyes that begin with a backslash would make an escape with it, in some orders. All
pictures of `say/internal/cows` are legible: a backslash stands before another one,
before an @ if it is alone, or before something that is neither an escape's nor a
placeholder's; and a placeholder before something plain, at most one escaped backslash
between them.

`CInv` says what `output` is when some entries of the map have had their round and others
not: the text, with the first replaced in place and the others as they are spelled
(`Draw`). After all rounds that is the picture (`Picture`). One more round, a
`strings.Replace` over the whole drawing, has to make the next drawing of it
(`DrawMore`): it must find every occurrence that was in the template, and none that
another round has made. Where a value or a replaced escape leaves a backslash behind, being
legible says what follows it; three backslashes in a row, of which `Replace` may take the
first two where the template has the last two, come out the same (`ThreeSlashes`). The
recursions run from each place to later ones, so the induction runs from the end of the
text to its start (`Downward`, by the library's `WFMin`).

### Not proved

`EveryRequestAnswered`, `EveryRequestEnds` and `EndsOnceShort` are liveness
under fairness, which the prover does not treat: they are only model-checked. All other
properties of passing runs are theorems. `RInv` and `LInv` were checked with TLC, on the instance of
`service` and on one of `listing` with ids up to 4, before they were proved; they are not
among the runs, as the theorems say more.

## Not modelled

* The end of a process by `log.Fatalf` releases nothing, and `ResourcesHeld` leaves it out;
  it accepts any order of closing, and excepts what a failed close leaves open.
* Text: headings, balloon layout, JSON and URL encoding, log lines, request ids.
* Configuration (`readConfiguration`), which ends before anything is acquired.
* The libraries: goji, throttled and graceful are modelled by what `app.New` and `main`
  rely on; rates, bursts and the order of the wrappers' own code are not.
* The calls of the HTTP client beyond those of `ClientCalls`: each is the same `execute`
  with another route. `apptest`, `client/test_client.go` and `NewTestDB` serve tests.
* `created_at`, and ordering of lines within a conversation, which is by serial id in
  one query.

## Plan

1. Done: the modules above.
2. Done: every invariant and every action property that a passing run checks is a theorem,
   and so is the refinement of `SayStore`.
3. Open: the last byte of a wide rune (`schema.go:102`), once corrected, makes
   `LastStatement` the encoding of the last word, and `WordEnd` shorter.
