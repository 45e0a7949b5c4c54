# TupleSpace: a verification project

TLA+ modules, TLC configurations and TLAPS proofs for the TupleSpace service of
this repository: a Linda-style tuple space over HTTP, whose tuples are rows of a
PostgreSQL database and whose blocking reads are woken by `LISTEN/NOTIFY`.

Everything is translated from the Go code and its SQL.  PostgreSQL, pgx and the
Go runtime are outside the repository; they are modelled by how the code uses
them, and `PROJECT.json` marks those definitions *external*.

## 1. The system

| Part | State | Operations | Talks to |
|---|---|---|---|
| HTTP API (`internal/api/httpapi`) | none | decode, call the service, map errors to statuses (`mapError`: a context that is done is a timeout) | service |
| Service (`internal/service/service.go`) | `activeWaiters` under a mutex; per request a goroutine, a context, a subscription | `Out`, `Rd`, `In`, `Rdp`, `Inp` | store, notifier |
| Admin operations (`internal/service/admin.go`) | none of their own | `DeleteTuple`, `Purge`, `NotifyTest`; the read-only `Spaces`, `Dump`, `Peek`, `Export`, `Stats`, `Schema`, `Config`, `GetTuple`, `Waiters` | store, notifier, pool |
| Store (`internal/store`) | tables `tuples`, `tuple_fields` in PostgreSQL | `InsertTuple`, `FindCandidates`, `LockCandidatesForConsume`, `DeleteTuple`, `DeleteTupleByID`, `DeleteTuples`, queries | PostgreSQL, through a connection pool |
| Notifier (`internal/notify`) | `refCounts`, `subscribers`, one connection; a channel of capacity 1 per subscription | `Subscribe`, `Subscription.Close`, `Notify`, `Snapshot`, `Close`, the `loop` goroutine | PostgreSQL, through its own connection |
| Matching (`internal/match`, `internal/types`, `internal/validation`) | none | `Match`, `EqualValue`, `NormalizeValue`, validation | - |
| Server (`cmd/tuplespaced`, `internal/config`, `internal/migrations`) | the process, its pool, its notifier; the schema of the database | `runServer`: migrate (`ApplyFS`), serve, `Shutdown` on SIGTERM, deferred `Close` calls | all |
| Client and CLI (`internal/client`, `cmd/tuplespacectl`) | per command: its inputs, the client with its timeout | `tuple out`, `rd`, `in`: one HTTP request per input, one after the other; admin commands: one request each | HTTP API |

How a blocking `In` goes: it subscribes to the channel of its space and then
loops.  `consumeOnce` begins a transaction, selects up to `candidate-limit` rows
`FOR UPDATE SKIP LOCKED` in the order of their ids, matches them in Go, deletes
the first that matches and commits.  If none matched it rolls back, registers
the request in `activeWaiters` once, and waits for a notification or for the end
of its context.  `Out` inserts a row and calls `pg_notify` in one transaction,
so that PostgreSQL sends the notification when the row becomes visible.

What is hard: interleavings of the statements of several transactions;
`SKIP LOCKED`, which lets a row that nobody takes be passed over; contexts that
end around a `COMMIT` or before a `Rollback`; subscriptions, scans and
notifications crossing each other; a signal channel of capacity 1; a notifier
connection that breaks and is not opened again; calls of the notifier that have
no context; servers that migrate one database at the same time, or are killed while
they do; shutdown while requests are served; admin commands whose two halves - export
and purge, one page and the next - see different states of the table.

What makes each part correct:

* store: a tuple is taken by one request; what is answered was committed and
  matches; locks end with their transaction; a tuple appears together with its
  notification; a `not_found` has a reason;
* notifier: the reference count is the number of subscriptions, the session
  listens whenever somebody is subscribed, no notification of a subscriber is
  lost, no caller is left blocked;
* matching: what is stored reads back, the SQL filter loses no match, and `Match`
  answers an assignment of the template's names exactly if there is one;
* service: a waiting request has missed nothing, is listed only while it is
  subscribed, leaves nothing behind, and comes to an end;
* client: arguments mean what their author wrote, the output agrees with what
  happened, and its timeout is neither shorter than the server's wait nor missing;
* server: a migration is applied whole or not at all, whoever applies it; who serves
  has the whole schema; waiting requests keep no connection from others; a process
  that is told to stop comes to its end;
* admin commands: what is purged was exported before, what is deleted by id is what
  was shown, one removal is told to one client, pages leave nothing out that they
  should have.

The hazards are listed one by one, with their lines, in `PROJECT.json`.

## 2. The modules

| Module | What it models |
|---|---|
| `TupleSpace` | the abstract specification: requests that put and remove tuples at once, and their answers |
| `TupleStore` | the operations on PostgreSQL, statement by statement |
| `MCTupleStore` | TupleStore for TLC |
| `TupleStoreProofs` | the inductive invariant of TupleStore, the theorems that follow, and that TupleStore implements TupleSpace |
| `Notifier` | the notifier's loop and its clients |
| `MCNotifier` | Notifier for TLC |
| `NotifierProofs` | the inductive invariant of Notifier and the theorems that follow |
| `Service` | requests over TupleStore and Notifier |
| `MCService` | Service for TLC |
| `ServiceProofs` | the invariant of the requests, on top of those of the store and of the notifier, the theorems that follow, and that Service implements TupleSpace |
| `Matching` | a tuple from the request of its Out to the match of a read |
| `MCMatching` | Matching for TLC |
| `MatchingProofs` | the loop invariant of `Match` and the theorems that follow |
| `CompactSpec` | the parser of the compact syntax of tuples and templates |
| `TupleDSL` | that syntax as one writes it: which texts stand for which fields, and which for nothing |
| `CompactSpecProofs` | the parser reads what TupleDSL writes, for texts of any length |
| `Client` | a command, from its arguments to its exit, the client and the server's handler |
| `MCClient` | Client for TLC: what is typed |
| `ClientProofs` | the inductive invariants of Client and the theorems that follow |
| `Server` | the processes of tuplespaced over one database: migrations, requests as users of pool and notifier, signals, the end |
| `MCServer` | Server for TLC |
| `ServerProofs` | the inductive invariant of Server and the theorems that follow |
| `Admin` | the admin commands on tuples, from the route to the commit, among writers and consumers |
| `MCAdmin` | Admin for TLC |
| `AdminProofs` | the inductive invariant of Admin and the theorems that follow |

`Service` is composed of `TupleStore` and `Notifier`, and `TupleStore` has its
refinement mapping to `TupleSpace`; `Client` is composed of `CompactSpec`, and
`TupleDSL` is what that parser is judged against.  `Matching`, `Server` and
`Admin` stand beside these: they look at the same code for other questions, and keep
of the rest what these need.

### TupleStore

A *session* is a request with the database connection it took from the pool.
`pc[s]` says where its operation is; each statement of `Out`, `readOnce`,
`consumeOnce`, `DeleteTuple` and `Purge` is an action, and `SELECT ... FOR
UPDATE` and `DELETE` are several, one per row they come to, because other
transactions run between them.  PostgreSQL is at READ COMMITTED: a statement
sees the rows that were committed when it started (`snap`), and finds each row
locked, gone or free when it comes to it (`LockRow`, `SkipRow`, `DeleteRow`).

| Code | Actions |
|---|---|
| `Out` | `Call`, `Insert`, `Notify`, `Commit`, `Answer` |
| `readOnce` | `Call`, `Read` (a single statement) |
| `consumeOnce` | `Call` (Begin), `SelectForUpdate`, `LockRow`, `SkipRow`, `EndSelect`, `Take` or `NoMatch`, `Commit`, `Answer` |
| `DeleteTuple`, `Purge` | `Call`, `Delete`, `DeleteRow`, `EndDelete`, `Commit`, `Answer` |
| an error return or a context that ends, anywhere | `GiveUp`: the service answers; its `Rollback`, under the same context, closes the connection |
| PostgreSQL afterwards | `Reap` (the transaction is dropped) or `LateCommit` (the `COMMIT` had arrived) |
| PostgreSQL's deadlock detector | `Victim` |

A tuple is a value of `Tuples`, a template one of `Templates`; which tuples the
SQL filter lets through (`Candidates`) and which `match.Match` accepts
(`Matches`) are constants, with `Matches[p] \subseteq Candidates[p]`.  They
differ in the code: the SQL compares the actual fields only, `Match` also the
types of the formal fields and the values bound to one name.  A row of `tuples`
stands for its `tuple_fields`: `Insert` is all the `INSERT`s of `InsertTuple`,
which nobody sees before the commit, and a consumer locks the joined rows after
the row of `tuples`.

### Notifier

A client is a goroutine in `execute`: `call[c]` is what it has sent, or is
blocked sending, on `controlCh`.  `Receive(c)` is the loop's `case req :=
<-controlCh`: it cancels the wait, which may still return a notification
(`Interrupted`), delivers that, and applies the call - the closure is one step
because no one else touches the state, and what PostgreSQL sends meanwhile stays
in `inbox`.  `Notification` is `case result := <-waitCh`.  `Delivered` is
`deliverNotification`, with `token[c]` for the channel of capacity 1.
`ConnectionDies` is a broken connection: LISTEN and UNLISTEN fail from then on,
the loop logs and sleeps, and goes on taking calls.  `Exit` is the end of the
loop after `Close`, after which no call is taken.  `owed` is a history variable:
the subscribers that were notified since they last were woken.

### Service

`at[s]` is the place of the request's goroutine in `Service.read` (or in
`NotifyTest`); an operation on the store is the actions of TupleStore, a call of
the notifier those of Notifier, both taken by INSTANCE.  A commit of the store
and the sending of its notifications are one step (`StoreStep`, `Announce`).
`expired[s]` is the end of the operation's context, by its deadline or because
the caller is gone; a statement under such a context is not sent
(`UnderContext`), so that the operation fails and its Rollback closes the
connection.  The deferred functions run in the code's order: `unregisterWaiter`,
then `sub.Close` (`CloseSubscription`, `Done`).

### Matching

One tuple and one read of it, without other transactions.  A Go `any` is its
dynamic type with its value; the decoders of requests and of stored payloads use
`UseNumber`, so that an integer arrives as a `json.Number` (`"number"`), and
`normalizeInt` turns it into an `int64` or refuses it.  A numeral with a point or
an exponent is a `"fraction"`: `Int64` refuses it, `1.0` and `1e3` included.

| Code | Definitions |
|---|---|
| `NormalizeValue`, `normalizeInt` | `Normalizable` (no error), `NormalizeValue` (the result) |
| `ValidateTuple`, `ValidateTemplate` | `ValidTuple`, `ValidTemplate`, `NormalizeTuple`, `NormalizeTemplate` |
| `InsertTuple` | `Out`, `Row`: the payload and one row of `tuple_fields` per field |
| `BuildCandidateQuery` | `IsCandidate`, `Miss` |
| `queryCandidates`, `decodeTuple` | `Fetch`, `Encoded` |
| `Match` | `MatchField` (an iteration), `MatchFails`, `MatchSucceeds` |

The cases of `normalizeInt` for Go's other integer and float types are left out:
none of the program's decoders produces them.  `MatchIsAssignment` compares the
loop with what a template means (`Accepts`: some assignment of values to the
names makes it the tuple), a definition that knows no order of fields and no map
of bindings.

### CompactSpec, TupleDSL and Client

`CompactSpec` is the parser of `cmds/common.go`.  A text is a sequence of `Runes`: the
characters that mean something in the syntax (`Syntax`), and words that have none
inside.  `ReadRune` is an iteration of the loop of `splitSpecFields`, `ReadRunes` the
loop, and `Unquote` with `UnquoteRune` (external) stands for `strconv.Unquote`, with
the two escapes that concern the syntax.

`TupleDSL` says without a parser which texts stand for a field (`Spells`: a quoted
string with its escapes, a bare word, a numeral, a boolean, a formal), for fields
(`Writes`: pieces with spaces around them, separated by commas, in parentheses or not)
and for nothing (`Malformed`).  `Client.cfg` has texts that are written with it.

`Client` is one command `tuple out`, `tuple rd` or `tuple in`.  It parses its
inputs, all of them before anything is sent, and makes one request per input, one
after the other, until one fails.

| Code | Definitions |
|---|---|
| `LoadTupleInputs`, `LoadTemplateInputs` | `LoadInputs`, `Load` |
| `TimeoutForWaitMS`, `NewWithTimeout`, `handleRead`'s `wait` | `TimeoutForWaitMS`, `NewWithTimeout`, `RequestTimeout`, `RequestedWait`, in the arithmetic of `Duration` |
| `post` and `http.Client.Timeout` | `Send`, `TimeOut`, `Disconnect` (which is also an interrupt of the command) |
| `decodeResponse`, `AddRow` | `ReceiveRow`, `ReceiveError`, `OutputFails` |
| the handlers, `mapError` | `Arrive`, `NeverArrives`, `Succeed`, `Fail`, `Reply`, `mapError` |
| a `COMMIT` whose result the service did not wait for | `pending`, `CommitArrives` |

Time is counted in ticks: `timer` is what is left of the client's timeout, `left`
of the server's wait, `spent` and `slow` are history.  Nothing makes the server
prompt: `Tick` may pass at any of its steps.  Of the service it keeps which error
is possible when (`CanFail`) and that success is an effect; what happens inside is
`Service` and `TupleStore`.  A pool's own connect timeout, two minutes in pgxpool
unless the database URL says otherwise, also ends in `DeadlineExceeded`; it is
assumed not to end before the wait does, and a command that waits longer than that
on a database that cannot be reached can be told of a timeout early.

### Server

A server is one run of the process; restarting is starting another one over the same
database, of which `catalog` holds the tables and indexes.

| Code | Actions |
|---|---|
| `Run`, `NewPool` | `Start`, which may also fail |
| `ApplyFS`, `listEntries` | `Apply`, one file after the other in the order of their names; `MigrationFails` |
| a file on PostgreSQL: one query string, hence one implicit transaction | `Look`, `Create`, per statement; `Duplicate`, `Abort`, `CommitFile` |
| `notify.New`, the goroutine | `NewNotifier` |
| `ListenAndServe` | `Listen`, `ServerClosed` |
| `<-ctx.Done()`, `Shutdown` | `Signal`, `Shutdown`, `ShutdownReturns` |
| `defer notifier.Close()`, `defer db.Close()`, the return | `CloseNotifier`, `ClosePool`, `Exit` |
| SIGKILL, a panic | `Kill` |
| a request: `Begin` or `Query`, its end, the calls of the notifier, the `select` of `read` | `Arrive`, `Acquire`, `Release`, `NotifierReturns`, `Wake`, `WaitOver`, `Answer`, `Fail` |
| `Stats`; `Schema`, `listSchemaObjects` | kinds `"stats"` and `"schema"`: two queries, each with a connection of its own; `Looked`, `seen` |

`CREATE ... IF NOT EXISTS` is two steps: it looks (`Look`), and it creates
(`Create`), for which it waits while another transaction creates the same, and fails
(`Duplicate`) when that has committed.  This is what PostgreSQL does, and the reason
why one of two servers that start together may fail.  When a process is gone
PostgreSQL may go on with what it was sent (`LeaveExec`).

A request is what it uses of the process: `Conns(p)` are the connections of the pool
that are in use.  A consumer's transaction and a reader's query are one `querying`
each; their statements are in `TupleStore`.  `rd` and `in` with a wait subscribe,
query, wait, and unsubscribe, as in `Service`.  The kind `"out"`, an operation of one
transaction, is a request that does less than `"stats"`; it is in the proofs and not
in the instance of the run.

### Admin

A tuple is named by the out request that puts it; `stage` and `row` are that
request's transaction and its row with its space, its id and its `created_at`, which
PostgreSQL takes at the start of the transaction.

| Code | Definitions |
|---|---|
| methods and paths of `internal/client/admin.go`, the routes of `router.go` | `Request`, `adminRoutes`, `RoutedTo` |
| `validateTupleFilter`, `confirm_required`, `invalid_tuple_id` | `validateTupleFilter`, `Accepted` |
| `appendTupleFilter`, `ORDER BY space, id`, `LIMIT`, `OFFSET` | `Matches`, `Before`, `Page` |
| `dump`, `peek`, `export`, and who goes from page to page | `List`, with `Listing`, `FirstPage`, `NextPage` |
| `GetTupleByID` | `Get` |
| `DeleteTupleByID`, `DeleteTuples` in their transactions | `Delete`, `CommitDelete`, `AnswerLost` (committed, but the client hears of an error), `Rollback` |
| `Out`, `consumeOnce` | `BeginOut`, `Insert`, `EndOut`, `Take` |

A command that is refused or fails before its statement changes nothing and is no
step.  A DELETE is one step here, row by row it is in `TupleStore`: it waits for the
transactions that have deleted one of its rows.  `told[a]` is what an operator was
shown last, `claims[w]` counts the clients that were told that they removed a tuple.

## 3. What TLC checks

| Run | Instance | What it shows |
|---|---|---|
| `store` | 2 sessions that Out, Rd, In, delete and purge, 2 rows, 2 contents, one of which passes the SQL filter only, candidate limit 1, with fairness | `TypeOK`; a held row stays (`HeldRowsStay`); a tuple is taken once (`TakenOnce`); every `not_found` has a reason (`NotFoundExplained`); `NoLockLeak`, `FoundIsReal`, `AnnouncedWhenVisible`, `RemovedByLocker`; the store implements `TupleSpace` (`AbstractSpec`); requests end (`RequestsEnd`) |
| `store_not_found` | 2 sessions, 2 rows | violated: an `In` answers `not_found` although a matching tuple is there and unlocked |
| `store_window` | 2 sessions, 2 rows, limit 1 | violated: an `Rd` answers `not_found` although a matching tuple is visible |
| `notifier` | 2 subscribers, one caller of Close, 2 channels, a notification on its way, with fairness | `TypeOK`, `RefCountsAgree`, `SubscribersAreHeard`, `NoWakeupLost`; a notified subscriber is woken (`OwedAreWoken`), calls return (`CallsEnd`) |
| `service_mixed` | a client that blocks in Rd or In, one that does Out, Inp, Purge, NotifyTest; every fault | `TypeOK`, `WaitersMissNothing`, `WaitersAreSubscribed`, `NothingLeftBehind` |
| `service_liveness` | a blocking Rd, 2 Outs, every fault, with fairness | `RequestsAnswered`, `ReadersAreServed` |
| `service_missed` | the same, the notifier's connection breaks | violated: a blocking Rd times out with a matching tuple in the store |
| `matching` | all tuples and templates of up to 2 fields | `TypeOK`, `MatchIsAssignment`, `FilterLosesNothing`, `StoredReadsBack` |
| `client` | commands of one or two inputs; every wait of a 4-bit duration; malformed and odd arguments; a server that answers anything, late or never | `TypeOK`; arguments are read as they were meant, or nothing is sent (`CommandsAreUnderstood`); the rows are the effects but for the last (`EffectsMatchRows`); the client outlasts the server's wait, and "timeout" comes after the time asked for (`TimeoutsAreHonest`); the command ends (`CommandEnds`) |
| `server` | 2 servers, each with one connection, 2 migrations of 6 and 1 objects and a file that is none, one request that waits and one that asks for stats or the schema; signals and kills, with fairness | `TypeOK`; a migration is applied whole (`MigrationsAreAtomic`); who serves has the schema (`NeverDegraded`); a waiting request keeps nobody from a connection (`RequestsProceed`); a stopped server ends (`ShutdownEnds`) |
| `server_grace` | 1 server | violated: while `Shutdown` waits for requests, the process closes what they need |
| `admin` | 2 operators, 2 tuples, 2 spaces, 2 times; export and purge by the same filters, pages of one, get and delete by id, refused commands | `TypeOK`; pages leave nothing out and list nothing twice, as far as the table stood still (`PagesComplete`); a removal is told once (`RemovedOnce`); what is removed was shown (`RemovedWasShown`) |

The violated ones are disagreements of the code with the repository's own
documents; `PROJECT.json` quotes them under `findings`.

* `store_not_found`, `store_window`: README.md:148 explains `not_found` by "No
  tuple matches the template".  The code answers it also when `SKIP LOCKED`
  passed over the tuple - `consumeOnce` locks up to `candidate-limit` rows to
  delete one, so that a concurrent `In` skips all of them - and when the tuple
  lies behind `candidate-limit` rows that pass the SQL filter and not `Match`.
  A blocking `In` that skipped a row goes to sleep for the same reason, and the
  end of the other transaction does not notify anybody: this is the third
  disjunct of `WaitersMissNothing`.
* `server_grace`: cmd/tuplespaced/main.go:92 calls `--shutdown-grace` the "Grace
  period for HTTP shutdown".  `ListenAndServe` returns as soon as `Shutdown` has
  begun, and `runServer` with it: notifier and pool are closed while `Shutdown` waits
  for requests in flight, and the process exits, however long the grace period is.
* `service_missed`: docs/project-report.md:58 says that an operation whose
  notification was missed "still re-queries the store".  `read` queries again
  only after a notification, and not when its deadline passes.

### Bounds

All of them are constants.  `MaxId` bounds the rows ever inserted: two let one
consumer hold a row while another takes the next, and give a window of one something
to hide; a waiter and a taker in Service fight over one.  `CandidateLimit` is below
or at the number of rows.  `Sessions` are the requests at a time: two are what a
competition for a row, a purge against a consumer, and a deadlock of two purges need,
and all safety properties of the `store` run are proved for any number of them.
`MaxInbox` bounds the notifications on their way: they are delivered in order, and a
second one of a channel finds the token set.  `Faults` selects the faults of a
Service run.

`CHECK_DEADLOCK FALSE` is given where the system may stop: when Close has ended the
notifier's loop, when a Service run has used up its rows and its waits have no
deadline among its faults, when all servers have exited, and when all tuples of
Admin have been put and removed and its clock stands still.

`Matching` has integers from -2 to 1 and numerals at both ends and one beyond
them, two strings, two names: two fields are what a repeated name needs, and two
names what a template with different ones needs.  Requests that validation
refuses are among its inputs.  The proofs lift the bounds.  Its run has
`CHECK_DEADLOCK FALSE` because every behaviour ends with the answer.

`Client` has durations from -8 to 7, a millisecond of 2 ticks, a default timeout of
3 and a buffer of 2: waits of 1 and 2 fit with the buffer, 3 fits only without it,
and the others overflow, to a short wait or to a negative one, as 2^63 does.
`McTexts` writes, with the operators of `TupleDSL`, every pair of fields whose first is
a string of up to two characters out of all those that have a meaning, a number or a
boolean, in the tightest and in the loosest way, and parses it; what it should be is
known from what was written.  Texts of any length are left to the proofs.  Texts that are
malformed are listed, each for one error return.  Two inputs are what it takes for
one to succeed before another fails.  Every command ends, hence
`CHECK_DEADLOCK FALSE`.

`Server`: two processes are what it takes to migrate at the same time, and to start
one while another is killed or shut down; two migrations, of which the first creates
what `requiredSchemaTables` and `requiredSchemaIndexes` name, are what an order and a
schema in part need; the database starts with none, one or both applied.  One
connection is the smallest pool and the one that is exhausted first; a request that
waits and one that queries twice compete for it.

`Admin`: two tuples are what an order and two pages need, each in either of two
spaces; of two times the export's `created_before` is the second, so that the tuple
of a transaction that began before and one at that time are on either side.  The
filters with `created_after`, with a space and with neither are there, and every
refusal.  Tuples are interchangeable (`MCSymmetry`), operators are not.

### Fairness

* TupleStore: a session's own steps and PostgreSQL's are weakly fair (goroutines
  are scheduled, statements are executed, closed connections are noticed).  A
  row of a DELETE is strongly fair: PostgreSQL queues it on the row, so it is
  not overtaken for ever by consumers that lock and release it.  Nobody is
  forced to make a request, and a context need not end.
* Notifier: weak fairness of the loop's two cases - `select` picks at random
  when both are ready, and senders on a channel are queued - and of a
  subscriber's receive.
* Service: the same, and an operation whose context is done does not go on for
  ever.  Deadlines are not fair in `service_liveness`, so that a wait cannot be
  saved by its deadline there.
* Server: what a process does by itself is weakly fair; the steps of a request are
  strongly fair, because the pool serves those that wait for a connection in their
  order.  Nothing is assumed of PostgreSQL's execution of a migration, of signals, of
  `Shutdown`'s return, and of the end of a wait.
* Client: the command's own steps and the passing of time are weakly fair.  The
  server and the network are not: a command has to end by its own timeout.

## 4. What is proved

For every value of the constants, with TLAPS (SMT, Zenon, LS4):

| Theorem | Statement |
|---|---|
| `TupleStoreProofs!TypeCorrect` | `Spec => []TypeOK` |
| `TupleStoreProofs!RowsHeldStay` | `Spec => []HeldRowsStay` |
| `TupleStoreProofs!EachTupleTakenOnce` | `Spec => []TakenOnce` |
| `TupleStoreProofs!NoLockIsLeaked` | `Spec => []NoLockLeak` |
| `TupleStoreProofs!WhatIsFoundIsReal` | `Spec => []FoundIsReal` |
| `TupleStoreProofs!NotFoundIsExplained` | `Spec => []NotFoundExplained` |
| `TupleStoreProofs!AnnouncedBeforeVisible` | `Spec => AnnouncedWhenVisible` |
| `TupleStoreProofs!RemovedByItsLocker` | `Spec => RemovedByLocker` |
| `TupleStoreProofs!ImplementsTupleSpace` | `Spec => AbstractSpec` |
| `NotifierProofs!TypeCorrect` | `Spec => []TypeOK` |
| `NotifierProofs!CountsAreSubscriptions` | `Spec => []RefCountsAgree` |
| `NotifierProofs!EverySubscriberIsHeard` | `Spec => []SubscribersAreHeard` |
| `NotifierProofs!NotificationsAreNotLost` | `Spec => []NoWakeupLost` |
| `MatchingProofs!TypeCorrect` | `Spec => []TypeOK` |
| `MatchingProofs!MatchDecides` | `Spec => []MatchIsAssignment` |
| `MatchingProofs!FilterIsComplete` | `Spec => []FilterLosesNothing` |
| `MatchingProofs!DecodingIsFaithful` | `Spec => []StoredReadsBack` |
| `ClientProofs!TypeCorrect` | `Spec => []TypeOK` |
| `ClientProofs!RowsAreEffects` | `Spec => []EffectsMatchRows` |
| `ClientProofs!TimeoutsStayHonest` | `Spec => []TimeoutsAreHonest` |
| `ClientProofs!CommandsStayUnderstood` | `\A c \in Commands : AsIntended(c)` implies `Spec => []CommandsAreUnderstood` |
| `CompactSpecProofs!WrittenIsRead` | `Writes(spec, text, fields)` implies that `text` is parsed as `fields` |
| `CompactSpecProofs!MalformedIsRefused` | `Malformed(spec, text)` implies that `text` is refused |
| `CompactSpecProofs!TuplesCanBeTyped` | for any fields of a tuple there is a text that is parsed as them |
| `ServiceProofs!TypeCorrect` | `Spec => []TypeOK` |
| `ServiceProofs!WaitersStaySubscribed` | `Spec => []WaitersAreSubscribed` |
| `ServiceProofs!RequestsLeaveNothing` | `Spec => []NothingLeftBehind` |
| `ServiceProofs!WaitersMissNoTuple` | `WindowsSuffice` implies `Spec => []WaitersMissNothing` |
| `ServiceProofs!ServesTupleSpace` | `Spec => SP!AbstractSpec`: the service implements `TupleSpace` |
| `ServiceProofs!StoreStaysSafe` | the store's safety properties, of the store inside the service |
| `ServiceProofs!NotifierStaysSafe` | the notifier's, of the notifier inside the service |
| `ServiceProofs!CommitsNotify` | `Spec => CommitsReachSubscribers` |
| `ServerProofs!TypeCorrect` | `Spec => []TypeOK` |
| `ServerProofs!MigrationsStayAtomic` | `Spec => []MigrationsAreAtomic` |
| `ServerProofs!NeverServesDegraded` | `Spec => []NeverDegraded` |
| `AdminProofs!TypeCorrect` | `Spec => []TypeOK` |
| `AdminProofs!RemovedAtMostOnce` | `Spec => []RemovedOnce` |
| `AdminProofs!RemovedStepsWereShown` | `Spec => RemovedWasShown` |
| `AdminProofs!PagesStayComplete` | `Spec => []PagesComplete` |

Assumptions: those named in the modules.  `Matches[p] \subseteq Candidates[p]`
(the SQL filter loses no match), `NoOne` is no session and no tuple, the limit
is positive (`New` replaces any other by 64), `Clients` and `Outs` are finite, two
migrations create different objects, and one of them is `001_init_tuplespace.sql`; the
characters of the syntax and its keywords are runes, and no numeral is one of them
(`RunesAssumption`).  Two theorems have a hypothesis beside these, `WindowsSuffice` and
`AsIntended`, which are explained below.

The argument for the store.  `TakenOnce` is not inductive.  `IInv` adds: which
operation is at which label (`OpInv`); a lock belongs to an open transaction and
an uncommitted row is in the `target` of the one that inserted it (`LockInv`);
what an open transaction inserted or deletes is locked by it and not committed,
and what a finished one deleted is gone (`TargetInv`); the candidates that a
consumer holds are locked by it and live (`HeldInv`); a transaction has done
what its request asked (`AskedInv`, `OutInv`); answers come once, and name
committed tuples that match (`ReplyInv`); an Out at its commit has notified its
space (`NotesInv`); two requests have removed different rows (`DisjointInv`).  A
commit that makes a row `gone` needs the lock of that row, another request's
removed rows are gone already: this is the step of `DisjointInv`, and it holds
for a late commit because `Reap` and `LateCommit` are the only ways out of a
broken connection.  Two action properties and the refinement use the same
invariant: every step but a commit leaves the abstract space as it is, the
commit is `Put` or `Remove`, and answers are about what the request changed.
`NotFoundExplained` needs in addition what a scan keeps of the rows it came to
(`ScanInv`).  TLC checked both on small instances before they were proved.

The argument for the notifier.  A reference count agrees with the set it counts
only if nobody subscribes twice and nobody leaves who is not there; `MembersInv`
says so of every call that is on its way to the loop.  With it, the step from 1
to 0 is the step to no subscriber, so that an UNLISTEN cannot silence somebody
(`SubscribersAreHeard`), so that a NOTIFY of a channel with subscribers is sent
to the session (`SentIsPending`).  Only subscribers are owed a wake-up
(`OwedInv`): a delivery sets the token of every subscriber of its channel, hence
of every client whose wake-up it takes from the connection (`DeliveryKeeps`),
also when the delivery is that of a wait that a call has just cancelled
(`InterruptKeeps`).  TLC checked this `IInv` on a small instance.

The argument for the service.  `ServiceProofs` instantiates `TupleStoreProofs` and
`NotifierProofs` on the service's variables: every step of the service is a step or a
stutter of the store and of the notifier (`PartsKeep`), so that their invariants hold
of it.  `RequestsInv` ties the three together: at which place in the code a request's
store session and its call of the notifier may be where (`CallOK`, `ScanOK`).  A step
of another request leaves a request as it is (`OthersUnmoved`), so that only its own
steps are left.  For `WaitersMissNothing`, a request that is subscribed has, at every
place up to its `select`, its matching rows either in the snapshot it is still
scanning, or owed to it by a notification (`MissesNothing`); a row appears only with
its announcement (`NewRowIsOwed`), and a scan that ends without a match has come past
every row in its snapshot (`ScanEnds`).  The last needs `WindowsSuffice`: for each
template, the SQL filter is exact, or the candidate limit is no less than the number
of rows.  It holds of templates of actual fields only, of spaces whose tuples have
one shape per arity, and of spaces no larger than the limit; without it the property
fails as `store_window` shows.  It holds of the instance of `service_mixed`.

What `TupleStoreProofs` and `NotifierProofs` say of the parts alone is then said of the
service: `StoreStaysSafe` and `NotifierStaysSafe` are their safety theorems under this
instance, `ServesTupleSpace` is the refinement, and none of them has to look inside the
parts again.  `CommitsNotify` joins both.  The commit that makes a tuple visible is the
step that publishes what the transaction noted (`AnnouncedByCommit`), and a publication
to a channel with subscribers reaches the session or the token of each (`SentIsPending`):
there is no step between them at which a waiter is not on its way to a tuple that others
see.  It is stated for a connection that lives.

The argument for the server.  What an open transaction has created is its own
(`CreatorInv`), a process has come to a file when all earlier ones are in the catalog
(`ExecInv`), and each statement that a transaction is through has its object in the
catalog or among its own (`StatementInv`).  A commit therefore adds exactly one
migration, after all earlier ones; and a process that has come past the last file has
the schema, which nothing ever removes (`ServingInv`, `SchemaInv`).

The argument for the admin commands.  Ids are given out once (`IdsInv`); rows that are
deleted and not committed are visible to all others and locked by one (`LocksInv`), so
that a commit adds one claim to rows that had none.  Since a listing, no row has come
that it should have had unless its transaction was open then: a younger one has a
`created_at` no earlier than the listing (`ListingInv`), and a filter's
`created_before` is not after it.  A purge by the same filter has what is left of the
listing (`PurgeInv`).

Pages are about positions.  The rank of a row is the number of rows before it in the
order of the listing; ids are given out once, so that the order is total (`Ordered`) and
a page is the rows whose rank is from its offset up to its limit.  `PagesInv`: while no
tuple was removed since the first page, what was there then and is in no page yet has a
rank at or beyond the next offset, and there is none when a page was not full; while
none was put, what is in a page has a rank below it.  A removal lowers ranks and a tuple
put raises them, so that each half needs its own condition.  The steps of others keep
`PagesInv` because a rank changes only when the table does; the last page is the last
because fewer rows than its limit have the ranks it asks for, which is a count of finite
sets.

The argument for matching.  Of the fields before `pos`, the loop has found that
the types agree, the actual values are equal and each formal's binding is the
tuple's value; and a name is bound exactly if it occurs there (`LoopInv`).  A
repeated name keeps its binding because the field agreed with it
(`IterationKeepsLoopInv`).  When a field does not agree, the bindings so far are
forced upon any assignment, so that there is none (`AgreesIsNecessary`).
`FilterIsNecessary` is the same for the SELECT, which looks at the actual fields
only; its theorem is TupleStore's assumption `Matches[p] \subseteq
Candidates[p]`, here of the code.  Values survive the JSON because a
normalised integer is an integral numeral in range again (`DecodingRoundTrips`).
TLC checked this `IInv` on the instance of `matching`.

The argument for the client.  `IInv`: between two requests the effects are those
of the rows, and nothing is pending; while one is under way they may be one more,
and then its `COMMIT` is no longer pending, so that a late one cannot come twice.
`TimeInv`: while a request is under way, `spent + timer` is the client's timeout,
and once it has arrived, `slow` plus the server's wait is `spent + left`; a timeout
of the client therefore means that `slow` is what the client's timeout has over the
server's wait, which is at least the buffer (`TimeoutCoversWait`) when nothing
overflows (`DurationFits`); and a server's timeout, at `left = 0`, means that
`spent` is at least its wait.  TLC checked both on the instance of `client`.
`TypeInv`, for `TypeOK`, adds what bounds `rows` and `timer`: a command that asks has
an input left, and before it has read any no timer runs.

The argument for the parser.  Its loops are recursive functions over the positions of a
text.  The library's induction theorems have operators as parameters, so
`CompactSpecProofs` derives induction from well-foundedness in the form of a set that
contains 0 and is closed under successor (`Induction`), and that a recursive function
exists (`Recursion`).  `Reads(reader, st, text, end)` says that a loop leads from state
`st` over `text` to the state `end`; it composes along concatenation (`ReadsOn`).  A text
with paired quotes leaves the splitter outside quotes whatever came before (`Even`); a
quoted string is `Even` because escapes never leave a quote alone for it to take as an
end.  So a comma ends a field exactly where `Separated` puts one, the pieces are what is
between them, `TrimSpace` takes the spaces around a piece away and the outermost
parentheses belong to the whole (`Encloses`), a formal is cut at its first colon, and
what `Unquote` reads of `Quoted(value)` is `value`.  `WrittenIsRead` follows; for
`MalformedIsRefused` each piece is read or refused, and one refused piece refuses the
text, where a string that does not end takes all that follows it.  `TuplesCanBeTyped`
says that `Writes` leaves no tuple out.

`CommandsStayUnderstood` is for commands whose `means` is what was written
(`AsIntended`): with something in one source that `TupleDSL` reads as that, or with
nothing, several sources or something malformed.  This is what the words "what its author
meant" stand for, and no assumption about the program.  TLC cannot evaluate it, since
`TupleDSL` quantifies over all texts; the texts of the `client` run are written with its
operators, and its malformed ones are each an instance of `Malformed`.  `UnderstoodInv`
is the invariant: from the moment they are read, a command's inputs are what
`LoadInputs` makes of its arguments, nothing is sent without any, and "usage" is the
error of a command that has none.

Only model-checked: liveness (`RequestsEnd`, `OwedAreWoken`, `CallsEnd`,
`RequestsAnswered`, `ReadersAreServed`, `CommandEnds`, `RequestsProceed`,
`ShutdownEnds`).  It rests on ENABLED under the fairness of section 3, which is out of
TLAPS's reach.  Every safety property and every action property of a passing run is
proved, as is the refinement of `TupleSpace`; `WaitersMissNothing` under
`WindowsSuffice`, and `CommandsAreUnderstood` of commands that are `AsIntended`.

## 5. What is not modelled

Modelled are store, notifier, blocking service, matching, the tuple commands with
client and handlers, the processes with their migrations and their end, and the admin
commands that list or remove tuples.

Left out, because no state depends on them: `Spaces`, `Waiters` and `Config` (one
statement, one read of `activeWaiters` under its mutex, a constant), the counts that
`Stats` puts side by side (they are read one after the other and nothing promises
that they agree; the reads themselves are in `Server`), `config.Validate` and the
defaults from the environment, `healthz`, the access log, JSON, and the layout of the
CLI's output.  `RedactedConfigSnapshot` builds a text for display.  Of HTTP routing
`Admin` has the routes it needs.

Not modelled on purpose: the syntax of names of spaces; hash collisions of
`ChannelName` (channels are a function of spaces that need not be injective in
`Service`; a collision wakes a request that then scans in vain); PostgreSQL's own
crash and recovery (nothing in the code handles it other than by failing requests,
which are modelled).

What could be added: the composition of `Server` with `Service`, so that a wait is
followed across the end of its process.

Three things that a reader should know.  A `purge` request takes the same filter as a
listing, and `buildTupleDeleteQuery` leaves out its `limit` and `offset`: the command
line sends none, another client's would be ignored.  A `wait_ms` of more than 2^63
nanoseconds overflows in `handleRead` and in `TimeoutForWaitMS`; the properties about
time are stated for waits that fit (`InRange`), the others only for the width of a
duration and the end of the command.  A numeral beyond int64 is read as a string
without any error (`parseLiteralToken`), where tuple-dsl.md:25 has "integers become
`int`"; the model's `Numerals` are those that `ParseInt` reads.
