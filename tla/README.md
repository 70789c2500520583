# Verification of the user service

TLA+ modules, TLC configurations and TLAPS proofs kept beside this NestJS service.
Every definition is translated from the TypeScript under `src/src/`; what TypeORM,
pg, ioredis, Nest, Postgres and Redis do is modelled from how that code uses them.

## 1. The system

| component | state it keeps | operations | hard behaviour |
|---|---|---|---|
| user service (`module/user`, `db-user`, `core/entity`) | table `user` (rows with `deletedAt`), connection pool of the `user` data source, query cache in Redis | `getProfile` (cached for 20 s), `getUserList` (paged), `updateProfile`, `removeUser` (soft delete), each write in a transaction of its own (`mergeTransaction`) | calls interleave at every await; a cache nobody invalidates; row locks; a pool without a wait limit; failing BEGIN / statement / COMMIT / reply; an instance stopped in mid-transaction |
| HTTP exchange (`user.controller`, interceptors, `main.ts` pipes) | status and body of one response | guard, interceptor, file interceptor, pipes, handler, and back | an error can arise before, inside or after each of them and must be answered consistently |
| throttling (`app.module.ts`) | hit counters and blocks in Redis | count, block, let pass | hits on the ends of windows and blocks, several instances, lost replies |
| SQL logging (`core/logger`, `db-log`) | table `log`, in-flight inserts, one process-wide `LoggerService` | `log/info/warn/error/debug`, `insertLog`, `logQuery` | fire-and-forget inserts, reordering, loss at shutdown, logging of the logging |
| process lifecycle (`main.ts`, `core/http-server`) | how far bootstrap is, the server's socket and connections, the data sources, the parent process, one `stopProcess` per signal | bootstrap, signals, `stopProcess`, uncaught exceptions | bootstrap and every stop run side by side; a signal before listening, a second one, a failed listen, kept-alive and silent connections, a parent that has gone |
| environment (`core/environment`, `module/environment`) | one object per instance of the service, the files `.env` and `env-template.sh` | fill from `.env`, validate, write the template | three writers of one file; a start that mixes what two files say |
| fetch client and DTO URLs (`core/fetch`, `shared/dto`) | none | `call`, `callRaw`, `upload`, `interpolatedUrl` | a URL put together without encoding is read back by other code; answers that are not ok |

Components interact as follows. The router hands a request to the throttler guard
(Redis), then to the response interceptor, which surrounds multer, the pipes and the
controller method. The method calls `UserService`, which shares the pool, the table
and the query cache with every other call and every other instance. Each SQL
statement of the `user` data source is reported to `DBLogger`, which inserts a row
into `log` through a data source of its own. Users are created by another program:
no route inserts one.

What makes each part correct: a read shows only committed versions of the row that
was asked for, and old ones only for a bounded time; a write takes effect at most
once, as a whole, and its answer is true; no connection is lost; every call ends;
a walk over the pages shows everybody who was not touched; status, system code and
effect of an exchange agree; a client gets what it asked for or learns that it did
not; no client passes more often than it may nor is refused without cause; a stop
harms no request and comes to its end.

## 2. Modules

### `UserContract` - what the API promises
One row is the history of its committed versions; a call is pending, applied,
answered or failed. A write changes its row in one step, at most once; "1" is answered
only by a write that took effect and "0" only by one that did not; a read is answered
from some committed version. Stopping the instance abandons its calls. A call that was
lost or failed may leave its write behind (`late`): a COMMIT that is on its way takes
effect after all (`ApplyLate`) or never (`Forget`).

### `UserService` - how it is done
The state is the clock, `rows` (committed versions with the time of their commit),
`lock` (row locks of open transactions, those of lost calls included), `cache` (query
results in Redis with their deadline), `free` (idle connections), and per call `pc`,
`op`, `target`, the query result in hand (`copy`) and `affected`. One action per stretch
of code between two awaits:

| `pc` | waits for | code | action |
|---|---|---|---|
| `lookup` | GET of the cached result | `sqlFindOne`, `cache:` option | `LookUp` |
| `check` | the reply | expiry test of TypeORM | `ServeCached`, `DropExpired` |
| `file` | nothing: first line of `updateProfile` | `file.originalname` | `LogFileName` |
| `connect` | a connection (and BEGIN) | pool, `mergeTransaction` | `Connect` |
| `select`, `stamp`, `store` | SELECT, its reply, SET .. PX | `sqlFindOne` | `Select`, `Stamp`, `Store` |
| `statement`, `commit` | UPDATE (and the row), COMMIT | `sqlUpdate`, `sqlSoftDelete` | `Statement`, `Commit` |
| `ack` | the last reply | release, `plainToInstance` | `Acknowledge` |

`Fail` makes any of these replies an error: the transaction is rolled back, or stays
committed when its COMMIT was executed and only the reply is lost. `Tick` lets time
pass and Redis drop lapsed keys; `Register` adds a user from outside; `Restart`
stops the instance in the middle of everything. When a connection ends with its COMMIT
on the way, Postgres may not know yet: the row stays locked in the name of the method
until `LateCommit` or `LateRollback`, while the next instance serves. `Methods` are
those the clients of a run call. The cached result is stamped when
the reply of the SELECT is back, while its Redis deadline starts only when SET is
executed: the two differ, and the model keeps both. UPDATE and soft delete match
removed rows too, as the code's conditions do. An empty result is cached like any
other.

### `UserListing` - paging under change
The table is the sequence of users in the order ORDER BY gives them. A client asks
page after page while `currentPage < totalPages`; `getUserList` reads the page and
then the total, which TypeORM infers from a page that ends the table. Between any two
steps users are added anywhere (ids are random), removed, or moved (an update of the
column that orders them, or a tie resolved differently).

### `HttpExchange` - one request
Body parser, router, guard, interceptor, multer, pipes, controller method, service
call, and the way back through `map` or `catchError`, with each way to fail. The body
parser, the router and the guard come before the interceptor, so their errors (a body
that cannot be read, an `:id` that cannot be decoded: `Unreadable`) are answered by Nest
itself, without a `ResponseDTO`. `ErrorDetailWithParams` is thrown nowhere in this program
and is left out, so is `debugError`. `KeepsContract` maps an exchange to a call of
`UserContract` on a row of its own (`Stage`: pending or applied until the answer, then
answered or failed by its status), so that what `UserService` promises reaches the client.
There `late` is empty: a COMMIT that outlives its call is a matter of `UserService`, where
calls and restarts interleave; here the service call is over when its error is there.

### `FetchExchange` - `FetchService` talking to this service
It EXTENDS `HttpExchange` by a client. A DTO becomes a URL the way `interpolatedUrl`
writes it (undefined values are skipped together with their separator, nothing is
encoded); Express and the controller's DTOs read the URL back; `HttpExchange` serves the
request; `call`, `callRaw` and `upload` turn the answer into a result. Pages, page sizes
and emails are constants: any whole numbers, and any texts with what Express reads of
them: the email itself (`AsRead`: a `+` is a space, a `&` ends it) and the parameters
that follow its `&` (`Brings`). A parameter that is there twice becomes an array, which
the decorators refuse; one that the caller left undefined takes the value the email
brings; a name the DTO does not expose is left out. Any other client may ask in between
with any request, so what holds here of an exchange holds of all of them.

### `ThrottleWindow` - how often a client passes
The counter of one client and one handler in Redis (others are other keys): hits of
the window, when it ends, until when a block lasts. The guards of all instances work
on it with the storage's script, which is one step of Redis; a reply may be lost after
the hit was counted. A key is there up to and with its last moment, with no time left,
which the script takes for none: a hit in the last moment of a window prolongs it with
its count, and each hit in the last moment of a block starts anew and passes
(`Prolonged`, `Freed`). `hits` and `passed` record what became of every request.

### `Lifecycle` - from bootstrap to exit
Bootstrap creates the application, registers the signal handlers and listens; each
signal starts a `stopProcess` of its own: close the server and idle connections, wait
for the others, destroy the data sources, disconnect from the parent process, exit. A
connection is awaited until its request is whole, then busy, then idle; it is kept alive
and may bring any number of requests; closing the server (Node 20, `docker/Dockerfile:1`)
ends the idle ones only. A parent may go at any time; to disconnect from it then is an
error, and the stop is `rejected`. Bootstrap does not learn of a stop: after
an early signal it goes on to listen. `PhasesOfLogging` shows that this process goes
through its phases the way `SqlLogging` assumes (there with the log empty).

### `SqlLogging` - rows of table `log`
`log` is the sequence of records in the order their ids are announced, each with the
state of its insert; `table` is the order in which Postgres executed them. DBLogger adds
a record for every statement of the `user` data source and for each that fails,
`ContextLogger.debug` and `SqlLogger.debug` add others. Inserts wait for one of the
connections of the data source `sql-log`, first come first served; an insert can be
rejected before or after it was executed. That data source has a logger of its own,
which is asked when an insert is sent and when it fails, and must record nothing. The
process is being created (its data sources already issue statements, but no signal or
exception handler is registered), runs, closes, and ends, at any moment and without
regard to inserts. While it closes TypeORM returns connections that are still at work,
so the pool bounds nothing then. What is printed and never stored (`ContextLogger.info`,
`error`, `warn`), and `logQuerySlow`, which needs an option this program does not set,
are left out.

### `EnvTemplate` - environment and template
The variables are constants: their names in the order of the classes, type, default,
decorators (`@IsOptional`, `@IsNotEmpty`), what a text is as a number and what a shell
makes of it. `dotenv.config()` runs first: `.env`, which does not change, fills what the
shell has not (`Filled`). Then they are parsed and validated as the decorators say.
Three `CoreEnvironmentService`s are built while the modules load; each then truncates
`env-template.sh` and writes it in one go from its own position 0, the core service a
shorter text than the other two. The process may stop between any two of these steps, and
a new shell may source whatever the file then holds. A text may set further variables
besides its own (`a PORT=1`: `Also`), and the first line that a shorter text has left of
a longer one is cut somewhere: it sets nothing, its own variable, or one whose name its
own ends with (`ReadAs`; `misread`).

### `MC...`
Instances for TLC, with symmetry of calls and users and of the service's instances. It
is used in `user_cache`, `user_users`, `listing` and `throttling`, whose properties are
safety properties (the refinement `ImplementsContract` among them) that do not tell
calls, users or instances apart; never in a run with a liveness property.

### `...Proofs`
`UserServiceProofs`, `UserContractProofs`, `UserListingProofs`, `SqlLoggingProofs`,
`ThrottleWindowProofs`, `LifecycleProofs`, `FetchExchangeProofs` (which holds the proofs
about `HttpExchange` too) and `EnvTemplateProofs`: see section 4.

## 3. Runs

| run | asks | bounds, and why they are enough |
|---|---|---|
| `user_cache` | how stale a cached profile can be (`BoundedStaleness`), whether each result is of its user and of the time it claims (`ResultsFaithful`), and whether `UserService` implements `UserContract` (`ImplementsContract`) | one user, two calls, two connections, cache time 1, clock up to 2, three versions: an entry can be filled late by a slow call, be overwritten by an older one, lapse and be refilled, with writes in between; two transactions meet on the row, and a restart leaves a COMMIT behind |
| `user_users` | answers stay with their user, connections are accounted for (`TypeOK`, `AnswersOwnProfile`, `ConnectionsAccounted`) | two users, two calls, two connections; the clock stands still so that entries are always shared |
| `user_waiting` | every call ends (`EveryCallSettles`) | one row, three calls, two connections: one call has the row, another waits for it with the last connection in hand, the third waits for a connection; or both wait for what a lost call left. One method that reads and one that writes, since the two writes wait alike |
| `listing` | who is missed or repeated by a walk, whether totals are true (`TypeOK`, `MissedOnlyByRemoval`, `RepeatedOnlyByAddition`, `TotalWasTrue`) | four users, pages of two, three changes per walk: changes can hit before, between and after the pages and between page and total; walks repeat |
| `http` | whether status, code and effect of an exchange agree (`TypeOK`, `RefusedUntouched`, `StatusTellsOutcome`, `WriteAnswerTrue`), whether it is a call of `UserContract` (`KeepsContract`), whether a query arrives as it was meant (`QueryArrives`), which are lost (`LostByFirstOnly`), whether a caller of `FetchService` who gets a result for a write has had it done (`ResultMeansDone`) | numbers on both sides of what `PagingRequestDTO` allows, an email of each kind (the word `undefined`, with `+`, with `&` and then an unknown name, a `page`, a `pageSize` that is allowed and one that is not): each value that some rule treats differently is among them |
| `logging` | whether the log tells the truth, stays in order and every insert ends (`TypeOK`, `NoLogOfLogging`, `Accounted`, `BoundedOvertaking`, `EndsOnlyWhenTold`, `EveryInsertSettles`) | four records on two connections: both busy, a queue behind them, failures and an end at any point |
| `environment` | what the template holds in the end and what a start from it gives (`TypeOK`, `EndsWhole`, `StartsAlike`) | eight variables, one of each kind (with a default, with a default that a shell splits, flag, required text of the user database, required number, optional text, and two whose names end in that of another), no `.env`, one with a part of the variables and one with all, a text that sets another variable, all interleavings of three streams, one start from the template |
| `lifecycle` | what a stop does to requests, whether the phases are those of `SqlLogging`, whether a process that was told to end ends (`TypeOK`, `GracefulOnceListening`, `PhasesOfLogging`, `EndsWhenTold`) | two clients, two signals, any number of requests: one request can be in work and others come on a kept-alive connection while two stops are at different points |
| `throttling` | how many pass and who is refused (`TypeOK`, `AdmittedBounded`, `RefusedForCause`) | two instances, limit 2, a window of 3, clock and hits up to 7: two windows and a block follow each other, with hits on every end, several in the same moment among them |
| `http_hello`, `http_file`, `environment_template` | three statements of the repository that the code does not keep | none |

The runs `http_hello`, `http_file` and `environment_template` end in a counterexample,
on purpose:

* `test/app.e2e-spec.ts:22` expects GET / to answer the text `Hello World!`; the
  global interceptor wraps it into a `ResponseDTO`.
* `user.controller.ts:47` says `fileIsRequired: false`; `user.service.ts:72` reads
  `file.originalname` unconditionally, so an update without a file is answered 500
  (before the database is reached).
* `environment.service.ts:212` calls the file the environment's template; values are
  written unquoted and `undefined` as a word, so sourcing it gives `INSTANCE_ID` the
  first word of its default and `REDIS_USERNAME` the name `undefined`
  (`env-template.sh:34`), and validation accepts both.

Other things met on the way that contradict no statement of the repository, and are
therefore only noted: a validation error is answered with HTTP 400 but system code
`PLEASE_THROW_SYSTEM_CODE`, since the table that maps 400 to `BAD_REQUEST` is reached
only by errors that are not `HttpException`s; `updateProfile` and `removeUser` answer
the bare number of rows as data, since `plainToInstance` leaves a number as it is; a
removed user can be updated and removed again. And:

* A signal between the registration of the handlers and `listen` closes the data
  sources under a bootstrap that goes on to listen; requests that get in then fail or
  are cut by the exit. `GracefulOnceListening` leaves out these early signals.
* When `listen` fails, `uncaughtException` only logs it: the process stays, serves
  nothing, and ends at a signal.
* A connection that is kept busy, or that never sends its request to the end, holds up
  `app.close` for as long as its client likes: Node 20 stops checking its timeouts when
  the server is closed.
* When the parent process has gone, `process.disconnect` throws inside `stopProcess`: the
  handler of `uncaughtException` logs it and the process stays.
* A client that asks again in the last moment of each window has it prolonged with its
  count, and is refused at a rate the limit allows; in the last moment of a block any
  number of requests pass.
* `dotenv` fills what a partial template lacks: a shell that sources a file which the core
  service wrote last may start with the user database of `.env`, and a cut line may export
  another variable than its own.
* `FetchService.call` hands the answer to `plainToInstance` with a class that exposes
  none of its fields, so its caller gets an empty object for any good answer; `upload`
  sends the URL with `:id` in it, and only `UpdateProfileDTO` has a body to send, with
  the type of a response.
* A `+` in an email arrives as a space; `getProfile` with an undefined id is routed to
  the list; a list query whose first value is undefined has no `?` and is answered 404
  (`LostByFirstOnly` says exactly when).

**Fairness.** `FairSpec` of `UserService` asks strong fairness of each call's steps:
a callback that is ready runs (event loop), a reply comes or an error does (driver
and server), a connection that is freed again and again goes to the call that has
waited longest (pg's pool is a queue), and so does a row lock in Postgres. Weak fairness of
`EndLost` is Postgres's: it ends the transaction of a connection that is gone. Nothing is
asked of clients, of the clock or of restarts. `Fail` needs no fairness: calls settle
without it.

`FairSpec` of `SqlLogging` asks weak fairness of the pool and of each insert: the head
of the queue gets a free connection, and Postgres or the driver answers. It asks
nothing of the pool once it is being closed, nor of the rest of the program.

`FairSpec` of `Lifecycle` asks weak fairness of `Answer` of each connection (a handler
comes to its end, which `user_waiting` shows of the calls), of `Drop` of an idle one
(Node's keep-alive timeout ends it) and of each `stopProcess`, whose steps are callbacks
of the event loop. It asks nothing of clients, signals, the parent or bootstrap, and
nothing ends a connection whose request never comes. So `EndsWhenTold` has two premises:
each client comes to rest, that is, from some time on it does not owe a request
(`ComesToRest`), and the parent does not go. Without either TLC finds a process that
stays, as noted above.

**Deadlock** is checked in the runs of `UserService`, `UserListing`, `HttpExchange` and
`FetchExchange`: a new call or request is always possible. It is not in those of
`SqlLogging`, `EnvTemplate` and `Lifecycle`, where the process ends for good, nor of
`ThrottleWindow`, whose clock and hits are bounded.

**Mutants.** The definitions headed "Variant" are plausible mistakes: a cache key
without the id, expiry left to Redis, a connection released on the normal path only
or on every path, a statement outside its transaction, a commit whose outcome is not
looked at, pages counted from 0, and so on. Each property fails on one of them.

## 4. Proofs

`UserServiceProofs` proves for every set of users, every finite set of calls, every
pool size and cache time and without the bounds of the runs:

* `TypeCorrect` and `ConnectionsNeverLost`. The two need each other: that an idle
  connection is never released into a full pool follows from the count of holders,
  and the count needs the types. The count itself is moved by one when a call joins
  or leaves the holders (`HoldersJoin`, `HoldersLeave`, `HoldersStay`).
* `AllResultsFaithful`: every query result names the user it is kept for, a version
  its row has, a reading time not after its stamp, and a version that was superseded,
  if at all, no earlier than it was read. Rows only gain versions dated now
  (`History`), so such a fact is kept (`FaithfulKept`); every result a call or Redis
  gets comes from one of these places (`ResultSources`, `CacheSources`).
* `OwnProfileAnswered` and `StalenessBounded` follow from it.

The inductive invariant is `IInv == TypeOK /\ ConnectionsAccounted /\ ResultsFaithful`.
`BoundedStaleness` alone speaks of steps that serve and says nothing of results in
flight; the strengthening carries it over stamping, storing and lookup.
Assumptions: `Ttl` is a natural number, the pool is not empty, the calls are finitely
many, and `NoOne` and `NoEntry` are none of the values they stand for the absence of.

`UserContractProofs` proves the refinement, `ContractKept`: every step of `UserService`
is a step of `UserContract` or leaves its variables alone. The lock a lost call has left
is what the contract knows as a late write, so `LateCommit` is `ApplyLate` and
`LateRollback` is `Forget`. `CInv` adds to `IInv` the
shape of each call (what it holds at which point), from which the mapped stage and
answer are read. A step of one call changes that call's stage and answer only
(`OneCall`), most change neither (`Unseen`), a commit appends one version to one
history (`Appended`); the remaining lemmas map one action each.

`UserListingProofs` proves everything the run `listing` checks, for any set of users,
any whole `pageSize` the DTO lets through and any number of changes. `TypeCorrect` and
`TotalsTrue` rest on `SizesCurrent` and on `PageRead`: a page that ends the table
tells its size. `MissedBounded` and `RepeatedBounded` need to know where the client is.
`Reached` are the users at the places behind it and `Beyond` the others. An insertion
pushes at most one user from the former to the latter, a removal pulls at most one the
other way, a move at most one each way (`InsertedParts`, `RemovedParts`, `MovedParts`);
reading a page moves its users from `Beyond` to `Reached` and nothing else (`PageTakes`).
So the users behind the client that it has not seen (`Missed`) and the repetitions that
happened or are still to come (`Repeated`) grow by one per change of the right kind and
by nothing else. `WalkInv` states this with the page in hand, and once more without it
as long as its count may still fail and the page be asked for again; at the end
`PagesCover` shows that the total told put the whole table behind the client.
`RepeatedOnlyByAddition` counts pairs instead of summing over users because nothing can
be proved about a fold.

`SqlLoggingProofs` proves all safety properties of `SqlLogging` for pools and logs of
any size (assumption: the pool is not empty). `Shapes` first reduces the actions to
what they do to the log: add a record, move one insert, cut off the waiting ones, or
nothing. `BoundedOvertaking` needs two facts besides itself: those that wait come after
all others (`InOrder`), and no more than a pool of inserts is at work (`PoolBounded`);
so what a record overtakes when it is stored is at work with it. `Told` carries the
reason for the end of the process through its closing. Together they are `IInv`.

`ThrottleWindowProofs` proves all that `throttling` checks for every `THROTTLE_TTL > 0`,
every `THROTTLE_LIMIT > 0`, any instances and any length of the run. Requests are counted
in the order of time (`Ordered`); the hits of the window are the last ones, without a
long pause, and those from before its start were followed by one that prolonged it
(`Window`); a block stands for a hit that found the limit used up (`Block`); while it
lasts nothing passes, and what passed before lies in windows that end with it (`Shut`);
what passed lies in its window, numbered, and windows are disjoint unless a further
request passed in the last moment of a block (`Numbered`). Twice the limit of passed
requests therefore lie in three windows at least, or fill two, and then begin at the start
of the first. That the reply to a hit is lost changes none of this: it counts, and does
not pass.

`LifecycleProofs` proves the safety properties of `Lifecycle` for any clients and
signals. `Stopped` says what a stop has behind it: one that began when the server
listened has closed it and seen the last connection go before it destroys a data source,
and no connection can come after; a stop that was rejected for want of a parent has come
just as far. `PhasesKept` is the implementation of the phases of `SqlLogging`; it maps
the two variables they share.

`FetchExchangeProofs` proves what `http` checks. For `HttpExchange`, whoever asks, the
invariant `IInv` adds to the types what each point of the way has behind it: nothing
happens before the pipes let a request through (`OnTheWayIn`); inside the controller
the request is well-formed and its route known (`Inside`); a statement has changed
nothing before its commit, then just the rows it matched (`Changed`); an error of the
client is thrown before the controller is called, any other in it (`Thrown`); and each
answer is one of seven, each with the places it can come from (`AnsweredBy`).
`RefusedUntouched`, `StatusTellsOutcome` and `WriteAnswerTrue` are read off the last, but
only because the other parts tell which error meets which line of `catchError`.
`ContractKept` proves that serving a request takes only steps of `UserContract` or none
that shows: a step is hidden, a failure, the effect or the success of the call (`Hidden`,
`FailureShown`, `EffectShown`, `SuccessShown`). `IsClient` shows that `FetchExchange` is
a client of this exchange and inherits all that.
`FInv` adds that the request under way is one the call can have sent (`SentBy`) and
that a result is that of its answer (`ResultOfAnswer`). `QueryArrives` and
`LostByFirstOnly` then follow from what a list URL says and from what the pipe let
through; `DoneIfResult` from `SentBy`, which ties the route that was served to the method
the caller named, and from `AnsweredBy`, which says that an answer that is ok was given
after the commit. Assumptions: pages and page sizes are integers, emails and what is read
of them texts, what they bring is any value of the parameters, and `Undefined` is none of
these.

`EnvTemplateProofs` proves what `environment` checks, for any variables. Their names may
repeat; only these facts are assumed: a default has the type of its variable, a number
is written as a text that is read as the same number, `true` and `false` are written as
texts that are read as themselves, and what stands for no value is no text. What `.env`
holds, what a shell makes of a text and what a cut line sets are any functions.
`LastWhole` gives `EndsWhole`; it needs to say nothing while a stream is between opening
and writing, since whatever the file then holds is overwritten from its start. For
`StartsAlike`, `OneEnvironment` says that all lines in the file tell of one environment,
whichever process and stream wrote them, and cover all of `CoreEnvironment` unless there
is none; `CoreFirst`, that no line of `CoreEnvironment` is among those that may be cut.
`Reproduced` says what a shell has from such a file: nothing, and `.env` decides alone;
or every variable of `CoreEnvironment`, so that `.env` fills those of the user database
at most; and what a variable has from the file is its own value, unless another value or
a cut line sets it too. Parsing a value that was written gives the value back
(`ParsedAgain`). That a last line exists for each name exported comes from the
least-element theorem of the library's well-founded orders.

Only model-checked are the liveness properties `EveryCallSettles`, `EveryInsertSettles`
and `EndsWhenTold`, which the prover cannot reach; every invariant and action property of
a passing run is the statement of a theorem. The three statements of the repository that
are violated are counterexamples of TLC.

## 5. Not modelled

`sqlInsert`, `sqlUpsert`, `sqlFind` and `sqlCount` are called by nothing. Type
declarations, constants, container files and one-line helpers keep no state. A
fractional `page` or `pageSize` passes the DTO, and what Postgres makes of it is
specified nowhere. `THROTTLE_TTL` and `THROTTLE_LIMIT` are positive whole numbers: with
a `THROTTLE_TTL` of 0 Redis keeps no key, with a fraction it refuses the command. The
`LoggerService` is one per process and would keep the logger of its first application;
this program builds one. What `core/logger` only prints is left out.

What remains worth doing: that a walk over a table that stops changing ends, the
throttler seen from many clients that share an address, and an instance that starts
again while others go on.
