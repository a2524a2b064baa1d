# Verification of athena-local

athena-local answers the AWS Athena API on a developer's machine: a facade
process accepts Athena requests, runs the SQL on a local Trino, keeps query
executions in SQLite and writes results as CSV to an S3 store; a command line
starts and stops the containers that Trino, its metastore and the store run in.

These modules model the parts of it that keep state or that several actors work
on at once. TLC checks small instances of them, TLAPS proves the most important
properties for every value of the constants. Source paths below are relative to
the repository; `PROJECT.json` maps every definition to the lines it models.

## The system and its parts

| component | state | operations | what is hard | modules |
|---|---|---|---|---|
| query states, `src/state/transitions.ts` | – | `canTransitionQueryState`, `recoverStateAfterRestart` | a state may be written over itself | `QueryStates` |
| query state store, `src/state/repository.ts`, `database.ts` | the table `query_execution`, in a file or in memory | `createOrGetByToken`, `updateState`, `listAll` | token races, merges of columns, loss of a table in memory | `Facade`, `Listing` |
| facade: Start and Stop, `src/facade/service.ts` | rows; handlers suspended at awaits; Trino queries; CSV objects | `StartQueryExecution`, `#execute`, `StopQueryExecution` | handlers interleave at every await; any exchange may fail or be answered late; the process may stop | `Facade`, `QueryLifecycle`, `FacadeRefinement` |
| facade: reads | – | `GetQueryResults`, `ListQueryExecutions`, `GetQueryExecution` | offset tokens into a table that changes | `Paging`, `Listing`, `ResultReading` |
| facade: catalog and work groups | Trino's `information_schema` | `GetDatabase`, `ListDatabases`, `GetTableMetadata`, `ListTableMetadata`, `GetWorkGroup`, `ListWorkGroups` | rows that come in pages and a walk of several statements over a changing catalog, exchanges that fail | `Catalog` |
| HTTP handler and protocol, `src/server/http.ts`, `src/protocol/*` | – | `handleAthenaHttpRequest`, `routeAthenaRequest`, the validators | the order of the checks | `Protocol` |
| serving and shutdown, `src/cli.ts`, `src/server/bootstrap.ts` | the open database | `shutdown` | handlers that go on without a database | `Shutdown` |
| the `query` command, `src/cli/run.ts` | a connection, a count of polls | `runQuery` | the facade goes away between two requests | `QueryCommand` |
| object storage, `src/storage/bun-s3.ts`, `safety.ts` | the bucket | `write`, `deletePrefix` | pages of a listing that shrinks and grows | `PrefixDeletion` (`write` also in `Facade`) |
| seed, `src/seed/seed.ts`, `src/storage/buckets.ts` | buckets, schema, table | `seedBuckets`, `seedLocalCatalog` | overlapping, failing and killed runs, check-then-create | `Seed` |
| stack, `src/cli/run.ts`, `src/runtime/*` | network, containers, volumes, `running.json` | `start`, `stop`, `reset`, `destroy` | partial failure and rollback, failures nobody looks at, Ctrl-C, overlapping runs | `ContainerRuntime`, `Stack` |
| readiness, `src/runtime/readiness.ts` | a probe loop per service | `waitForServicesReady` | time: deadlines, probes that hang, services that flap | `Readiness` |
| configuration, `src/config/*`, `src/server/bootstrap.ts` | four sources | `resolveConfig`, `start --facade-only`, the stores of facade and seed | precedence, dependent defaults, two resolutions of one command, seeding and serving at different times | `Config` |

How they interact: the command line resolves the configuration, drives the
container runtime and waits for readiness; with the stack up it serves the
facade. The facade's handlers share the table and call Trino and the store over
HTTP. Clients, the `query` command among them, reach the facade only. Seed talks to the store and to Trino
directly. One component per row has its own module because what they share is
narrow: the facade sees the stack as a Trino and a store whose requests may
fail, the stack sees the facade as a run that holds a port.

## The modules

### QueryStates, Facade (Start and Stop)

The program runs on one event loop, so what happens between two `await`s is one
step and other handlers run only at awaits. A handler is a process whose `pc` is
the await it is suspended at:

| `pc` | the handler waits for | left by |
|---|---|---|
| `submit` / `accepted` | `trino.submit`; Trino has not / has taken the query | `SubmitReturns`, `SubmitThrows` |
| `fetch` | `trino.fetchNext` | `FetchReturns`, `FetchThrows` |
| `write` / `stored` | `storage.write`; the CSV is not / is there | `WriteReturns`, `WriteThrows` |
| `delete` / `deleted` | `trino.cancel`; Trino has not / has taken it | `CancelReturns`, `CancelThrows` |
| `returned`, `ok`, `invalid`, `internal` | – answered: another call's id, 200, 400, 500 | |
| `dead` | – lost with the process | |

Each action is the code up to the next await. `Settle` is the shape of
`#execute`: an update in the `try`, and when it is refused the update of the
`catch` block, which may be refused as well and then rejects. `updateState` has
the merges by `??`. The splits `submit`/`accepted`, `write`/`stored` and
`delete`/`deleted` let an answer be lost or late after the other side has acted.
A page from Trino has rows or not, an error or not, and a next URI or not; pages
with neither rows nor an end are stuttering steps.

`Restart` loses the suspended handlers and, unless the table is in a file, the
table. It changes no row: nothing under `src/` calls `listNonTerminal` or
`recoverStateAfterRestart`.

Abstractions: ids and time stamps are the calls that made them (an id is a fresh
UUID, a handler stamps a column at most once); a result row is the pair of its
query and its number; the texts of errors are left out.

### QueryLifecycle, FacadeRefinement

What a client may rely on: an execution is created, begins, is published,
concludes, and is cancelled only when a Stop named it; it succeeds only once
published. `FacadeRefinement` maps the row to its state, the objects in the store to
the published ids, and the Stops' targets to the ids asked to stop.

### Paging, Listing, ResultReading

`Paging` is the arithmetic of `pagination.ts`, used by every walk below. `Listing` is one client's walk
over `ListQueryExecutions` while others submit, with equal or decreasing time
stamps too, and a table in memory may be lost. `ResultReading` is a
client that pages through `GetQueryResults` and chooses a page size for each
request; it reads the variables of `Facade`.

### Shutdown, QueryCommand

`Shutdown` is `Facade` with a database that may be closed. `shutdown` of
`src/cli.ts` closes it before it stops the server, so the handlers that are
suspended go on until they need the table; then `updateState` throws, the one in
the catch block as well, and the request is answered 500 (`UpdateThrows`). No new
request is taken. `StartAgain` is the end of the process and the next one.

`QueryCommand` composes `Shutdown` and `ResultReading` with `athena-local query`:
the Start, the poll loop, one `GetQueryResults`, the printed rows and every way to
exit. Other clients stop the query and read results meanwhile. Its 600 polls are
`MaxPolls`, its 1000 rows of a first page `DefaultPage`.

### Protocol, Catalog

`Protocol` is a function from a request to what becomes of it: the checks of the
HTTP handler and of the router in their order, and for each of the twelve inputs
the kinds of JSON value that its validator lets through.

`Catalog` is about one of three views: the schemata, the columns of a schema's
tables, the work groups. A request runs one statement (`TrinoAccepts` fixes its
rows), collects them page by page (`PageReturns` is an iteration of
`#runMetadataQuery`) and answers from what it has; lists are filtered and paged.
Requests that `Protocol` refuses are answered at once. Around it, schemata and
tables come, change and go (`Change`), and a client walks a list along its tokens
and repeats a request that fails. `moments`, `there`, `since` and `broken` are
ghosts: the catalogs since the request came, the names that stayed, what kind of
change there was, whether Trino failed.

### ContainerRuntime, Stack

`ContainerRuntime` is external: what `docker` and `container` do to the project's
network, containers and volumes, and when they exit with an error. A removal
fails only if the thing is absent or in use; creating a network or a container
under a name that exists fails; pulling, creating and starting may fail at any
time. `Stack` is `executeRuntimeCommand`: the port check, the config writer, the
plan of commands, `allowFailure`, the rollback of a failed start, readiness, and
`running.json`. Plans are sequences of commands computed from the list of
services, in the source's order; a host has one of the two runtimes, whose plans
differ in `network create`. A run may be
killed between any two commands and the host may go down.

### Readiness

The probe loops against a clock. Time passes in `Tick` only, and never past a
pending timer or the longest a probe may take.

### PrefixDeletion

`deletePrefix`, a page at a time, a key at a time, while others write and
delete. It is part of the storage interface; no command calls it yet.

### Seed

Buckets by number, then the schema and the table as statements, whose pages are
followed to the last. A name that is none is refused before its first request
(`RefuseName`); which names are good is left open. Trino's `CREATE ... IF NOT EXISTS` looks first and creates
later, so a second statement can come in between. The ghost variables
`overlapped`, `faulted` and `wiped` remember what a run went through.
(`README.md` of the repository also speaks of partitions and fixtures; the code
creates none.)

### Config

Seven settings stand for all of them: an enumeration, a prefix that can be
unsafe, three other strings, a port with a dependent default and the store's
port. A value is absent, blank, wrong or good. `StartFacade` resolves the
settings again, as `src/cli.ts` does. `RunSeed` is a seed that succeeds: it makes
its buckets in the store that `defaultBucketManager` reaches
(`bucketManagerEndpoint`), which need not be the one the facade writes to
(`storageEndpoint`). The output location and the endpoint are those of one
environment; everything else may be edited between a seed and a facade.

## The runs

| run | instance | what it shows |
|---|---|---|
| `facade_safety` | 3 Starts (two share a token, the third's output does not parse), 1 Stop, 1 page with rows, 1 restart, durable table | `TokenNamesOneRow`, `SucceededIsReadable`, `CancelHitsOwnQuery`, `LiveRowHasAHandler`, `StartAnswer`, `EndedBy`, `ResultIsTheQuerys`; the facade implements `QueryLifecycle` (`RefinesLifecycle`) |
| `facade_liveness` | 2 Starts with one token, 2 Stops, fair, no restart | `StopAnswer`, `StateIsFinal`; every request is answered (`CallsAreAnswered`), every execution ends (`RefinesFairLifecycle`) |
| `query_command` | the command's Start, 2 Stops, another reader, 3 Trino pages, client pages of 1 to 3, table in memory, 2 restarts, a shutdown before each or not | `ReadsTheResult`, `InterruptedIsReported`, `PrintsItsResult`, `ExitTellsTheOutcome`, `CommandEnds` |
| `listing` | 4 executions in 2 work groups, 3 clock readings, pages of 1 or 2, 1 lost table | `NothingMissed`, `WalkEnds` |
| `catalog` | 3 names, tables of 1 or 2 columns, 1 change at any time, 2 expressions, pages of 1 or 2, 2 tries, single requests well-formed and not | `AnswerIsOfOneMoment`, `OnlyTrinoFailsAWalk`, `QuietCatalogWalkIsExact`, `GrowthMissesNothing`, `CatalogWalkEnds` |
| `stack` | Docker or Apple's runtime, object store and metastore, both backends, 3 runs, 2 at a time, 1 killed | `ResetIsNotBlocked`, `FailureLeavesNothing`, `DestroyLeavesNothing`, `ResetIsFresh` |
| `readiness` | a probe that never hangs and one that may, timeouts 4 and 6, interval 2 | `WaitIsBounded`, `UpInTimeIsReady`, `WaitEnds` |
| `prefix_deletion` | 6 keys, 4 in the prefix, pages of 2, 2 calls | `OldObjectsAreGone`, `DeletionEnds` |
| `seed` | 2 runs over whatever earlier ones left, 2 buckets, fair | `SeededIsComplete`, `SeedCanBeRepeated`, `OneSeedWins`, `SeedEnds` |
| `config` | 4 project files, any two settings in the other sources | `PostgresStaysClear`, `ResultsHaveABucket`, `HigherSourceWins` |

The type invariants `TypeOK` (of `Facade`, `Listing`, `Readiness`,
`PrefixDeletion`, `Seed`, `Catalog` and `Stack`) are theorems, and no run repeats them. No
run uses a definition that replaces one of the modules.

`WalkEnds` is stated for walks in whose course submissions stop
(`SubmissionsStop`). The premise holds in the instance, whose ids are used up;
without it the statement would be false of the code, because a page or more of
submissions between every two requests keeps the end ahead of the offset for
ever. `DeletionEnds` needs no such premise: each page starts behind the last key
of the one before, and a bucket has finitely many possible keys, in the code as
in the instance. `CatalogWalkEnds` is about walks with the one change of its run.

Why the bounds are enough. Two calls with one token are all a race for a token
takes; a third call makes the other token's rows distinguishable; two Stops meet
in every order around one execution (a Stop that comes after the end, too). Two pages with rows are a first, a last and
one that is both. One restart is enough because the code keeps nothing of a
restart but the table. `query_command` has a restart for a facade that was shut
down and one for a facade that was killed; three Trino pages are more than a
client's page. A listing of four has a page that is full, one that is
not, and rows on both sides of the offset. Three runs of the command line are a
run that leaves something, one that fails or is killed on it, and one that has
to clean up. The two services of `stack` are the object store, which only one
backend has, and the metastore, with a volume and an init task: every kind of
command in a plan. Its runs are interchangeable (`SYMMETRY`), and a `VIEW` leaves
out `running.json` and the arguments of ended runs, which nothing reads. In
`catalog` three names leave one before, one at and one behind the offset of the
second page, and tables of two columns are split between two of Trino's pages; one
change at any moment is what can fall between two steps. Seed begins with anything that earlier runs can have left, so two
runs are a pair that overlaps. Two buckets are the least with an order. Two settings at a time
outside the project file are what a dependent default takes: the setting and
the one it depends on; for a seed and a facade they are the backend and the
store's port, or a flag that only the seed sees and one of these.

Deadlock is not checked where the calls are used up and the system may stop
(the facade's runs, `query_command`, `listing` and `catalog`); the other modules say in their
next-state relation how they end, and deadlock is checked.

### What the documents say and the code does not do

Two runs check one statement each, and TLC shows a behaviour that breaks it.

| run | statement | behaviour |
|---|---|---|
| `token_one_query` | Start honours `ClientRequestToken` (`README.md:163`) | a retry during the first submit finds the row QUEUED and submits again |
| `start_after_stop` | stop keeps data (`README.md:401`) | under Docker the next start fails on the network that is still there, and its rollback removes the volumes |

Others were met while modelling; the models do as the code does.

- Restart-aware reconciliation (`CHANGELOG.md:87`): nothing calls it, so a row
  that a stopped process leaves QUEUED or RUNNING keeps that state with no
  handler. `LiveRowHasAHandler` is stated for a process that has not restarted.
- Stop "Cancels the running Trino query and persists `CANCELLED`"
  (`README.md:166`): a Stop during the submit sends no DELETE and the query runs
  on; and a page loop that sees the cancelled query's error before the Stop has
  written makes the row FAILED, and the Stop answers 500.
- Start "Submits SQL to Trino asynchronously" (`README.md:163`): it awaits the
  whole execution and the upload.
- Terminal immutability (`test/sqlite/state-persistence.test.ts:14`): a second
  Stop rewrites the completion time. `StateIsFinal` says what does hold.
- destroy removes services and data (`README.md:306`): those of the
  configuration it resolves, whatever the stack was started with.
  `DestroyLeavesNothing` is stated for that configuration.
- `status` reports what was started (`CHANGELOG.md:32`): a reset killed while it
  waits leaves the `running.json` of before.
- The facade derives its endpoints from the ports (`README.md:294`), and so it
  does; seed, which is to create the buckets (`README.md:307`), does not: without
  an endpoint in the environment it goes to port 9000 (`src/cli/run.ts:412`), and
  with `ATHENA_LOCAL_PORT_MINIO` set to another port it does not make the facade's
  bucket. `ResultsHaveABucket` is stated for a store that is named or at the
  default port. Seed's Trino is at port 8080 likewise (`src/cli/run.ts:372`).
- Flags come first and defaults last (`README.md:270`): `start --facade-only`
  serves a facade that does not know its flags, and a blank value hides the
  value of a lower source and yields the default.

## Fairness

- Facade: `HandlersRun` says that an HTTP exchange ends, with an answer or an
  error, and that the event loop resumes the handler. Bun resumes every settled
  promise; a request to Trino or the store that never ends would be a
  connection that neither answers nor breaks. `QueriesProgress` says that Trino
  gets on with a query, which is about Trino, and is stated apart for that
  reason. Nothing is assumed about clients, Stops or restarts; the liveness
  run has no restart because a restart ends the handlers.
- QueryCommand: the command runs, and the handlers as above, with a database or
  without; nothing is assumed about shutdowns and restarts.
- Catalog: a client that has begun goes on, and an exchange with Trino ends.
- Listing: the client goes on asking. Readiness: the loops run, a probe ends
  within its abort signal's time, and time goes on. PrefixDeletion: the call
  goes on. Seed: a run goes on, and Trino works on its statement.

All of it is weak fairness.

## What is proved

Theorems hold for all values of the constants under the modules' named
assumptions: disjoint Starts and Stops and a token per Start
(`FacadeAssumption`), finitely many numbered ids or keys (`ListingAssumption`,
`DeletionAssumption`), finitely many numbered names (`CatalogAssumption`), probes
no longer than the timeout
(`ReadinessAssumption`), a list of different services, as
`createLocalStackServices` builds it (`StackAssumption`), volumes that belong to
services (`ServiceAssumption`), the command's Start with a token of its own
(`CommandAssumption`), and `ReadingAssumption`, `SeedAssumption` and
`ConfigAssumption` likewise. Every safety property and every action property of
the runs that pass is a theorem.

- **`FacadeProofs`**: types, `TokenNamesOneRow`, `SucceededIsReadable`,
  `CancelHitsOwnQuery`, `LiveRowHasAHandler`, `StartAnswer`, `StopAnswer`,
  `EndedBy`, and the action property `StateIsFinal`. Together they are not
  inductive. `IInv` adds what a suspended handler can count on: a request that
  has begun has a target that has begun (`TargetOK`, so that no id is used
  twice), its row is there (`RowOK`), Trino and the store have what its progress
  says they have (`ExternalOK`), a suspended Stop holds the URI of a query
  (`SeenOK`), and the stamp of an end belongs to a request that answered 200 for
  that row (`EndOK`). Every action that resumes a Start handler is first shown
  to be an instance of one relation, `Resumed`; then `Resumed`, the first steps
  of both requests, the external steps and `Restart` are shown to keep `IInv`.

  A second invariant, `QInv`, carries `ResultIsTheQuerys`: what a handler has
  collected in `fetch`, and what it writes, are the pages its query has sent, in
  order and none left out.

  The refinement: with a durable table, `Spec => RefinesLifecycle`. Each action
  maps to one abstract action or a stutter, from `IInv`. With a table in memory
  it is false: a restart takes rows away, which no abstract action does.

  The query command: `ReadsTheResult`, `InterruptedIsReported`,
  `PrintsItsResult`, `ExitTellsTheOutcome`. The theorems about `Facade` do not
  carry over to it as they are, because a handler whose database is closed takes
  a step that `Facade` does not have (`UpdateThrows`). So what happens around the
  command is described by one relation (`FacadeStep`), the core of `IInv` and
  `QInv` are shown to be kept by it, and `CommandInv` adds what the command and
  the reader remember: the rows a reader holds are those before its offset
  (`ReaderOK`), the row the command asks about is its own (`OwnOK`) and has ended
  by the first poll, and an end that was told is the row's for good
  (`OutcomeOK`).
- **`ListingProofs`**: `NothingMissed`. `RestIsAhead`: a row that was there at the
  beginning and has not been given has an index at or behind the offset. A
  submission lowers no index; a page takes what lies before the new offset.
- **`CatalogProofs`**: types, `AnswerIsOfOneMoment`, `GrowthMissesNothing`,
  `OnlyTrinoFailsAWalk` and `QuietCatalogWalkIsExact`.
  `OneMoment`: what a handler has collected and what its statement has still to
  send are together the rows of one of the catalogs since its request came.
  `RestIsAhead`: in a walk over a
  catalog that only grew, a name of its beginning that has not been given has an
  index at or behind the token's offset, in every catalog since the request under
  way came (`MomentsGrow`: without drops the lists of these only grow).
  A second invariant, `WInv`: the tokens of a walk are of its own list, and its
  requests pass the validators (`WalkIsRouted`); while no name comes or goes, it
  has been given the names before its offset and no others. A page has as many
  names as indices because a list is numbered without gaps (`IndexNumbers`, by
  the cardinality theorems, not by induction).
- **`ReadinessProofs`**: `WaitIsBounded`, `UpInTimeIsReady`. `Timing` bounds the
  clock by the beginning of the present probe and its length, or by the end of
  the sleep; `NextRound` says by when a service that came up is probed again.
- **`PrefixDeletionProofs`**: `OldObjectsAreGone`. `Progress`: an old object that
  is still there lies on the page in hand or behind the key that the next page
  starts after, and on the page if it is the last.
- **`SeedProofs`**: `SeededIsComplete`, `SeedCanBeRepeated`. `Done`: the items
  before the one a run is at are there, unless they were wiped. `Lone`: a run
  that none overlaps and nothing else stops meets nobody's traces. `Blamed`: a
  failed run has somebody to blame. `OneSeedWins` takes a second invariant,
  `Contest`: while no service, kill or bad name stops one, a run that is beaten to an item was beaten
  by a run that is past it. If all had failed, the run that came furthest would
  have been beaten by one that came further.
- **`ConfigProofs`**: `HigherSourceWins` and `PostgresStaysClear`, from a lemma
  that the resolved value of a field depends on the highest source that gives it
  and those above. `ResultsHaveABucket` from the invariant `Seeded`: a seed that
  made anything has made the bucket of its environment's results, whatever its
  settings, and nothing takes it away.
- **`StackProofs`**: types, `ResetIsNotBlocked`, `FailureLeavesNothing`,
  `DestroyLeavesNothing`, `ResetIsFresh`, for any services, and one property
  that no run has: `VolumesGoInRemovals`, what does hold of the data a stop keeps
  (the run `start_after_stop` shows what does not). First the plans: a plan is
  the parts of the services one behind the other, so each command stands in one
  part, and from that a plan of `destroy` removes everything of its services, the
  network last (`TakesDown`, `OnlyRemoves`), a plan of `start` creates the network
  once and then each container once (`BringsUp`), and every removal stands before
  every creation, the removal of a container before that of its volume
  (`Ordered`). Then the invariant. That a plan has ended says nothing of the
  host, because most commands may fail unseen; `IInv` says it for the commands
  passed so far: of a run that is alone (`Solo`), a container it removed is gone
  until it creates it (`ContainersOf`), a volume it removed is gone or its own
  (`VolumesOf`), the network it removed is gone unless somebody's container is
  attached (`NetworkOf`). A removal fails only if the thing is absent or in use,
  and the order of the plan excludes the latter. At the end of a plan everything
  has been passed.

Only model-checked is what must happen in the end: `CallsAreAnswered`,
`RefinesFairLifecycle`, `WalkEnds`, `CatalogWalkEnds`, `CommandEnds`, `WaitEnds`,
`DeletionEnds` and `SeedEnds`. The prover has neither `ENABLED` nor liveness under
fairness, and its provers cannot instantiate an induction theorem. Where an
argument is by induction (the place of a part in a plan, the furthest of the
seeds), it is made with the least element of a set of numbers, which the theorem
about minimal elements of a well-founded relation gives. `FlattenSeq` is
defined by a recursive function; `FlattenIsDefined` shows that there is one.

## What is not modelled

- `doctor`'s report, `status` and `logs`: they read and keep no state. The
  release scripts check the source tree and the package, not the program.
- Which rows a reader gets when two calls executed one row
  (`token_one_query`): the second execution rewrites the result under the reader.
- Requests on connections that are kept alive after `server.stop()`: in
  `Shutdown` a facade that stops takes no new request.
- A catalog that changes while Trino evaluates one statement: `TrinoAccepts`
  takes all rows of a statement from one moment. A schema or table that is dropped
  during a walk may make the walk pass over a name behind it; that is inherent in
  offsets, and `GrowthMissesNothing` is stated for walks without drops.
- A walk of `ListQueryExecutions` beside submissions that never stop; see
  `WalkEnds` above.
- In `Config`, a store that is wiped between a seed and a facade; that a later
  seed makes everything anew is in `Seed`.
- `CatalogName`, which no catalog operation looks at, and the texts of names: one
  that is no identifier is refused by the validators (`README.md:176`).
- A subprocess that hangs, and a foreign process that takes a port between the
  check and its use.
- The file of query states is not touched by `destroy` and `reset`; rows of an
  earlier stack stay listed. No document says otherwise.
- CSV quoting, type names, error texts, request signing, configuration syntax.

## Plan

Done: all parts of the table above, with the proofs above. What is left:

1. The query state beside `Stack`: rows that outlive their stack's data.
2. Two facades in one project directory (a file of query states shared by two
   processes), if the program comes to allow it.
3. Proofs: the answers of `Protocol` as a table, and an abstract specification
   of the stack (what each command does to the host in one step) that `Stack`
   implements for a run that is alone.
