# Verification of codex-grpc-clean-arch

The repository is a gRPC server in Go that keeps users, companies and employees
in PostgreSQL. This directory holds TLA+ models of it, the TLC configurations
that check them on small instances, and theorems about them that TLAPS proves
for every instance.

    tlc -config Directory_races.cfg MCDirectory.tla         # a run
    tlapm TransactionManager_proofs.tla                     # the proofs

## The system

| Part | Code | State | Operations | Correct when |
| --- | --- | --- | --- | --- |
| Transaction manager | `internal/platform/db/postgres/transaction.go` | none of its own: the open transaction travels in the context; the pool lends the connection | `WithinReadOnly`, `WithinReadWrite`, both `within` | the error returned tells what became of the transaction; the connection always goes back; nested calls share one transaction |
| Connection pool | `.../postgres/pool.go` (pgxpool) | idle and lent connections | build from the configuration, ping, acquire, release, close | callers that wait are served; the limit is the configured one; closed under nobody |
| User, company, employee services | `internal/core/*/service.go`, `internal/adapters/grpc/handler/*.go` | none between requests; a request reads a row, keeps it in memory, writes it back | Create, Update, Delete, Get, List | keys stay unique whatever their case, references stay whole, periods stay in order, answers are true |
| Repositories | `internal/adapters/repository/postgres/*.go` | none | one SQL statement per method; translation of database errors | every constraint violation that a valid request can cause has a domain error |
| Error mapping | `handler/error_mapping.go` | none | `toStatusError` | codes as documented in `docs/api` |
| Database | `assets/migrations/*.sql` | three tables, uncommitted writes, locks | the statements of the repositories; COMMIT, ROLLBACK | the schema's constraints |
| Server | `cmd/server/main.go`, `internal/platform/server/server.go` | listener, RPCs under way | start, serve, stop on a signal | stops after answering what it accepted, and closes the pool last |
| Migration tool | `cmd/migrate/main.go`, `assets/migrations`, `assets/seeds` (golang-migrate) | version table, advisory lock | up, down, drop, version | a version names one schema; rows survive; an interrupted run is noticed |
| Configuration | `internal/platform/config/config.go` | none | read, validate, connection string | what does not fit keeps the server from starting |
| Generated gRPC code, greeter | `adapters/grpc/gen/*`, `handler/greeter.go`, `core/hello` | tables of methods | stub, look-up, decode, call | a call reaches the method of its name |

An RPC runs in a goroutine of its own: handler, use case, `WithinReadWrite` (or
`WithinReadOnly`), one to three statements of a repository on the transaction in
the context, COMMIT or ROLLBACK, error mapping. RPCs share nothing in memory but
the pool; everything that makes the system hard happens between their
transactions:

- look-up and write are separate statements at READ COMMITTED, so the rows read
  may change or vanish before the write, and only the constraints of the schema
  are left to decide;
- updates read a row without locking it and write whole rows back;
- deleting a company cascades to employees, deleting a user is restricted by them;
- the answer to COMMIT may be lost, a rollback may fail, `fn` may panic, and the
  database outlives the caller with locks in hand;
- connections are limited, and nested calls must not take a second one;
- a walk over the pages of a list sees a different snapshot for every page;
- shutdown races with requests, with clients that leave and with the start of the
  server itself;
- one statement takes several locks in turn, and those who wait for a row stand
  in line, so single statements can wait for each other in a circle;
- a client may keep a stream open while the server is asked to stop;
- `uuid.Parse` reads texts that PostgreSQL does not;
- a migration may stop between any two statements, two runs may overlap, and
  seeds use the version table of the migrations.

`PROJECT.json` lists each of these hazards at its line, with the properties that
cover it.

## Modules

| Module | Models | Extends |
| --- | --- | --- |
| `UnitOfWork` | what callers of the transaction manager rely on: an effect that happens at most once, and an answer (`ok`, `failed`, `unknown`) that is true | |
| `TransactionManager` | `within`, statement by statement, with the pool, the network, the database's view of each transaction, and the process | |
| `TransactionManager_proofs` | theorems about it | `TransactionManager` |
| `Tables` | the schema, uncommitted writes, who waits for whom, what a write is answered, COMMIT with its cascade | |
| `Tables_proofs` | what committed rows and uncommitted writes have in common, and that executing and committing keep it so | `Tables` |
| `UseCases` | the life of an RPC, common to all services; `toStatusError` | `Tables` |
| `UserService`, `CompanyService`, `EmployeeService` | validation, reads, merges, writes and error translation of each service | `UseCases` |
| `Directory` | the composition: all RPCs of the three services on one database; the system's properties | the three services |
| `Directory_proofs` | theorems about it | `Directory`, `Tables_proofs` |
| `Paging` | the three List operations, a client that walks over the pages, and the rows that come and go meanwhile | |
| `Paging_proofs` | theorems about it | `Paging` |
| `Locks` | one writing statement from within: its locks, one after the other, and the deadlock detector | `Tables` |
| `Locks_proofs` | theorems about it | `Locks`, `Tables_proofs` |
| `Config` | the settings, their validation, the pool they describe | |
| `Config_proofs` | what the conversion to the pool's width does | `Config` |
| `Rpc` | the generated stubs, service tables and handlers | |
| `GracefulService` | what clients, and whoever stops the server, rely on: accepted work is finished before an orderly end | |
| `ServerLifecycle` | `main`, `Run`, the goroutine that stops the server, connections, calls and pool | `Config`, `Rpc` |
| `ServerLifecycle_proofs` | theorems about it | `ServerLifecycle`, `Config_proofs` |
| `Migrations` | the migration tool and every migration and seed file, up and down | |
| `Migrations_proofs` | theorems about it | `Migrations` |
| `MC...` | workloads, files and initial databases for TLC; symmetry | the module of the name |

Definitions whose comment begins with "Mistake" are variants of the definition
that follows them, with a bug that would be easy to write. They are used by
nothing; each is there to show that some property would notice it.

### TransactionManager

`pc[c]` is the place in `within`: `begin` (line 60), `fn` (74), `rollback` (75),
`commit` (81), `ack` (COMMIT sent, answer awaited), `undo` (83), `deferred`
(66), `done`. `err[c]` is the error about to be returned; `nil` stands for the
variable `committed`. `owner` says which call holds each connection, `session[c]`
what the database thinks of the transaction, `link[c]` whether the connection
still works. The last two outlive the call: after `COMMIT` has been sent the
database may commit or roll back whether or not anybody is left to hear of it.

`fn` is any function: it executes writes (`Statement`, `StatementFails`), calls
the manager again with its context (`NestedWithin`; once is enough, since a
nested call changes nothing), may ignore an error, succeeds, fails or panics. A
refused statement aborts the transaction, and a COMMIT of an aborted transaction
is answered ROLLBACK, which pgx reports as an error. A read-only transaction
refuses writes. `Die` is the end of the process: a kill, or a panic that has run
the deferred functions (no recovery interceptor is installed in `server.New`).
pgx closes the transaction and gives its connection back together, so "the
transaction is open" and "the call holds a connection" are one fact, `Held`.

### Directory

A row is committed in `users`, `companies` or `employees`, or is the one
uncommitted write `pend[c]` of a call: every use case executes at most one
writing statement, the last before COMMIT. Ids are `Unborn` before they are
generated and `Gone` after the deletion; they are never reused. A key is a text
and a spelling; `UNIQUE` compares both, the services lower the spelling.
A statement that conflicts with an uncommitted write waits (`MustWait`) and is
then decided on committed rows, as READ COMMITTED does.

| Code | Model |
| --- | --- |
| handler and validation before the transaction | `Receive`, `Arrive`, `CreateUserError`, ... |
| `BeginTx` | `Begin`, `BeginFails` |
| `FindByID` and the validation that needs the row | `FindUser`, `FindCompany`, `FindEmployee` |
| `ensure...NotExists` | actions of the same names |
| merge and write | `CreateUser`, `UpdateUser`, `DeleteUser`, ... |
| COMMIT and ROLLBACK | `Commit`, `Rollback`, `CommitAnswerLost`, `ConnectionLost`, and the database's `LateCommit`, `LateRollback` |

The constants `Blank`, `Malformed` and `Urn` stand for what a field may hold
instead of a value. `Urn` is a user id that `uuid.Parse` accepts (`urn:uuid:...`, or
36 characters between any two delimiters) and that PostgreSQL refuses with 22P02:
`normalizeUserID` returns the text it was given, no repository translates 22P02,
and the call ends INTERNAL. Other spellings of a UUID (32 digits, braces, capitals)
are read alike by both and stand for the id.

So INTERNAL has three reasons without faults (`InternalIsExplained`): an id that
is no UUID, where nobody parses it before the database does; a misread user id;
and a DeleteUser of a user who is an employee, whose RESTRICT is not translated.

`Directory` sees a transaction as the unit of work that `TransactionManager` is
proved to be; the pool does not appear again.

### Paging

A List RPC changes nothing and sees one snapshot, so a page is one atomic step
(`FirstPage`, `NextPage`); what is hard lies between two pages. The state is the
committed table, reduced to what the query looks at (`created_at`, `status`, the
order of ids), the walk (`token`, `seen`, ...; `asked` flips with every page, so
that a page that leads to itself is a step that can go on for ever), and two counts of what the others
did meanwhile, `added` and `removed`. `created_at` is taken from the server's
clock before the INSERT, so a new row may appear anywhere in the order.
`HasNext` keeps the two tests that the services use. One module serves the three
lists: the company that ListEmployees requires selects a table within the table.

### Locks

`Tables` lets a statement take all its locks at once; PostgreSQL takes the row,
then the entry of the unique index, then, in the triggers of the foreign keys,
the rows referred to or the referring ones. `NextLocks` is that order, `held`
the locks of each transaction, `want` the one it waits for. `Take` looks at the
row again once it has the lock, as READ COMMITTED does. A write may meet any
database, since the use case may have tested it long before.

Who waits for a row is itself waited for. PostgreSQL's waiter keeps the
heavyweight tuple lock of the row while it waits for the transaction that holds
the row, and whoever wants the row in a conflicting mode afterwards queues for
that tuple lock. `first[c]` says that c is that waiter: it waits for those that hold
the row (`Blockers`), the others in the line for it (`Ahead`). `Wait` leaves open who is
first and in which order the others follow, a COMMIT that writes the row starts a
new line, and a row that is found free is taken, whatever line there is. An
entry of an index has no line: everybody waits for the transaction that wrote it.

`Reached(c)` are those for whom c waits at some remove; `Detect` is the deadlock
detector, which gives up a transaction that is among them itself (SQLSTATE 40P01,
which no repository translates: INTERNAL). `DeadlocksTakeTwo` says what it
takes: two statements of the circle want several locks. The victim may be any
statement that waits, one on a single row included: the deletion of an employee
or the change of a status, which waits for a row while others queue behind it.
(Such a circle needs four statements.) It is never the creation of a user or of a
company, for which nobody waits while it waits. No deletion of a company
is needed: two employees who exchange their codes are enough.

`StatementsAreAtomic` ties the two levels: when a statement finishes, `Tables`
would have given the same answer at that moment and would not have made it wait.
So the answers that `Directory` checks are those of the database, with one more
that `Directory` leaves out, 40P01.

### ServerLifecycle

`main` is the place in `cmd/server/main.go`: `load`, `pool` and `ping`
(`NewPool`), `listen` and `serve` (`Run`), `accept` (inside `Serve`), `closing`
(the deferred `Close`), `exited`. `stopper` is the goroutine of `Run` that waits
for the signal. A call is `sent`, then, with a handler, `receiving` what its client
has still to send, `queued` for a connection of the pool, `holding` one, or
`answering` without one, and `over`, or `cut` by the end of the process. `reply` is what its client has learnt; `gone` is a client that left,
whose handler goes on, as it does when the connection breaks (`Disconnect`). What
grpc-go 1.76 and pgxpool do is modelled from how
`server.go` and `pool.go` use them: `GracefulStop` closes the listener, tells the
connections to drain, and waits, without a limit, for connections and handlers;
`Serve` returns after it, or at once with `ErrServerStopped` if it came second;
`Close` refuses those who wait for a connection and waits for those who have one.

`Config` gives the pool its limit, through `int32`, whose width is a constant;
`Rpc` gives every path its method. Each of the three tables a call passes (stub,
descriptor, handler) is a table of the model, since each is generated by itself.
A request that cannot be decoded is INTERNAL, an unknown path UNIMPLEMENTED.

`server.New` also registers reflection, in both versions: a stream in both
directions, which lasts until its client ends it. A unary call, too, is a stream
whose message may come late (`Body`) or never. Either keeps a handler `receiving`, and
`GracefulStop`, which has no deadline, waits for it (`StopDone`); so does the drained
connection. What is said on a reflection stream is left out. `ShutdownEnds` and
`CallsEnd` are therefore conditional: if no client that stays keeps a handler
`receiving` for ever (`EndsItsStream`), a signal ends the process; and a call ends
if its own client does so, whatever the streams of the others. Without the condition
`ShutdownEnds` is false: an open session of grpcurl or evans puts the end off for
as long as it lasts. A client that is gone does not: its stream is reset
(`ReceiveFails`).

### Migrations

`db` is what the files look at: tables, columns and constraints, the users (named
by their address), and for every employee an address and a user. `version` and
`dirty` are `schema_migrations`. golang-migrate writes the target version as
dirty (`Mark`), runs the file as one transaction (`RunFile`, `FileFails`), and
writes the version as clean (`Clean`); `up` and `down` go on until no file is left
(`Finish`, which is `ErrNoChange` if there was none, and success to
`runMigration`). `New` waits for the advisory lock without a limit (`Open`), `Up`
and `Down` for 15 seconds (`LockTimeout`). `drop` removes table by table, each
with a statement of its own (`DropTable`), the version table among them: a run that
was opened before then reads version 0 and has no table to write to (`MarkFails`). `Cut` is a process that is killed or
loses its connection at any point; a file that had reached the database may still
be committed. Employees are independent of each other, so one shows everything.

Each file is an operator that returns the databases it may lead to, none if a
statement of it fails. That the files of an untangled database never fail is
checked, not assumed (`DirtyIsExplained`).

`cmd/migrate` has no `force`: only `drop` ends a dirty version. And two things
the rows show, which no document promises otherwise: the backfill of 0005 compares
addresses exactly when it creates users and by `LOWER` when it links them, so an
employee whose address is written in mixed case gets a user beside one who has
it in lower case, and may be linked to either; and an employee who has a user but
no address (after `down` and `up`) gets a placeholder user as well.

## Runs

| Run | Instance | Shows |
| --- | --- | --- |
| `TransactionManager` | 2 calls, 1 connection | `PoolDiscipline`, `HonestError`, `ReadOnlyWritesNothing`; implements `UnitOfWork`; `CallsReturn`: no order of calls exhausts the pool for good; `SessionsEnd`: no transaction stays open |
| `Directory_races` | 3 calls; a user and two companies that compete for codes, or a company with an employee and two users; ids to spare | `UniqueKeys`, `UniqueEmployeeCodes`, `EmployeesValid`, `InternalIsExplained`, `AlreadyExistsIsTrue`, `NotFoundIsTrue` |
| `Directory_faults` | 2 calls of any service; connections and COMMIT fail | `HonestCodes`: the gRPC codes implement `UnitOfWork`; `RowsChangeOnlyByRequest`; `EveryCallAnswered` |
| `Directory_requests` | 1 call, every request there is | `ValidationIsExact` |
| `Paging` | any table of 3 rows, pages of 1 or 2, 2 changes | `RepeatsBounded`, `SkipsBounded`: OFFSET pagination repeats no more rows than were added meanwhile and misses no more than were removed; `TokenInList`, `WalkEnds` |
| `Locks` | any 3 of 16 statements on a company with two employees, and any 4 of 7 of them that queue for the same rows | `StatementsAreAtomic`, `DeadlocksTakeTwo`; `StatementsEnd`: every circle is broken |
| `ServerLifecycle` | 2 clients, 3 calls; unfit files, pools of 1 and 2 connections, every method, open streams | `HandlersHavePool`: the pool is closed under no handler; `PoolWithinLimit`, `RightMethod`; implements `GracefulService`; `ShutdownEnds`, `CallsEnd` |
| `Migrations` | 3 runs by 2 processes, any version and contents, 1 employee | `VersionNamesSchema`, `DirtyIsExplained`, `EmployeesKeepUsers`, `BackfillIsRight`, `RunsEnd` |

Bounds, and why they suffice:

- Calls: a race of the code is between a read and a write of one call and the
  commits of others. Two others are enough to change a row and take the key or
  the reference it gave up (a chain that `AlreadyExistsIsTrue` needs); with
  faults and for liveness two calls meet in every pair of states. More calls of
  the transaction manager interact only through the pool, for which the theorems
  hold with any number.
- Connections: one for two units of work, so that the second always waits; the
  theorems hold for any number. In `ServerLifecycle` fewer than the calls,
  and as many.
- Ids: one to spare for each creation that can succeed, so that none is held up
  for lack of an id that the program would have (three calls can add no more
  than two companies or employees: of the requested codes only one is free at
  first, and freeing another takes a call).
- Keys: two texts in the database or two that compete, and one free. Names: an
  old and a new one. Dates: 1..2, enough for a period in either order.
- Paging: the table is arbitrary when the walk begins, so a walk over a list of
  any content is a suffix of one of those checked; sizes 1 and 2 divide 3 rows
  evenly and not; `MaxChange` = 2 lets a row leave and another join, and bounds
  the growth without which no walk could promise to end. The code's sizes are 50
  and 200.
- Locks: three statements, because a circle of three differs from one of two (the
  detector must follow it), and four, because a circle through one who waits for
  a single row takes four. The statements name both employees, both users, codes that
  are free, taken or exchanged; the four are different ones of those that meet at
  one employee and one company. Where three are enough, the fourth finds no row and is over.
- Server: two calls share a connection and a third has its own, so that a
  connection closes while another works. `IntWidth` = 4 cuts limits as 32 bits
  would: 8, 16 and 17 stand for numbers that become negative, zero and small. An
  open stream is beside a whole call on the same connection.
- Migrations: `MaxRun` = 3 lets two runs overlap and a third find what they left,
  or `drop` repair it. The database is arbitrary at first.
- A call is one request. A client's retry is another call with an equal request.
- `CHECK_DEADLOCK FALSE`: the behaviour ends when every call is answered, every
  statement is done, the process has exited, or no more runs are started.
- Symmetry permutes calls in safety runs of `Directory` only; no definition names
  one of them. In `Locks` it does not matter which call executes which statement,
  so each set of statements is assigned once.

### Where documentation and code differ

Four runs end in a counterexample; the properties state what the documents say.

- `Directory_lost_update`: UpdateUser restores a name that it was not given.
- `Directory_own_code`: two updates of one company to one code; the second
  finds the first's result and reports a duplicate.
- `Directory_empty_field`: `docs/api/employee-service.md:16` says that an empty
  `employee_code` or `user_id` clears the value; the code refuses both
  (`normalizeEmployeeCode`, `normalizeUserID`), and both columns are NOT NULL.
- `Migrations_seeds`: `go run ./cmd/migrate -dir assets/seeds up` (README.md) on
  a migrated database inserts nothing and reports success, since both directories
  number their files alike and share the version table. The integration tests
  ignore `ErrNoChange` in the same way.

One more needs no model to be seen. `docs/api/user-service.md:16` says that an id
that does not exist is NOT_FOUND; one that is no UUID is INTERNAL.
`ValidationIsExact` and `InternalIsExplained` are stated for what the code does.

## Fairness

`Spec` has none: any process may stop. `FairSpec` of the transaction manager
assumes weak fairness of every goroutine (the Go scheduler) and of the database
(it decides a COMMIT it received and, by TCP's own means, notices that a client
is gone). `fn` ends, because its statements are answered or fail. It does not
assume that requests arrive, that contexts end or that anything fails. A waiting
`BeginTx` needs weak fairness only: each call returns its connection once, so a
free connection is in the end free for good. `FairSpec` of `Directory` is the
same one level up: goroutines run (`Serve`), and the database finishes
transactions that have lost their clients (`Late`). `FairSpec` of `Paging` is about
the client: it goes on asking for the next page, which the server never refuses
(`WF_vars(NextPage)`); that some page size is accepted is part of what
`WalkEnds` shows.

`FairSpec` of `Locks` says that the database works on and runs its detector: as long
as some statement can go on, or some circle be broken, something happens.

`FairSpec` of `ServerLifecycle` assumes that `main` and the stopping goroutine are
scheduled, that connections get through or fail, that grpc-go drains and closes
connections, and that a use case which holds a connection answers: `Directory`
and `Locks` show that it does. Acquiring a connection needs strong fairness, since
others may take it in between; puddle, the pool inside pgxpool, serves those who
wait in their order. It does not assume that a signal ever comes, that a client
calls or leaves, that it ends its stream (`Receive` is not fair), or that anything
fails. `ShutdownEnds` therefore rests on use cases that end, and on its condition on
clients: no deadline of the server's own limits a shutdown.

`FairSpec` of `Migrations`: a process that has the lock works on, and PostgreSQL
gives the lock to whoever has waited longest (strong fairness of `Open`).

## Proofs

`TransactionManager_proofs` proves, for any sets `Call` and `Conn`, assuming only
that `Free` is not a call:

- `TypeCorrect`, `PoolIsDisciplined`, `ErrorsAreHonest`, `ReadOnlyIsReadOnly`:
  the invariants of its run;
- `ManagerImplementsUnitOfWork`: every behaviour is one of `UnitOfWork`.

None of the invariants is inductive. `HonestError` speaks of calls that have
returned, so it says nothing of how they got there: `IInv` adds the error that a
call carries at each place of `within` (`ErrAtLocation`), and the states the
database may be in at each place (`SessionAtLocation`): nothing can have been
committed before COMMIT is sent, and once an error before COMMIT has been chosen
nothing ever will, even when the rollback is lost. It needs to know that a call
in `undo` that still holds its connection has not sent its COMMIT.
`HoldersInside` extends `PoolDiscipline` with the one path on which a connection
reaches the deferred function, a panic. `WritersReadWrite` says that writes are
made by read-write transactions only. `NextIInv` has one step per action.

The refinement uses the same invariant. Most steps are invisible to a caller
(`SilentStutters`); a call that returns is `Succeed`, `Fail` or `Lose`; the
database's commit is `Apply`, before or after a caller was left in doubt; the
death of the process is a `Lose` of every call that had not returned.

`Tables_proofs` and `Directory_proofs` prove, for any calls, ids, keys, names,
dates, requests and legal initial contents, and with any number of calls under way:

- `TypeCorrect`, `KeysAreUnique`, `EmployeeCodesAreUnique`, `EmployeesStayValid`,
  `InternalHasItsReasons`, `RequestsAreValidated`: the invariants of the runs;
- `AlreadyExistsTrue`, `NotFoundTrue`, `RowsChange`: the action properties;
- `CodesAreHonest`: the gRPC codes implement `UnitOfWork`.

`UniqueKeys` and `EmployeesValid` speak of committed rows only, and a row is
committed long after the database has tested it. `TablesInv` says what is true
in between: every uncommitted write fits the committed rows (it could be
committed now: `Fits`), and any two fit each other (`Compatible`: not the same
row, not the same key, none deletes what another refers to). The second is what
the locks are for; `ExecuteKeeps` derives it from `~MustWait` when a statement is
executed, and `InstallKeeps` shows that a COMMIT, with its cascade, makes no
other pending write unfit. The hardest cases are a company that is deleted while
a statement on one of its employees is pending, and two employees whose codes
move. The services add `CallInv`: where a call stands, what the database knows of
its transaction, and `RowSeen`: the row an update read may since have changed or
gone, but it still names the same address or company, which is why writing a
whole stale row back breaks no key and no reference (it does lose another
update: see `Directory_lost_update`).

Behind `AlreadyExistsTrue` and `NotFoundTrue`, `TruthfulStep` has one step per way an RPC can be refused; for
each it names the row that justifies the answer. `CodesAreHonest` maps an RPC to a
unit of work by its code and its transaction; receiving, reading and waiting
are stutters. What is assumed beyond the shape of the constants: rows are not
requests' markers (`UseCasesAssumption`), the requests are those of the three
services (`DirectoryAssumption`), and the initial keys are spelled in lower case
(`SeedOK`). The last leaves out a database that has addresses copied by migration
0005 in mixed spelling: there `UniqueKeys` can fail, as it does in the code.

`ServerLifecycle_proofs` (with `Config_proofs`) proves, for any clients, calls,
files and requests, and for pools of any width:

- `TypeCorrect`, `PoolOutlivesHandlers`, `PoolKeepsItsLimit`,
  `CallsReachTheirMethod`: the invariants of its run;
- `ServerImplementsGracefulService`: every behaviour is one of `GracefulService`.

`HandlersHavePool` follows from where `main` is: the pool is open from `NewPool` to
the deferred `Close` (`PoolAtLocation`), and no connection or handler is left when
`Serve` or `GracefulStop` has returned (`QuietAtLocation`), which is what orders
the two. `PoolWithinLimit` rests on `Config_proofs`: a limit that `validate` let
pass, cut to the pool's width, is a limit pgxpool accepts or it is refused.
`CallsReachTheirMethod` goes through the tables once, method by method
(`DispatchIsRight`). The refinement adds `ShownAtLocation`, what a client can know
by how far its call is. `ServerAssumption` says only that calls are finitely many
and each has a client and a request.

`Migrations_proofs` proves, for any processes, employees, addresses and number of
runs:

- `TypeCorrect`, `VersionsNameSchemas`, `DirtinessIsExplained`,
  `EmployeesKeepTheirUsers`: the invariants of its run;
- `BackfillLinksTheRightUsers`: the action property.

`LockAtLocation` says that whoever is inside has the advisory lock;
`SchemaAtLocation` what a running file may rely on: before it has run, the schema is
that of the version it started from, afterwards that of the version already
written. `FilesAreSound` goes through the files: each, run on its own schema,
does not fail and leads to the next one's, keeps `NOT NULL` and loses no user of an
employee. `Sound` holds even in a tangled database, where files run on schemas
they were not written for. `MigrationsAssumption` says that names are distinct: a
generated or seeded address is nobody's own.

`Paging_proofs` proves, for lists and page sizes of any length:

- `TypeCorrect`: among other things, that the tokens List returns are tokens it
  accepts;
- `TokensAreInList`: a token lies inside the list it was computed from, whatever
  number the client sent, so Offset+Limit does not overflow in a service's reply.
  `TypeOK` is inductive; the lemma both rest on is `NextTokenInList`;
- `RepeatsAreBounded`: a walk delivers no more rows twice than were added;
- `SkipsAreBounded`: a walk that has ended misses no more of the rows it set out
  to list than were removed.

On a list that nobody changes the two say that each row is delivered once.
The bounds are not inductive: what a change of the table costs shows pages later.
`IInv` counts it when it happens. `Ahead` are the rows delivered before that now
lie at or behind the token, so that a page to come will repeat them; `Passed` are the
rows of the beginning, never delivered, that lie before the token or are out of the
list. While the walk goes on, repetitions so far and `Ahead` together are no more than
`added`, and `Passed` no more than `removed`. A page moves rows from `Ahead` to the
repetitions and adds nothing to either sum (`PageRepeats`, `PagePasses`). A row that
joins pushes at most one other behind the token, and then it is not there itself; a
row that leaves lets at most one other slip before the token, and then it was not
behind it (`JoinAtOrBehind`, `LeaveLeftOrBefore`, from `PlaceUnique` and
`PlaceJoin`). That rows out of the list count as passed is necessary: a row may leave
before the walk comes to its place and return, by an update of its status, after
it.

`Locks_proofs` proves, for any number of calls and any statements that the
repositories may execute:

- `TypeCorrect`: among other things, that no lock outlives its transaction;
- `StatementsAtomic`: a statement that takes its locks in turn is answered as
  `Tables` answers one that takes them all at once, and does not overtake a
  transaction that `Tables` would make it wait for;
- `ItTakesTwo`: a circle that the detector breaks has two statements that take
  several locks, and its victim does not create a user or a company.

The invariant has two halves. `Exclusion`: conflicting locks are not held
together. And what a lock is good for: the row a statement has locked is still
there (`OwnRowStays`), nobody else has the key it has entered (`EntryStays`), the
rows it refers to exist (`CompanyStays`, `UserStays`), however many transactions
have committed since it looked. `Changed` says what a COMMIT can do to a row and
which lock it must have for it; the lemmas `...IsSafe` then show by `Exclusion` that it
is none of the rows another call has locked. `Fresh` and `Keeps` carry the
assumption about statements: `LocksAssumption` says that the id of an INSERT is new,
that an UPDATE leaves alone the columns its SQL does not set, and that the period of
an employee has passed the service, all of which the repositories and services
ensure (`Directory_proofs` shows the last two of the writes it executes). Together
with `CodesAreHonest` and the others, `StatementsAtomic` is the link from an RPC down to
single locks: what is left out between them is the answer 40P01.

`ItTakesTwo` needs two more parts. `Waits`: who waits with a lock in hand takes several.
`Queued`: who stands first in a line wants a row, has no lock on it, and creates no
user or company. A call of a circle is waited for because it has a lock or because
it is first in a line (`WhoIsWaitedFor`). One without a lock is between one that
queues behind it and one that has the row, and these differ, since nobody queues for
what it has (`NoLockTwice`). So two of the circle have locks (`TwoHold`).

Model-checked only: liveness under fairness (`CallsReturn`, `SessionsEnd`,
`EveryCallAnswered`, `WalkEnds`, `StatementsEnd`, `ShutdownEnds`, `CallsEnd`,
`RunsEnd`), which is out of the prover's reach.

## What is abstracted or left out

- Timestamps, descriptions of companies (one more free text, treated like the
  name), what Get returns, the texts of errors.
- The user of an employee that Get and Update return through a JOIN.
- In `Directory` a statement takes all its locks at once; `Locks` shows what that
  leaves out, the victims of deadlocks.
- `Directory` treats the end of the process as the loss of each call's
  connection.
- The noop transaction manager of the unit tests, the `nil` manager and the
  `nil` function: `cmd/server` passes neither.
- In `Paging`: the status filter with an unknown value, the blank company id,
  and the repositories' own tests of Limit and Offset, which the services have
  made before.
- Idle connections of the pool, their lifetimes and health checks; keep-alive and
  flow control of gRPC; what is said on a reflection stream.
- In `Migrations`: the columns no file looks at, indexes that are not unique,
  `pgcrypto`, the texts of names, and what the application does between two runs
  (the arbitrary initial contents stand for it).

## Not modelled

- The messages of the generated code (`*.pb.go`): accessors and descriptors
  without behaviour, over two thousand lines. What can be told of a request is its
  fields, or that it does not decode.
- `version` of the migration tool and unknown actions, which change nothing once
  the version table exists; `Server.GracefulStop`, which nothing calls.
- The tests and the scripts that run them.

## Plan

1. `TransactionManager`, `UnitOfWork`, their runs and proofs. Done.
2. `Tables`, `UseCases`, the three services, `Directory` and its runs. Done.
3. `Tables_proofs` and `Directory_proofs`: the invariants, action properties and
   refinement of `Directory`. Done.
4. `Paging`, its run, and proofs of types, tokens and the bounds on repeated and
   missed rows. Done.
5. `ServerLifecycle` with `Config`, `Rpc` and `GracefulService`, and their proofs.
   Done.
6. `Migrations` and its proofs. Done.
7. `Locks`. Done. Its proofs: done.
