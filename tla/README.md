# TLA+ models of the Support Operations Intelligence Platform

The repository holds two services with the same purpose: a Python one
(FastAPI, SQLAlchemy, SQLite or PostgreSQL) and a .NET one (minimal API,
SQLite). Both turn operational events into incidents and actions, execute the
actions with retries, and keep an audit trail. These modules model what the
services do to their databases when requests, workers and crashes interleave.

## Inventory

| Component | State | Operations | What is hard about it |
|---|---|---|---|
| Event ingestion, `services/processor.py` | events, incidents, actions, audit rows, idempotency records | `POST /events` | concurrent requests with one key; a claim that is visible before its result; polling for another request's result; cooldown and backlog tested before the insert |
| Rule engine, `services/rules.py` | rules | `match` | ties between rules |
| Asset and rule catalog, `api/app.py`, `seed.py` | assets, rules | `POST /assets`, `POST /rules`, `POST /demo/seed` | an asset's status is written by ingestion |
| Action queue, `services/actions.py` | actions with attempts, back-off and lease | worker `run_once`, `POST /maintenance/process-actions` | two workers with stale objects; a worker dies after it called the transport; leases that are never committed |
| Health sweep, `services/jobs.py` | actions, job runs | `POST /jobs/health-sweep` | repeats follow-ups, ignores the backlog limit, inserts for incidents it read before |
| Check runs, `services/checks.py` | check runs, deadlines, audit rows | create, transition, expire | two transitions of one check; confirmation against expiry |
| Reset, `api/app.py` | all but assets and rules | `DELETE /admin/reset` | requests in flight; row ids used again |
| Schema creation and migrations, `core/database.py`, `core/migrations.py` | tables, indexes, schema version, columns | `create_session_factory` at start | crash half way, two processes starting, files of earlier releases |
| .NET ingestion and store, `EventIngestionService.cs`, `SqliteOpsStore.cs` | events, incidents, actions, audit rows | `POST /events`, `DELETE /admin/reset` | time read before the lock; a reset in four statements |
| .NET action processing, `ActionProcessor.cs`, `ActionWorker.cs`, `ChannelActionSignalQueue.cs` | actions, the signal channel | background loop, `POST /maintenance/process-actions` | no lease; status and audit row in two statements; lost signals |
| Metrics, `api/app.py` | none of its own | `GET /metrics` | counters derived from columns that retries and outcomes overwrite |
| Listings, contract summary, command line, benchmarks | none of their own | reads and drivers | nothing that a model would add, apart from the retry loop of the command line |

The components meet in the database. Ingestion and the health sweep add
actions, workers take them out of the backlog that ingestion counts, and
ingestion's cooldown reads the incidents earlier requests opened. The Python
request handlers run in a thread pool, one session each; the .NET worker is
one loop in the host, woken by a signal or a timer.

## The modules

**`EventProcessor`** is `POST /events`. Each request is a process whose `pc`
names the statement it is about to send; what it has written but not committed
is in `draft`, and `Commit` publishes it, as `get_session` does. `Lookup`,
`Claim`, `Poll`, `WaitTimesOut` and `Replay` are `_process_with_idempotency`,
`_wait_for_idempotent_result` and `_replay_idempotent_record`; `ReadAsset`,
`FlushEvent`, `MatchRule`, `CheckCooldown`, `CreateIncident` and `CheckBacklog`
are the statements of `_process_new` in their order. `Fail`, `ReplayMissing`,
`LockTimeout` and `Crash` are the ways a request ends badly. `CreateAsset`,
`CreateRule` and `SeedDemo` fill the catalog, and `Reset`, on PostgreSQL, deletes
everything else at any moment. A row is named by the request that created it,
which is what PostgreSQL's sequences amount to: an id never comes back.

The database is external and enters through `Backend`:

- *SQLite.* A SELECT takes no lock. The driver opens a transaction before the
  first INSERT or UPDATE, which takes the only write lock until commit. A
  `SAVEPOINT` sent while no transaction is open is itself the outermost
  transaction, so leaving `begin_nested` commits the claim.
- *PostgreSQL.* READ COMMITTED. An UPDATE locks its row, an INSERT of a unique
  key waits for a concurrent one, and the claim becomes visible with the rest.

**`IdempotentIngest`** is what ingestion promises, without a database: a
request is applied once and answered, or repeats the result of its key, or
leaves nothing behind, until all is forgotten. `EventProcessor!Ingest` maps the
committed state to it.

**`ActionQueue`** is `process_due_actions`. A worker loads a batch (`snap`),
works on the loaded objects (`mem`) and commits the columns it changed
(`Merge`). `Lease` is the flush of the lease, which takes the lock or waits for
it (`GetLock`), `Attempt` is `execute_action_once`. `Ingest` adds rows, and so
does the health sweep, which reads incidents (`SweepReads`) before it inserts
(`SweepWrites`). `Reset` deletes all of them under the workers, whose next UPDATE
then finds no row (`StaleData`). Rows have numeric ids: PostgreSQL takes them
from a sequence, SQLite gives the largest one plus one, so that a deleted id
comes back (`NextId`). `Crash`, `LockTimeout` and `DeadlockVictim` roll a batch
back while the calls it made stay made. `ExecuteWithRetry` is the loop of the
command line and `Metrics` what `GET /metrics` derives from the table; both are
operators that properties compare the queue with. The database and whether
`action_timeout_seconds` is positive are chosen once, in `Init`. `fail_once`
behaves as `transient_then_success` and is not listed separately.

**`CheckRuns`** is the life of check runs with the same load, flush and commit,
and the same reset. `LoadTransition` and `LoadOverdue` decide on what they load,
`Flush` takes the row's lock, `Commit` writes the changed columns over whatever
the row holds by then. The audit trail is kept as the number of rows about each
check and phase, which is what `_audit` writes. `contested`, a history variable,
collects the checks of which two sessions have had copies at one time. Requests
that change nothing (404, 409) are left out.

**`Startup`** is what a process does before it serves, on SQLite: `create_all`
(`CheckTable`, `CreateTable`, `CreateIndexes`, `SkipTable`) and `run_migrations`
(`EnsureTable`, `InsertVersion`, `Current`, `Inspect`, `AddColumn`,
`SetCurrent`). The driver opens no transaction for DDL, so every statement is
committed by itself, and one that finds its work done by another process is an
error that ends its own. `Init` starts from an empty file or one of an earlier
release. A served request is reduced to `LookUpKey` and `ClaimKey`.

**`DotnetOps`** is the .NET service. `Record` is one step because
`RecordIngestionDecisionAsync` runs inside BEGIN IMMEDIATE, but it decides with
the time `BeginIngest` read before. `GetDueActions`, `Update` and `Audit` are
separate steps, each an autocommit statement, and so are the four DELETEs of
the reset. `Cancel`, `CancelCall` and `CancelReset` are clients that go away,
`Restart` keeps only the database. The executor is a pure function, so calling
it and writing its outcome is one step.

The `*Proofs` modules hold the theorems, see below. The `MC*` modules give small values to the constants; the `.cfg` files choose
among them.

## The runs

| Run | Result | What it shows |
|---|---|---|
| `ingest_sqlite` | holds | `TypeOK`, `ExactlyOncePerKey`, `ReplayConsistent`, `HitsMatchReplays`, and, because the write lock is taken before the reads, `CooldownRespected` and `BacklogBounded` |
| `ingest_postgres` | holds | with resets at any moment, `WaitersFindResult`, `ReplayConsistent`; ingestion implements `IdempotentIngest` (`ImplementsIngest`); `AcceptedRequestsFinish` |
| `poisoned_claim` | violated | `ClaimHasOwner`: on SQLite a request that fails after its claim leaves the key unusable |
| `cooldown_race_postgres` | violated | `CooldownRespected` on PostgreSQL: two requests open an incident each |
| `queue_one_worker` | holds | `NoCommittedLease`, `CallsAccounted`, `SettledIsFinal`, `CalledOnlyWhenDue`; `SettledAsDriven`: an action ends with the state, attempts and detail the command line's loop would give it; `MetricsAccount`: the metrics agree with the audit trail |
| `queue_two_workers` | holds | on both databases, `EverySettles` although workers overwrite each other, time out, deadlock and die, a sweep's follow-ups go first and a reset deletes rows under them; and `TypeOK`, which has the attempt limit in it |
| `worker_race` | violated | `SettledIsFinal` with two workers |
| `checks` | holds | `TypeOK`; while no two requests have copies of a check at one time, `DeadlineOnlyWhileWaiting` and `AuditTellsPhases`; also when they do and overwrite each other, `TrailShowsPath`, the trail is a documented path to the phase of the check, and `WaitsEnd` |
| `dotnet_worker` | holds | `TypeOK`, `CooldownPerCategory`, `AttemptsAudited`, `SettledIsFinal` |
| `dotnet_liveness` | holds | `PersistedActionSettles` |
| `startup` | holds | `TypeOK`; `ServesOnFullSchema`: nobody serves, and no version row is set, before every table and column is there; `EveryProcessServes` although processes that start together make each other fail |
| `lost_unique_index` | violated | `OneRecordPerKey`: after a crash between CREATE TABLE and CREATE UNIQUE INDEX the index is never created |

The guarantees of the passing runs end where `worker_race` shows it for a second
worker. Other such limits are one change of a `.cfg` away:

- `Backends = {"sqlite"}` in `queue_one_worker.cfg` violates `SettledAsDriven`,
  and `Backend = "sqlite"` in `checks.cfg` `AuditTellsPhases` and
  `TrailShowsPath`: between a SELECT and its UPDATE a reset deletes the row,
  the id is given out again, and the UPDATE writes to a row it never read.

### Differences from the documents

More were met while reading or proving. They follow from a line or two each, so
no run is spent on them:

- `transition_check` tests the phase of the object it has loaded
  (`services/checks.py:71`) and the UPDATE tests nothing but the id, so of two
  transitions that load one phase both are committed: a check that was cancelled
  is started by the other, although `ALLOWED_TRANSITIONS` (`checks.py:32`) gives
  `cancelled` no successor. This is why `DeadlineOnlyWhileWaiting` and
  `AuditTellsPhases` except contested checks; without the exception `checks`
  finds the counterexample.
- `_in_cooldown` looks for any open incident of the asset
  (`services/processor.py:198`); `docs/architecture.md:60` says asset and rule,
  `specification/behavior-contract.md:30` asset and category.
- `default_transport` does not know the mode `transient_failure`
  (`services/actions.py:32`), which `behavior-contract.md:32` defines.
- `permanent_failure` is attempted once by both services
  (`services/actions.py:94`, `ActionProcessor.cs`); `behavior-contract.md:33`
  says three times.
- The .NET worker and a maintenance call may execute one action from the same
  snapshot, so a transient failure can be executed three times
  (`ActionProcessor.cs:31`, `behavior-contract.md:32`).
- The .NET processor writes the final status and its audit row in two
  statements (`ActionProcessor.cs:78`): a restart between them leaves a failed
  action without the "final failure audit" of `behavior-contract.md:33`. The
  restarts in `AttemptsAudited` are this gap.
- `process_contract_events` unpacks four of the five values `process` returns
  (`contract.py:53`) and fails at its first event.
- `_upgrade_to_1` adds columns of type `DATETIME`, which PostgreSQL does not
  have; `README.md:140` disclaims migrations there.

### Bounds

Three requests of one key and asset cover a first execution, a waiter and a
replay, or two of them beside a crash; the races found need two. Two kinds of
payload give keyed and plain requests, or events above and below a rule. The
clock of the safety runs reaches one step past the cooldown, the lease or the
retry delay, so that both sides of each comparison occur; the liveness runs keep
it shorter, or still where no property depends on it. `WaitAttempts` is 1
instead of 100: polls read and change nothing else. Two incidents with a
follow-up each, or one with a follow-up beside two workers, fill a batch of two
and exercise the order of the SELECT, and backlog limits of one or two are
reached. `Traffic` gives `checks` two kinds of behaviours: requests one at a time
about two checks, so that an expiry has several, and two at a time about one. (Two
expiries of several checks can deadlock on PostgreSQL; the detector, which aborts
one of them, is not in `CheckRuns`. The theorems cover any traffic.) Each run allows one crash, restart, rollback, sweep or reset where it
allows any; `startup` allows two crashes, one for each process, and
`ingest_postgres` any number of resets. `startup` has three of the nine tables:
the two that the migration touches and the one whose index a request relies on;
`create_all` treats the others alike. Deadlock checking is off because all
requests may be served and the clock at its bound. Symmetry of requests is used
for safety properties only.

### Fairness

- `EventProcessor`: weak fairness of each accepted request's steps. A thread of
  the pool runs each request. Nothing is assumed of clients or operators.
- `ActionQueue`: weak fairness of each worker, of time and of PostgreSQL's
  deadlock detector. The repository leaves it to the operator to call the worker
  repeatedly; the property is about a deployment that does. On PostgreSQL the
  property also needs the server's lock queue: if the victim of a deadlock could
  take the row again before the session that waits for it, the two could roll
  each other back for ever.
- `CheckRuns`: requests in progress and time go on, and somebody keeps calling
  the expiry endpoint, which is the only way a deadline is noticed.
- `Startup`: a process that is down is started again and runs, as a supervisor
  or the operator of the service does. Requests are not assumed to arrive.
- `DotnetOps`: the worker's loop and its timer, which the host runs. Signals
  are not assumed to arrive and maintenance calls not to finish.

The liveness runs of the queues use a retry delay of zero, the Python default,
so that the bounded clock never keeps a retry from being due.

## Proofs

The theorems hold for every value of the constants: any number of requests,
workers, processes, tables, resets, crashes and attempts. The only assumptions
are the `ASSUME`s of the modules, which say that `None` and the kinds of lock
names differ from the values they stand beside, that records have their fields
and that settings are natural numbers; TLC evaluates them on every run. Where a
theorem needs more, such as one worker or one database, its statement says so,
and a run or the list above shows that it fails without.

| Module | Theorem | Shows | Condition |
|---|---|---|---|
| `EventProcessorProofs` | `TypeCorrect` | `TypeOK` | |
| | `ExactlyOnce` | `ExactlyOncePerKey` | |
| `IngestProofs` | `ConsistentReplay` | `ReplayConsistent` | |
| | `Refinement` | `ImplementsIngest` | |
| | `WaitersServed` | `WaitersFindResult` | PostgreSQL |
| `SqliteProofs` | `CooldownHolds` | `CooldownRespected` | SQLite |
| | `BacklogStaysBounded` | `BacklogBounded` | SQLite |
| | `HitsCounted` | `HitsMatchReplays` | SQLite |
| `ActionQueueProofs` | `TypeCorrect` | `TypeOK` | |
| | `LeasesNeverCommitted` | `NoCommittedLease` | |
| `WorkerProofs` | `CallsAgree` | `CallsAccounted` | one worker |
| | `FinalWhenAlone` | `SettledIsFinal` | one worker |
| | `CalledWhenDue` | `CalledOnlyWhenDue` | one worker |
| | `QueueAgreesWithLoop` | `SettledAsDriven` | one worker |
| | `MetricsAgree` | `MetricsAccount` | one worker |
| `CheckRunsProofs` | `TypeCorrect` | `TypeOK` | |
| | `PathsAudited` | `TrailShowsPath` | no id given out twice |
| | `DeadlinesWhileWaiting` | `DeadlineOnlyWhileWaiting` | no id given out twice |
| | `PhasesAudited` | `AuditTellsPhases` | no id given out twice |
| `StartupProofs` | `TypeCorrect` | `TypeOK` | |
| | `FullSchemaServed` | `ServesOnFullSchema` | |
| `DotnetProofs` | `TypeCorrect` | `TypeOK` | |
| | `CooldownHolds` | `CooldownPerCategory` | |
| | `AttemptsAccounted` | `AttemptsAudited` | no maintenance call |
| | `FinalWhenAlone` | `SettledIsFinal` | no maintenance call |

"No id given out twice" (`NoIdReuse`) is PostgreSQL, or SQLite without a reset.
"One worker" (`OneWorker`) excludes a reset on SQLite too.
`EventProcessor` has no reset on SQLite, so what is proved of it there is proved
of a service that is not reset.

The argument of each module, and why its invariant is needed:

- *`EventProcessorProofs`.* `ExactlyOncePerKey` talks about committed events
  only and is not inductive: a request that is about to commit must be known to
  be the only one of its key. `IndInv` adds that (`SingleOwner`), why it is so
  (`OwnerInv`: a request inside `_process_new` has its key in the table on
  SQLite, or holds the lock of the unique key on PostgreSQL, and the key has no
  result yet), what committed events look like (`EventInv`) and what a session
  has loaded (`SessionInv`). `Claim` is where ownership begins and `Commit` where
  it ends; `Reset` keeps it because on PostgreSQL a claim in progress is a lock
  and not a row; every other step is covered by `QuietStep`.
- *`IngestProofs`.* A replay answers with a result it loaded one or more
  statements earlier. `AnswerInv` says that a stored result describes committed
  rows, and that a loaded one is still the stored one or its event is gone for
  good, which is what makes the check for a missing event in `Replay` enough.
  `StepKinds` sorts the steps into silent ones, failures, replays and commits,
  and the refinement has one step for each.
- *`SqliteProofs`.* Cooldown and backlog are tested one or two statements
  before the commit. `SerialInv` says that between the flush of its event and
  its commit a request is alone (`LockInv`), and carries what it has tested
  across (`CooldownInv`, `RoomInv`). The limit cannot be stated for PostgreSQL:
  `cooldown_race_postgres` violates it.
- *`ActionQueueProofs`.* That a row never shows more attempts than the limit
  needs to know what stale objects can look like. `ItemInv` says it for each
  item at each point of its batch: a copy of a row that was due, then leased,
  then tried once. So whichever worker writes last writes attempts within the
  limit, and never a lease.
- *`WorkerProofs`.* With one worker the copy is the stored row or the row is
  gone (`CopyInv`), an id that can be given out has no trace of an earlier row
  (`FreshInv`), and calls are counted against attempts (`CountInv`).
  `SettledAsDriven` compares the table with `ExecuteWithRetry`, a recursive
  function. `DrivenInv` says that a row with n attempts has the state, mode and
  detail of the loop after n rounds. The induction over rounds is done with the
  library's theorem on least elements (lemma `UpTo`), because the one on natural
  induction cannot be instantiated here. `MetricsAccount` needs that a row shows
  as many attempts as its audit trail has executions (`AuditInv`) and that its
  detail is the mode it was created with until it is settled (`ToldInv`). Its two
  sums are folds of the library, recursive functions on subsets; `SumExists`
  shows that there are such functions and `SumsDiffer`, by induction on the size
  of the subset, that they differ by one for each action that was tried.
- *`CheckRunsProofs`.* `StoreInv`, with any number of sessions: what a session
  has flushed is locked and still there. `PathInv`, with any number too: a copy
  may be stale, but the phase it shows was recorded of the same check and goes
  on, and the changed object is one documented step ahead of it (`DecidedInv`).
  So whatever a commit overwrites, the row it writes extends the trail. That the
  check is the same needs ids that are not given out again (`IdInv`). `PhaseInv`
  adds, for checks that are not contested, that only one session has a copy and
  that it is the row, which makes the trail exact.
- *`StartupProofs`.* `SchemaInv` relates each process's position in its two
  loops to what is in the file. Tables and columns are only ever added, so no
  step of one process takes from another what it has seen.
- *`DotnetProofs`.* `OpsInv` knows that a loaded action was due and below the
  limit. Without maintenance calls `SoleInv` adds that the loaded rows of the
  worker are those stored, or deleted by a reset.

Only model-checked: liveness (`AcceptedRequestsFinish`, `EverySettles`,
`WaitsEnd`, `PersistedActionSettles`, `EveryProcessServes`), which is outside
what the prover does. Every invariant and action property of the passing runs
is proved, and so is the refinement.

## Not modelled

- Listings, logging, the latencies and ages in the metrics, the benchmarks: they
  change no state that the modules keep. The job run that a health sweep records
  is never read.
- The contract summary and the command line, apart from their retry loop: they
  are single-threaded drivers of the services modelled here.
- Idempotency records and events under a reset on SQLite. A claim is a committed
  row there, so a reset can delete it while its owner works, and its id can go to
  another key's record. `EventProcessor` names rows by their request and models
  the reset on PostgreSQL only. (A row in the audit table may survive a reset
  that an event is committed during; the model deletes it.)
- What adds to the backlog behind ingestion's back in `EventProcessor`: follow-ups
  of a sweep, and actions that a second worker puts back to `retry`. Both are in
  `ActionQueue`; `BacklogBounded` is about ingestion alone.
- Commits between the SELECTs of `GET /metrics`: `Metrics` reads the tables in one
  instant.
- Deadlocks of a reset with a worker or a check request on PostgreSQL: they leave
  no trace of the reset, or are an `Abort` or `Crash` of the other.
- The defaults of the command line, three attempts and 0.2 seconds:
  `ExecuteWithRetry` has the limit the queue has, which is the same by default.
- Start on PostgreSQL: `create_all` runs in one transaction there.
- The status of an asset under concurrent events: `StatusChanges` models that
  the ORM omits an UPDATE that changes nothing, but no document says which status
  should win.
- FastAPI may send a response before the session's commit, depending on its
  version; the models answer with the commit.

## Plan

- *What several workers still guarantee.* `CallsAccounted` has an upper bound
  that two workers break; that every attempt a row shows was a call (its lower
  bound) may hold with any number of them and on both databases.
- *Hits on PostgreSQL.* `HitsMatchReplays` is proved on SQLite. Between two
  resets it should hold on PostgreSQL too, where the UPDATE locks its row.
