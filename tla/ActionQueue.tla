----------------------------- MODULE ActionQueue -----------------------------
(***************************************************************************)
(* The durable action queue of the Python service: rows of the actions     *)
(* table, the workers that run process_due_actions (ActionWorker.run_once  *)
(* and POST /maintenance/process-actions are the same loop in a session of *)
(* their own), ingestion and the health sweep that add rows, and           *)
(* DELETE /admin/reset, which deletes them all while workers hold copies.  *)
(*                                                                         *)
(* A worker loads its batch with one SELECT and then works on those ORM    *)
(* objects: every decision is taken on the loaded copy (`mem'), and the    *)
(* UPDATEs carry only the columns that differ from what was loaded         *)
(* (`snap'), with no test that the row still is what it was.  An UPDATE    *)
(* that finds no row with the id raises StaleDataError.  Everything is     *)
(* committed at the end of the batch.  The transport call is not undone by *)
(* a rollback.                                                             *)
(***************************************************************************)
EXTENDS Integers, FiniteSets, FiniteSetsExt

CONSTANTS
    Workers,           \* sessions that process due actions
    Modes,             \* executor_mode values clients send
    Backends,          \* databases to consider, of "sqlite" and "postgres"
    MaxAttempts,       \* Settings.action_max_attempts
    RetryDelay,        \* Settings.action_retry_delay_seconds
    LeaseSeconds,      \* Settings.action_lease_seconds
    BatchLimit,        \* limit of process_due_actions
    StaleAfter,        \* stale_minutes of run_health_sweep
    MaxQueueBacklog,   \* Settings.max_queue_backlog
    Timely,            \* values of action_timeout_seconds > 0 to consider
    MaxArrivals,       \* bound: events that open an incident
    MaxSweeps,         \* bound: health sweeps
    MaxResets,         \* bound: resets
    MaxClock,          \* bound: time
    MaxFailures,       \* bound: workers that die
    None

\* Row ids.  A sweep queues at most one follow-up for each incident.
IncidentIds == 1..MaxArrivals
Ids == 1..(MaxArrivals * (MaxSweeps + 1))

Outcomes == {"completed", "permanent failure", "transient failure", "timeout"}
States == {"queued", "retry", "succeeded", "failed"}
LeaseMark == [by : Workers, at : Nat]
\* `mode' is the detail the row was created with: the code overwrites it.
Row == [incident : IncidentIds, mode : Modes \cup {"follow up"}, state : States,
        attempts : Nat, next : Nat \cup {None}, created : Nat,
        detail : Modes \cup Outcomes \cup {"follow up"}, lease : LeaseMark \cup {None}]

ASSUME BackendKind == Backends \subseteq {"sqlite", "postgres"}
ASSUME Numbers ==
    /\ MaxAttempts \in Nat \ {0} /\ RetryDelay \in Nat /\ LeaseSeconds \in Nat
    /\ BatchLimit \in Nat \ {0} /\ StaleAfter \in Nat /\ MaxQueueBacklog \in Nat
    /\ MaxArrivals \in Nat /\ MaxSweeps \in Nat /\ MaxResets \in Nat
    /\ MaxClock \in Nat /\ MaxFailures \in Nat
ASSUME TimelyKind == Timely \subseteq BOOLEAN
ASSUME DistinctNone == None \notin Row /\ None \notin LeaseMark /\ None \notin Nat

VARIABLES
    clock,
    settings,  \* how the service was deployed: its database, and whether
               \* action_timeout_seconds > 0
    used,      \* how much of each bound has been used
    incidents, \* incidents: created_at by id, None where there is no row
    rows,      \* actions: the committed rows by id
    seq,       \* the last id that the sequences of PostgreSQL gave out
    audit,     \* audit_logs: action_executed rows of each action id
    sweep,     \* the incidents a running health sweep has read, or None
    pc,        \* "idle", "lease" (about to take the next item),
               \* "wait" (for its lock), "attempt", "commit"
    now,       \* the instant the worker's batch runs at
    todo,      \* items of the batch not yet attempted
    cur,       \* the item being attempted
    snap,      \* rows as loaded by the SELECT
    mem,       \* the same ORM objects, with the changes made so far
    held,      \* locks of the worker's transaction
    calls      \* transport calls made for each action id (outside the database)

batch == <<now, todo, cur, snap, mem>>
world == <<clock, settings, incidents, seq, sweep>>
vars == <<world, used, rows, audit, pc, batch, held, calls>>

NoRows == [a \in Ids |-> None]

Init ==
    /\ clock = 0 /\ sweep = None
    /\ settings \in [backend : Backends, timely : Timely]
    /\ used = [arrivals |-> 0, sweeps |-> 0, resets |-> 0, failures |-> 0]
    /\ incidents = [i \in IncidentIds |-> None]
    /\ rows = NoRows
    /\ seq = [incident |-> 0, action |-> 0]
    /\ audit = [a \in Ids |-> 0]
    /\ pc = [w \in Workers |-> "idle"]
    /\ now = [w \in Workers |-> 0]
    /\ todo = [w \in Workers |-> {}]
    /\ cur = [w \in Workers |-> None]
    /\ snap = [w \in Workers |-> NoRows]
    /\ mem = [w \in Workers |-> NoRows]
    /\ held = [w \in Workers |-> {}]
    /\ calls = [a \in Ids |-> 0]

-----------------------------------------------------------------------------
(* Locks *)

Lock(a) == IF settings.backend = "sqlite" THEN "db" ELSE a

Free(w, a) == \A v \in Workers \ {w} : Lock(a) \notin held[v]

\* PostgreSQL gives a released lock to a session that waits for it before one that
\* comes later; on SQLite whoever tries next gets it.
Queued(a) == settings.backend = "postgres" /\ \E v \in Workers : pc[v] = "wait" /\ cur[v] = a

\* An INSERT elsewhere needs the write lock of SQLite.
Writable == settings.backend = "sqlite" => \A w \in Workers : held[w] = {}

-----------------------------------------------------------------------------
(* Rows *)

Pending(row) == row.state \in {"queued", "retry"}
Settled(row) == row.state \in {"succeeded", "failed"}
Exists(a) == rows[a] # None

\* Faulty variant of NextId: an id that was deleted is given out again.
NextIdReusing(table, last) == 1 + Max({0} \cup {i \in DOMAIN table : table[i] # None})

\* The integer primary key of the next row: on SQLite one more than the largest in
\* the table, on PostgreSQL the next value of a sequence.
NextId(table, last) ==
    IF settings.backend = "sqlite" THEN 1 + Max({0} \cup {i \in DOMAIN table : table[i] # None})
    ELSE last + 1

\* default_transport, for the attempt that makes `attempts' of them.  Only the
\* modes it looks for fail; a timeout_seconds of zero or less always does.
Transport(detail, attempts) ==
    IF ~settings.timely THEN "timeout"
    ELSE IF detail = "permanent_failure" THEN "permanent failure"
    ELSE IF detail = "transient_then_success" /\ attempts <= 1 THEN "transient failure"
    ELSE "completed"

\* Faulty variant of NextState: one attempt too many.
NextStateOffByOne(row, outcome) ==
    IF outcome = "completed" THEN "succeeded"
    ELSE IF row.detail = "permanent_failure" \/ row.attempts >= MaxAttempts THEN "failed"
    ELSE "retry"

\* The state after an attempt with the given outcome.
NextState(row, outcome) ==
    IF outcome = "completed" THEN "succeeded"
    ELSE IF row.detail = "permanent_failure" \/ row.attempts + 1 >= MaxAttempts THEN "failed"
    ELSE "retry"

\* One attempt: the transport is called, its outcome noted, the lease given back.
Tried(row, t) ==
    LET outcome == Transport(row.detail, row.attempts + 1)
        state   == NextState(row, outcome)
    IN  [row EXCEPT !.attempts = @ + 1,
                    !.state = state,
                    !.detail = IF state = "retry" THEN @ ELSE outcome,
                    !.next = IF state = "retry" THEN t + RetryDelay ELSE @,
                    !.lease = None]

\* Faulty variants of ExecuteOnce: the lease is not given back, and an attempt is
\* not counted.
ExecuteOnceKeepingLease(row, t) == [Tried(row, t) EXCEPT !.lease = row.lease]
ExecuteOnceUncounted(row, t) == [Tried(row, t) EXCEPT !.attempts = row.attempts]

\* execute_action_once on the loaded object: a settled one is returned as it is.
ExecuteOnce(row, t) == IF Settled(row) THEN row ELSE Tried(row, t)

\* execute_action_with_retry, the loop of the command line and of the contract
\* driver: attempts without delay until the action is settled.
\* Here it has the limit of the queue; the command line has the default of both, 3.
ExecuteWithRetry(row) ==
    LET after[n \in 0..MaxAttempts] == IF n = 0 THEN row ELSE ExecuteOnce(after[n - 1], 0)
    IN  after[MaxAttempts]

\* Faulty variants of Due: without the test of next_attempt_at, without the test of
\* the state, and with RETRY forgotten.
DueIgnoringBackoff(row, t) ==
    Pending(row) /\ (row.lease = None \/ row.lease.at <= t - LeaseSeconds)
DueIgnoringState(row, t) == row.next = None \/ row.next <= t
DueQueuedOnly(row, t) == row.state = "queued" /\ DueIgnoringState(row, t)

\* The WHERE clause of process_due_actions.  Its last line excludes nothing: leases
\* are never committed (NoCommittedLease).
Due(row, t) ==
    /\ Pending(row)
    /\ row.next = None \/ row.next <= t
    /\ row.lease = None \/ row.lease.at <= t - LeaseSeconds

\* ORDER BY next_attempt_at NULLS FIRST, created_at.
SortKey(row) == IF row.next = None THEN -1 ELSE row.next
Before(x, y) == \/ SortKey(x) < SortKey(y)
                \/ SortKey(x) = SortKey(y) /\ x.created < y.created

\* What the UPDATEs of one object leave in the row: changed columns only.
Merge(row, loaded, object) ==
    [c \in DOMAIN row |-> IF object[c] = loaded[c] THEN row[c] ELSE object[c]]

-----------------------------------------------------------------------------
(* process_due_actions in a session of its own *)

\* SELECT of the batch.  With nothing due the call returns at once.
Select(w) ==
    LET due == {a \in Ids : Exists(a) /\ Due(rows[a], clock)} IN
    /\ pc[w] = "idle"
    /\ \E b \in SUBSET due :
         /\ b # {}
         /\ Cardinality(b) = BatchLimit \/ (b = due /\ Cardinality(b) < BatchLimit)
         /\ \A a \in b, d \in due \ b : ~Before(rows[d], rows[a])
         /\ todo' = [todo EXCEPT ![w] = b]
         /\ snap' = [snap EXCEPT ![w] = [a \in Ids |-> IF a \in b THEN rows[a] ELSE None]]
    /\ mem' = [mem EXCEPT ![w] = snap'[w]]
    /\ now' = [now EXCEPT ![w] = clock]
    /\ pc' = [pc EXCEPT ![w] = "lease"]
    /\ UNCHANGED <<world, used, rows, audit, cur, held, calls>>

\* The items the worker may take next, in the order of the SELECT.
First(w) == {a \in todo[w] : \A b \in todo[w] : ~Before(snap[w][b], snap[w][a])}

\* The lease is set on the object and flushed: the UPDATE takes the lock ...
TakeLease(w, a) ==
    /\ Exists(a)
    /\ held' = [held EXCEPT ![w] = @ \cup {Lock(a)}]
    /\ mem' = [mem EXCEPT ![w][a].lease = [by |-> w, at |-> now[w]]]
    /\ pc' = [pc EXCEPT ![w] = "attempt"]
    /\ UNCHANGED <<world, used, rows, audit, now, snap, calls>>

\* ... or waits for it.
Lease(w) ==
    /\ pc[w] = "lease"
    /\ \E a \in First(w) :
         /\ cur' = [cur EXCEPT ![w] = a]
         /\ todo' = [todo EXCEPT ![w] = @ \ {a}]
         /\ \/ Free(w, a) /\ ~Queued(a) /\ TakeLease(w, a)
            \/ /\ ~Free(w, a)
               /\ pc' = [pc EXCEPT ![w] = "wait"]
               /\ UNCHANGED <<world, used, rows, audit, now, snap, mem, held, calls>>

GetLock(w) ==
    /\ pc[w] = "wait"
    /\ Free(w, cur[w])
    /\ TakeLease(w, cur[w])
    /\ UNCHANGED <<todo, cur>>

\* The transport is called and its outcome flushed.
Attempt(w) ==
    LET a == cur[w] IN
    /\ pc[w] = "attempt"
    /\ calls' = IF Settled(mem[w][a]) THEN calls ELSE [calls EXCEPT ![a] = @ + 1]
    /\ mem' = [mem EXCEPT ![w][a] = ExecuteOnce(@, now[w])]
    /\ pc' = [pc EXCEPT ![w] = IF todo[w] = {} THEN "commit" ELSE "lease"]
    /\ UNCHANGED <<world, used, rows, audit, now, todo, cur, snap, held>>

\* The session ends and forgets its objects.
Close(w) ==
    /\ pc' = [pc EXCEPT ![w] = "idle"]
    /\ now' = [now EXCEPT ![w] = 0]
    /\ todo' = [todo EXCEPT ![w] = {}]
    /\ cur' = [cur EXCEPT ![w] = None]
    /\ snap' = [snap EXCEPT ![w] = NoRows]
    /\ mem' = [mem EXCEPT ![w] = NoRows]
    /\ held' = [held EXCEPT ![w] = {}]

Commit(w) ==
    /\ pc[w] = "commit"
    /\ rows' = [a \in Ids |-> IF snap[w][a] = None THEN rows[a]
                              ELSE Merge(rows[a], snap[w][a], mem[w][a])]
    /\ audit' = [a \in Ids |-> IF mem[w][a] = snap[w][a] THEN audit[a] ELSE audit[a] + 1]
    /\ Close(w)
    /\ UNCHANGED <<world, used, calls>>

\* The session is rolled back by an exception that leaves the loop; the calls it
\* made are not undone.
Rollback(w) == Close(w) /\ UNCHANGED <<world, used, rows, audit, calls>>

\* The lease's UPDATE matches no row, a reset has deleted it: StaleDataError.
StaleData(w) ==
    /\ \/ pc[w] = "lease" /\ \E a \in First(w) : ~Exists(a) /\ Free(w, a)
       \/ pc[w] = "wait" /\ ~Exists(cur[w]) /\ Free(w, cur[w])
    /\ Rollback(w)

\* SQLite gives up on the lock after busy_timeout, with nothing attempted yet.
LockTimeout(w) ==
    /\ settings.backend = "sqlite"
    /\ pc[w] = "wait" /\ ~Free(w, cur[w])
    /\ Rollback(w)

\* Two PostgreSQL sessions wait for each other's rows and one is aborted.
DeadlockVictim(w) ==
    /\ settings.backend = "postgres"
    /\ \E v \in Workers \ {w} :
         /\ pc[w] = "wait" /\ cur[w] \in held[v]
         /\ pc[v] = "wait" /\ cur[v] \in held[w]
    /\ Rollback(w)

\* The worker dies in the middle of its batch.
Crash(w) ==
    /\ pc[w] # "idle"
    /\ used.failures < MaxFailures
    /\ used' = [used EXCEPT !.failures = @ + 1]
    /\ Close(w)
    /\ UNCHANGED <<world, rows, audit, calls>>

-----------------------------------------------------------------------------
(* Where rows come from, and go *)

NewRow(incident, mode, next) ==
    [incident |-> incident, mode |-> mode, state |-> "queued", attempts |-> 0, next |-> next,
     created |-> clock, detail |-> mode, lease |-> None]

Backlog == Cardinality({a \in Ids : Exists(a) /\ Pending(rows[a])})

\* The sequences of PostgreSQL after ids up to these; SQLite has none.
Advance(incident, action) ==
    seq' = IF settings.backend = "sqlite" THEN seq
           ELSE [incident |-> incident, action |-> action]

\* An event opens an incident; its action is queued unless the backlog is full.
Ingest(mode) ==
    LET i == NextId(incidents, seq.incident)
        a == NextId(rows, seq.action)
        full == Backlog >= MaxQueueBacklog IN
    /\ Writable
    /\ used.arrivals < MaxArrivals
    /\ used' = [used EXCEPT !.arrivals = @ + 1]
    /\ incidents' = [incidents EXCEPT ![i] = clock]
    /\ rows' = IF full THEN rows ELSE [rows EXCEPT ![a] = NewRow(i, mode, clock)]
    /\ Advance(i, IF full THEN seq.action ELSE a)
    /\ UNCHANGED <<clock, settings, sweep, audit, pc, batch, held, calls>>

\* run_health_sweep reads the incidents open for StaleAfter ..
SweepReads ==
    /\ sweep = None
    /\ used.sweeps < MaxSweeps
    /\ used' = [used EXCEPT !.sweeps = @ + 1]
    /\ sweep' = {i \in IncidentIds : incidents[i] # None /\ incidents[i] <= clock - StaleAfter}
    /\ UNCHANGED <<clock, settings, incidents, seq, rows, audit, pc, batch, held, calls>>

\* .. and queues a follow-up for each, whether or not an earlier one is still
\* pending, and however long the queue is.  An incident deleted in between
\* violates the foreign key; SQLite does not enforce it.
SweepWrites ==
    LET last == NextId(rows, seq.action) - 1
        id(i) == last + Cardinality({j \in sweep : j <= i})
        refused == settings.backend = "postgres" /\ \E i \in sweep : incidents[i] = None IN
    /\ sweep # None
    /\ Writable
    /\ sweep' = None
    /\ IF refused THEN UNCHANGED <<rows, seq>>
       ELSE /\ rows' = [a \in Ids |-> IF \E i \in sweep : a = id(i)
                          THEN NewRow(CHOOSE i \in sweep : a = id(i), "follow up", None)
                          ELSE rows[a]]
            /\ Advance(seq.incident, last + Cardinality(sweep))
    /\ UNCHANGED <<clock, settings, used, incidents, audit, pc, batch, held, calls>>

\* reset_workload.  Its DELETEs wait for the rows that workers have locked, and
\* then keep everybody else waiting.  (On PostgreSQL a row that refers to a
\* deleted one may be committed between two DELETEs: the next one then fails and
\* the reset leaves no trace, as after a deadlock with a worker that locks its batch
\* row by row.)
Reset ==
    /\ \A w \in Workers : held[w] = {}
    /\ used.resets < MaxResets
    /\ used' = [used EXCEPT !.resets = @ + 1]
    /\ incidents' = [i \in IncidentIds |-> None]
    /\ rows' = NoRows
    /\ audit' = [a \in Ids |-> 0]
    /\ UNCHANGED <<clock, settings, seq, sweep, pc, batch, held, calls>>

Tick ==
    /\ clock < MaxClock
    /\ clock' = clock + 1
    /\ UNCHANGED <<settings, incidents, seq, sweep, used, rows, audit, pc, batch, held, calls>>

Work(w) == Select(w) \/ Lease(w) \/ GetLock(w) \/ Attempt(w) \/ Commit(w) \/ StaleData(w)

Next == \/ \E w \in Workers : Work(w) \/ LockTimeout(w) \/ DeadlockVictim(w) \/ Crash(w)
        \/ \E mode \in Modes : Ingest(mode)
        \/ SweepReads \/ SweepWrites
        \/ Reset
        \/ Tick

Spec == Init /\ [][Next]_vars

\* Somebody keeps calling for due actions to be processed, time passes, and
\* PostgreSQL breaks a deadlock after deadlock_timeout.
FairSpec == /\ Spec
            /\ WF_vars(Tick)
            /\ WF_vars(\E w \in Workers : DeadlockVictim(w))
            /\ \A w \in Workers : WF_vars(Work(w))

-----------------------------------------------------------------------------
(* The metrics endpoint *)

\* Faulty variant of Retries: the first attempt counts as a retry.
RetriesOfAll(row) == row.attempts

Retries(row) == IF row.attempts = 0 THEN 0 ELSE row.attempts - 1

\* What GET /metrics derives from the actions table, if nothing is committed between
\* the SELECTs it sends one after the other.
Metrics ==
    LET actions == {a \in Ids : Exists(a)}
        failed  == {a \in actions : rows[a].state = "failed"} IN
    [queue_backlog     |-> Backlog,
     actions_processed |-> Cardinality({a \in actions : Settled(rows[a])}),
     actions_failed    |-> Cardinality(failed),
     permanentFailures |-> Cardinality({a \in failed : rows[a].detail = "permanent failure"}),
     retries           |-> MapThenSumSet(LAMBDA a : Retries(rows[a]), actions)]

-----------------------------------------------------------------------------
(* Properties *)

\* Every variable holds the kind of value the code gives it; in particular a row
\* never shows more attempts than action_max_attempts, nor a pending row all of
\* them, whatever two workers write over each other, also over a row that took the
\* id of a deleted one.
TypeOK ==
    /\ clock \in Nat
    /\ settings \in [backend : Backends, timely : Timely]
    /\ used \in [arrivals : 0..MaxArrivals, sweeps : 0..MaxSweeps, resets : 0..MaxResets,
                  failures : 0..MaxFailures]
    /\ incidents \in [IncidentIds -> Nat \cup {None}]
    /\ rows \in [Ids -> Row \cup {None}]
    /\ \A a \in Ids : Exists(a) => /\ rows[a].attempts <= MaxAttempts
                                    /\ Pending(rows[a]) => rows[a].attempts < MaxAttempts
    /\ sweep \in (SUBSET IncidentIds) \cup {None}
    /\ pc \in [Workers -> {"idle", "lease", "wait", "attempt", "commit"}]
    /\ now \in [Workers -> Nat]
    /\ todo \in [Workers -> SUBSET Ids]
    /\ cur \in [Workers -> Ids \cup {None}]
    /\ snap \in [Workers -> [Ids -> Row \cup {None}]]
    /\ mem \in [Workers -> [Ids -> Row \cup {None}]]
    /\ calls \in [Ids -> Nat] /\ audit \in [Ids -> Nat]

\* A lease lives and dies inside one transaction, so no committed row ever shows
\* one: a worker that dies in the middle of a batch leaves every item due again
\* at once, and no other worker is ever kept away by a lease.
NoCommittedLease == \A a \in Ids : Exists(a) => rows[a].lease = None

\* An action that has succeeded or failed is never touched again, except by a reset.
SettledIsFinal ==
    [][\A a \in Ids : Exists(a) /\ Settled(rows[a]) => rows'[a] \in {rows[a], None}]_vars

\* The transport is called for an action only when its committed row is pending
\* and its next_attempt_at has come.
CalledOnlyWhenDue ==
    [][\A a \in Ids : calls'[a] # calls[a] =>
           Pending(rows[a]) /\ (rows[a].next = None \/ rows[a].next <= clock)]_vars

\* What is missing in a row's attempts of the calls that were made for it is at most
\* one for each worker that died and one for the batch in flight.
CallsAccounted ==
    \A a \in Ids : Exists(a) =>
        /\ rows[a].attempts <= calls[a]
        /\ calls[a] <= rows[a].attempts + used.failures
             + Cardinality({w \in Workers : snap[w][a] # None /\ mem[w][a] # snap[w][a]})

\* A queue that is worked off in batches, with delays, deaths of the worker and a
\* reset that deletes rows under it, gives each action what the retry loop of the
\* command line gives it in one go: the same state, attempts and detail.
SettledAsDriven ==
    \A a \in Ids : Exists(a) /\ Settled(rows[a]) =>
        LET driven == ExecuteWithRetry(NewRow(rows[a].incident, rows[a].mode, None)) IN
        \A c \in {"state", "attempts", "detail"} : rows[a][c] = driven[c]

\* The metrics tell what happened: every action counts as waiting or processed, the
\* retries are the audited executions after the first of each action, and the
\* permanent failures are the actions that were asked to fail.
MetricsAccount ==
    LET actions == {a \in Ids : Exists(a)}
        done(mode) == {a \in actions : rows[a].mode = mode /\ Settled(rows[a])} IN
    /\ Metrics.queue_backlog + Metrics.actions_processed = Cardinality(actions)
    /\ Metrics.retries = MapThenSumSet(LAMBDA a : audit[a], actions)
                           - Cardinality({a \in actions : audit[a] > 0})
    /\ settings.timely => Metrics.permanentFailures = Cardinality(done("permanent_failure"))

\* Every queued action is settled in the end (or deleted by a reset): workers that
\* die, are rolled back or overwrite each other, and follow-ups that go first,
\* only delay it.
EverySettles ==
    \A a \in Ids : Exists(a) ~> (Exists(a) => Settled(rows[a]))
=============================================================================
