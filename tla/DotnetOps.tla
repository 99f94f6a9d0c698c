------------------------------ MODULE DotnetOps ------------------------------
(***************************************************************************)
(* The .NET service: ingestion (EventIngestionService and the transaction  *)
(* of SqliteOpsStore), the action processors (the background ActionWorker  *)
(* and POST /maintenance/process-actions), the signal channel between them,*)
(* DELETE /admin/reset, and restarts of the host.                          *)
(*                                                                         *)
(* Ingestion decides inside BEGIN IMMEDIATE .. COMMIT, so it is one step,  *)
(* but the time it decides with was read before the lock was asked for.    *)
(* Everything else is autocommit: each UPDATE, audit INSERT and DELETE is a*)
(* step of its own.  Rows made for request r are named by r.               *)
(***************************************************************************)
EXTENDS Integers, FiniteSets

CONSTANTS
    Requests,       \* POST /events calls
    Payloads,       \* their bodies
    Worker,         \* the background worker
    Callers,        \* POST /maintenance/process-actions calls
    Cooldown,       \* OpsProcessingOptions.Cooldown
    RetryDelay,     \* OpsProcessingOptions.RetryDelay
    MaxAttempts,    \* OpsProcessingOptions.MaxActionAttempts
    BatchLimit,     \* WorkerBatchSize
    CallLimit,      \* the limit of a maintenance call (500 in the code)
    MaxClock,       \* bound: time
    MaxRestarts,    \* bound: restarts of the host
    MaxResets,      \* bound: calls of /admin/reset
    None

Processors == {Worker} \cup Callers
Modes == {"success", "transient_then_success", "permanent_failure"}
Statuses == {"queued", "retry", "succeeded", "failed_permanent", "failed_exhausted"}
ActionRow == [status : Statuses, attempts : Nat, next : Nat, created : Nat, mode : Modes]
Verdicts == {"ACTION_SUCCEEDED", "ACTION_TRANSIENT_FAILURE",
             "ACTION_PERMANENT_FAILURE", "ACTION_RETRY_EXHAUSTED"}

ASSUME Numbers ==
    /\ Cooldown \in Nat /\ RetryDelay \in Nat /\ MaxAttempts \in Nat \ {0}
    /\ BatchLimit \in Nat \ {0} /\ CallLimit \in Nat \ {0}
    /\ MaxClock \in Nat /\ MaxRestarts \in Nat /\ MaxResets \in Nat
ASSUME DistinctNone == /\ None \notin ActionRow /\ None \notin Requests
                       /\ None \notin Requests \X Verdicts
                       /\ None \notin {"audit", "actions", "incidents"}
                       /\ Worker \notin Callers
ASSUME PayloadShape ==
    \A p \in Payloads : p.severity \in Int /\ p.hint \in {"permanent", "transient", None}

NoVerdicts == [r \in Requests |-> [v \in Verdicts |-> 0]]

VARIABLES
    clock,
    events,      \* events
    incidents,   \* incidents, all open
    actions,     \* actions, by request
    received,    \* audit_logs written by ingestion, as <<event_type, request>>
    verdicts,    \* audit_logs written by the processors: how many of each kind
    payload,     \* the body of each request
    rpc,         \* request: "idle", "decide" (time read), "signal", "done"
    rnow,        \* the time the request decides with
    channel,     \* signals not yet drained
    pc,          \* processor: "idle", "run", "audit", and for the worker "wait"
    loaded,      \* rows of its batch, as read by GetDueActionsAsync
    cur,         \* the audit row that is due, as <<request, event_type>>
    reset,       \* tables the running reset has emptied, None when there is none
    resets, restarts

db == <<events, incidents, actions, received, verdicts>>
requests == <<rpc, rnow, channel>>
processors == <<pc, loaded, cur>>
vars == <<clock, db, payload, requests, processors, reset, resets, restarts>>

NoRows == [r \in Requests |-> None]

Init ==
    /\ clock = 0
    /\ events = {} /\ incidents = {} /\ received = {}
    /\ actions = NoRows
    /\ verdicts = NoVerdicts
    /\ payload \in [Requests -> Payloads]
    /\ rpc = [r \in Requests |-> "idle"]
    /\ rnow = [r \in Requests |-> 0]
    /\ channel = {}
    /\ pc = [p \in Processors |-> "idle"]
    /\ loaded = [p \in Processors |-> NoRows]
    /\ cur = [p \in Processors |-> None]
    /\ reset = None /\ resets = 0 /\ restarts = 0

-----------------------------------------------------------------------------
(* Ingestion *)

\* Math.Clamp(severity, 0, 100)
Clamp(n) == IF n < 0 THEN 0 ELSE IF n > 100 THEN 100 ELSE n

\* NormalizeExecutorMode: a mode the service does not know is guessed from the
\* words of the message and the category, `hint' being what they contain.
NormalizeExecutorMode(mode, hint) ==
    IF mode \in Modes THEN mode
    ELSE IF hint = "permanent" THEN "permanent_failure"
    ELSE IF hint = "transient" THEN "transient_then_success"
    ELSE "success"

\* RuleEvaluator.Evaluate
Evaluate(p) ==
    IF Clamp(p.severity) >= 80 \/ p.category \in {"offline", "critical"} THEN "action"
    ELSE IF Clamp(p.severity) >= 50 \/ p.category \in {"degraded", "warning"} THEN "incident"
    ELSE "ignored"

\* IngestAsync reads the clock before anything else.
BeginIngest(r) ==
    /\ rpc[r] = "idle"
    /\ rpc' = [rpc EXCEPT ![r] = "decide"]
    /\ rnow' = [rnow EXCEPT ![r] = clock]
    /\ UNCHANGED <<clock, db, payload, channel, processors, reset, resets, restarts>>

\* Faulty variant of RecentOpenIncident: only the past is looked at.
RecentOpenIncidentBefore(p, t) ==
    \E i \in incidents : /\ i.asset = p.asset /\ i.category = p.category
                         /\ i.at >= t - Cooldown /\ i.at < t

\* GetRecentOpenIncidentAsync, with since = now - cooldown
RecentOpenIncident(p, t) ==
    \E i \in incidents : i.asset = p.asset /\ i.category = p.category /\ i.at >= t - Cooldown

\* The rows that CreateIncidentAsync and CreateActionAsync insert.
NewIncident(r) ==
    [event |-> r, asset |-> payload[r].asset, category |-> payload[r].category,
     at |-> rnow[r]]
NewAction(r) ==
    [status |-> "queued", attempts |-> 0, next |-> rnow[r], created |-> rnow[r],
     mode |-> NormalizeExecutorMode(payload[r].mode, payload[r].hint)]

\* RecordIngestionDecisionAsync, committed
Record(r) ==
    LET p == payload[r]
        decision == Evaluate(p)
        suppressed == decision # "ignored" /\ RecentOpenIncident(p, rnow[r])
        opens == decision # "ignored" /\ ~suppressed
        queues == opens /\ decision = "action"
    IN
    /\ rpc[r] = "decide"
    /\ events' = events \cup {r}
    /\ incidents' = IF opens
         THEN incidents \cup {NewIncident(r)} ELSE incidents
    /\ actions' = IF queues
         THEN [actions EXCEPT ![r] = NewAction(r)] ELSE actions
    /\ received' = received \cup {<<"EVENT_RECEIVED", r>>}
         \cup (IF decision = "ignored" THEN {<<"NORMAL_EVENT_RECORDED", r>>} ELSE {})
         \cup (IF suppressed THEN {<<"COOLDOWN_SUPPRESSED", r>>} ELSE {})
         \cup (IF opens THEN {<<"INCIDENT_CREATED", r>>} ELSE {})
         \cup (IF queues THEN {<<"ACTION_QUEUED", r>>} ELSE {})
    /\ rpc' = [rpc EXCEPT ![r] = IF queues THEN "signal" ELSE "done"]
    /\ UNCHANGED <<clock, verdicts, payload, rnow, channel, processors, reset, resets, restarts>>

\* The transaction fails (lock timeout, cancelled request) and is rolled back, or
\* the request is cancelled before its signal is written.
Cancel(r) ==
    /\ rpc[r] \in {"decide", "signal"}
    /\ rpc' = [rpc EXCEPT ![r] = "done"]
    /\ UNCHANGED <<clock, db, payload, rnow, channel, processors, reset, resets, restarts>>

Signal(r) ==
    /\ rpc[r] = "signal"
    /\ channel' = channel \cup {r}
    /\ rpc' = [rpc EXCEPT ![r] = "done"]
    /\ UNCHANGED <<clock, db, payload, rnow, processors, reset, resets, restarts>>

-----------------------------------------------------------------------------
(* ActionProcessor.ProcessPendingAsync *)

Exists(r) == actions[r] # None
Pending(row) == row.status \in {"queued", "retry"}

\* Faulty variant of Due: the status is not looked at.
DueAnyStatus(row) == row.next <= clock

Due(row) == Pending(row) /\ row.next <= clock

Before(x, y) == x.next < y.next \/ (x.next = y.next /\ x.created < y.created)

\* SyntheticActionExecutor.Execute
Execute(mode, attempt) ==
    IF mode = "permanent_failure" THEN "permanent"
    ELSE IF mode = "transient_then_success" /\ attempt = 1 THEN "transient"
    ELSE "success"

\* The audit event that goes with each new status
Verdict(status) ==
    CASE status = "succeeded"        -> "ACTION_SUCCEEDED"
      [] status = "retry"            -> "ACTION_TRANSIENT_FAILURE"
      [] status = "failed_permanent" -> "ACTION_PERMANENT_FAILURE"
      [] status = "failed_exhausted" -> "ACTION_RETRY_EXHAUSTED"

\* Faulty variant of NextStatus: whatever fails is tried again.
NextStatusRetryingAll(outcome, attempt) ==
    IF outcome = "success" THEN "succeeded" ELSE "retry"

NextStatus(outcome, attempt) ==
    CASE outcome = "success"                            -> "succeeded"
      [] outcome = "transient" /\ attempt < MaxAttempts -> "retry"
      [] outcome = "permanent"                          -> "failed_permanent"
      [] OTHER                                          -> "failed_exhausted"

\* GetDueActionsAsync: one SELECT outside any transaction, and no lease.
GetDueActions(p) ==
    LET due == {r \in Requests : Exists(r) /\ Due(actions[r])}
        limit == IF p = Worker THEN BatchLimit ELSE CallLimit IN
    /\ pc[p] = "idle"
    /\ \E b \in SUBSET due :
         /\ Cardinality(b) = limit \/ (b = due /\ Cardinality(b) < limit)
         /\ \A r \in b, q \in due \ b : ~Before(actions[q], actions[r])
         /\ loaded' = [loaded EXCEPT ![p] =
                         [r \in Requests |-> IF r \in b THEN actions[r] ELSE None]]
         /\ p # Worker => b # {}
         /\ pc' = [pc EXCEPT ![p] = IF b = {} THEN "wait" ELSE "run"]
    /\ UNCHANGED <<clock, db, payload, requests, cur, reset, resets, restarts>>

\* The action is executed and UpdateActionAsync writes the loaded row back, with
\* the outcome, wherever the row may be by now; a deleted row stays deleted.
Update(p) ==
    /\ pc[p] = "run"
    /\ \E r \in Requests :
         LET row == loaded[p][r]
             attempt == row.attempts + 1
             status == NextStatus(Execute(row.mode, attempt), attempt)
         IN
         /\ row # None
         /\ \A q \in Requests : loaded[p][q] # None => ~Before(loaded[p][q], row)
         /\ actions' = IF Exists(r)
              THEN [actions EXCEPT ![r] =
                      [@ EXCEPT !.status = status, !.attempts = attempt,
                                !.next = IF status = "retry" THEN clock + RetryDelay ELSE clock]]
              ELSE actions
         /\ cur' = [cur EXCEPT ![p] = <<r, Verdict(status)>>]
         /\ loaded' = [loaded EXCEPT ![p][r] = None]
    /\ pc' = [pc EXCEPT ![p] = "audit"]
    /\ UNCHANGED <<clock, events, incidents, received, verdicts, payload, requests,
                   reset, resets, restarts>>

\* The worker goes on to wait for a signal, a maintenance call returns.
BatchDone(p) == IF p = Worker THEN "wait" ELSE "idle"

\* Faulty variant of Audit: a retry leaves no audit row.
AuditUnlessRetry(p) ==
    /\ pc[p] = "audit"
    /\ verdicts' = IF cur[p][2] = "ACTION_TRANSIENT_FAILURE" THEN verdicts
                   ELSE [verdicts EXCEPT ![cur[p][1]][cur[p][2]] = @ + 1]
    /\ cur' = [cur EXCEPT ![p] = None]
    /\ pc' = [pc EXCEPT ![p] = IF loaded[p] = NoRows THEN BatchDone(p) ELSE "run"]
    /\ UNCHANGED <<clock, events, incidents, actions, received, payload, requests,
                   loaded, reset, resets, restarts>>

\* AddAuditAsync, a statement of its own after the update
Audit(p) ==
    /\ pc[p] = "audit"
    /\ verdicts' = [verdicts EXCEPT ![cur[p][1]][cur[p][2]] = @ + 1]
    /\ cur' = [cur EXCEPT ![p] = None]
    /\ pc' = [pc EXCEPT ![p] = IF loaded[p] = NoRows THEN BatchDone(p) ELSE "run"]
    /\ UNCHANGED <<clock, events, incidents, actions, received, payload, requests,
                   loaded, reset, resets, restarts>>

\* A maintenance call whose client goes away stops where it is.
CancelCall(p) ==
    /\ p \in Callers
    /\ pc[p] \in {"run", "audit"}
    /\ pc' = [pc EXCEPT ![p] = "idle"]
    /\ loaded' = [loaded EXCEPT ![p] = NoRows]
    /\ cur' = [cur EXCEPT ![p] = None]
    /\ UNCHANGED <<clock, db, payload, requests, reset, resets, restarts>>

\* Faulty variant of WakeByDelay: the poll interval never ends.
NeverWakeByDelay == FALSE /\ UNCHANGED vars

\* WaitForSignalOrDelayAsync: the poll interval is over ..
WakeByDelay ==
    /\ pc[Worker] = "wait"
    /\ pc' = [pc EXCEPT ![Worker] = "idle"]
    /\ UNCHANGED <<clock, db, payload, requests, loaded, cur, reset, resets, restarts>>

\* .. or there is a signal, and the channel is drained.
WakeBySignal ==
    /\ pc[Worker] = "wait"
    /\ channel # {}
    /\ channel' = {}
    /\ pc' = [pc EXCEPT ![Worker] = "idle"]
    /\ UNCHANGED <<clock, db, payload, rpc, rnow, loaded, cur, reset, resets, restarts>>

-----------------------------------------------------------------------------
(* Reset, restart, time *)

\* ResetAsync: four DELETEs, each committed by itself.
BeginReset ==
    /\ reset = None /\ resets < MaxResets
    /\ reset' = "audit" /\ resets' = resets + 1
    /\ received' = {} /\ verdicts' = NoVerdicts
    /\ UNCHANGED <<clock, events, incidents, actions, payload, requests, processors, restarts>>

ResetActions ==
    /\ reset = "audit" /\ reset' = "actions"
    /\ actions' = NoRows
    /\ UNCHANGED <<clock, events, incidents, received, verdicts, payload, requests,
                   processors, resets, restarts>>

ResetIncidents ==
    /\ reset = "actions" /\ reset' = "incidents"
    /\ incidents' = {}
    /\ UNCHANGED <<clock, events, actions, received, verdicts, payload, requests,
                   processors, resets, restarts>>

ResetEvents ==
    /\ reset = "incidents" /\ reset' = None
    /\ events' = {}
    /\ UNCHANGED <<clock, incidents, actions, received, verdicts, payload, requests,
                   processors, resets, restarts>>

\* The caller of the reset goes away in the middle of it.
CancelReset ==
    /\ reset # None /\ reset' = None
    /\ UNCHANGED <<clock, db, payload, requests, processors, resets, restarts>>

\* The host stops anywhere and starts again: only the database survives.
Restart ==
    /\ restarts < MaxRestarts
    /\ restarts' = restarts + 1
    /\ rpc' = [r \in Requests |-> IF rpc[r] = "idle" THEN "idle" ELSE "done"]
    /\ channel' = {}
    /\ pc' = [p \in Processors |-> "idle"]
    /\ loaded' = [p \in Processors |-> NoRows]
    /\ cur' = [p \in Processors |-> None]
    /\ reset' = None
    /\ UNCHANGED <<clock, db, payload, rnow, resets>>

Tick ==
    /\ clock < MaxClock
    /\ clock' = clock + 1
    /\ UNCHANGED <<db, payload, requests, processors, reset, resets, restarts>>

Process(p) == GetDueActions(p) \/ Update(p) \/ Audit(p)
Wake == WakeByDelay \/ WakeBySignal
Reset == BeginReset \/ ResetActions \/ ResetIncidents \/ ResetEvents
         \/ CancelReset

Next == \/ \E r \in Requests : BeginIngest(r) \/ Record(r) \/ Cancel(r) \/ Signal(r)
        \/ \E p \in Processors : Process(p) \/ CancelCall(p)
        \/ Wake \/ Reset \/ Restart \/ Tick

Spec == Init /\ [][Next]_vars

\* The worker's loop never stops and timers fire.
FairSpec == Spec /\ WF_vars(Process(Worker)) /\ WF_vars(Wake) /\ WF_vars(Tick)

-----------------------------------------------------------------------------
(* Properties *)

\* Every variable holds the kind of value the code gives it; no row shows more
\* attempts than MaxActionAttempts, a pending one shows fewer.
TypeOK ==
    /\ clock \in Nat
    /\ events \subseteq Requests
    /\ actions \in [Requests -> ActionRow \cup {None}]
    /\ \A r \in Requests : Exists(r) =>
         /\ actions[r].attempts <= MaxAttempts
         /\ Pending(actions[r]) => actions[r].attempts < MaxAttempts
    /\ verdicts \in [Requests -> [Verdicts -> Nat]]
    /\ rpc \in [Requests -> {"idle", "decide", "signal", "done"}]
    /\ rnow \in [Requests -> Nat]
    /\ channel \subseteq Requests
    /\ pc \in [Processors -> {"idle", "run", "audit", "wait"}]
    /\ loaded \in [Processors -> [Requests -> ActionRow \cup {None}]]
    /\ cur \in [Processors -> (Requests \X Verdicts) \cup {None}]
    /\ reset \in {None, "audit", "actions", "incidents"}

\* Two incidents of one asset and category are always more than the cooldown
\* apart, although requests may be decided in another order than they read the
\* clock.
CooldownPerCategory ==
    \A i, j \in incidents :
        i # j /\ i.asset = j.asset /\ i.category = j.category =>
            i.at - j.at > Cooldown \/ j.at - i.at > Cooldown

\* The audit rows that processors wrote about an action.
AuditRows(r) == verdicts[r]["ACTION_SUCCEEDED"] + verdicts[r]["ACTION_TRANSIENT_FAILURE"]
                + verdicts[r]["ACTION_PERMANENT_FAILURE"] + verdicts[r]["ACTION_RETRY_EXHAUSTED"]

\* With one processor the audit trail tells the same story as the row: each
\* attempt left exactly one row, except the one in flight and one for each restart
\* that fell between the update and the audit row.
AttemptsAudited ==
    resets = 0 =>
      \A r \in Requests : Exists(r) =>
        LET inFlight == Cardinality({p \in Processors : cur[p] # None /\ cur[p][1] = r})
        IN  /\ AuditRows(r) + inFlight <= actions[r].attempts
            /\ actions[r].attempts <= AuditRows(r) + inFlight + restarts

\* Without a second processor an action that is over is never written again, not
\* even by a batch that was read before a reset or a restart.
SettledIsFinal ==
    [][\A r \in Requests :
         Exists(r) /\ ~Pending(actions[r]) => actions'[r] \in {actions[r], None}]_vars

\* SQLite is the recovery source: a persisted action is settled in the end (or
\* deleted by a reset), with its signal lost, the host restarted, or a maintenance
\* call writing an older outcome over a newer one.
PersistedActionSettles ==
    \A r \in Requests : Exists(r) ~> ~Exists(r) \/ ~Pending(actions[r])
=============================================================================
