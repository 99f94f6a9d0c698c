--------------------------- MODULE EventProcessor ---------------------------
(***************************************************************************)
(* Event ingestion of the Python service: POST /events, from the handler   *)
(* through EventProcessor.process to the commit in get_session.            *)
(*                                                                         *)
(* Every request is a process.  One step of it is one statement (or one    *)
(* flush) that the session sends to the database, so requests interleave   *)
(* exactly where the database lets them.  What a request has written but   *)
(* not committed lives in `draft'; Commit publishes it.  A row created for *)
(* request r is named by r (autoincrement ids only need to be distinct).   *)
(*                                                                         *)
(* The database is external.  Backend selects its locking:                 *)
(*   "sqlite"    a SELECT outside a transaction takes no lock; the first   *)
(*               INSERT or UPDATE opens the transaction and takes the one  *)
(*               write lock, kept until commit.  The savepoint of          *)
(*               begin_nested is then the outermost transaction, so        *)
(*               releasing it COMMITS the idempotency claim by itself;     *)
(*   "postgres"  READ COMMITTED with row locks; a second INSERT of a unique*)
(*               key waits for the first one's transaction to end.         *)
(***************************************************************************)
EXTENDS Integers, FiniteSets

CONSTANTS
    Requests,          \* POST /events calls, also the names of the rows they create
    Keys,              \* idempotency keys
    Assets,            \* external ids of assets
    Payloads,          \* the EventCreate bodies clients may send
    RuleSet,           \* the AutomationRule rows operators may create
    SeedAssets,        \* what POST /demo/seed creates
    SeedRules,
    Backend,           \* "sqlite" or "postgres"
    WaitAttempts,      \* polls of _wait_for_idempotent_result (100 in the code)
    MaxQueueBacklog,   \* Settings.max_queue_backlog
    MaxClock,          \* bound: minutes that pass
    MaxCrashes,        \* bound: requests whose process dies
    None               \* SQL NULL / Python None

Categories == {p.category : p \in Payloads} \cup {rl.category : rl \in RuleSet}
\* An asset is created with one of two; ingestion puts the last category there.
Statuses == Categories \cup {"registered", "unknown", None}
Rule == [category : Categories, minimum_severity : Nat, cooldown : Nat,
         action_type : {"none", "notify"}, enabled : BOOLEAN]
Payload == [key : Keys \cup {None}, asset : Assets,
            category : Categories, severity : Nat]

Reasons == {"no_matching_rule", "cooldown", "queue_backpressure"}

IncidentRow == [event : Requests, asset : Assets, rule : RuleSet, at : Nat]

\* What _process_new returns, and what the idempotency record keeps of it.
Result == [event : Requests, incident : IncidentRow \cup {None},
           action : BOOLEAN, skipped : Reasons \cup {None}]

Replies == [kind : {"ok", "replay"}, result : Result]
             \cup [kind : {"not_found", "timeout", "locked", "missing"}, result : {None}]

ASSUME DistinctNone == /\ None \notin Keys /\ None \notin RuleSet
                       /\ None \notin Categories \cup {"registered", "unknown"}
                       /\ None \notin IncidentRow /\ None \notin Result
                       /\ None \notin Replies /\ None \notin Reasons
ASSUME PayloadShape == Payloads \subseteq Payload
ASSUME RuleShape == RuleSet \subseteq Rule
ASSUME SeedShape == SeedAssets \subseteq Assets /\ SeedRules \subseteq RuleSet
ASSUME BackendKind == Backend \in {"sqlite", "postgres"}
ASSUME Numbers == /\ WaitAttempts \in Nat /\ MaxQueueBacklog \in Nat
                  /\ MaxClock \in Nat /\ MaxCrashes \in Nat
ASSUME FiniteRequests == IsFiniteSet(Requests)
ASSUME DistinctLocks == /\ Keys \cap Assets = {}
                        /\ "db" \notin Keys \cup Assets

VARIABLES
    clock,      \* datetime.now(UTC), in minutes
    status,     \* assets: external id -> status, None while there is no row
    rules,      \* automation_rules
    taken,      \* keys that have a row in idempotency_records
    stored,     \* the result columns of that row, None until they are filled in
    hits,       \* idempotency_records.hits
    events,     \* operational_events
    incidents,  \* incidents (all OPEN: no code path leaves that state)
    actions,    \* actions created for events
    backlog,    \* those of them that are QUEUED or RETRY
    audit,      \* audit_logs, as <<event_type, request>>
    pc,         \* where each request is
    payload,    \* its body
    seen,       \* the status the ORM loaded with its asset
    rule,       \* the rule it matched
    draft,      \* its uncommitted rows, and the result it will return
    loaded,     \* the idempotency result it loaded for a replay
    tries,      \* polls made while waiting
    held,       \* locks its transaction holds
    reply,      \* the response
    crashes     \* requests killed so far

catalog == <<status, rules>>
tables  == <<taken, stored, hits, events, incidents, actions, backlog, audit>>
session == <<payload, seen, rule, draft, loaded, tries>>
vars == <<clock, catalog, tables, pc, session, held, reply, crashes>>

-----------------------------------------------------------------------------
Labels == {"idle", "lookup", "claim", "wait", "replay", "asset", "flush", "match",
           "cooldown", "incident", "backlog", "commit", "done"}

EmptyResult(r) == [event |-> r, incident |-> None, action |-> FALSE, skipped |-> None]

Init ==
    /\ clock = 0
    /\ status = [a \in Assets |-> None]
    /\ rules = {}
    /\ taken = {}
    /\ stored = [k \in Keys |-> None]
    /\ hits = [k \in Keys |-> 0]
    /\ events = {} /\ incidents = {} /\ actions = {} /\ backlog = {} /\ audit = {}
    /\ pc = [r \in Requests |-> "idle"]
    /\ payload \in [Requests -> Payloads]
    /\ seen = [r \in Requests |-> None]
    /\ rule = [r \in Requests |-> None]
    /\ draft = [r \in Requests |-> EmptyResult(r)]
    /\ loaded = [r \in Requests |-> None]
    /\ tries = [r \in Requests |-> 0]
    /\ held = [r \in Requests |-> {}]
    /\ reply = [r \in Requests |-> None]
    /\ crashes = 0

-----------------------------------------------------------------------------
(* Locks.  A write to the thing x needs Lock(x).                            *)

Lock(x) == IF Backend = "sqlite" THEN "db" ELSE x

Free(r, x) == \A q \in Requests \ {r} : Lock(x) \notin held[q]

\* Faulty variant of Finish: the session is never closed.
FinishKeepingLocks(r, kind, result) ==
    /\ pc' = [pc EXCEPT ![r] = "done"]
    /\ UNCHANGED held
    /\ reply' = [reply EXCEPT ![r] = [kind |-> kind, result |-> result]]

\* The session ends: commit or rollback releases its locks.
Finish(r, kind, result) ==
    /\ pc' = [pc EXCEPT ![r] = "done"]
    /\ held' = [held EXCEPT ![r] = {}]
    /\ reply' = [reply EXCEPT ![r] = [kind |-> kind, result |-> result]]

\* get_session rolls back and the client sees an error; only rows that are
\* already committed survive.
Fail(r, kind) ==
    /\ Finish(r, kind, None)
    /\ UNCHANGED <<clock, catalog, tables, session, crashes>>

\* The session of a request that writes once and commits needs the same lock.
Writable == \A q \in Requests : "db" \notin held[q]

-----------------------------------------------------------------------------
(* The idempotency table *)

\* Faulty variant of KeyTaken: no unique constraint, only the first lookup.
KeyTakenOnceDone(k) == stored[k] # None

\* A row with the key is visible: INSERT of another is an IntegrityError.
KeyTaken(k) == k \in taken

\* Faulty variant of Done: the test of event_id is missing.
DoneOnceTaken(k) == k \in taken

\* The row has an event_id.
Done(k) == stored[k] # None

-----------------------------------------------------------------------------
(* process and _process_with_idempotency *)

Begin(r) ==
    /\ pc[r] = "idle"
    /\ pc' = [pc EXCEPT ![r] = IF payload[r].key = None THEN "asset" ELSE "lookup"]
    /\ UNCHANGED <<clock, catalog, tables, session, held, reply, crashes>>

\* A finished record is replayed; the result is what the ORM has just loaded.
LoadIfDone(r, otherwise) ==
    LET k == payload[r].key IN
    /\ pc' = [pc EXCEPT ![r] = IF Done(k) THEN "replay" ELSE otherwise]
    /\ loaded' = [loaded EXCEPT ![r] = stored[k]]

Lookup(r) ==
    /\ pc[r] = "lookup"
    /\ LoadIfDone(r, "claim")
    /\ UNCHANGED <<clock, catalog, tables, payload, seen, rule, draft, tries,
                   held, reply, crashes>>

\* INSERT of the record in a savepoint: a committed row with the key is an
\* IntegrityError and the request starts to wait.
Claim(r) ==
    LET k == payload[r].key IN
    /\ pc[r] = "claim"
    /\ Free(r, k)
    /\ IF KeyTaken(k)
         THEN /\ pc' = [pc EXCEPT ![r] = "wait"]
              /\ UNCHANGED <<taken, held>>
         ELSE /\ pc' = [pc EXCEPT ![r] = "asset"]
              /\ IF Backend = "sqlite"
                   THEN taken' = taken \cup {k} /\ UNCHANGED held
                   ELSE held' = [held EXCEPT ![r] = @ \cup {k}] /\ UNCHANGED taken
    /\ UNCHANGED <<clock, catalog, stored, hits, events, incidents, actions, backlog, audit,
                   session, reply, crashes>>

\* Faulty variant of PollsLeft: off by one.
PollsLeftOffByOne(r) == tries[r] <= WaitAttempts

PollsLeft(r) == tries[r] < WaitAttempts

\* One round of _wait_for_idempotent_result.
Poll(r) ==
    /\ pc[r] = "wait"
    /\ PollsLeft(r)
    /\ LoadIfDone(r, "wait")
    /\ tries' = [tries EXCEPT ![r] = @ + 1]
    /\ UNCHANGED <<clock, catalog, tables, payload, seen, rule, draft, held, reply, crashes>>

\* All polls used: TimeoutError, which no handler catches (HTTP 500).
WaitTimesOut(r) ==
    /\ pc[r] = "wait"
    /\ ~PollsLeft(r)
    /\ Fail(r, "timeout")

\* Faulty variant of NextHits: the value loaded with the row is written back.
NextHitsFromStaleRow(k) == 1

NextHits(k) == hits[k] + 1

\* Faulty variant of EventMissing: the result of session.get is not tested.
EventMissingUntested(r) == FALSE

\* session.get does not find the event of the record that was loaded.
EventMissing(r) == loaded[r] = None \/ loaded[r].event \notin events

\* UPDATE hits = hits + 1, the audit row and the commit.  The first takes the
\* lock that the others run under, so the three are one step.
Replay(r) ==
    LET k == payload[r].key IN
    /\ pc[r] = "replay"
    /\ ~EventMissing(r)
    /\ Free(r, k)
    /\ hits' = [hits EXCEPT ![k] = NextHits(k)]
    /\ audit' = audit \cup {<<"idempotency_hit", r>>}
    /\ Finish(r, "replay", loaded[r])
    /\ UNCHANGED <<clock, catalog, taken, stored, events, incidents, actions, backlog,
                   session, crashes>>

\* RuntimeError (HTTP 500).  On PostgreSQL the UPDATE has found no row to wait for.
ReplayMissing(r) ==
    /\ pc[r] = "replay"
    /\ EventMissing(r)
    /\ Backend = "postgres" \/ Free(r, payload[r].key)
    /\ Fail(r, "missing")

-----------------------------------------------------------------------------
(* _process_new *)

\* SELECT of the asset: 404 when there is none, else the ORM keeps its status.
ReadAsset(r) ==
    LET a == payload[r].asset IN
    /\ pc[r] = "asset"
    /\ \/ status[a] = None /\ Fail(r, "not_found")
       \/ /\ status[a] # None
          /\ seen' = [seen EXCEPT ![r] = status[a]]
          /\ pc' = [pc EXCEPT ![r] = "flush"]
          /\ UNCHANGED <<clock, catalog, tables, payload, rule, draft, loaded, tries,
                         held, reply, crashes>>

\* The ORM writes the asset only when its status differs from the one loaded.
StatusChanges(r) == seen[r] # payload[r].category

\* INSERT of the event, and UPDATE of the asset if its status changed.
FlushEvent(r) ==
    LET a == payload[r].asset IN
    /\ pc[r] = "flush"
    /\ \/ /\ Backend = "sqlite" \/ StatusChanges(r)
          /\ Free(r, a)
          /\ held' = [held EXCEPT ![r] = @ \cup {Lock(a)}]
       \/ /\ Backend = "postgres" /\ ~StatusChanges(r)
          /\ UNCHANGED held
    /\ pc' = [pc EXCEPT ![r] = "match"]
    /\ UNCHANGED <<clock, catalog, tables, session, reply, crashes>>

\* RuleEngine.match: an enabled rule of the category with the highest minimum
\* severity not above the event's.  Ties are broken by the database.
Match(p) ==
    LET fits == {rl \in rules : /\ rl.enabled
                                /\ rl.category = p.category
                                /\ rl.minimum_severity <= p.severity}
    IN  {rl \in fits : \A o \in fits : o.minimum_severity <= rl.minimum_severity}

\* Faulty variant of InCooldown: the window excludes its first instant.
InCooldownExclusive(a, cooldown) ==
    /\ cooldown > 0
    /\ \E i \in incidents : i.asset = a /\ i.at > clock - cooldown

\* _in_cooldown: any recent incident of the asset, whatever its rule.
InCooldown(a, cooldown) ==
    /\ cooldown > 0
    /\ \E i \in incidents : i.asset = a /\ i.at >= clock - cooldown

Skip(r, reason) ==
    /\ draft' = [draft EXCEPT ![r].skipped = reason]
    /\ pc' = [pc EXCEPT ![r] = "commit"]

MatchRule(r) ==
    LET p == payload[r] IN
    /\ pc[r] = "match"
    /\ \/ /\ Match(p) = {}
          /\ Skip(r, "no_matching_rule")
          /\ UNCHANGED rule
       \/ /\ \E rl \in Match(p) : rule' = [rule EXCEPT ![r] = rl]
          /\ pc' = [pc EXCEPT ![r] = "cooldown"]
          /\ UNCHANGED draft
    /\ UNCHANGED <<clock, catalog, tables, payload, seen, loaded, tries,
                   held, reply, crashes>>

CheckCooldown(r) ==
    /\ pc[r] = "cooldown"
    /\ IF InCooldown(payload[r].asset, rule[r].cooldown)
         THEN Skip(r, "cooldown")
         ELSE pc' = [pc EXCEPT ![r] = "incident"] /\ UNCHANGED draft
    /\ UNCHANGED <<clock, catalog, tables, payload, seen, rule, loaded, tries,
                   held, reply, crashes>>

\* INSERT of the incident, created_at being the time of the flush.
CreateIncident(r) ==
    /\ pc[r] = "incident"
    /\ draft' = [draft EXCEPT ![r].incident =
                   [event |-> r, asset |-> payload[r].asset, rule |-> rule[r], at |-> clock]]
    /\ pc' = [pc EXCEPT ![r] = IF rule[r].action_type = "none" THEN "commit" ELSE "backlog"]
    /\ UNCHANGED <<clock, catalog, tables, payload, seen, rule, loaded, tries,
                   held, reply, crashes>>

\* Faulty variant of BacklogFull: off by one.
BacklogOverfull == Cardinality(backlog) > MaxQueueBacklog

\* _queue_backlog counts committed rows.
BacklogFull == Cardinality(backlog) >= MaxQueueBacklog

\* At the limit the action is rejected, and the incident stays.
CheckBacklog(r) ==
    /\ pc[r] = "backlog"
    /\ IF BacklogFull
         THEN draft' = [draft EXCEPT ![r].skipped = "queue_backpressure"]
         ELSE draft' = [draft EXCEPT ![r].action = TRUE]
    /\ pc' = [pc EXCEPT ![r] = "commit"]
    /\ UNCHANGED <<clock, catalog, tables, payload, seen, rule, loaded, tries,
                   held, reply, crashes>>

AuditKind(res) ==
    CASE res.skipped = "no_matching_rule"   -> "event_recorded"
      [] res.skipped = "cooldown"           -> "event_suppressed"
      [] res.skipped = "queue_backpressure" -> "queue_backpressure"
      [] OTHER                              -> "incident_created"

\* Faulty variant of StoreResult: the columns of the record stay empty.
StoreClaimOnly(k, res) ==
    /\ taken' = taken \cup ({k} \ {None})
    /\ UNCHANGED stored

\* The row of the key, if there is one, gets its result columns.
StoreResult(k, res) ==
    IF k = None
      THEN UNCHANGED <<taken, stored>>
      ELSE taken' = taken \cup {k} /\ stored' = [stored EXCEPT ![k] = res]

\* The record gets its result and get_session commits everything at once.
Commit(r) ==
    LET p == payload[r]
        res == draft[r] IN
    /\ pc[r] = "commit"
    /\ status' = IF StatusChanges(r) THEN [status EXCEPT ![p.asset] = p.category] ELSE status
    /\ StoreResult(p.key, res)
    /\ events' = events \cup {r}
    /\ incidents' = incidents \cup ({res.incident} \ {None})
    /\ actions' = IF res.action THEN actions \cup {r} ELSE actions
    /\ backlog' = IF res.action THEN backlog \cup {r} ELSE backlog
    /\ audit' = audit \cup {<<AuditKind(res), r>>}
    /\ Finish(r, "ok", res)
    /\ UNCHANGED <<clock, rules, hits, session, crashes>>

-----------------------------------------------------------------------------
(* Failures and the rest of the system *)

\* SQLite gives up on the write lock after busy_timeout: OperationalError.
LockTimeout(r) ==
    /\ Backend = "sqlite"
    /\ pc[r] \in {"claim", "replay", "flush"}
    /\ ~Free(r, payload[r].asset)
    /\ Fail(r, "locked")

\* The process serving the request dies: the database rolls it back and the
\* client gets no response.
Crash(r) ==
    /\ pc[r] \notin {"idle", "done"}
    /\ crashes < MaxCrashes
    /\ crashes' = crashes + 1
    /\ pc' = [pc EXCEPT ![r] = "done"]
    /\ held' = [held EXCEPT ![r] = {}]
    /\ UNCHANGED <<clock, catalog, tables, session, reply>>

\* POST /assets; a second one with the same id is a 409 and changes nothing.
CreateAsset(a) ==
    /\ Writable
    /\ status[a] = None
    /\ status' = [status EXCEPT ![a] = "registered"]
    /\ UNCHANGED <<clock, rules, tables, pc, session, held, reply, crashes>>

\* POST /rules
CreateRule(rl) ==
    /\ Writable
    /\ rl \notin rules
    /\ rules' = rules \cup {rl}
    /\ UNCHANGED <<clock, status, tables, pc, session, held, reply, crashes>>

\* POST /demo/seed, for a request that has counted no assets.  None exist at first,
\* so the count may be as old as one likes; the unique external_id decides.  A
\* rule of SeedRules that exists has another name here: if it has the same, the
\* seed is rolled back.
SeedDemo ==
    /\ Writable
    /\ \A a \in SeedAssets : status[a] = None
    /\ status' = [a \in Assets |-> IF a \in SeedAssets THEN "unknown" ELSE status[a]]
    /\ rules' = rules \cup SeedRules
    /\ UNCHANGED <<clock, tables, pc, session, held, reply, crashes>>

\* DELETE /admin/reset on PostgreSQL.  Its DELETEs see committed rows only, so the
\* requests in flight keep their claims and what they have written.  If one commits
\* rows between two DELETEs that the next one must leave without a parent, the
\* foreign keys roll the reset back.  (SQLite gives deleted ids out again, which
\* rows named by their request cannot show: see ActionQueue and CheckRuns.)
Reset ==
    /\ Backend = "postgres"
    /\ taken' = {}
    /\ stored' = [k \in Keys |-> None]
    /\ hits' = [k \in Keys |-> 0]
    /\ events' = {} /\ incidents' = {} /\ actions' = {} /\ backlog' = {} /\ audit' = {}
    /\ UNCHANGED <<clock, catalog, pc, session, held, reply, crashes>>

\* A worker takes an action out of QUEUED/RETRY (module ActionQueue).  What else
\* adds to the backlog is left out: a second worker that puts a settled action back to
\* RETRY, and the follow-ups of the health sweep.
ActionSettles(r) ==
    /\ Writable
    /\ r \in backlog
    /\ backlog' = backlog \ {r}
    /\ UNCHANGED <<clock, catalog, taken, stored, hits, events, incidents, actions, audit,
                   pc, session, held, reply, crashes>>

Tick ==
    /\ clock < MaxClock
    /\ clock' = clock + 1
    /\ UNCHANGED <<catalog, tables, pc, session, held, reply, crashes>>

\* What the server does for a request it has accepted.
Step(r) == \/ Lookup(r) \/ Claim(r) \/ Poll(r) \/ WaitTimesOut(r) \/ Replay(r)
           \/ ReplayMissing(r) \/ ReadAsset(r) \/ FlushEvent(r) \/ MatchRule(r) \/ CheckCooldown(r)
           \/ CreateIncident(r) \/ CheckBacklog(r) \/ Commit(r)

Next == \/ \E r \in Requests : Begin(r) \/ Step(r) \/ LockTimeout(r) \/ Crash(r)
                               \/ ActionSettles(r)
        \/ \E a \in Assets : CreateAsset(a)
        \/ \E rl \in RuleSet : CreateRule(rl)
        \/ SeedDemo \/ Reset
        \/ Tick

Spec == Init /\ [][Next]_vars

\* The server runs every accepted request (a thread of its pool each).
FairSpec == Spec /\ \A r \in Requests : WF_vars(Step(r))
-----------------------------------------------------------------------------
(* Properties *)

\* Every variable holds the kind of value the code gives it, and a waiting
\* request never polls more than the attempts of _wait_for_idempotent_result.
TypeOK ==
    /\ clock \in Nat
    /\ status \in [Assets -> Statuses]
    /\ rules \subseteq RuleSet
    /\ taken \subseteq Keys
    /\ stored \in [Keys -> Result \cup {None}]
    /\ hits \in [Keys -> Nat]
    /\ events \subseteq Requests /\ actions \subseteq Requests /\ backlog \subseteq actions
    /\ incidents \subseteq IncidentRow
    /\ pc \in [Requests -> Labels]
    /\ payload \in [Requests -> Payloads]
    /\ seen \in [Requests -> Statuses]
    /\ rule \in [Requests -> RuleSet \cup {None}]
    /\ draft \in [Requests -> Result]
    /\ loaded \in [Requests -> Result \cup {None}]
    /\ tries \in [Requests -> 0..WaitAttempts]
    /\ held \in [Requests -> SUBSET (Keys \cup Assets \cup {"db"})]
    /\ reply \in [Requests -> Replies \cup {None}]
    /\ crashes \in 0..MaxCrashes

\* However requests with one key interleave, time out or die, at most one of
\* them is ever processed: one event row per idempotency key.
ExactlyOncePerKey ==
    \A r, q \in events :
        payload[r].key = payload[q].key /\ payload[r].key # None => r = q

\* Every successful response to a key, first execution or replay, carries the
\* one result stored for it, and that result points to committed rows; a replay
\* ends in the RuntimeError of _replay_idempotent_record only when the record it
\* has loaded is gone.
ReplayConsistent ==
    [][\A r \in Requests : reply'[r] # reply[r] =>
         LET k == payload[r].key
             res == reply'[r].result IN
         /\ reply'[r].kind \in {"ok", "replay"} =>
              /\ k # None => stored'[k] = res
              /\ res.event \in events'
              /\ res.incident # None => res.incident \in incidents'
              /\ res.action => res.event \in actions'
         /\ reply'[r].kind = "missing" => loaded[r] # stored[k]]_vars

\* Without a reset, hits counts the replays that were answered, none lost between concurrent
\* ones, and agrees with the idempotency_hit audit rows that /metrics counts.
HitsMatchReplays ==
    \A k \in Keys :
        LET replayed == {r \in Requests : payload[r].key = k /\ reply[r] # None
                                           /\ reply[r].kind = "replay"}
        IN  /\ hits[k] = Cardinality(replayed)
            /\ {r \in Requests : payload[r].key = k /\ <<"idempotency_hit", r>> \in audit}
                 = replayed

\* No incident opens for an asset while an earlier one of the asset lies within
\* the cooldown of the later one's rule.  (Of two with the same timestamp the
\* order is unknown; the later one can only be the one without a cooldown.)
CooldownRespected ==
    \A i, j \in incidents :
        i.asset = j.asset /\ i # j =>
            /\ i.at < j.at /\ j.rule.cooldown > 0 => i.at < j.at - j.rule.cooldown
            /\ i.at = j.at => i.rule.cooldown = 0 \/ j.rule.cooldown = 0

\* Ingestion never grows the queue beyond max_queue_backlog, which is all that
\* _queue_backlog can see to: sweeps and second workers do not ask it.
BacklogBounded == Cardinality(backlog) <= MaxQueueBacklog

\* A request that lost the race for its key finds the finished result at its
\* first poll, or a reset has deleted it: it never waits for one that is not
\* finished.  This needs the claim and the result to become visible together, as
\* PostgreSQL makes them.
WaitersFindResult ==
    \A r \in Requests : pc[r] = "wait" /\ KeyTaken(payload[r].key) => Done(payload[r].key)

\* A claim without a result belongs to a request that is still running.
ClaimHasOwner ==
    \A k \in Keys : KeyTaken(k) /\ ~Done(k) =>
        \E r \in Requests : payload[r].key = k /\ pc[r] \notin {"idle", "done"}

\* A request the server has accepted comes to an end: no lock is left held, no
\* wait goes on for ever.
AcceptedRequestsFinish == \A r \in Requests : pc[r] # "idle" ~> pc[r] = "done"

\* The promise of IdempotentIngest: its state is what is committed.
Ingest == INSTANCE IdempotentIngest WITH
    key     <- [r \in Requests |-> payload[r].key],
    outcome <- stored,
    applied <- events,
    opened  <- {i.event : i \in incidents},
    queued  <- actions,
    answer  <- [r \in Requests |-> IF reply[r] = None THEN None ELSE reply[r].result]

\* Every step of ingestion applies one request, repeats a stored result, or
\* changes nothing a client can observe.
ImplementsIngest == Ingest!Spec
=============================================================================
