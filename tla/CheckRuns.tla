------------------------------ MODULE CheckRuns ------------------------------
(***************************************************************************)
(* Check runs of the Python service: POST /checks, the transition endpoint,*)
(* the expiry of confirmations, and DELETE /admin/reset.  A request loads  *)
(* its rows, decides on the loaded copies, flushes the changed columns and *)
(* commits; nothing tests that a row still is what was loaded, only that   *)
(* there is one.  Requests that change no row (404, 409, nothing to expire)*)
(* are left out.                                                           *)
(***************************************************************************)
EXTENDS Integers, FiniteSets

CONSTANTS
    Sessions,     \* requests in flight at the same time
    Checks,       \* ids of check_runs
    Traffic,      \* bound: sessions that serve requests, and checks they are about
    Timeouts,     \* timeout_seconds that clients pass
    Backend,      \* "sqlite" or "postgres"
    MaxClock,     \* bound: time
    MaxAborts,    \* bound: requests that are rolled back
    MaxResets,    \* bound: resets
    None

Terminal == {"confirmed", "timeout", "cancelled", "failed"}
States == {"pending", "started", "waiting_confirmation"} \cup Terminal
Row == [state : States, due : Nat \cup {None}]

ASSUME BackendKind == Backend \in {"sqlite", "postgres"}
ASSUME Numbers == Timeouts \subseteq Nat /\ MaxClock \in Nat /\ MaxAborts \in Nat
                  /\ MaxResets \in Nat
ASSUME DistinctNone == None \notin Row /\ None \notin Nat

VARIABLES
    traffic,  \* one of Traffic, for good
    clock,
    rows,     \* check_runs, None where there is no row
    issued,   \* ids PostgreSQL has given out; SQLite gives a deleted one again
    audit,    \* audit_logs: rows about each check, by the phase they record
    pc,       \* "idle", "flush" (rows loaded and changed in memory)
    snap,     \* rows as loaded
    mem,      \* the same objects after transition_check
    todo,     \* changed objects not flushed yet
    held,     \* locks of the transaction
    aborts,   \* requests rolled back so far
    resets,
    contested \* history: checks that two sessions have had copies of at one time

db == <<rows, issued, audit>>
vars == <<traffic, clock, db, pc, snap, mem, todo, held, aborts, resets, contested>>

NoRows == [k \in Checks |-> None]
NoTrail == [p \in States |-> 0]

Init ==
    /\ traffic \in Traffic
    /\ clock = 0 /\ aborts = 0 /\ resets = 0 /\ contested = {}
    /\ rows = NoRows /\ issued = {}
    /\ audit = [k \in Checks |-> NoTrail]
    /\ pc = [s \in Sessions |-> "idle"]
    /\ snap = [s \in Sessions |-> NoRows]
    /\ mem = [s \in Sessions |-> NoRows]
    /\ todo = [s \in Sessions |-> {}]
    /\ held = [s \in Sessions |-> {}]

-----------------------------------------------------------------------------
Lock(k) == IF Backend = "sqlite" THEN "db" ELSE k

Free(s, k) == \A t \in Sessions \ {s} : Lock(k) \notin held[t]

Writable == Backend = "sqlite" => \A s \in Sessions : held[s] = {}

\* Faulty variant of AllowedTransitions: a phase may be entered again.
AllowedRepeating(state) ==
    IF state \in Terminal THEN {} ELSE {"started", "waiting_confirmation"} \cup Terminal

\* ALLOWED_TRANSITIONS
AllowedTransitions(state) ==
    CASE state = "pending" -> {"started", "cancelled", "failed"}
      [] state = "started" -> {"waiting_confirmation", "cancelled", "failed"}
      [] state = "waiting_confirmation" -> Terminal
      [] OTHER -> {}

\* Faulty variant of Transition: the deadline of a check that is over stays.
TransitionKeepingDue(row, target, timeout) ==
    [state |-> target,
     due |-> IF target = "waiting_confirmation" /\ timeout # None
               THEN clock + timeout ELSE row.due]

\* Faulty variant of Transition: the timeout is subtracted.
TransitionInThePast(row, target, timeout) ==
    [state |-> target,
     due |-> IF target = "waiting_confirmation" /\ timeout # None
               THEN clock - timeout ELSE None]

\* transition_check on a loaded object, for an allowed target: the deadline is set
\* by a wait that has a timeout, and cleared when the check is over.
Transition(row, target, timeout) ==
    [state |-> target,
     due |-> CASE target = "waiting_confirmation" /\ timeout # None -> clock + timeout
               [] target \in Terminal -> None
               [] OTHER -> row.due]

\* record_audit_event of a new or changed check.
AuditEvent(trail, phase) == [trail EXCEPT ![phase] = @ + 1]

Close(s) ==
    /\ pc' = [pc EXCEPT ![s] = "idle"]
    /\ snap' = [snap EXCEPT ![s] = NoRows]
    /\ mem' = [mem EXCEPT ![s] = NoRows]
    /\ todo' = [todo EXCEPT ![s] = {}]
    /\ held' = [held EXCEPT ![s] = {}]

\* The session has loaded the rows of ks and changed the objects.
Load(s, ks, target, timeout) ==
    /\ s \in traffic.sessions /\ pc[s] = "idle"
    /\ pc' = [pc EXCEPT ![s] = "flush"]
    /\ todo' = [todo EXCEPT ![s] = ks]
    /\ snap' = [snap EXCEPT ![s] = [k \in Checks |-> IF k \in ks THEN rows[k] ELSE None]]
    /\ mem' = [mem EXCEPT ![s] =
                 [k \in Checks |-> IF k \in ks THEN Transition(rows[k], target, timeout)
                                               ELSE None]]
    /\ contested' = contested \cup {k \in ks : \E t \in Sessions : snap[t][k] # None}
    /\ UNCHANGED <<traffic, clock, db, held, aborts, resets>>

-----------------------------------------------------------------------------
(* Requests *)

\* create_check with an id that no row has: the row and its audit row.
InsertCheck(k) ==
    /\ Writable
    /\ k \in traffic.checks /\ rows[k] = None
    /\ rows' = [rows EXCEPT ![k] = [state |-> "pending", due |-> None]]
    /\ issued' = IF Backend = "postgres" THEN issued \cup {k} ELSE issued
    /\ audit' = [audit EXCEPT ![k] = AuditEvent(@, "pending")]
    /\ UNCHANGED <<traffic, clock, pc, snap, mem, todo, held, aborts, resets, contested>>

\* Faulty variant of Create: the id of a deleted check is given out again.
CreateReusing(k) == InsertCheck(k)

\* POST /checks
Create(k) == k \notin issued /\ InsertCheck(k)

\* POST /checks/{id}/transition: the guard is evaluated on the loaded row.
LoadTransition(s, k, target, timeout) ==
    /\ rows[k] # None
    /\ target \in AllowedTransitions(rows[k].state)
    /\ Load(s, {k}, target, timeout)

\* Faulty variant of Overdue: the deadline itself is not late enough.
OverdueStrictly(row) ==
    row.state = "waiting_confirmation" /\ row.due # None /\ row.due < clock

Overdue(row) ==
    row.state = "waiting_confirmation" /\ row.due # None /\ row.due <= clock

\* POST /checks/expire-timeouts: all overdue checks are loaded by one SELECT.
LoadOverdue(s) ==
    LET ks == {k \in Checks : rows[k] # None /\ Overdue(rows[k])} IN
    /\ ks # {}
    /\ Load(s, ks, "timeout", None)

\* The UPDATE of one object; the first one on SQLite locks the database.
Flush(s) ==
    /\ pc[s] = "flush"
    /\ \E k \in todo[s] :
         /\ Free(s, k) /\ rows[k] # None
         /\ todo' = [todo EXCEPT ![s] = @ \ {k}]
         /\ held' = [held EXCEPT ![s] = @ \cup {Lock(k)}]
    /\ UNCHANGED <<traffic, clock, db, pc, snap, mem, aborts, resets, contested>>

\* The UPDATE matches no row, a reset has deleted it: StaleDataError.
StaleData(s) ==
    /\ pc[s] = "flush"
    /\ \E k \in todo[s] : Free(s, k) /\ rows[k] = None
    /\ Close(s)
    /\ UNCHANGED <<traffic, clock, db, aborts, resets, contested>>

\* Changed columns only.
Merge(row, loaded, object) ==
    [c \in DOMAIN row |-> IF object[c] = loaded[c] THEN row[c] ELSE object[c]]

Commit(s) ==
    /\ pc[s] = "flush" /\ todo[s] = {}
    /\ rows' = [k \in Checks |-> IF snap[s][k] = None THEN rows[k]
                                 ELSE Merge(rows[k], snap[s][k], mem[s][k])]
    /\ audit' = [k \in Checks |-> IF snap[s][k] = None THEN audit[k]
                                  ELSE AuditEvent(audit[k], mem[s][k].state)]
    /\ Close(s)
    /\ UNCHANGED <<traffic, clock, issued, aborts, resets, contested>>

\* A lock timeout, a deadlock or the death of the process: all is rolled back.
Abort(s) ==
    /\ pc[s] = "flush"
    /\ aborts < MaxAborts
    /\ aborts' = aborts + 1
    /\ Close(s)
    /\ UNCHANGED <<traffic, clock, db, resets, contested>>

\* reset_workload deletes the checks and the audit trail.
Reset ==
    /\ \A s \in Sessions : held[s] = {}
    /\ resets < MaxResets
    /\ resets' = resets + 1
    /\ rows' = NoRows
    /\ audit' = [k \in Checks |-> NoTrail]
    /\ UNCHANGED <<traffic, clock, issued, pc, snap, mem, todo, held, aborts, contested>>

Tick ==
    /\ clock < MaxClock
    /\ clock' = clock + 1
    /\ UNCHANGED <<traffic, db, pc, snap, mem, todo, held, aborts, resets, contested>>

Next == \/ \E k \in Checks : Create(k)
        \/ \E s \in Sessions :
             \/ \E k \in Checks, target \in States, timeout \in Timeouts \cup {None} :
                  LoadTransition(s, k, target, timeout)
             \/ LoadOverdue(s) \/ Flush(s) \/ StaleData(s) \/ Commit(s) \/ Abort(s)
        \/ Reset
        \/ Tick

Spec == Init /\ [][Next]_vars

\* Requests are served to their end, time passes, and somebody keeps calling for
\* expired confirmations.
FairSpec == /\ Spec
            /\ WF_vars(Tick)
            /\ \A s \in Sessions : WF_vars(LoadOverdue(s))
                                  /\ WF_vars(Flush(s) \/ StaleData(s) \/ Commit(s))

-----------------------------------------------------------------------------
(* Properties *)

\* Every variable holds the kind of value the code gives it.
TypeOK ==
    /\ traffic \in Traffic /\ contested \subseteq Checks
    /\ clock \in Nat /\ aborts \in 0..MaxAborts /\ resets \in 0..MaxResets
    /\ issued \subseteq Checks
    /\ rows \in [Checks -> Row \cup {None}]
    /\ audit \in [Checks -> [States -> Nat]]
    /\ pc \in [Sessions -> {"idle", "flush"}]
    /\ snap \in [Sessions -> [Checks -> Row \cup {None}]]
    /\ mem \in [Sessions -> [Checks -> Row \cup {None}]]
    /\ todo \in [Sessions -> SUBSET Checks]

\* ALLOWED_TRANSITIONS, by the states that have some.
PhaseFlow == [pending |-> {"started", "cancelled", "failed"},
              started |-> {"waiting_confirmation", "cancelled", "failed"},
              waiting_confirmation |-> Terminal]

\* Whatever transitions overlap and overwrite each other, the audit trail of a check
\* explains it: the check was created once, the phase it is in is recorded, and each
\* recorded phase follows a recorded one.  So no transition was decided on a row of
\* another check, and none is stored without its audit row.
TrailShowsPath ==
    \A k \in Checks : rows[k] # None =>
        LET recorded == {p \in States : audit[k][p] > 0} IN
        /\ audit[k]["pending"] = 1
        /\ rows[k].state \in recorded
        /\ \A p \in recorded \ {"pending"} :
             \E q \in recorded \ Terminal : p \in PhaseFlow[q]

\* A deadline exists only while the check waits for its confirmation, as long as no
\* two requests have copies of it at one time, whatever they do about other checks.
DeadlineOnlyWhileWaiting ==
    \A k \in Checks \ contested : rows[k] # None /\ rows[k].due # None =>
        rows[k].state = "waiting_confirmation"

\* The phases that a check may have gone through before it came to this one.
PhasesBefore(state) ==
    CASE state = "pending" -> {{}}
      [] state = "started" -> {{"pending"}}
      [] state = "waiting_confirmation" -> {{"pending", "started"}}
      [] state \in {"confirmed", "timeout"} -> {{"pending", "started", "waiting_confirmation"}}
      [] OTHER -> {{"pending"}, {"pending", "started"},
                   {"pending", "started", "waiting_confirmation"}}

\* And so long the audit trail has one row for each phase the check went through and
\* no other, so what was rolled back left none.
AuditTellsPhases ==
    \A k \in Checks \ contested : rows[k] # None =>
        \E before \in PhasesBefore(rows[k].state) : \A p \in States :
            audit[k][p] = IF p \in before \cup {rows[k].state} THEN 1 ELSE 0

\* A check with a deadline does not wait for ever, although the expiry may be rolled
\* back or overwritten: in the end it is over or deleted, or, where copies were stale,
\* put back to a phase with no deadline or a later one.
WaitsEnd ==
    \A k \in Checks :
        LET waits == rows[k] # None /\ rows[k].state = "waiting_confirmation"
                       /\ rows[k].due # None /\ rows[k].due <= MaxClock
        IN  waits ~> (rows[k] # None =>
                        rows[k].state \in Terminal \/ (k \in contested /\ ~waits))
=============================================================================
