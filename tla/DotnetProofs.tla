---------------------------- MODULE DotnetProofs ----------------------------
(***************************************************************************)
(* Proofs about DotnetOps, for any number of requests, restarts and resets:*)
(* first with any number of maintenance calls, then with the background    *)
(* worker alone.                                                           *)
(***************************************************************************)
EXTENDS DotnetOps, FiniteSetTheorems, TLAPS

\* A batch holds actions that were due when it was read, and a processor that has
\* updated a row knows which audit row is due.
BatchInv ==
    \A p \in Processors :
        /\ \A r \in Requests : loaded[p][r] # None =>
             Pending(loaded[p][r]) /\ loaded[p][r].attempts < MaxAttempts
        /\ pc[p] = "audit" => cur[p] # None

\* The part of TypeOK that speaks of the actions.
RowsOK ==
    /\ actions \in [Requests -> ActionRow \cup {None}]
    /\ \A r \in Requests : Exists(r) =>
         /\ actions[r].attempts <= MaxAttempts
         /\ Pending(actions[r]) => actions[r].attempts < MaxAttempts

\* The time of an incident is one that a request has read.
IncidentTimes == \A i \in incidents : i.at \in Nat

OpsInv == TypeOK /\ BatchInv /\ IncidentTimes /\ CooldownPerCategory

\* The statuses that an attempt can lead to.
Results == {"succeeded", "retry", "failed_permanent", "failed_exhausted"}

\* The row after an attempt.
Written(row, status, attempt) ==
    [row EXCEPT !.status = status, !.attempts = attempt,
                !.next = IF status = "retry" THEN clock + RetryDelay ELSE clock]

-----------------------------------------------------------------------------
(* Facts about the operators *)

\* Whatever the executor says, an attempt is given one of four statuses, a retry
\* only when attempts are left, and each has its audit event.
LEMMA StatusAfterAttempt ==
    ASSUME NEW outcome, NEW attempt \in Nat
    PROVE  /\ NextStatus(outcome, attempt) \in Results
           /\ NextStatus(outcome, attempt) = "retry" => attempt < MaxAttempts
<1>1. CASE outcome = "success"
  BY <1>1 DEF NextStatus, Results
<1>2. CASE outcome # "success" /\ outcome = "transient" /\ attempt < MaxAttempts
  BY <1>2 DEF NextStatus, Results
<1>3. CASE outcome # "success" /\ ~(outcome = "transient" /\ attempt < MaxAttempts)
  BY <1>3 DEF NextStatus, Results
<1> QED
  BY <1>1, <1>2, <1>3

\* The four statuses have four audit events.
LEMMA VerdictOfResult == \A status \in Results : Verdict(status) \in Verdicts
BY DEF Results, Verdict, Verdicts

\* A row that is written stays a row, and is pending only when it is tried again.
LEMMA WrittenRow ==
    ASSUME TypeOK, NEW row \in ActionRow, NEW status \in Results, NEW attempt \in Nat
    PROVE  /\ Written(row, status, attempt) \in ActionRow
           /\ Written(row, status, attempt).attempts = attempt
           /\ Pending(Written(row, status, attempt)) <=> status = "retry"
<1>1. clock \in Nat /\ clock + RetryDelay \in Nat
  BY Numbers DEF TypeOK
<1> QED
  BY <1>1 DEF Written, ActionRow, Statuses, Results, Pending

\* A new action is a row with no attempts.
LEMMA NewActionRow ==
    ASSUME TypeOK, NEW r \in Requests
    PROVE  NewAction(r) \in ActionRow /\ NewAction(r).attempts = 0
<1>1. NormalizeExecutorMode(payload[r].mode, payload[r].hint) \in Modes
  BY DEF NormalizeExecutorMode, Modes
<1>2. rnow[r] \in Nat
  BY DEF TypeOK
<1> QED
  BY <1>1, <1>2 DEF NewAction, ActionRow, Statuses

\* Putting a good row into the table keeps the table good.
LEMMA RowPut ==
    ASSUME RowsOK, NEW r \in Requests, NEW row \in ActionRow,
           actions' = [actions EXCEPT ![r] = row],
           row.attempts <= MaxAttempts, Pending(row) => row.attempts < MaxAttempts
    PROVE  RowsOK'
<1>1. actions'[r] = row /\ \A q \in Requests \ {r} : actions'[q] = actions[q]
  BY DEF RowsOK
<1>2. actions' \in [Requests -> ActionRow \cup {None}]
  BY DEF RowsOK
<1>3. ASSUME NEW q \in Requests \ {r}, actions[q] # None
      PROVE  /\ actions[q].attempts <= MaxAttempts
             /\ Pending(actions[q]) => actions[q].attempts < MaxAttempts
  BY <1>3 DEF RowsOK, Exists
<1> QED
  BY <1>1, <1>2, <1>3 DEF RowsOK, Exists, Pending

\* What Update does, for the action it picks from the batch.
LEMMA UpdateKinds ==
    ASSUME OpsInv, NEW p \in Processors, Update(p)
    PROVE  \E r \in Requests, status \in Results, attempt \in Nat :
             /\ loaded[p][r] \in ActionRow /\ Pending(loaded[p][r])
             /\ attempt = loaded[p][r].attempts + 1 /\ attempt <= MaxAttempts
             /\ status = "retry" => attempt < MaxAttempts
             /\ actions' = IF Exists(r)
                  THEN [actions EXCEPT ![r] = Written(actions[r], status, attempt)]
                  ELSE actions
             /\ cur' = [cur EXCEPT ![p] = <<r, Verdict(status)>>]
             /\ loaded' = [loaded EXCEPT ![p][r] = None]
<1>1. PICK r \in Requests :
        LET row == loaded[p][r]
            attempt == row.attempts + 1
            status == NextStatus(Execute(row.mode, attempt), attempt)
        IN  /\ row # None
            /\ actions' = IF Exists(r)
                 THEN [actions EXCEPT ![r] = Written(actions[r], status, attempt)]
                 ELSE actions
            /\ cur' = [cur EXCEPT ![p] = <<r, Verdict(status)>>]
            /\ loaded' = [loaded EXCEPT ![p][r] = None]
  BY DEF Update, Written
<1> DEFINE attempt == loaded[p][r].attempts + 1
           status == NextStatus(Execute(loaded[p][r].mode, attempt), attempt)
<1>2. loaded[p][r] \in ActionRow /\ Pending(loaded[p][r]) /\ loaded[p][r].attempts < MaxAttempts
  BY <1>1 DEF OpsInv, TypeOK, BatchInv
<1>3. attempt \in Nat /\ attempt <= MaxAttempts
  BY <1>2, Numbers DEF ActionRow
<1>4. status \in Results /\ (status = "retry" => attempt < MaxAttempts)
  BY <1>3, StatusAfterAttempt
<1> QED
  BY <1>1, <1>2, <1>3, <1>4

-----------------------------------------------------------------------------
(* Any number of processors *)

\* Before the first request there is nothing.
LEMMA InitOpsInv == Init => OpsInv
BY DEF Init, OpsInv, TypeOK, BatchInv, IncidentTimes, CooldownPerCategory, Exists, NoRows,
       NoVerdicts

\* A step that touches neither incidents nor processors.
LEMMA QuietOps ==
    ASSUME OpsInv, TypeOK', UNCHANGED <<incidents, pc, loaded, cur>>
    PROVE  OpsInv'
BY DEF OpsInv, BatchInv, IncidentTimes, CooldownPerCategory, Pending

\* The transaction of ingestion: the incident it opens is more than the cooldown away
\* from all others of its asset and category, earlier or later.
LEMMA RecordStep ==
    ASSUME OpsInv, NEW r \in Requests, Record(r)
    PROVE  OpsInv'
<1> USE DEF OpsInv
<1> DEFINE new == NewIncident(r)
<1>1. rnow[r] \in Nat
  BY DEF TypeOK
<1>2. actions' = actions \/ actions' = [actions EXCEPT ![r] = NewAction(r)]
  BY DEF Record
<1>3. RowsOK
  BY DEF TypeOK, RowsOK
<1>4. RowsOK'
  <2>1. CASE actions' = actions
    BY <1>3, <2>1 DEF RowsOK, Exists, Pending
  <2>2. CASE actions' = [actions EXCEPT ![r] = NewAction(r)]
    <3> DEFINE row == NewAction(r)
    <3>1. row \in ActionRow /\ row.attempts = 0
      BY NewActionRow
    <3> HIDE DEF row
    <3>2. row.attempts <= MaxAttempts /\ row.attempts < MaxAttempts
      BY <3>1, Numbers
    <3>3. actions' = [actions EXCEPT ![r] = row]
      BY <2>2 DEF row
    <3> QED
      BY <1>3, <3>1, <3>2, <3>3, RowPut
  <2> QED
    BY <1>2, <2>1, <2>2
<1>5. TypeOK'
  BY <1>4 DEF TypeOK, RowsOK, Record, processors
<1>6. BatchInv'
  BY DEF BatchInv, Pending, Record, processors
<1>7. \/ incidents' = incidents
      \/ incidents' = incidents \cup {new} /\ ~RecentOpenIncident(payload[r], rnow[r])
  BY DEF Record
<1>8. /\ new.at = rnow[r] /\ new.asset = payload[r].asset
      /\ new.category = payload[r].category
  BY DEF NewIncident
<1> HIDE DEF new
<1>9. IncidentTimes'
  BY <1>1, <1>7, <1>8 DEF IncidentTimes
<1>10. CooldownPerCategory'
  <2>1. CASE incidents' = incidents
    BY <2>1 DEF CooldownPerCategory
  <2>2. CASE incidents' = incidents \cup {new} /\ ~RecentOpenIncident(payload[r], rnow[r])
    <3>1. \A i \in incidents : i.asset = new.asset /\ i.category = new.category =>
                                 new.at - i.at > Cooldown
      BY <1>1, <1>8, <2>2, Numbers DEF RecentOpenIncident, IncidentTimes
    <3> QED
      BY <2>2, <3>1 DEF CooldownPerCategory
  <2> QED
    BY <1>7, <2>1, <2>2
<1> QED
  BY <1>5, <1>6, <1>9, <1>10

\* A batch is made of due actions.
LEMMA GetDueActionsStep ==
    ASSUME OpsInv, NEW p \in Processors, GetDueActions(p)
    PROVE  OpsInv'
<1> USE DEF OpsInv
<1> DEFINE due == {r \in Requests : Exists(r) /\ Due(actions[r])}
<1>1. PICK b \in SUBSET due :
        /\ loaded' = [loaded EXCEPT ![p] =
                         [r \in Requests |-> IF r \in b THEN actions[r] ELSE None]]
        /\ pc' = [pc EXCEPT ![p] = IF b = {} THEN "wait" ELSE "run"]
  BY DEF GetDueActions
<1>2. UNCHANGED <<clock, db, payload, requests, cur, reset, resets, restarts>>
  BY DEF GetDueActions
<1>3. loaded' \in [Processors -> [Requests -> ActionRow \cup {None}]]
  BY <1>1 DEF TypeOK
<1>4. TypeOK'
  BY <1>1, <1>2, <1>3 DEF TypeOK, Exists, Pending, db, requests
<1>5. BatchInv'
  BY <1>1, <1>2 DEF BatchInv, TypeOK, Exists, Due, Pending
<1> QED
  BY <1>2, <1>4, <1>5 DEF IncidentTimes, CooldownPerCategory, db

\* A row that is written back counts one attempt more than the batch had, which had
\* fewer than MaxActionAttempts; what the row shows by now does not matter.
LEMMA UpdateStep ==
    ASSUME OpsInv, NEW p \in Processors, Update(p)
    PROVE  OpsInv'
<1> USE DEF OpsInv
<1>1. PICK r \in Requests, status \in Results, attempt \in Nat :
        /\ attempt <= MaxAttempts
        /\ status = "retry" => attempt < MaxAttempts
        /\ actions' = IF Exists(r)
             THEN [actions EXCEPT ![r] = Written(actions[r], status, attempt)]
             ELSE actions
        /\ cur' = [cur EXCEPT ![p] = <<r, Verdict(status)>>]
        /\ loaded' = [loaded EXCEPT ![p][r] = None]
  BY UpdateKinds
<1>2. /\ pc' = [pc EXCEPT ![p] = "audit"]
      /\ UNCHANGED <<clock, events, incidents, received, verdicts, payload, requests,
                     reset, resets, restarts>>
  BY DEF Update
<1>3. <<r, Verdict(status)>> \in Requests \X Verdicts
  BY VerdictOfResult
<1>4. cur' \in [Processors -> (Requests \X Verdicts) \cup {None}] /\ cur'[p] # None
  BY <1>1, <1>3, DistinctNone DEF TypeOK
<1>5. loaded' \in [Processors -> [Requests -> ActionRow \cup {None}]]
  BY <1>1 DEF TypeOK
<1>6. RowsOK'
  <2>1. RowsOK
    BY DEF TypeOK, RowsOK
  <2>2. CASE ~Exists(r)
    BY <1>1, <2>1, <2>2 DEF RowsOK, Exists, Pending
  <2>3. CASE Exists(r)
    <3>1. actions[r] \in ActionRow
      BY <2>1, <2>3 DEF RowsOK, Exists
    <3> DEFINE row == Written(actions[r], status, attempt)
    <3>2. row \in ActionRow /\ row.attempts = attempt /\ (Pending(row) <=> status = "retry")
      BY <3>1, WrittenRow
    <3>3. actions' = [actions EXCEPT ![r] = row]
      BY <1>1, <2>3
    <3> HIDE DEF row
    <3>4. row.attempts <= MaxAttempts /\ (Pending(row) => row.attempts < MaxAttempts)
      BY <1>1, <3>2
    <3> QED
      BY <2>1, <3>2, <3>3, <3>4, RowPut
  <2> QED
    BY <2>2, <2>3
<1>7. TypeOK'
  BY <1>2, <1>4, <1>5, <1>6 DEF TypeOK, RowsOK, requests
<1>8. BatchInv'
  <2>1. \A q \in Processors, x \in Requests : loaded'[q][x] # None => loaded'[q][x] = loaded[q][x]
    BY <1>1 DEF TypeOK
  <2>2. \A q \in Processors : pc'[q] = "audit" => cur'[q] # None
    BY <1>1, <1>2, <1>4 DEF BatchInv, TypeOK
  <2> QED
    BY <2>1, <2>2 DEF BatchInv, Pending
<1> QED
  BY <1>2, <1>7, <1>8 DEF IncidentTimes, CooldownPerCategory

\* The audit row of the last update.
LEMMA AuditStep ==
    ASSUME OpsInv, NEW p \in Processors, Audit(p)
    PROVE  OpsInv'
<1> USE DEF OpsInv
<1>1. cur[p] \in Requests \X Verdicts
  BY DEF TypeOK, BatchInv, Audit
<1>2. verdicts' \in [Requests -> [Verdicts -> Nat]]
  BY <1>1 DEF TypeOK, Audit
<1>3. TypeOK'
  BY <1>2 DEF TypeOK, Exists, Pending, BatchDone, Audit, requests
<1>4. BatchInv'
  BY DEF BatchInv, TypeOK, Pending, BatchDone, Audit
<1> QED
  BY <1>3, <1>4 DEF IncidentTimes, CooldownPerCategory, Audit

\* A maintenance call that stops drops its batch.
LEMMA CancelCallStep ==
    ASSUME OpsInv, NEW p \in Processors, CancelCall(p)
    PROVE  OpsInv'
<1> USE DEF OpsInv
<1>1. TypeOK'
  BY DEF TypeOK, Exists, Pending, CancelCall, NoRows, db, requests
<1>2. BatchInv'
  BY DEF BatchInv, TypeOK, Pending, CancelCall, NoRows
<1> QED
  BY <1>1, <1>2 DEF IncidentTimes, CooldownPerCategory, CancelCall, db

\* The steps of a request that write no row.
LEMMA RequestStep ==
    ASSUME OpsInv, NEW r \in Requests, BeginIngest(r) \/ Cancel(r) \/ Signal(r)
    PROVE  OpsInv'
<1>1. TypeOK'
  BY DEF OpsInv, TypeOK, Exists, Pending, BeginIngest, Cancel, Signal, db, processors
<1> QED
  BY <1>1, QuietOps DEF BeginIngest, Cancel, Signal, db, processors

\* The worker wakes up without a batch.
LEMMA WakeStep == OpsInv /\ Wake => OpsInv'
<1> SUFFICES ASSUME OpsInv, Wake PROVE OpsInv'
  OBVIOUS
<1> USE DEF OpsInv
<1>1. TypeOK'
  BY DEF TypeOK, Exists, Pending, Wake, WakeByDelay, WakeBySignal, Processors, db, requests
<1>2. BatchInv'
  BY DEF BatchInv, TypeOK, Pending, Wake, WakeByDelay, WakeBySignal
<1> QED
  BY <1>1, <1>2 DEF IncidentTimes, CooldownPerCategory, Wake, WakeByDelay, WakeBySignal, db

\* A reset deletes rows under the processors.
LEMMA ResetStep == OpsInv /\ Reset => OpsInv'
<1> SUFFICES ASSUME OpsInv, Reset PROVE OpsInv'
  OBVIOUS
<1> USE DEF OpsInv
<1>1. CASE BeginReset \/ ResetActions \/ ResetEvents \/ CancelReset
  <2>1. TypeOK'
    BY <1>1 DEF TypeOK, Exists, Pending, BeginReset, ResetActions, ResetEvents, CancelReset,
                NoVerdicts, NoRows, db, requests, processors
  <2> QED
    BY <1>1, <2>1, QuietOps DEF BeginReset, ResetActions, ResetEvents, CancelReset, db, processors
<1>2. CASE ResetIncidents
  <2>1. TypeOK'
    BY <1>2 DEF TypeOK, Exists, Pending, ResetIncidents, requests, processors
  <2>2. BatchInv'
    BY <1>2 DEF BatchInv, Pending, ResetIncidents, processors
  <2> QED
    BY <1>2, <2>1, <2>2 DEF IncidentTimes, CooldownPerCategory, ResetIncidents
<1> QED
  BY <1>1, <1>2 DEF Reset

\* A restart drops all batches and keeps the database.
LEMMA RestartStep == OpsInv /\ Restart => OpsInv'
<1> SUFFICES ASSUME OpsInv, Restart PROVE OpsInv'
  OBVIOUS
<1> USE DEF OpsInv
<1>1. TypeOK'
  BY DEF TypeOK, Exists, Pending, Restart, NoRows, db
<1>2. BatchInv'
  BY DEF BatchInv, Restart, NoRows
<1> QED
  BY <1>1, <1>2 DEF IncidentTimes, CooldownPerCategory, Restart, db

\* Every step keeps the invariant.
LEMMA NextOpsInv == OpsInv /\ [Next]_vars => OpsInv'
<1> SUFFICES ASSUME OpsInv, [Next]_vars PROVE OpsInv'
  OBVIOUS
<1>1. CASE Tick
  <2>1. TypeOK'
    BY <1>1 DEF OpsInv, TypeOK, Exists, Pending, Tick, db, requests, processors
  <2> QED
    BY <1>1, <2>1, QuietOps DEF Tick, db, processors
<1>2. CASE UNCHANGED vars
  <2>1. TypeOK'
    BY <1>2 DEF OpsInv, TypeOK, Exists, Pending, vars, db, requests, processors
  <2> QED
    BY <1>2, <2>1, QuietOps DEF vars, db, processors
<1>3. ASSUME NEW r \in Requests, BeginIngest(r) \/ Record(r) \/ Cancel(r) \/ Signal(r)
      PROVE  OpsInv'
  BY <1>3, RequestStep, RecordStep
<1>4. ASSUME NEW p \in Processors, Process(p) \/ CancelCall(p) PROVE OpsInv'
  BY <1>4, GetDueActionsStep, UpdateStep, AuditStep, CancelCallStep DEF Process
<1> QED
  BY <1>1, <1>2, <1>3, <1>4, WakeStep, ResetStep, RestartStep DEF Next

\* The invariant holds with any number of maintenance calls beside the worker.
THEOREM OpsInvariance == Spec => []OpsInv
BY InitOpsInv, NextOpsInv, PTL DEF Spec

\* No action ever shows more attempts than MaxActionAttempts, and none that is still
\* pending shows all of them, although processors write over each other's rows.
THEOREM TypeCorrect == Spec => []TypeOK
<1>1. OpsInv => TypeOK
  BY DEF OpsInv
<1> QED
  BY <1>1, OpsInvariance, PTL

\* The incidents of an asset and category are more than the cooldown apart, in
\* whatever order requests read the clock and get the write lock.
THEOREM CooldownHolds == Spec => []CooldownPerCategory
<1>1. OpsInv => CooldownPerCategory
  BY DEF OpsInv
<1> QED
  BY <1>1, OpsInvariance, PTL

-----------------------------------------------------------------------------
(* The worker alone *)

\* A request writes its action once, and the row of an action in the worker's batch is
\* what the worker has read, or it is gone.
AloneInv ==
    /\ \A r \in Requests :
         /\ Exists(r) \/ loaded[Worker][r] # None => rpc[r] \in {"signal", "done"}
         /\ loaded[Worker][r] # None => actions[r] \in {loaded[Worker][r], None}
    /\ pc[Worker] # "audit" => cur[Worker] = None

\* The attempt that is counted in the row and not yet in the audit trail.
InFlight(r) == IF cur[Worker] # None /\ cur[Worker][1] = r THEN 1 ELSE 0

\* As long as nothing was reset, rows stay and their attempts are accounted for.
AccountInv ==
    /\ resets \in Nat /\ restarts \in Nat
    /\ resets = 0 =>
         /\ reset = None
         /\ \A r \in Requests :
              /\ loaded[Worker][r] # None => Exists(r)
              /\ Exists(r) => /\ AuditRows(r) + InFlight(r) <= actions[r].attempts
                              /\ actions[r].attempts <= AuditRows(r) + InFlight(r) + restarts
              /\ ~Exists(r) => AuditRows(r) = 0 /\ InFlight(r) = 0

SoleInv == OpsInv /\ (Callers = {} => AloneInv /\ AccountInv)

\* The worker is the only processor.
LEMMA OneProcessor == Callers = {} => Processors = {Worker}
BY DEF Processors

\* The number of audit rows is a number.
LEMMA AuditRowsType ==
    ASSUME TypeOK, NEW r \in Requests
    PROVE  AuditRows(r) \in Nat /\ \A v \in Verdicts : verdicts[r][v] \in Nat
BY DEF TypeOK, AuditRows, Verdicts

\* Before the first request the worker has nothing.
LEMMA InitSole == Init /\ Callers = {} => AloneInv /\ AccountInv
BY DEF Init, AloneInv, AccountInv, Exists, NoRows, InFlight, AuditRows, NoVerdicts, Verdicts,
       Processors

\* A step that leaves actions, audit rows and processors alone, except for restarts and
\* a reset that has begun.
LEMMA QuietSole ==
    ASSUME AloneInv, AccountInv, UNCHANGED <<actions, loaded, pc, cur, verdicts, restarts>>,
           \A r \in Requests : rpc[r] \in {"signal", "done"} => rpc'[r] \in {"signal", "done"},
           UNCHANGED <<reset, resets>> \/ (resets' \in Nat /\ resets' # 0)
    PROVE  AloneInv' /\ AccountInv'
<1>1. AloneInv'
  BY DEF AloneInv, Exists
<1>2. AccountInv'
  BY DEF AccountInv, Exists, AuditRows, InFlight
<1> QED
  BY <1>1, <1>2

\* A request that records its action has no row yet.
LEMMA RecordSole ==
    ASSUME OpsInv, AloneInv, AccountInv, NEW r \in Requests, Record(r)
    PROVE  AloneInv' /\ AccountInv'
<1>1. /\ rpc[r] = "decide" /\ rpc'[r] \in {"signal", "done"}
      /\ \A q \in Requests \ {r} : rpc'[q] = rpc[q] /\ actions'[q] = actions[q]
      /\ UNCHANGED <<verdicts, pc, loaded, cur, reset, resets, restarts>>
  BY DEF OpsInv, TypeOK, Record, processors
<1>2. ~Exists(r) /\ loaded[Worker][r] = None
  BY <1>1 DEF AloneInv
<1>3. actions'[r] = None \/ (actions'[r] # None /\ actions'[r].attempts = 0)
  <2>1. actions' = actions \/ actions' = [actions EXCEPT ![r] = NewAction(r)]
    BY DEF Record
  <2>2. NewAction(r) # None /\ NewAction(r).attempts = 0
    BY NewActionRow, DistinctNone DEF OpsInv
  <2> QED
    BY <1>2, <2>1, <2>2 DEF OpsInv, TypeOK, Exists
<1>4. AloneInv'
  BY <1>1, <1>2 DEF AloneInv, Exists
<1>5. AccountInv'
  BY <1>1, <1>2, <1>3 DEF AccountInv, Exists, AuditRows, InFlight
<1> QED
  BY <1>4, <1>5

\* The batch is read from the rows.
LEMMA GetDueActionsSole ==
    ASSUME OpsInv, AloneInv, AccountInv, GetDueActions(Worker)
    PROVE  AloneInv' /\ AccountInv'
<1>1. /\ pc[Worker] = "idle" /\ pc'[Worker] \in {"wait", "run"}
      /\ UNCHANGED <<actions, rpc, cur, verdicts, reset, resets, restarts>>
      /\ \A r \in Requests : loaded'[Worker][r] # None => Exists(r) /\ loaded'[Worker][r] = actions[r]
  BY DEF OpsInv, TypeOK, GetDueActions, Processors, db, requests
<1>2. AloneInv'
  BY <1>1 DEF AloneInv, Exists
<1>3. AccountInv'
  BY <1>1 DEF AccountInv, Exists, AuditRows, InFlight
<1> QED
  BY <1>2, <1>3

\* The row that is written is pending and has the attempts of the batch.
LEMMA UpdateSole ==
    ASSUME OpsInv, AloneInv, AccountInv, Update(Worker)
    PROVE  AloneInv' /\ AccountInv'
<1>1. PICK r \in Requests, status \in Results, attempt \in Nat :
        /\ loaded[Worker][r] \in ActionRow
        /\ attempt = loaded[Worker][r].attempts + 1
        /\ actions' = IF Exists(r)
             THEN [actions EXCEPT ![r] = Written(actions[r], status, attempt)]
             ELSE actions
        /\ cur' = [cur EXCEPT ![Worker] = <<r, Verdict(status)>>]
        /\ loaded' = [loaded EXCEPT ![Worker][r] = None]
  BY UpdateKinds DEF Processors
<1>2. /\ pc[Worker] = "run" /\ pc'[Worker] = "audit"
      /\ UNCHANGED <<rpc, verdicts, reset, resets, restarts>>
  BY DEF OpsInv, TypeOK, Update, Processors, requests
<1>3. cur[Worker] = None /\ loaded[Worker][r] # None
  BY <1>1, <1>2, DistinctNone DEF AloneInv
<1>4. /\ loaded'[Worker][r] = None
      /\ \A q \in Requests \ {r} : loaded'[Worker][q] = loaded[Worker][q] /\ actions'[q] = actions[q]
  BY <1>1 DEF OpsInv, TypeOK, Processors
<1>5. cur'[Worker] = <<r, Verdict(status)>> /\ cur'[Worker] # None
  <2>1. <<r, Verdict(status)>> \in Requests \X Verdicts
    BY VerdictOfResult
  <2> QED
    BY <1>1, <2>1, DistinctNone DEF OpsInv, TypeOK, Processors
<1>6. InFlight(r)' = 1 /\ \A q \in Requests : InFlight(q) = 0 /\ (q # r => InFlight(q)' = 0)
  BY <1>3, <1>5 DEF InFlight
<1>7. Exists(r) => actions'[r] # None /\ actions'[r].attempts = actions[r].attempts + 1
  <2> SUFFICES ASSUME Exists(r)
               PROVE  actions'[r] # None /\ actions'[r].attempts = actions[r].attempts + 1
    OBVIOUS
  <2>1. actions[r] = loaded[Worker][r]
    BY <1>3 DEF AloneInv, Exists
  <2>2. actions'[r] = Written(actions[r], status, attempt)
    BY <1>1 DEF OpsInv, TypeOK
  <2>3. /\ Written(actions[r], status, attempt) \in ActionRow
        /\ Written(actions[r], status, attempt).attempts = attempt
    BY <1>1, <2>1, WrittenRow DEF OpsInv
  <2> QED
    BY <1>1, <2>1, <2>2, <2>3, DistinctNone
<1>8. ~Exists(r) => actions'[r] = None
  BY <1>1 DEF Exists
<1>9. AloneInv'
  BY <1>2, <1>3, <1>4 DEF AloneInv, Exists
<1>10. AccountInv'
  <2> SUFFICES ASSUME resets = 0, NEW q \in Requests
      PROVE  /\ loaded'[Worker][q] # None => Exists(q)'
             /\ Exists(q)' => /\ AuditRows(q)' + InFlight(q)' <= actions'[q].attempts
                              /\ actions'[q].attempts <= AuditRows(q)' + InFlight(q)' + restarts'
             /\ ~Exists(q)' => AuditRows(q)' = 0 /\ InFlight(q)' = 0
    BY <1>2 DEF AccountInv
  <2>1. AuditRows(q)' = AuditRows(q) /\ AuditRows(q) \in Nat /\ restarts \in Nat /\ restarts' = restarts
    BY <1>2, AuditRowsType DEF OpsInv, AuditRows, AccountInv
  <2>2. CASE q = r
    <3>1. Exists(r)
      BY <1>3 DEF AccountInv
    <3>2. actions[r].attempts \in Nat
      BY <3>1 DEF OpsInv, TypeOK, Exists, ActionRow
    <3>3. /\ AuditRows(r) + 0 <= actions[r].attempts
          /\ actions[r].attempts <= AuditRows(r) + 0 + restarts
      BY <1>6, <3>1 DEF AccountInv
    <3>4. Exists(r)' /\ actions'[r].attempts = actions[r].attempts + 1
      BY <1>7, <3>1 DEF Exists
    <3> QED
      BY <1>4, <1>6, <2>1, <2>2, <3>2, <3>3, <3>4
  <2>3. CASE q # r
    BY <1>4, <1>6, <2>1, <2>3 DEF AccountInv, Exists
  <2> QED
    BY <2>2, <2>3
<1> QED
  BY <1>9, <1>10

\* The audit row of the attempt in flight is written, and it is in flight no more.
LEMMA AuditSole ==
    ASSUME OpsInv, AloneInv, AccountInv, Audit(Worker)
    PROVE  AloneInv' /\ AccountInv'
<1>1. PICK r \in Requests, v \in Verdicts : cur[Worker] = <<r, v>>
  BY DEF OpsInv, TypeOK, BatchInv, Audit, Processors
<1>2. /\ pc[Worker] = "audit" /\ cur[Worker] # None /\ cur'[Worker] = None
      /\ UNCHANGED <<actions, rpc, loaded, reset, resets, restarts>>
  BY DEF OpsInv, TypeOK, BatchInv, Audit, Processors, requests
<1>3. verdicts' = [verdicts EXCEPT ![r][v] = @ + 1]
  BY <1>1 DEF Audit
<1>4. \A q \in Requests \ {r} : AuditRows(q)' = AuditRows(q)
  BY <1>3 DEF OpsInv, TypeOK, AuditRows
<1>5. AuditRows(r)' = AuditRows(r) + 1
  <2>1. \A x \in Verdicts : verdicts'[r][x] = IF x = v THEN verdicts[r][x] + 1 ELSE verdicts[r][x]
    BY <1>3 DEF OpsInv, TypeOK
  <2>2. \A x \in Verdicts : verdicts[r][x] \in Nat
    BY AuditRowsType DEF OpsInv
  <2>3. v \in {"ACTION_SUCCEEDED", "ACTION_TRANSIENT_FAILURE",
               "ACTION_PERMANENT_FAILURE", "ACTION_RETRY_EXHAUSTED"}
    BY DEF Verdicts
  <2> QED
    BY <2>1, <2>2, <2>3 DEF AuditRows, Verdicts
<1>6. /\ InFlight(r) = 1 /\ \A q \in Requests : InFlight(q)' = 0 /\ (q # r => InFlight(q) = 0)
  BY <1>1, <1>2 DEF InFlight
<1>7. AloneInv'
  BY <1>2 DEF AloneInv, Exists
<1>8. AccountInv'
  <2> SUFFICES ASSUME resets = 0, NEW q \in Requests
      PROVE  /\ loaded'[Worker][q] # None => Exists(q)'
             /\ Exists(q)' => /\ AuditRows(q)' + InFlight(q)' <= actions'[q].attempts
                              /\ actions'[q].attempts <= AuditRows(q)' + InFlight(q)' + restarts'
             /\ ~Exists(q)' => AuditRows(q)' = 0 /\ InFlight(q)' = 0
    BY <1>2 DEF AccountInv
  <2>1. AuditRows(q) \in Nat
    BY AuditRowsType DEF OpsInv
  <2>2. CASE q = r
    <3>1. Exists(r)
      BY <1>6 DEF AccountInv
    <3>2. /\ AuditRows(r) + 1 <= actions[r].attempts
          /\ actions[r].attempts <= AuditRows(r) + 1 + restarts
      BY <1>6, <3>1 DEF AccountInv
    <3>3. AuditRows(r)' + InFlight(r)' = AuditRows(r) + 1
      BY <1>5, <1>6, <2>1, <2>2
    <3> QED
      BY <1>2, <2>2, <3>1, <3>2, <3>3 DEF AccountInv, Exists
  <2>3. CASE q # r
    BY <1>2, <1>4, <1>6, <2>3 DEF AccountInv, Exists
  <2> QED
    BY <2>2, <2>3
<1> QED
  BY <1>7, <1>8

\* A restart loses at most the audit row that was in flight.
LEMMA RestartSole ==
    ASSUME OpsInv, AloneInv, AccountInv, Restart
    PROVE  AloneInv' /\ AccountInv'
<1>1. /\ restarts' = restarts + 1 /\ reset' = None
      /\ UNCHANGED <<actions, verdicts, resets>>
      /\ cur'[Worker] = None
      /\ \A r \in Requests : /\ loaded'[Worker][r] = None
                             /\ rpc[r] \in {"signal", "done"} => rpc'[r] = "done"
  BY DEF Restart, Processors, NoRows, db
<1>2. AloneInv'
  BY <1>1 DEF AloneInv, Exists
<1>3. \A r \in Requests : /\ AuditRows(r)' = AuditRows(r) /\ AuditRows(r) \in Nat
                           /\ InFlight(r)' = 0 /\ InFlight(r) \in {0, 1}
  BY <1>1, AuditRowsType DEF OpsInv, AuditRows, InFlight
<1>4. \A r \in Requests : Exists(r) => actions[r].attempts \in Nat
  BY DEF OpsInv, TypeOK, Exists, ActionRow
<1>5. AccountInv'
  <2>1. resets' \in Nat /\ restarts' \in Nat
    BY <1>1 DEF AccountInv
  <2>2. ASSUME resets = 0, NEW r \in Requests, Exists(r)
        PROVE  /\ AuditRows(r) <= actions[r].attempts
               /\ actions[r].attempts <= AuditRows(r) + (restarts + 1)
    <3>1. /\ AuditRows(r) + InFlight(r) <= actions[r].attempts
          /\ actions[r].attempts <= AuditRows(r) + InFlight(r) + restarts
          /\ restarts \in Nat
      BY <2>2 DEF AccountInv
    <3> QED
      BY <1>3, <1>4, <2>2, <3>1
  <2>3. ASSUME resets = 0, NEW r \in Requests
        PROVE  /\ Exists(r)' => /\ AuditRows(r)' + InFlight(r)' <= actions'[r].attempts
                                /\ actions'[r].attempts <= AuditRows(r)' + InFlight(r)' + restarts'
               /\ ~Exists(r)' => AuditRows(r)' = 0 /\ InFlight(r)' = 0
    <3>1. AuditRows(r)' + InFlight(r)' = AuditRows(r)
      BY <1>3
    <3>2. Exists(r)' <=> Exists(r)
      BY <1>1 DEF Exists
    <3>3. ~Exists(r) => AuditRows(r) = 0
      BY <2>3 DEF AccountInv
    <3> QED
      BY <1>1, <1>3, <2>2, <2>3, <3>1, <3>2, <3>3
  <2> QED
    BY <1>1, <2>1, <2>3 DEF AccountInv
<1> QED
  BY <1>2, <1>5

\* A reset deletes rows, never those of a run without resets.
LEMMA ResetSole ==
    ASSUME OpsInv, AloneInv, AccountInv, Reset
    PROVE  AloneInv' /\ AccountInv'
<1>1. CASE BeginReset
  <2>1. /\ UNCHANGED <<actions, loaded, pc, cur, rpc, restarts>>
        /\ resets' = resets + 1
    BY <1>1 DEF BeginReset, requests, processors
  <2> QED
    BY <2>1 DEF AloneInv, AccountInv, Exists
<1>2. CASE ResetActions
  <2>1. /\ UNCHANGED <<loaded, pc, cur, rpc, resets, restarts>>
        /\ reset = "audit" /\ \A r \in Requests : actions'[r] = None
    BY <1>2 DEF ResetActions, NoRows, requests, processors
  <2>2. resets # 0
    BY <2>1, DistinctNone DEF AccountInv
  <2> QED
    BY <2>1, <2>2 DEF AloneInv, AccountInv, Exists
<1>3. CASE ResetIncidents \/ ResetEvents \/ CancelReset
  <2>1. /\ UNCHANGED <<actions, loaded, pc, cur, rpc, verdicts, resets, restarts>>
        /\ reset # None
    BY <1>3, DistinctNone
       DEF ResetIncidents, ResetEvents, CancelReset, db, requests, processors
  <2>2. resets \in Nat /\ resets # 0
    BY <2>1 DEF AccountInv
  <2> QED
    BY <2>1, <2>2, QuietSole
<1> QED
  BY <1>1, <1>2, <1>3 DEF Reset

\* Every step of a service without maintenance calls keeps the account.
LEMMA NextSole ==
    ASSUME OpsInv, Callers = {}, AloneInv, AccountInv, [Next]_vars
    PROVE  AloneInv' /\ AccountInv'
<1>1. ASSUME NEW r \in Requests, BeginIngest(r) \/ Cancel(r) \/ Signal(r)
      PROVE  AloneInv' /\ AccountInv'
  <2>1. /\ UNCHANGED <<actions, loaded, pc, cur, verdicts, reset, resets, restarts>>
        /\ \A q \in Requests : rpc[q] \in {"signal", "done"} => rpc'[q] \in {"signal", "done"}
    BY <1>1 DEF OpsInv, TypeOK, BeginIngest, Cancel, Signal, db, processors
  <2> QED
    BY <2>1, QuietSole
<1>2. ASSUME NEW p \in Processors, Process(p) \/ CancelCall(p) PROVE AloneInv' /\ AccountInv'
  <2>1. p = Worker /\ ~CancelCall(p)
    BY OneProcessor DEF CancelCall
  <2> QED
    BY <1>2, <2>1, GetDueActionsSole, UpdateSole, AuditSole DEF Process
<1>3. CASE Wake
  <2>1. /\ UNCHANGED <<actions, loaded, rpc, cur, verdicts, reset, resets, restarts>>
        /\ pc[Worker] = "wait" /\ pc'[Worker] = "idle"
    BY <1>3 DEF OpsInv, TypeOK, Wake, WakeByDelay, WakeBySignal, Processors, db, requests
  <2>2. AloneInv'
    BY <2>1 DEF AloneInv, Exists
  <2>3. AccountInv'
    BY <2>1 DEF AccountInv, Exists, AuditRows, InFlight
  <2> QED
    BY <2>2, <2>3
<1>4. CASE Tick \/ UNCHANGED vars
  <2>1. UNCHANGED <<actions, loaded, pc, rpc, cur, verdicts, reset, resets, restarts>>
    BY <1>4 DEF Tick, vars, db, requests, processors
  <2> QED
    BY <2>1, QuietSole
<1> QED
  BY <1>1, <1>2, <1>3, <1>4, RecordSole, ResetSole, RestartSole DEF Next

\* Both invariants together.
THEOREM SoleInvariance == Spec => []SoleInv
<1>1. Init => SoleInv
  BY InitOpsInv, InitSole DEF SoleInv
<1>2. SoleInv /\ [Next]_vars => SoleInv'
  BY NextOpsInv, NextSole DEF SoleInv
<1> QED
  BY <1>1, <1>2, PTL DEF Spec

\* With the worker alone the audit trail accounts for every attempt, up to the one in
\* flight and one for each restart: for any number of actions and restarts.
THEOREM AttemptsAccounted == Spec => [](Callers = {} => AttemptsAudited)
<1>1. SoleInv => (Callers = {} => AttemptsAudited)
  <2> SUFFICES ASSUME SoleInv, Callers = {} PROVE AttemptsAudited
    OBVIOUS
  <2>1. ASSUME NEW r \in Requests
        PROVE  Cardinality({p \in Processors : cur[p] # None /\ cur[p][1] = r}) = InFlight(r)
    <3> DEFINE busy == {p \in Processors : cur[p] # None /\ cur[p][1] = r}
    <3>1. busy = IF cur[Worker] # None /\ cur[Worker][1] = r THEN {Worker} ELSE {}
      BY OneProcessor
    <3>2. Cardinality({Worker}) = 1 /\ Cardinality({}) = 0
      BY FS_Singleton, FS_EmptySet
    <3> QED
      BY <3>1, <3>2 DEF InFlight
  <2> QED
    BY <2>1 DEF SoleInv, AccountInv, AttemptsAudited
<1> QED
  BY <1>1, SoleInvariance, PTL

\* What SettledIsFinal says of one step.
FinalStep ==
    \A r \in Requests : Exists(r) /\ ~Pending(actions[r]) => actions'[r] \in {actions[r], None}

\* A settled row is in no batch, and its request writes no other.
LEMMA NextFinal == SoleInv /\ Callers = {} /\ [Next]_vars => FinalStep
<1> SUFFICES ASSUME SoleInv, Callers = {}, [Next]_vars PROVE FinalStep
  OBVIOUS
<1> USE DEF SoleInv
<1>1. CASE UNCHANGED actions
  BY <1>1 DEF FinalStep
<1>2. CASE \A r \in Requests : actions'[r] = None
  BY <1>2 DEF FinalStep
<1>3. ASSUME NEW r \in Requests, Record(r) PROVE FinalStep
  <2>1. ~Exists(r)
    BY <1>3 DEF AloneInv, Record
  <2>2. \A q \in Requests \ {r} : actions'[q] = actions[q]
    BY <1>3 DEF OpsInv, TypeOK, Record
  <2> QED
    BY <2>1, <2>2 DEF FinalStep
<1>4. ASSUME NEW p \in Processors, Update(p) PROVE FinalStep
  <2>1. p = Worker
    BY OneProcessor
  <2>2. PICK r \in Requests, status \in Results, attempt \in Nat :
          /\ loaded[p][r] \in ActionRow /\ Pending(loaded[p][r])
          /\ actions' = IF Exists(r)
               THEN [actions EXCEPT ![r] = Written(actions[r], status, attempt)]
               ELSE actions
    BY <1>4, UpdateKinds
  <2>3. Exists(r) => Pending(actions[r])
    BY <2>1, <2>2, DistinctNone DEF AloneInv, Exists
  <2>4. \A q \in Requests \ {r} : actions'[q] = actions[q]
    BY <2>2 DEF OpsInv, TypeOK
  <2> QED
    BY <2>3, <2>4 DEF FinalStep
<1>5. \/ UNCHANGED actions \/ (\A r \in Requests : actions'[r] = None)
      \/ (\E r \in Requests : Record(r)) \/ (\E p \in Processors : Update(p))
  <2>1. ASSUME NEW r \in Requests, BeginIngest(r) \/ Cancel(r) \/ Signal(r)
        PROVE  UNCHANGED actions
    BY <2>1 DEF BeginIngest, Cancel, Signal, db
  <2>2. ASSUME NEW p \in Processors, GetDueActions(p) \/ Audit(p) \/ CancelCall(p)
        PROVE  UNCHANGED actions
    BY <2>2 DEF GetDueActions, Audit, CancelCall, db
  <2>3. ASSUME Wake \/ Restart \/ Tick \/ UNCHANGED vars PROVE UNCHANGED actions
    BY <2>3 DEF Wake, WakeByDelay, WakeBySignal, Restart, Tick, vars, db
  <2>4. ASSUME Reset PROVE UNCHANGED actions \/ \A r \in Requests : actions'[r] = None
    BY <2>4 DEF Reset, BeginReset, ResetActions, ResetIncidents, ResetEvents, CancelReset,
                NoRows, db
  <2> QED
    BY <2>1, <2>2, <2>3, <2>4 DEF Next, Process
<1> QED
  BY <1>1, <1>2, <1>3, <1>4, <1>5

\* With the worker alone a settled action is never written again, whatever was reset or
\* restarted between the SELECT of a batch and its updates.
THEOREM FinalWhenAlone == ASSUME Callers = {} PROVE Spec => SettledIsFinal
<1>1. SoleInv /\ [Next]_vars => [FinalStep]_vars
  BY NextFinal
<1> QED
  BY <1>1, SoleInvariance, PTL DEF Spec, SettledIsFinal, FinalStep
=============================================================================
