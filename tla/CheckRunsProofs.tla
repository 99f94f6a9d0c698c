--------------------------- MODULE CheckRunsProofs ---------------------------
(***************************************************************************)
(* Proofs about CheckRuns.  With any number of requests in flight: every   *)
(* variable keeps its type and every committed UPDATE finds its row, on    *)
(* either database, and where no id is given out twice the audit trail of  *)
(* a check shows a path of documented transitions to its phase.  There,    *)
(* while no two requests have copies of a check at one time, its trail is  *)
(* exactly that path, and it has a deadline only while it waits.           *)
(***************************************************************************)
EXTENDS CheckRuns, TLAPS

\* What a session has in memory: copies of rows and their changed forms go together,
\* the rows it has still to flush are among them, and the row of an object it has
\* flushed is locked and so still there.
SessionInv ==
    \A s \in Sessions, k \in Checks :
        /\ snap[s][k] = None <=> mem[s][k] = None
        /\ k \in todo[s] => snap[s][k] # None
        /\ snap[s][k] # None /\ k \notin todo[s] => Lock(k) \in held[s] /\ rows[k] # None

LocksOK == held \in [Sessions -> SUBSET (Checks \cup {"db"})]

StoreInv == TypeOK /\ LocksOK /\ SessionInv

\* No id is given out again: SQLite does so after a reset.
NoIdReuse == Backend = "postgres" \/ MaxResets = 0

\* The ids that the next checks may get.
Fresh(k) == IF Backend = "postgres" THEN k \notin issued ELSE rows[k] = None

\* A fresh id has no row, no copy of one and no audit trail.
IdInv ==
    \A k \in Checks : Fresh(k) => /\ rows[k] = None /\ audit[k] = NoTrail
                                  /\ \A s \in Sessions : snap[s][k] = None

\* What a session is about to store was decided on a phase that goes on, and that
\* phase is recorded, whatever other sessions have made of the row since.
DecidedInv ==
    \A s \in Sessions, k \in Checks : snap[s][k] # None =>
        /\ snap[s][k].state \notin Terminal
        /\ mem[s][k].state \in PhaseFlow[snap[s][k].state]
        /\ rows[k] # None => audit[k][snap[s][k].state] > 0

PathInv == IdInv /\ DecidedInv /\ TrailShowsPath

\* Nobody else has a copy of a check that is not contested.
SoleInv ==
    \A s, t \in Sessions, k \in Checks \ contested :
        snap[s][k] # None /\ snap[t][k] # None => s = t

\* A copy of such a check is the row as it is stored, if it is still there, and the
\* changed object has a deadline only if it waits.
CopyInv ==
    \A s \in Sessions, k \in Checks \ contested : snap[s][k] # None =>
        /\ rows[k] # None => rows[k] = snap[s][k]
        /\ mem[s][k].due # None => mem[s][k].state = "waiting_confirmation"

PhaseInv == SoleInv /\ CopyInv /\ DeadlineOnlyWhileWaiting /\ AuditTellsPhases

-----------------------------------------------------------------------------
(* Facts about the operators *)

\* The columns of a row.
LEMMA RowFields ==
    ASSUME NEW row \in Row
    PROVE  row.state \in States /\ row.due \in Nat \cup {None} /\ row # None
BY DistinctNone DEF Row

\* A row merged with the changes of an object is a row with the columns of one or the
\* other.
LEMMA MergedRow ==
    ASSUME NEW row \in Row, NEW loaded \in Row, NEW object \in Row
    PROVE  /\ Merge(row, loaded, object) \in Row
           /\ row = loaded => Merge(row, loaded, object) = object
<1> DEFINE M == Merge(row, loaded, object)
<1>1. DOMAIN row = {"state", "due"} /\ DOMAIN object = {"state", "due"}
  BY DEF Row
<1>2. M = [c \in {"state", "due"} |-> IF object[c] = loaded[c] THEN row[c] ELSE object[c]]
  BY <1>1 DEF Merge
<1>3. M = [state |-> IF object.state = loaded.state THEN row.state ELSE object.state,
           due |-> IF object.due = loaded.due THEN row.due ELSE object.due]
  BY <1>2
<1>4. M \in Row
  BY <1>3, RowFields DEF Row
<1>5. ASSUME row = loaded PROVE M = object
  <2>1. M = [state |-> object.state, due |-> object.due]
    BY <1>3, <1>5
  <2>2. object = [state |-> object.state, due |-> object.due]
    BY DEF Row
  <2> QED
    BY <2>1, <2>2
<1> QED
  BY <1>4, <1>5

\* The targets that the code allows are the documented ones, and there are none for a
\* check that is over.
LEMMA AllowedTargets ==
    ASSUME NEW state \in States
    PROVE  /\ AllowedTransitions(state) \subseteq States
           /\ state \in Terminal => AllowedTransitions(state) = {}
           /\ state \notin Terminal => AllowedTransitions(state) = PhaseFlow[state]
BY DEF AllowedTransitions, States, Terminal, PhaseFlow

\* A transition makes a row of a row.
LEMMA TransitionRow ==
    ASSUME NEW row \in Row, NEW target \in States, NEW timeout \in Timeouts \cup {None},
           clock \in Nat
    PROVE  Transition(row, target, timeout) \in Row
<1>1. timeout # None => clock + timeout \in Nat
  BY Numbers
<1> QED
  BY <1>1, RowFields DEF Transition, Row

\* One more row about a phase leaves the counts of the others.
LEMMA AuditedTrail ==
    ASSUME NEW trail \in [States -> Nat], NEW phase \in States
    PROVE  /\ AuditEvent(trail, phase) \in [States -> Nat]
           /\ \A p \in States :
                AuditEvent(trail, phase)[p] = IF p = phase THEN trail[p] + 1 ELSE trail[p]
<1> SUFFICES ASSUME NEW Phases, NEW f \in [Phases -> Nat], NEW q \in Phases
             PROVE  /\ [f EXCEPT ![q] = @ + 1] \in [Phases -> Nat]
                    /\ \A p \in Phases :
                         [f EXCEPT ![q] = @ + 1][p] = IF p = q THEN f[p] + 1 ELSE f[p]
  BY DEF AuditEvent
<1> QED
  OBVIOUS

-----------------------------------------------------------------------------
(* Every step keeps the types, with any number of sessions *)

\* A load, of one row or of the overdue ones, copies rows that are there.
LEMMA LoadKinds ==
    ASSUME TypeOK, NEW s \in Sessions,
           \/ LoadOverdue(s)
           \/ \E k \in Checks, target \in States, timeout \in Timeouts \cup {None} :
                LoadTransition(s, k, target, timeout)
    PROVE  \E ks \in SUBSET Checks, target \in States, timeout \in Timeouts \cup {None} :
             /\ Load(s, ks, target, timeout)
             /\ \A k \in ks : /\ rows[k] \in Row
                              /\ target \in AllowedTransitions(rows[k].state)
<1>1. CASE LoadOverdue(s)
  <2> DEFINE ks == {k \in Checks : rows[k] # None /\ Overdue(rows[k])}
  <2>1. Load(s, ks, "timeout", None)
    BY <1>1 DEF LoadOverdue
  <2>2. \A k \in ks : rows[k] \in Row
    BY DEF TypeOK
  <2>3. \A k \in ks : "timeout" \in AllowedTransitions(rows[k].state)
    BY DEF Overdue, AllowedTransitions, Terminal
  <2>4. "timeout" \in States /\ ks \in SUBSET Checks
    BY DEF States, Terminal
  <2> QED
    BY <2>1, <2>2, <2>3, <2>4
<1>2. ASSUME NEW k \in Checks, NEW target \in States, NEW timeout \in Timeouts \cup {None},
             LoadTransition(s, k, target, timeout)
      PROVE  \E ks \in SUBSET Checks : /\ Load(s, ks, target, timeout)
                                       /\ \A j \in ks : /\ rows[j] \in Row
                                                        /\ target \in AllowedTransitions(rows[j].state)
  <2>1. Load(s, {k}, target, timeout) /\ rows[k] \in Row
        /\ target \in AllowedTransitions(rows[k].state)
    BY <1>2 DEF LoadTransition, TypeOK
  <2> QED
    BY <2>1
<1> QED
  BY <1>1, <1>2

\* The session's copies after a load.
LEMMA LoadStore ==
    ASSUME StoreInv, NEW s \in Sessions, NEW ks \in SUBSET Checks, NEW target \in States,
           NEW timeout \in Timeouts \cup {None}, Load(s, ks, target, timeout),
           \A k \in ks : rows[k] \in Row
    PROVE  StoreInv'
<1> DEFINE copies == [k \in Checks |-> IF k \in ks THEN rows[k] ELSE None]
           objects == [k \in Checks |-> IF k \in ks THEN Transition(rows[k], target, timeout)
                                                    ELSE None]
<1>1. \A k \in ks : Transition(rows[k], target, timeout) \in Row
  BY TransitionRow DEF StoreInv, TypeOK
<1>2. copies \in [Checks -> Row \cup {None}] /\ objects \in [Checks -> Row \cup {None}]
  BY <1>1
<1>3. /\ snap' = [snap EXCEPT ![s] = copies] /\ mem' = [mem EXCEPT ![s] = objects]
      /\ todo' = [todo EXCEPT ![s] = ks] /\ pc' = [pc EXCEPT ![s] = "flush"]
      /\ UNCHANGED <<traffic, clock, rows, issued, audit, held, aborts, resets>>
      /\ contested' \subseteq Checks
  BY DEF Load, db, StoreInv, TypeOK
<1> HIDE DEF copies, objects
<1>4. TypeOK'
  BY <1>2, <1>3 DEF StoreInv, TypeOK
<1>5. LocksOK'
  BY <1>3 DEF StoreInv, LocksOK
<1>6. SessionInv'
  <2> SUFFICES ASSUME NEW t \in Sessions, NEW k \in Checks
               PROVE  /\ snap'[t][k] = None <=> mem'[t][k] = None
                      /\ k \in todo'[t] => snap'[t][k] # None
                      /\ snap'[t][k] # None /\ k \notin todo'[t] =>
                           Lock(k) \in held'[t] /\ rows'[k] # None
    BY DEF SessionInv, Lock
  <2>1. CASE t # s
    <3>1. /\ snap'[t] = snap[t] /\ mem'[t] = mem[t] /\ todo'[t] = todo[t]
          /\ held'[t] = held[t] /\ rows' = rows
      BY <1>3, <2>1 DEF StoreInv, TypeOK
    <3> QED
      BY <3>1 DEF StoreInv, SessionInv
  <2>2. CASE t = s
    <3>1. snap'[t] = copies /\ mem'[t] = objects /\ todo'[t] = ks
      BY <1>3, <2>2 DEF StoreInv, TypeOK
    <3>2. CASE k \in ks
      BY <1>1, <3>1, <3>2, RowFields DEF copies, objects
    <3>3. CASE k \notin ks
      BY <3>1, <3>3 DEF copies, objects
    <3> QED
      BY <3>2, <3>3
  <2> QED
    BY <2>1, <2>2
<1> QED
  BY <1>4, <1>5, <1>6 DEF StoreInv

\* A session that ends forgets its copies.
LEMMA CloseStore ==
    ASSUME StoreInv, NEW s \in Sessions, Close(s),
           rows' \in [Checks -> Row \cup {None}], audit' \in [Checks -> [States -> Nat]],
           \A k \in Checks : rows[k] # None => rows'[k] # None,
           UNCHANGED <<traffic, clock, issued, resets, contested>>, aborts' \in 0..MaxAborts
    PROVE  StoreInv'
<1>1. NoRows \in [Checks -> Row \cup {None}] /\ \A k \in Checks : NoRows[k] = None
  BY DEF NoRows
<1> HIDE DEF NoRows
<1>2. TypeOK'
  BY <1>1 DEF StoreInv, TypeOK, Close
<1>3. LocksOK'
  BY DEF StoreInv, LocksOK, Close
<1>4. SessionInv'
  <2> SUFFICES ASSUME NEW t \in Sessions, NEW k \in Checks
               PROVE  /\ snap'[t][k] = None <=> mem'[t][k] = None
                      /\ k \in todo'[t] => snap'[t][k] # None
                      /\ snap'[t][k] # None /\ k \notin todo'[t] =>
                           Lock(k) \in held'[t] /\ rows'[k] # None
    BY DEF SessionInv, Lock
  <2>1. CASE t # s
    <3>1. snap'[t] = snap[t] /\ mem'[t] = mem[t] /\ todo'[t] = todo[t] /\ held'[t] = held[t]
      BY <2>1 DEF StoreInv, TypeOK, LocksOK, Close
    <3> QED
      BY <3>1 DEF StoreInv, SessionInv
  <2>2. CASE t = s
    <3>1. snap'[t] = NoRows /\ mem'[t] = NoRows /\ todo'[t] = {}
      BY <2>2 DEF StoreInv, TypeOK, Close
    <3> QED
      BY <1>1, <3>1
  <2> QED
    BY <2>1, <2>2
<1> QED
  BY <1>2, <1>3, <1>4 DEF StoreInv

\* What a commit writes to a row it has changed: the row is there, and stays one.
LEMMA CommitRows ==
    ASSUME StoreInv, NEW s \in Sessions, Commit(s), NEW k \in Checks
    PROVE  /\ snap[s][k] = None => rows'[k] = rows[k] /\ audit'[k] = audit[k]
           /\ snap[s][k] # None =>
                /\ rows[k] \in Row /\ snap[s][k] \in Row /\ mem[s][k] \in Row
                /\ rows'[k] = Merge(rows[k], snap[s][k], mem[s][k])
                /\ audit'[k] = AuditEvent(audit[k], mem[s][k].state)
<1>1. /\ rows' = [j \in Checks |-> IF snap[s][j] = None THEN rows[j]
                                   ELSE Merge(rows[j], snap[s][j], mem[s][j])]
      /\ audit' = [j \in Checks |-> IF snap[s][j] = None THEN audit[j]
                                    ELSE AuditEvent(audit[j], mem[s][j].state)]
      /\ todo[s] = {}
  BY DEF Commit
<1>2. rows[k] \in Row \cup {None} /\ snap[s][k] \in Row \cup {None}
      /\ mem[s][k] \in Row \cup {None}
  BY DEF StoreInv, TypeOK
<1>3. snap[s][k] # None => rows[k] # None /\ mem[s][k] # None
  BY <1>1 DEF StoreInv, SessionInv
<1> QED
  BY <1>1, <1>2, <1>3

\* A commit that overwrites what another session has written still writes rows.
LEMMA CommitStore ==
    ASSUME StoreInv, NEW s \in Sessions, Commit(s)
    PROVE  StoreInv'
<1>1. \A k \in Checks : rows'[k] \in Row \cup {None} /\ (rows[k] # None => rows'[k] # None)
  <2> TAKE k \in Checks
  <2>1. CASE snap[s][k] = None
    BY <2>1, CommitRows DEF StoreInv, TypeOK
  <2>2. CASE snap[s][k] # None
    <3>1. rows'[k] \in Row
      BY <2>2, CommitRows, MergedRow
    <3> QED
      BY <3>1, RowFields
  <2> QED
    BY <2>1, <2>2
<1>2. rows' \in [Checks -> Row \cup {None}]
  <2>1. rows' = [k \in Checks |-> rows'[k]]
    BY DEF Commit
  <2> QED
    BY <1>1, <2>1
<1>3. audit' \in [Checks -> [States -> Nat]]
  <2>1. audit' = [k \in Checks |-> audit'[k]]
    BY DEF Commit
  <2>2. ASSUME NEW k \in Checks PROVE audit'[k] \in [States -> Nat]
    <3>1. audit[k] \in [States -> Nat]
      BY DEF StoreInv, TypeOK
    <3>2. CASE snap[s][k] # None
      BY <3>1, <3>2, CommitRows, RowFields, AuditedTrail
    <3> QED
      BY <3>1, <3>2, CommitRows
  <2> QED
    BY <2>1, <2>2
<1>4. Close(s) /\ UNCHANGED <<traffic, clock, issued, resets, contested>> /\ aborts' \in 0..MaxAborts
  BY DEF StoreInv, TypeOK, Commit
<1> QED
  BY <1>1, <1>2, <1>3, <1>4, CloseStore

\* The UPDATE of an object locks its row while it is there.
LEMMA FlushStore ==
    ASSUME StoreInv, NEW s \in Sessions, Flush(s)
    PROVE  StoreInv'
<1>1. PICK j \in todo[s] :
        /\ rows[j] # None
        /\ todo' = [todo EXCEPT ![s] = @ \ {j}]
        /\ held' = [held EXCEPT ![s] = @ \cup {Lock(j)}]
  BY DEF Flush
<1>2. UNCHANGED <<traffic, clock, rows, issued, audit, pc, snap, mem, aborts, resets, contested>>
  BY DEF Flush, db
<1>3. j \in Checks /\ Lock(j) \in Checks \cup {"db"}
  BY DEF StoreInv, TypeOK, Lock
<1>4. TypeOK'
  BY <1>1, <1>2 DEF StoreInv, TypeOK
<1>5. LocksOK'
  BY <1>1, <1>3 DEF StoreInv, LocksOK
<1>6. SessionInv'
  <2> SUFFICES ASSUME NEW t \in Sessions, NEW k \in Checks
               PROVE  /\ snap[t][k] = None <=> mem[t][k] = None
                      /\ k \in todo'[t] => snap[t][k] # None
                      /\ snap[t][k] # None /\ k \notin todo'[t] =>
                           Lock(k) \in held'[t] /\ rows[k] # None
    BY <1>2 DEF SessionInv, Lock
  <2>1. todo'[t] = (IF t = s THEN todo[t] \ {j} ELSE todo[t])
        /\ held'[t] = (IF t = s THEN held[t] \cup {Lock(j)} ELSE held[t])
    BY <1>1 DEF StoreInv, TypeOK, LocksOK
  <2>2. CASE t = s /\ k = j
    BY <1>1, <2>1, <2>2 DEF StoreInv, SessionInv
  <2>3. CASE t # s \/ k # j
    BY <2>1, <2>3 DEF StoreInv, SessionInv
  <2> QED
    BY <2>2, <2>3
<1> QED
  BY <1>4, <1>5, <1>6 DEF StoreInv

\* A new check, and a reset, which waits for every lock.
LEMMA TableStore ==
    ASSUME StoreInv, Reset \/ \E k \in Checks : Create(k)
    PROVE  StoreInv'
<1>1. CASE Reset
  <2>1. TypeOK'
    <3>1. NoTrail \in [States -> Nat]
      BY DEF NoTrail
    <3>2. resets' \in 0..MaxResets
      BY <1>1, Numbers DEF StoreInv, TypeOK, Reset
    <3> QED
      BY <1>1, <3>1, <3>2 DEF StoreInv, TypeOK, Reset, NoRows
  <2>2. LocksOK'
    BY <1>1 DEF StoreInv, LocksOK, Reset
  <2>3. \A s \in Sessions : held[s] = {}
    BY <1>1 DEF Reset
  <2>4. SessionInv'
    BY <1>1, <2>3 DEF StoreInv, SessionInv, Reset, Lock
  <2> QED
    BY <2>1, <2>2, <2>4 DEF StoreInv
<1>2. ASSUME NEW k \in Checks, Create(k) PROVE StoreInv'
  <2> DEFINE new == [state |-> "pending", due |-> None]
  <2>1. new \in Row /\ new # None
    BY DistinctNone DEF Row, States
  <2>2. rows' = [rows EXCEPT ![k] = new] /\ issued' \subseteq Checks
        /\ audit' = [audit EXCEPT ![k] = AuditEvent(@, "pending")]
        /\ UNCHANGED <<traffic, clock, pc, snap, mem, todo, held, aborts, resets, contested>>
    BY <1>2 DEF Create, InsertCheck, StoreInv, TypeOK
  <2> HIDE DEF new
  <2>3. TypeOK'
    <3>1. audit' \in [Checks -> [States -> Nat]]
      <4>1. audit[k] \in [States -> Nat] /\ "pending" \in States
        BY DEF StoreInv, TypeOK, States
      <4>2. AuditEvent(audit[k], "pending") \in [States -> Nat]
        BY <4>1, AuditedTrail
      <4> QED
        BY <2>2, <4>2 DEF StoreInv, TypeOK
    <3>2. rows' \in [Checks -> Row \cup {None}]
      BY <2>1, <2>2 DEF StoreInv, TypeOK
    <3> QED
      BY <2>2, <3>1, <3>2 DEF StoreInv, TypeOK
  <2>4. \A j \in Checks : rows[j] # None => rows'[j] # None
    BY <2>1, <2>2 DEF StoreInv, TypeOK
  <2>5. SessionInv'
    BY <2>2, <2>4 DEF StoreInv, SessionInv, Lock
  <2> QED
    BY <2>2, <2>3, <2>5 DEF StoreInv, LocksOK
<1> QED
  BY <1>1, <1>2

LEMMA NextStore == StoreInv /\ [Next]_vars => StoreInv'
<1> SUFFICES ASSUME StoreInv, [Next]_vars PROVE StoreInv'
  OBVIOUS
<1>1. CASE UNCHANGED vars
  BY <1>1 DEF StoreInv, TypeOK, LocksOK, SessionInv, Lock, vars, db
<1>2. CASE Reset \/ \E k \in Checks : Create(k)
  BY <1>2, TableStore
<1>3. CASE Tick
  <2>1. clock' \in Nat /\ UNCHANGED <<traffic, db, pc, snap, mem, todo, held, aborts, resets, contested>>
    BY <1>3 DEF StoreInv, TypeOK, Tick
  <2> QED
    BY <2>1 DEF StoreInv, TypeOK, LocksOK, SessionInv, Lock, db
<1>4. ASSUME NEW s \in Sessions, StaleData(s) \/ Abort(s) PROVE StoreInv'
  <2>1. Close(s) /\ UNCHANGED <<traffic, clock, db, resets, contested>>
    BY <1>4 DEF StaleData, Abort
  <2>2. aborts' \in 0..MaxAborts
    BY <1>4, Numbers DEF StaleData, Abort, StoreInv, TypeOK
  <2> QED
    BY <2>1, <2>2, CloseStore DEF StoreInv, TypeOK, db
<1>5. ASSUME NEW s \in Sessions,
             \/ LoadOverdue(s)
             \/ \E k \in Checks, target \in States, timeout \in Timeouts \cup {None} :
                  LoadTransition(s, k, target, timeout)
      PROVE  StoreInv'
  <2>1. TypeOK
    BY DEF StoreInv
  <2> QED
    BY <1>5, <2>1, LoadKinds, LoadStore
<1> QED
  BY <1>1, <1>2, <1>3, <1>4, <1>5, FlushStore, CommitStore DEF Next

\* Whatever sessions overwrite each other's rows and whatever a reset deletes under
\* them, an UPDATE that is committed finds its row, on either database.
THEOREM StoreInvariance == Spec => []StoreInv
<1>1. Init => StoreInv
  <2>1. NoTrail \in [States -> Nat]
    BY DEF NoTrail
  <2> QED
    BY <2>1, Numbers DEF Init, StoreInv, TypeOK, LocksOK, SessionInv, NoRows
<1> QED
  BY <1>1, NextStore, PTL DEF Spec

\* TypeOK for every number of concurrent requests, on both databases.
THEOREM TypeCorrect == Spec => []TypeOK
<1>1. StoreInv => TypeOK
  BY DEF StoreInv
<1> QED
  BY <1>1, StoreInvariance, PTL

-----------------------------------------------------------------------------
(* The audit trail shows a path, with any number of sessions *)

\* The path of one check.
ShowsPath(k) ==
    rows[k] # None =>
        /\ audit[k]["pending"] = 1
        /\ audit[k][rows[k].state] > 0
        /\ \A p \in States \ {"pending"} : audit[k][p] > 0 =>
             \E q \in States \ Terminal : audit[k][q] > 0 /\ p \in PhaseFlow[q]

LEMMA PathByCheck == StoreInv => (TrailShowsPath <=> \A k \in Checks : ShowsPath(k))
<1> SUFFICES ASSUME StoreInv, NEW k \in Checks, rows[k] # None
             PROVE  rows[k].state \in States
  BY DEF TrailShowsPath, ShowsPath
<1>1. rows[k] \in Row
  BY DEF StoreInv, TypeOK
<1> QED
  BY <1>1, RowFields

LEMMA PathByCheckNext ==
    StoreInv' => (TrailShowsPath' <=> (\A k \in Checks : ShowsPath(k))')
BY PathByCheck, PTL

\* No phase leads back to the first one.
LEMMA FlowTargets ==
    ASSUME NEW state \in States \ Terminal
    PROVE  PhaseFlow[state] \subseteq States \ {"pending"}
BY DEF PhaseFlow, States, Terminal

\* An allowed target is a documented one of a phase that goes on.
LEMMA DecidedTarget ==
    ASSUME NEW row \in Row, NEW target \in AllowedTransitions(row.state), NEW timeout
    PROVE  /\ row.state \notin Terminal
           /\ Transition(row, target, timeout).state \in PhaseFlow[row.state]
BY AllowedTargets, RowFields DEF Transition

\* Where no id is given out again, a new check gets one without a trail, and so starts
\* a path of its own.
LEMMA CreatePath ==
    ASSUME StoreInv, StoreInv', PathInv, NEW k \in Checks, Create(k)
    PROVE  PathInv'
<1> DEFINE new == [state |-> "pending", due |-> None]
<1>1. /\ k \notin issued /\ rows[k] = None
      /\ rows' = [rows EXCEPT ![k] = new]
      /\ issued' = IF Backend = "postgres" THEN issued \cup {k} ELSE issued
      /\ audit' = [audit EXCEPT ![k] = AuditEvent(@, "pending")]
      /\ UNCHANGED <<snap, mem>>
  BY DEF Create, InsertCheck
<1>2. Fresh(k)
  BY <1>1 DEF Fresh
<1>3. audit[k] = NoTrail /\ \A t \in Sessions : snap[t][k] = None
  BY <1>2 DEF PathInv, IdInv
<1>4. \A j \in Checks \ {k} : rows'[j] = rows[j] /\ audit'[j] = audit[j]
  BY <1>1 DEF StoreInv, TypeOK
<1>5. rows'[k] = new /\ audit'[k] = AuditEvent(NoTrail, "pending")
  BY <1>1, <1>3 DEF StoreInv, TypeOK
<1>6. new # None
  BY DistinctNone DEF Row, States
<1>7. IdInv'
  <2>1. ~Fresh(k)' /\ \A j \in Checks \ {k} : Fresh(j)' => Fresh(j)
    BY <1>1, <1>4, <1>5, <1>6 DEF Fresh
  <2> QED
    BY <1>1, <1>4, <2>1 DEF PathInv, IdInv
<1>8. DecidedInv'
  BY <1>1, <1>3, <1>4 DEF PathInv, DecidedInv
<1>9. ASSUME NEW j \in Checks PROVE ShowsPath(j)'
  <2>1. CASE j = k
    <3>1. NoTrail \in [States -> Nat] /\ "pending" \in States
      BY DEF NoTrail, States
    <3>2. audit'[k]["pending"] = 1 /\ \A p \in States \ {"pending"} : audit'[k][p] = 0
      BY <1>5, <3>1, AuditedTrail DEF NoTrail
    <3> QED
      BY <1>5, <2>1, <3>2 DEF ShowsPath
  <2>2. CASE j # k
    BY <1>4, <2>2, PathByCheck DEF PathInv, ShowsPath
  <2> QED
    BY <2>1, <2>2
<1> QED
  BY <1>7, <1>8, <1>9, PathByCheckNext DEF PathInv

\* A load decides on the phase that the row is in, and that phase is recorded.
LEMMA LoadPath ==
    ASSUME StoreInv, PathInv, NEW s \in Sessions, NEW ks \in SUBSET Checks,
           NEW target \in States, NEW timeout \in Timeouts \cup {None},
           Load(s, ks, target, timeout),
           \A k \in ks : rows[k] \in Row /\ target \in AllowedTransitions(rows[k].state)
    PROVE  PathInv'
<1>1. UNCHANGED <<rows, issued, audit>>
  BY DEF Load, db
<1>2. \A t \in Sessions \ {s} : snap'[t] = snap[t] /\ mem'[t] = mem[t]
  BY DEF Load, StoreInv, TypeOK
<1>3. /\ \A k \in Checks \ ks : snap'[s][k] = None
      /\ \A k \in ks : /\ snap'[s][k] = rows[k]
                       /\ mem'[s][k] = Transition(rows[k], target, timeout)
  BY DEF Load, StoreInv, TypeOK
<1>4. \A k \in ks : rows[k] # None /\ ~Fresh(k)
  BY RowFields DEF PathInv, IdInv
<1>5. IdInv'
  BY <1>1, <1>2, <1>3, <1>4 DEF PathInv, IdInv, Fresh
<1>6. DecidedInv'
  <2> SUFFICES ASSUME NEW t \in Sessions, NEW k \in Checks, snap'[t][k] # None
               PROVE  /\ snap'[t][k].state \notin Terminal
                      /\ mem'[t][k].state \in PhaseFlow[snap'[t][k].state]
                      /\ rows[k] # None => audit[k][snap'[t][k].state] > 0
    BY <1>1 DEF DecidedInv
  <2>1. CASE t # s
    BY <1>2, <2>1 DEF PathInv, DecidedInv
  <2>2. CASE t = s
    <3>1. k \in ks /\ snap'[t][k] = rows[k]
          /\ mem'[t][k] = Transition(rows[k], target, timeout)
      BY <1>3, <2>2
    <3>2. rows[k] \in Row /\ target \in AllowedTransitions(rows[k].state)
      BY <3>1
    <3>3. audit[k][rows[k].state] > 0
      BY <1>4, <3>1, PathByCheck DEF PathInv, ShowsPath
    <3> QED
      BY <3>1, <3>2, <3>3, DecidedTarget
  <2> QED
    BY <2>1, <2>2
<1>7. TrailShowsPath'
  BY <1>1 DEF PathInv, TrailShowsPath
<1> QED
  BY <1>5, <1>6, <1>7 DEF PathInv

\* What a commit makes of a check: its object brings a new phase, which follows the
\* recorded phase that it was decided on, over whatever phase the row is in by now.
LEMMA CommitTrail ==
    ASSUME StoreInv, PathInv, NEW s \in Sessions, Commit(s), NEW k \in Checks,
           snap[s][k] # None
    PROVE  /\ rows'[k].state = mem[s][k].state
           /\ mem[s][k].state \in States \ {"pending"}
           /\ audit[k] \in [States -> Nat]
           /\ \A p \in States : audit'[k][p] =
                IF p = mem[s][k].state THEN audit[k][p] + 1 ELSE audit[k][p]
           /\ snap[s][k].state \in States \ Terminal
           /\ audit[k][snap[s][k].state] > 0
           /\ mem[s][k].state \in PhaseFlow[snap[s][k].state]
<1>1. /\ rows[k] \in Row /\ snap[s][k] \in Row /\ mem[s][k] \in Row
      /\ rows'[k] = Merge(rows[k], snap[s][k], mem[s][k])
      /\ audit'[k] = AuditEvent(audit[k], mem[s][k].state)
  BY CommitRows
<1>2. /\ snap[s][k].state \in States \ Terminal
      /\ mem[s][k].state \in PhaseFlow[snap[s][k].state]
      /\ audit[k][snap[s][k].state] > 0
  BY <1>1, RowFields DEF PathInv, DecidedInv
<1>3. mem[s][k].state \in States \ {"pending"} /\ mem[s][k].state # snap[s][k].state
  BY <1>2, FlowTargets DEF PhaseFlow, States, Terminal
<1>4. rows'[k].state = mem[s][k].state
  <2>1. "state" \in DOMAIN rows[k]
    BY <1>1 DEF Row
  <2> QED
    BY <1>1, <1>3, <2>1 DEF Merge
<1>5. audit[k] \in [States -> Nat]
  BY DEF StoreInv, TypeOK
<1> QED
  BY <1>1, <1>2, <1>3, <1>4, <1>5, AuditedTrail

\* So a commit makes the path of a check longer and drops nothing from it.
LEMMA CommitPath ==
    ASSUME StoreInv, StoreInv', PathInv, NEW s \in Sessions, Commit(s)
    PROVE  PathInv'
<1>1. /\ UNCHANGED issued
      /\ \A k \in Checks : snap'[s][k] = None
      /\ \A t \in Sessions \ {s} : snap'[t] = snap[t] /\ mem'[t] = mem[t]
  BY DEF Commit, Close, StoreInv, TypeOK, NoRows
<1>2. \A k \in Checks : snap[s][k] = None => rows'[k] = rows[k] /\ audit'[k] = audit[k]
  BY CommitRows
<1>3. \A k \in Checks : rows[k] # None <=> rows'[k] # None
  <2> TAKE k \in Checks
  <2>1. CASE snap[s][k] # None
    <3>1. rows[k] \in Row /\ rows'[k] \in Row
      BY <2>1, CommitRows, MergedRow
    <3> QED
      BY <3>1, RowFields
  <2> QED
    BY <1>2, <2>1
<1>4. IdInv'
  <2>1. \A k \in Checks : Fresh(k)' => Fresh(k) /\ snap[s][k] = None
    BY <1>1, <1>3 DEF Fresh, PathInv, IdInv
  <2> QED
    BY <1>1, <1>2, <2>1 DEF PathInv, IdInv
<1>5. ASSUME NEW k \in Checks, NEW p \in States, audit[k][p] > 0 PROVE audit'[k][p] > 0
  <2>1. CASE snap[s][k] # None
    <3>1. audit[k][p] \in Nat
      BY DEF StoreInv, TypeOK
    <3> QED
      BY <1>5, <2>1, <3>1, CommitTrail
  <2> QED
    BY <1>2, <1>5, <2>1
<1>6. DecidedInv'
  <2> SUFFICES ASSUME NEW t \in Sessions \ {s}, NEW k \in Checks, snap[t][k] # None
               PROVE  /\ snap[t][k].state \notin Terminal
                      /\ mem[t][k].state \in PhaseFlow[snap[t][k].state]
                      /\ rows'[k] # None => audit'[k][snap[t][k].state] > 0
    BY <1>1 DEF DecidedInv
  <2>1. snap[t][k].state \in States
    <3>1. snap[t][k] \in Row
      BY DEF StoreInv, TypeOK
    <3> QED
      BY <3>1, RowFields
  <2> QED
    BY <1>3, <1>5, <2>1 DEF PathInv, DecidedInv
<1>7. ASSUME NEW k \in Checks PROVE ShowsPath(k)'
  <2>0. ShowsPath(k)
    BY PathByCheck DEF PathInv
  <2>1. CASE snap[s][k] = None
    BY <1>2, <2>0, <2>1 DEF ShowsPath
  <2>2. CASE snap[s][k] # None
    <3> DEFINE now == mem[s][k].state
               then == snap[s][k].state
    <3>1. rows[k] # None
      BY <2>2, CommitRows, RowFields
    <3>2. /\ rows'[k].state = now /\ now \in States \ {"pending"} /\ now \in PhaseFlow[then]
          /\ audit[k] \in [States -> Nat]
          /\ then \in States \ Terminal /\ audit[k][then] > 0
          /\ \A p \in States :
               audit'[k][p] = IF p = now THEN audit[k][p] + 1 ELSE audit[k][p]
      BY <2>2, CommitTrail
    <3> HIDE DEF now, then
    <3>3. audit'[k]["pending"] = 1
      BY <2>0, <3>1, <3>2 DEF ShowsPath, States
    <3>4. audit'[k][rows'[k].state] > 0
      <4>1. audit[k][now] \in Nat
        BY <3>2
      <4> QED
        BY <3>2, <4>1
    <3>5. ASSUME NEW p \in States \ {"pending"}, audit'[k][p] > 0
          PROVE  \E q \in States \ Terminal : audit'[k][q] > 0 /\ p \in PhaseFlow[q]
      <4>1. CASE p = now
        BY <1>5, <3>2, <4>1
      <4>2. CASE p # now
        <5>1. audit[k][p] > 0
          BY <3>2, <3>5, <4>2
        <5>2. PICK q \in States \ Terminal : audit[k][q] > 0 /\ p \in PhaseFlow[q]
          BY <2>0, <3>1, <5>1 DEF ShowsPath
        <5> QED
          BY <1>5, <5>2
      <4> QED
        BY <4>1, <4>2
    <3> QED
      BY <3>3, <3>4, <3>5 DEF ShowsPath
  <2> QED
    BY <2>1, <2>2
<1>8. TrailShowsPath'
  BY <1>7, PathByCheckNext
<1> QED
  BY <1>4, <1>6, <1>8 DEF PathInv

\* A reset leaves no path to show; on PostgreSQL the ids of the deleted checks stay used.
LEMMA ResetPath ==
    ASSUME StoreInv, NoIdReuse, PathInv, Reset
    PROVE  PathInv'
<1>1. /\ \A k \in Checks : rows'[k] = None /\ audit'[k] = NoTrail
      /\ UNCHANGED <<issued, snap, mem>>
  BY DEF Reset, NoRows
<1>2. Backend = "postgres"
  BY Numbers DEF Reset, NoIdReuse, StoreInv, TypeOK
<1> QED
  BY <1>1, <1>2 DEF PathInv, IdInv, Fresh, DecidedInv, TrailShowsPath

LEMMA NextPath ==
    StoreInv /\ StoreInv' /\ NoIdReuse /\ PathInv /\ [Next]_vars => PathInv'
<1> SUFFICES ASSUME StoreInv, StoreInv', NoIdReuse, PathInv, [Next]_vars PROVE PathInv'
  OBVIOUS
<1>1. ASSUME Tick \/ UNCHANGED vars \/ \E s \in Sessions : Flush(s) PROVE PathInv'
  <2>1. UNCHANGED <<rows, issued, audit, snap, mem>>
    BY <1>1 DEF Tick, Flush, vars, db
  <2> QED
    BY <2>1 DEF PathInv, IdInv, Fresh, DecidedInv, TrailShowsPath
<1>2. ASSUME NEW s \in Sessions, StaleData(s) \/ Abort(s) PROVE PathInv'
  <2>1. Close(s) /\ UNCHANGED <<rows, issued, audit>>
    BY <1>2 DEF StaleData, Abort, db
  <2>2. /\ \A k \in Checks : snap'[s][k] = None
        /\ \A t \in Sessions \ {s} : snap'[t] = snap[t] /\ mem'[t] = mem[t]
    BY <2>1 DEF Close, StoreInv, TypeOK, NoRows
  <2> QED
    BY <2>1, <2>2 DEF PathInv, IdInv, Fresh, DecidedInv, TrailShowsPath
<1>3. ASSUME NEW s \in Sessions,
             \/ LoadOverdue(s)
             \/ \E k \in Checks, target \in States, timeout \in Timeouts \cup {None} :
                  LoadTransition(s, k, target, timeout)
      PROVE  PathInv'
  <2>1. TypeOK
    BY DEF StoreInv
  <2> QED
    BY <1>3, <2>1, LoadKinds, LoadPath
<1> QED
  BY <1>1, <1>2, <1>3, CreatePath, CommitPath, ResetPath DEF Next

\* Where no id is given out again: ids, decisions and trails agree, whatever overlaps.
THEOREM PathInvariance == Spec => [](NoIdReuse => PathInv)
<1>1. Init => PathInv
  BY DEF Init, PathInv, IdInv, DecidedInv, TrailShowsPath, NoRows
<1>2. NoIdReuse <=> NoIdReuse'
  BY DEF NoIdReuse
<1>3. StoreInv /\ StoreInv' /\ (NoIdReuse => PathInv) /\ [Next]_vars
        => (NoIdReuse => PathInv)'
  BY <1>2, NextPath
<1> QED
  BY <1>1, <1>3, StoreInvariance, PTL DEF Spec

\* With any number of sessions that overwrite each other's transitions, through aborts
\* and resets on PostgreSQL, the audit trail of a check shows a documented path to the
\* phase it is in.
THEOREM PathsAudited == Spec => [](NoIdReuse => TrailShowsPath)
<1>1. PathInv => TrailShowsPath
  BY DEF PathInv
<1> QED
  BY <1>1, PathInvariance, PTL

-----------------------------------------------------------------------------
(* Deadlines and exact trails, of checks that are not contested *)

\* The object has a deadline only if it waits, if that holds of the row.
LEMMA TransitionAhead ==
    ASSUME NEW row \in Row, NEW target \in AllowedTransitions(row.state),
           NEW timeout \in Timeouts \cup {None},
           row.due # None => row.state = "waiting_confirmation"
    PROVE  LET object == Transition(row, target, timeout) IN
           object.due # None => object.state = "waiting_confirmation"
<1> DEFINE object == Transition(row, target, timeout)
<1>1. object.state = target
  BY DEF Transition
<1>2. target \in PhaseFlow[row.state] /\ row.state \in States \ Terminal
  BY AllowedTargets, RowFields
<1>3. target \in Terminal => object.due = None
  BY DEF Transition, Terminal
<1>4. target = "started" => row.state = "pending"
  BY <1>2 DEF PhaseFlow, States, Terminal
<1>5. target = "started" => object.due = row.due
  BY DEF Transition, Terminal
<1>6. target \in {"started", "waiting_confirmation"} \cup Terminal
  BY <1>2 DEF PhaseFlow, States, Terminal
<1> QED
  BY <1>1, <1>3, <1>4, <1>5, <1>6

\* A commit stores exactly the objects it has changed.
LEMMA CommitWritesObjects ==
    ASSUME StoreInv, PhaseInv, NEW s \in Sessions, Commit(s),
           NEW k \in Checks \ contested, snap[s][k] # None
    PROVE  /\ rows[k] = snap[s][k] /\ rows[k] \in Row
           /\ rows'[k] = mem[s][k] /\ mem[s][k] \in Row
<1>1. /\ rows[k] \in Row /\ snap[s][k] \in Row /\ mem[s][k] \in Row
      /\ rows'[k] = Merge(rows[k], snap[s][k], mem[s][k])
  BY CommitRows
<1>2. rows[k] = snap[s][k]
  BY <1>1, RowFields DEF PhaseInv, CopyInv
<1> QED
  BY <1>1, <1>2, MergedRow

\* The trail has one row for each of these phases and no other.
Exactly(trail, phases) == \A p \in States : trail[p] = IF p \in phases THEN 1 ELSE 0

\* How the audit trail of a check tells its phase.
Told(state, trail) ==
    \E before \in PhasesBefore(state) : Exactly(trail, before \cup {state})

\* A step of the documented flow leads to a phase that was not entered before.
LEMMA OnePhaseFurther ==
    ASSUME NEW state \in States \ Terminal, NEW next \in PhaseFlow[state],
           NEW before \in PhasesBefore(state)
    PROVE  /\ before \cup {state} \in PhasesBefore(next)
           /\ next \notin before \cup {state}
<1>1. CASE state = "pending"
  <2>1. before = {} /\ next \in {"started", "cancelled", "failed"}
    BY <1>1 DEF PhasesBefore, PhaseFlow
  <2> QED
    BY <1>1, <2>1 DEF PhasesBefore
<1>2. CASE state = "started"
  <2>1. before = {"pending"} /\ next \in {"waiting_confirmation", "cancelled", "failed"}
    BY <1>2 DEF PhasesBefore, PhaseFlow
  <2>2. before \cup {state} = {"pending", "started"}
    BY <1>2, <2>1
  <2> QED
    BY <2>1, <2>2 DEF PhasesBefore
<1>3. CASE state = "waiting_confirmation"
  <2>1. before = {"pending", "started"}
        /\ next \in {"confirmed", "timeout", "cancelled", "failed"}
    BY <1>3 DEF PhasesBefore, PhaseFlow, Terminal
  <2>2. before \cup {state} = {"pending", "started", "waiting_confirmation"}
    BY <1>3, <2>1
  <2> QED
    BY <2>1, <2>2 DEF PhasesBefore
<1> QED
  BY <1>1, <1>2, <1>3 DEF States

\* So the trail still tells the phase after one more row.
LEMMA ToldFurther ==
    ASSUME NEW trail \in [States -> Nat], NEW state \in States \ Terminal,
           NEW next \in PhaseFlow[state], Told(state, trail)
    PROVE  Told(next, AuditEvent(trail, next))
<1>1. PICK before \in PhasesBefore(state) : Exactly(trail, before \cup {state})
  BY DEF Told
<1> DEFINE phases == before \cup {state}
<1>2. phases \in PhasesBefore(next) /\ next \notin phases
  BY OnePhaseFurther
<1>3. next \in States
  BY FlowTargets
<1>4. Exactly(trail, phases)
  BY <1>1
<1> HIDE DEF phases
<1>5. Exactly(AuditEvent(trail, next), phases \cup {next})
  <2> SUFFICES ASSUME NEW p \in States
               PROVE  AuditEvent(trail, next)[p] = IF p \in phases \cup {next} THEN 1 ELSE 0
    BY DEF Exactly
  <2>1. trail[p] = IF p \in phases THEN 1 ELSE 0
    BY <1>4 DEF Exactly
  <2>2. AuditEvent(trail, next)[p] = IF p = next THEN trail[p] + 1 ELSE trail[p]
    BY <1>3, AuditedTrail
  <2> QED
    BY <1>2, <2>1, <2>2
<1> QED
  BY <1>2, <1>5 DEF Told

\* The two invariants of the runs, row by row.
RowTold(k) ==
    rows[k] # None => /\ rows[k].due # None => rows[k].state = "waiting_confirmation"
                      /\ Told(rows[k].state, audit[k])

LEMMA RowByRow == (DeadlineOnlyWhileWaiting /\ AuditTellsPhases) <=>
    \A k \in Checks \ contested : RowTold(k)
BY DEF DeadlineOnlyWhileWaiting, AuditTellsPhases, RowTold, Told, Exactly

LEMMA RowByRowNext ==
    (DeadlineOnlyWhileWaiting /\ AuditTellsPhases)' <=>
    (\A k \in Checks \ contested : RowTold(k))'
BY RowByRow, PTL

LEMMA NextPhase ==
    StoreInv /\ PathInv /\ PhaseInv /\ [Next]_vars => PhaseInv'
<1> SUFFICES ASSUME StoreInv, PathInv, PhaseInv, [Next]_vars PROVE PhaseInv'
  OBVIOUS
<1>0. \A k \in Checks \ contested : RowTold(k)
  BY RowByRow DEF PhaseInv
<1>1. ASSUME UNCHANGED <<rows, audit>>, contested \subseteq contested', SoleInv', CopyInv'
      PROVE  PhaseInv'
  BY <1>1 DEF PhaseInv, DeadlineOnlyWhileWaiting, AuditTellsPhases
<1>2. ASSUME NEW s \in Sessions, Close(s), UNCHANGED contested,
             \A t \in Sessions \ {s}, k \in Checks \ contested :
               snap[t][k] # None => rows'[k] = rows[k]
      PROVE  SoleInv' /\ CopyInv'
  <2>1. /\ \A k \in Checks : snap'[s][k] = None
        /\ \A t \in Sessions \ {s} : snap'[t] = snap[t] /\ mem'[t] = mem[t]
    BY <1>2 DEF Close, StoreInv, TypeOK, NoRows
  <2> QED
    BY <1>2, <2>1 DEF PhaseInv, SoleInv, CopyInv
<1>3. ASSUME Reset PROVE PhaseInv'
  <2>1. (\A k \in Checks : rows'[k] = None) /\ UNCHANGED <<snap, mem, contested>>
    BY <1>3 DEF Reset, NoRows
  <2> QED
    BY <2>1 DEF PhaseInv, SoleInv, CopyInv, DeadlineOnlyWhileWaiting, AuditTellsPhases
<1>4. ASSUME NEW k \in Checks, Create(k) PROVE PhaseInv'
  <2> DEFINE new == [state |-> "pending", due |-> None]
  <2>1. /\ k \notin issued /\ rows[k] = None
        /\ rows' = [rows EXCEPT ![k] = new]
        /\ audit' = [audit EXCEPT ![k] = AuditEvent(@, "pending")]
        /\ UNCHANGED <<snap, mem, contested>>
    BY <1>4 DEF Create, InsertCheck
  <2>2. audit[k] = NoTrail /\ \A t \in Sessions : snap[t][k] = None
    BY <2>1 DEF PathInv, IdInv, Fresh
  <2>3. \A j \in Checks \ {k} : rows'[j] = rows[j] /\ audit'[j] = audit[j]
    BY <2>1 DEF StoreInv, TypeOK
  <2>4. SoleInv' /\ CopyInv'
    BY <2>1, <2>2, <2>3 DEF PhaseInv, SoleInv, CopyInv
  <2>5. ASSUME NEW j \in Checks \ contested PROVE RowTold(j)'
    <3>1. CASE j = k
      <4>1. rows'[k] = new /\ audit'[k] = AuditEvent(NoTrail, "pending")
        BY <2>1, <2>2 DEF StoreInv, TypeOK
      <4>2. NoTrail \in [States -> Nat] /\ "pending" \in States
        BY DEF NoTrail, States
      <4>3. Exactly(audit'[k], {} \cup {"pending"})
        BY <4>1, <4>2, AuditedTrail DEF NoTrail, Exactly
      <4>4. {} \in PhasesBefore("pending")
        BY DEF PhasesBefore
      <4>5. Told("pending", audit'[k])
        BY <4>3, <4>4 DEF Told
      <4>6. rows'[k].state = "pending" /\ rows'[k].due = None
        BY <4>1
      <4> QED
        BY <3>1, <4>5, <4>6 DEF RowTold, Told
    <3>2. CASE j # k
      BY <1>0, <2>3, <3>2 DEF RowTold, Told
    <3> QED
      BY <3>1, <3>2
  <2> QED
    BY <2>1, <2>4, <2>5, RowByRowNext DEF PhaseInv
<1>5. ASSUME NEW s \in Sessions, NEW ks \in SUBSET Checks, NEW target \in States,
             NEW timeout \in Timeouts \cup {None}, Load(s, ks, target, timeout),
             \A k \in ks : rows[k] \in Row /\ target \in AllowedTransitions(rows[k].state)
      PROVE  PhaseInv'
  <2>1. /\ UNCHANGED <<rows, audit>>
        /\ \A k \in Checks \ ks : snap'[s][k] = None
        /\ \A k \in ks : /\ snap'[s][k] = rows[k]
                         /\ mem'[s][k] = Transition(rows[k], target, timeout)
        /\ \A t \in Sessions \ {s} : snap'[t] = snap[t] /\ mem'[t] = mem[t]
    BY <1>5 DEF Load, db, StoreInv, TypeOK
  <2>2. contested' = contested \cup {k \in ks : \E t \in Sessions : snap[t][k] # None}
    BY <1>5 DEF Load
  <2>3. ASSUME NEW k \in ks \ contested
        PROVE  mem'[s][k].due # None => mem'[s][k].state = "waiting_confirmation"
    <3>1. rows[k] \in Row /\ target \in AllowedTransitions(rows[k].state)
      BY <1>5
    <3>2. rows[k].due # None => rows[k].state = "waiting_confirmation"
      BY <3>1, <1>0, RowFields DEF RowTold
    <3> QED
      BY <2>1, <3>1, <3>2, TransitionAhead
  <2>4. SoleInv'
    BY <2>1, <2>2 DEF PhaseInv, SoleInv
  <2>5. CopyInv'
    <3> SUFFICES ASSUME NEW t \in Sessions, NEW k \in Checks \ contested', snap'[t][k] # None
                 PROVE  /\ rows[k] # None => rows[k] = snap'[t][k]
                        /\ mem'[t][k].due # None => mem'[t][k].state = "waiting_confirmation"
      BY <2>1 DEF CopyInv
    <3>1. CASE t = s
      BY <2>1, <2>2, <2>3, <3>1
    <3>2. CASE t # s
      BY <2>1, <2>2, <3>2 DEF PhaseInv, CopyInv
    <3> QED
      BY <3>1, <3>2
  <2> QED
    BY <1>1, <2>1, <2>2, <2>4, <2>5
<1>6. ASSUME NEW s \in Sessions, Commit(s) PROVE PhaseInv'
  <2>1. UNCHANGED contested /\ Close(s)
    BY <1>6 DEF Commit
  <2>2. SoleInv' /\ CopyInv'
    <3>1. ASSUME NEW t \in Sessions \ {s}, NEW k \in Checks \ contested, snap[t][k] # None
          PROVE  rows'[k] = rows[k]
      <4>1. snap[s][k] = None
        BY <3>1 DEF PhaseInv, SoleInv
      <4> QED
        BY <1>6, <4>1, CommitRows
    <3> QED
      BY <1>2, <2>1, <3>1
  <2>3. ASSUME NEW k \in Checks \ contested PROVE RowTold(k)'
    <3>1. CASE snap[s][k] = None
      BY <1>0, <1>6, <3>1, CommitRows DEF RowTold, Told
    <3>2. CASE snap[s][k] # None
      <4>1. /\ rows[k] = snap[s][k] /\ rows[k] \in Row
            /\ rows'[k] = mem[s][k] /\ mem[s][k] \in Row
        BY <1>6, <3>2, CommitWritesObjects
      <4>2. audit'[k] = AuditEvent(audit[k], mem[s][k].state) /\ audit[k] \in [States -> Nat]
        BY <1>6, <3>2, CommitRows DEF StoreInv, TypeOK
      <4>3. /\ rows[k].state \in States \ Terminal
            /\ mem[s][k].state \in PhaseFlow[rows[k].state]
        BY <3>2, <4>1, RowFields DEF PathInv, DecidedInv
      <4>4. Told(rows[k].state, audit[k])
        BY <1>0, <4>1, RowFields DEF RowTold
      <4>5. Told(mem[s][k].state, audit'[k])
        BY <4>2, <4>3, <4>4, ToldFurther
      <4>6. mem[s][k].due # None => mem[s][k].state = "waiting_confirmation"
        BY <3>2 DEF PhaseInv, CopyInv
      <4> QED
        BY <4>1, <4>5, <4>6 DEF RowTold, Told
    <3> QED
      BY <3>1, <3>2
  <2> QED
    BY <2>1, <2>2, <2>3, RowByRowNext DEF PhaseInv
<1>7. ASSUME NEW s \in Sessions, StaleData(s) \/ Abort(s) PROVE PhaseInv'
  <2>1. Close(s) /\ UNCHANGED <<rows, audit, contested>>
    BY <1>7 DEF StaleData, Abort, db
  <2> QED
    BY <1>1, <1>2, <2>1
<1>8. ASSUME NEW s \in Sessions,
             \/ LoadOverdue(s)
             \/ \E k \in Checks, target \in States, timeout \in Timeouts \cup {None} :
                  LoadTransition(s, k, target, timeout)
      PROVE  PhaseInv'
  <2>1. TypeOK
    BY DEF StoreInv
  <2> QED
    BY <1>5, <1>8, <2>1, LoadKinds
<1>9. ASSUME Tick \/ UNCHANGED vars \/ \E s \in Sessions : Flush(s) PROVE PhaseInv'
  <2>1. UNCHANGED <<rows, audit, snap, mem, contested>>
    BY <1>9 DEF Tick, Flush, vars, db
  <2>2. SoleInv' /\ CopyInv'
    BY <2>1 DEF PhaseInv, SoleInv, CopyInv
  <2> QED
    BY <1>1, <2>1, <2>2
<1> QED
  BY <1>3, <1>4, <1>6, <1>7, <1>8, <1>9 DEF Next

\* Copies of checks that are not contested are true, and the phases of those in order.
THEOREM PhaseInvariance == Spec => [](NoIdReuse => PhaseInv)
<1>1. Init => PhaseInv
  BY DEF Init, PhaseInv, SoleInv, CopyInv, DeadlineOnlyWhileWaiting, AuditTellsPhases, NoRows
<1>2. NoIdReuse <=> NoIdReuse'
  BY DEF NoIdReuse
<1>3. /\ StoreInv /\ (NoIdReuse => PathInv) /\ (NoIdReuse => PhaseInv) /\ [Next]_vars
      => (NoIdReuse => PhaseInv)'
  BY <1>2, NextPhase
<1> QED
  BY <1>1, <1>3, StoreInvariance, PathInvariance, PTL DEF Spec

\* With any number of sessions: a check of which no two had copies at one time has a
\* deadline only while it waits for its confirmation, also after resets that deleted
\* it under a request.
THEOREM DeadlinesWhileWaiting == Spec => [](NoIdReuse => DeadlineOnlyWhileWaiting)
<1>1. PhaseInv => DeadlineOnlyWhileWaiting
  BY DEF PhaseInv
<1> QED
  BY <1>1, PhaseInvariance, PTL

\* And its audit trail has one row for each phase it went through.
THEOREM PhasesAudited == Spec => [](NoIdReuse => AuditTellsPhases)
<1>1. PhaseInv => AuditTellsPhases
  BY DEF PhaseInv
<1> QED
  BY <1>1, PhaseInvariance, PTL
=============================================================================
