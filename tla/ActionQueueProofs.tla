-------------------------- MODULE ActionQueueProofs --------------------------
(***************************************************************************)
(* Proofs about ActionQueue with any number of workers on either database: *)
(* what each session has in memory, the limit of attempts, the leases.     *)
(***************************************************************************)
EXTENDS ActionQueue, FiniteSetTheorems, WellFoundedInduction, TLAPS

\* The item is in the worker's batch and its UPDATE has not been sent.
Ahead(w, a) == a \in todo[w] \/ (pc[w] = "wait" /\ cur[w] = a)

\* The worker has the item's lease and has not called the transport for it.
Leased(w, a) == pc[w] = "attempt" /\ cur[w] = a

\* The object is the loaded row after one attempt.
Done(w, a) == mem[w][a] = Tried(snap[w][a], now[w])

\* What the worker's objects are at each point of its batch: copies of rows that were
\* due, then leased, then tried once.  The rows of those it has touched are locked,
\* and so still there.
ItemInv(w, a) ==
    /\ mem[w][a] = None <=> snap[w][a] = None
    /\ snap[w][a] = None => a \notin todo[w] /\ cur[w] # a
    /\ snap[w][a] # None =>
         /\ Pending(snap[w][a]) /\ snap[w][a].attempts < MaxAttempts
         /\ snap[w][a].lease = None
         /\ snap[w][a].next = None \/ snap[w][a].next <= now[w]
         /\ Ahead(w, a) => mem[w][a] = snap[w][a]
         /\ Leased(w, a) => mem[w][a] = [snap[w][a] EXCEPT !.lease = [by |-> w, at |-> now[w]]]
         /\ ~Ahead(w, a) /\ ~Leased(w, a) => Done(w, a)
         /\ ~Ahead(w, a) => Lock(a) \in held[w] /\ Exists(a)

BatchInv(w) ==
    /\ \A a \in Ids : ItemInv(w, a)
    /\ now[w] <= clock
    /\ cur[w] \notin todo[w]
    /\ pc[w] = "idle" => cur[w] = None /\ \A a \in Ids : snap[w][a] = None
    /\ pc[w] \in {"wait", "attempt"} => cur[w] # None
    /\ pc[w] = "commit" => todo[w] = {}

\* Incidents get the first ids, whichever way the database numbers them.
NumberInv ==
    /\ seq \in [incident : Nat, action : Nat]
    /\ seq.incident <= used.arrivals
    /\ \A i \in IncidentIds : incidents[i] # None => i <= used.arrivals

\* What a committed row shows: no lease, and attempts within the limit.
InLimit(row) == /\ row.lease = None
                /\ row.attempts <= MaxAttempts
                /\ Pending(row) => row.attempts < MaxAttempts

\* The committed actions.
TableOK ==
    /\ rows \in [Ids -> Row \cup {None}]
    /\ \A a \in Ids : Exists(a) => InLimit(rows[a])

\* The sessions of the workers.
SessionsOK ==
    /\ pc \in [Workers -> {"idle", "lease", "wait", "attempt", "commit"}]
    /\ now \in [Workers -> Nat]
    /\ todo \in [Workers -> SUBSET Ids]
    /\ cur \in [Workers -> Ids \cup {None}]
    /\ snap \in [Workers -> [Ids -> Row \cup {None}]]
    /\ mem \in [Workers -> [Ids -> Row \cup {None}]]
    /\ held \in [Workers -> SUBSET (Ids \cup {"db"})]

\* The rest.
WorldOK ==
    /\ clock \in Nat
    /\ settings \in [backend : Backends, timely : Timely]
    /\ used \in [arrivals : 0..MaxArrivals, sweeps : 0..MaxSweeps, resets : 0..MaxResets,
                  failures : 0..MaxFailures]
    /\ incidents \in [IncidentIds -> Nat \cup {None}]
    /\ sweep \in (SUBSET IncidentIds) \cup {None}
    /\ calls \in [Ids -> Nat] /\ audit \in [Ids -> Nat]

QueueInv == WorldOK /\ TableOK /\ SessionsOK /\ NumberInv /\ \A w \in Workers : BatchInv(w)

-----------------------------------------------------------------------------
(* Facts about the operators *)

Columns == {"incident", "mode", "state", "attempts", "next", "created", "detail", "lease"}

\* The settings that are numbers.
LEMMA Limits ==
    /\ MaxAttempts \in Nat /\ 0 < MaxAttempts /\ 0 <= MaxAttempts
    /\ RetryDelay \in Nat /\ MaxArrivals \in Nat /\ MaxSweeps \in Nat /\ MaxResets \in Nat
    /\ MaxFailures \in Nat
BY Numbers

\* The columns of a row.
LEMMA RowFields ==
    ASSUME NEW row \in Row
    PROVE  /\ row.incident \in IncidentIds /\ row.mode \in Modes \cup {"follow up"}
           /\ row.state \in States /\ row.attempts \in Nat /\ row.next \in Nat \cup {None}
           /\ row.created \in Nat /\ row.detail \in Modes \cup Outcomes \cup {"follow up"}
           /\ row.lease \in LeaseMark \cup {None}
           /\ row # None
BY DistinctNone DEF Row

\* Two rows with the same columns are the same.
LEMMA SameRow ==
    ASSUME NEW x \in Row, NEW y \in Row, \A c \in Columns : x[c] = y[c]
    PROVE  x = y
<1>1. x = [c \in Columns |-> x[c]] /\ y = [c \in Columns |-> y[c]]
  BY DEF Row, Columns
<1> QED
  BY <1>1

\* The state after an attempt; another one follows only when attempts are left.
LEMMA StateAfterAttempt ==
    ASSUME NEW row \in Row, NEW outcome
    PROVE  /\ NextState(row, outcome) \in {"succeeded", "failed", "retry"}
           /\ NextState(row, outcome) = "retry" => row.attempts + 1 < MaxAttempts
<1>1. row.attempts \in Nat /\ MaxAttempts \in Nat
  BY RowFields, Limits
<1> QED
  BY <1>1 DEF NextState

\* The transport has one of four outcomes.
LEMMA OutcomeOfCall ==
    ASSUME NEW detail, NEW attempts
    PROVE  Transport(detail, attempts) \in Outcomes
BY DEF Transport, Outcomes

\* What an attempt leaves in an object.
LEMMA TriedRow ==
    ASSUME NEW row \in Row, NEW t \in Nat
    PROVE  /\ Tried(row, t) \in Row
           /\ Tried(row, t).attempts = row.attempts + 1
           /\ Tried(row, t).state = NextState(row, Transport(row.detail, row.attempts + 1))
           /\ Tried(row, t).lease = None
           /\ Tried(row, t).incident = row.incident
           /\ Tried(row, t).mode = row.mode
           /\ Tried(row, t).detail =
                IF Tried(row, t).state = "retry" THEN row.detail
                ELSE Transport(row.detail, row.attempts + 1)
<1> DEFINE outcome == Transport(row.detail, row.attempts + 1)
           state == NextState(row, outcome)
           object == [row EXCEPT !.attempts = @ + 1,
                                 !.state = state,
                                 !.detail = IF state = "retry" THEN @ ELSE outcome,
                                 !.next = IF state = "retry" THEN t + RetryDelay ELSE @,
                                 !.lease = None]
<1>1. Tried(row, t) = object
  BY DEF Tried
<1>2. outcome \in Outcomes /\ state \in States
  BY OutcomeOfCall, StateAfterAttempt DEF States
<1>3. t + RetryDelay \in Nat /\ row.attempts + 1 \in Nat
  <2>1. row.attempts \in Nat
    BY DEF Row
  <2> HIDE DEF object
  <2> QED
    BY <2>1, Limits
<1> HIDE DEF outcome, state
<1>4. object \in Row
  BY <1>2, <1>3 DEF Row
<1>5. /\ object.attempts = row.attempts + 1 /\ object.state = state /\ object.lease = None
      /\ object.incident = row.incident /\ object.mode = row.mode
      /\ object.detail = IF state = "retry" THEN row.detail ELSE outcome
  BY DEF Row
<1> QED
  BY <1>1, <1>4, <1>5 DEF outcome, state

\* The lease is nothing to the attempt.
LEMMA TriedLeased ==
    ASSUME NEW row \in Row, NEW t \in Nat, NEW mark \in LeaseMark
    PROVE  /\ [row EXCEPT !.lease = mark] \in Row
           /\ [row EXCEPT !.lease = mark].state = row.state
           /\ [row EXCEPT !.lease = mark] # row \/ row.lease = mark
           /\ Tried([row EXCEPT !.lease = mark], t) = Tried(row, t)
<1> DEFINE leased == [row EXCEPT !.lease = mark]
<1>1. /\ leased \in Row /\ leased.lease = mark
      /\ \A c \in Columns \ {"lease"} : leased[c] = row[c]
  BY DEF Row, Columns
<1>2. /\ leased.state = row.state /\ leased.detail = row.detail
      /\ leased.attempts = row.attempts /\ leased.next = row.next
      /\ leased.incident = row.incident /\ leased.mode = row.mode
      /\ leased.created = row.created
  BY <1>1 DEF Columns
<1> HIDE DEF leased
<1>3. NextState(leased, Transport(leased.detail, leased.attempts + 1))
        = NextState(row, Transport(row.detail, row.attempts + 1))
  BY <1>2 DEF NextState
<1> DEFINE x == Tried(leased, t) y == Tried(row, t)
<1>4. x \in Row /\ y \in Row
  BY <1>1, TriedRow
<1>5. x.state = y.state /\ x.attempts = y.attempts /\ x.lease = y.lease
      /\ x.incident = y.incident /\ x.mode = y.mode /\ x.detail = y.detail
  BY <1>1, <1>2, <1>3, TriedRow
<1>6. x.next = y.next /\ x.created = y.created
  <2> DEFINE st == NextState(row, Transport(row.detail, row.attempts + 1))
  <2>1. x = [leased EXCEPT !.attempts = @ + 1,
                           !.state = st,
                           !.detail = IF st = "retry" THEN @
                                      ELSE Transport(row.detail, row.attempts + 1),
                           !.next = IF st = "retry" THEN t + RetryDelay ELSE @,
                           !.lease = None]
    BY <1>2, <1>3 DEF Tried
  <2>2. y = [row EXCEPT !.attempts = @ + 1,
                        !.state = st,
                        !.detail = IF st = "retry" THEN @
                                   ELSE Transport(row.detail, row.attempts + 1),
                        !.next = IF st = "retry" THEN t + RetryDelay ELSE @,
                        !.lease = None]
    BY DEF Tried
  <2> HIDE DEF st
  <2> QED
    BY <1>1, <1>2, <2>1, <2>2 DEF Row
<1> HIDE DEF x, y
<1>7. x = y
  <2>1. \A c \in Columns : x[c] = y[c]
    BY <1>5, <1>6 DEF Columns
  <2> QED
    BY <1>4, <2>1, SameRow
<1> QED
  BY <1>1, <1>2, <1>7 DEF x, y, leased

\* A row merged with the changes of an object has the columns of one or the other.
LEMMA MergedRow ==
    ASSUME NEW row \in Row, NEW loaded \in Row, NEW object \in Row
    PROVE  /\ Merge(row, loaded, object) \in Row
           /\ \A c \in Columns : Merge(row, loaded, object)[c] =
                IF object[c] = loaded[c] THEN row[c] ELSE object[c]
           /\ row = loaded => Merge(row, loaded, object) = object
<1> DEFINE M == Merge(row, loaded, object)
<1>1. DOMAIN row = Columns
  BY DEF Row, Columns
<1>2. M = [c \in Columns |-> IF object[c] = loaded[c] THEN row[c] ELSE object[c]]
  BY <1>1 DEF Merge
<1> HIDE DEF M
<1>3. /\ DOMAIN M = Columns
      /\ \A c \in Columns : M[c] = IF object[c] = loaded[c] THEN row[c] ELSE object[c]
  BY <1>2
<1>4. M \in Row
  <2> DEFINE pick(c) == IF object[c] = loaded[c] THEN row[c] ELSE object[c]
  <2>1. M = [incident |-> pick("incident"), mode |-> pick("mode"), state |-> pick("state"),
             attempts |-> pick("attempts"), next |-> pick("next"),
             created |-> pick("created"), detail |-> pick("detail"), lease |-> pick("lease")]
    BY <1>2 DEF Columns
  <2>2. /\ pick("incident") \in IncidentIds /\ pick("mode") \in Modes \cup {"follow up"}
        /\ pick("state") \in States /\ pick("attempts") \in Nat
        /\ pick("next") \in Nat \cup {None} /\ pick("created") \in Nat
        /\ pick("detail") \in Modes \cup Outcomes \cup {"follow up"}
        /\ pick("lease") \in LeaseMark \cup {None}
    BY RowFields
  <2> HIDE DEF pick
  <2> QED
    BY <2>1, <2>2 DEF Row
<1>5. ASSUME row = loaded PROVE M = object
  <2>1. \A c \in Columns : M[c] = object[c]
    BY <1>3, <1>5
  <2> QED
    BY <1>4, <2>1, SameRow
<1> QED
  BY <1>3, <1>4, <1>5 DEF M

\* A worker that writes one attempt over a row keeps it within the limit, whatever
\* another worker has done to the row since it was loaded.
LEMMA MergeInLimit ==
    ASSUME NEW row \in Row, NEW loaded \in Row, NEW t \in Nat, InLimit(row), InLimit(loaded),
           Pending(loaded)
    PROVE  InLimit(Merge(row, loaded, Tried(loaded, t)))
<1> DEFINE object == Tried(loaded, t)
           M == Merge(row, loaded, object)
<1>1. object \in Row /\ object.attempts = loaded.attempts + 1 /\ object.lease = None
  BY TriedRow
<1>2. /\ object.state \in {"succeeded", "failed", "retry"}
      /\ object.state = "retry" => object.attempts < MaxAttempts
  BY <1>1, TriedRow, StateAfterAttempt
<1> HIDE DEF object
<1>3. M \in Row /\ \A c \in Columns : M[c] = IF object[c] = loaded[c] THEN row[c] ELSE object[c]
  BY <1>1, MergedRow
<1>4. /\ M.state = IF object.state = loaded.state THEN row.state ELSE object.state
      /\ M.attempts = IF object.attempts = loaded.attempts THEN row.attempts ELSE object.attempts
      /\ M.lease = IF object.lease = loaded.lease THEN row.lease ELSE object.lease
  BY <1>3 DEF Columns
<1> HIDE DEF M
<1>5. loaded.attempts \in Nat /\ loaded.attempts < MaxAttempts
  BY RowFields DEF InLimit
<1>6. M.attempts = object.attempts
  BY <1>1, <1>4, <1>5
<1>7. object.attempts <= MaxAttempts
  BY <1>1, <1>5, Limits
<1>8. Pending(M) => object.attempts < MaxAttempts
  <2>1. CASE object.state = loaded.state
    BY <1>2, <2>1 DEF Pending, InLimit
  <2>2. CASE object.state # loaded.state
    BY <1>2, <1>4, <2>2 DEF Pending
  <2> QED
    BY <2>1, <2>2
<1>9. M.lease = None
  BY <1>1, <1>4 DEF InLimit
<1> QED
  BY <1>6, <1>7, <1>8, <1>9 DEF InLimit, M, object

\* A row for which nothing was done yet.
Unstarted(row) == row.state = "queued" /\ row.attempts = 0 /\ row.detail = row.mode

\* A new row.
LEMMA NewRowOK ==
    ASSUME NEW i \in IncidentIds, NEW mode \in Modes \cup {"follow up"},
           NEW next \in Nat \cup {None}, clock \in Nat
    PROVE  /\ NewRow(i, mode, next) \in Row /\ InLimit(NewRow(i, mode, next))
           /\ NewRow(i, mode, next).mode = mode /\ Unstarted(NewRow(i, mode, next))
<1>1. NewRow(i, mode, next) \in Row
  BY DEF NewRow, Row, States
<1>2. 0 < MaxAttempts /\ 0 <= MaxAttempts
  BY Limits
<1>3. /\ NewRow(i, mode, next).lease = None /\ NewRow(i, mode, next).attempts = 0
      /\ NewRow(i, mode, next).state = "queued" /\ NewRow(i, mode, next).mode = mode
      /\ NewRow(i, mode, next).detail = mode
  BY DEF NewRow
<1> QED
  BY <1>1, <1>2, <1>3 DEF InLimit, Pending, Unstarted

\* A set of numbers that has a bound has a largest one.
LEMMA LargestNumber ==
    ASSUME NEW n \in Nat, NEW S \in SUBSET (0..n), S # {}
    PROVE  Max(S) \in S /\ \A x \in S : x <= Max(S)
<1> DEFINE T == {n - x : x \in S}
<1>1. T \subseteq Nat /\ T # {}
  <2>1. \A x \in S : n - x \in Nat
    OBVIOUS
  <2>2. T \subseteq Nat
    BY <2>1, Zenon
  <2>3. PICK x : x \in S
    OBVIOUS
  <2>4. n - x \in T
    BY <2>3
  <2> QED
    BY <2>2, <2>4
<1>2. PICK m \in T : \A y \in T : ~(<<y, m>> \in OpToRel(<, Nat))
  BY <1>1, NatLessThanWellFounded, WFMin
<1>3. \A y \in T : ~(y < m)
  BY <1>1, <1>2 DEF OpToRel
<1>4. PICK x \in S : m = n - x
  OBVIOUS
<1>5. \A y \in S : x >= y
  BY <1>3, <1>4
<1>6. Max(S) \in S /\ \A y \in S : Max(S) >= y
  BY <1>5, Zenon DEF Max
<1> QED
  BY <1>6
-----------------------------------------------------------------------------
(* Every step keeps the invariant, with any number of workers *)

\* An attempt's result depends on nothing but the object and the settings.
LEMMA KeepDone ==
    ASSUME NEW w, NEW a, settings' = settings, now'[w] = now[w],
           snap'[w][a] = snap[w][a], mem'[w][a] = mem[w][a], Done(w, a)
    PROVE  Done(w, a)'
BY DEF Done, Tried, Transport

\* A session that does nothing in a step keeps its batch, when the rows that are there
\* stay or it holds no lock.
LEMMA KeepBatch ==
    ASSUME NEW w \in Workers, BatchInv(w), settings' = settings,
           now[w] <= clock',
           /\ pc'[w] = pc[w] /\ now'[w] = now[w] /\ todo'[w] = todo[w] /\ cur'[w] = cur[w]
           /\ snap'[w] = snap[w] /\ mem'[w] = mem[w] /\ held'[w] = held[w],
           held[w] = {} \/ \A a \in Ids : Exists(a) => Exists(a)'
    PROVE  BatchInv(w)'
<1>1. ASSUME NEW a \in Ids PROVE ItemInv(w, a)'
  <2>1. ItemInv(w, a)
    BY DEF BatchInv
  <2>2. Done(w, a) => Done(w, a)'
    BY KeepDone
  <2>3. (Ahead(w, a)' <=> Ahead(w, a)) /\ (Leased(w, a)' <=> Leased(w, a))
        /\ Lock(a)' = Lock(a)
    BY DEF Ahead, Leased, Lock
  <2>4. Lock(a) \in held[w] /\ Exists(a) => Lock(a) \in held'[w] /\ Exists(a)'
    OBVIOUS
  <2> QED
    BY <2>1, <2>2, <2>3, <2>4 DEF ItemInv, Pending
<1> QED
  BY <1>1 DEF BatchInv

\* The values of one session.
SessionOK(w) ==
    /\ pc[w] \in {"idle", "lease", "wait", "attempt", "commit"}
    /\ now[w] \in Nat /\ todo[w] \in SUBSET Ids /\ cur[w] \in Ids \cup {None}
    /\ snap[w] \in [Ids -> Row \cup {None}] /\ mem[w] \in [Ids -> Row \cup {None}]
    /\ held[w] \in SUBSET (Ids \cup {"db"})

\* A step that changes one session only.
Only(w) ==
    /\ pc' = [pc EXCEPT ![w] = pc'[w]] /\ now' = [now EXCEPT ![w] = now'[w]]
    /\ todo' = [todo EXCEPT ![w] = todo'[w]] /\ cur' = [cur EXCEPT ![w] = cur'[w]]
    /\ snap' = [snap EXCEPT ![w] = snap'[w]] /\ mem' = [mem EXCEPT ![w] = mem'[w]]
    /\ held' = [held EXCEPT ![w] = held'[w]]

\* The other sessions keep theirs.
LEMMA OneSession ==
    ASSUME QueueInv, NEW w \in Workers, Only(w), SessionOK(w)', BatchInv(w)',
           UNCHANGED <<clock, settings>>, \A a \in Ids : Exists(a) => Exists(a)'
    PROVE  SessionsOK' /\ \A v \in Workers : BatchInv(v)'
<1>1. SessionsOK'
  BY DEF QueueInv, SessionsOK, Only, SessionOK
<1>2. ASSUME NEW v \in Workers, v # w PROVE BatchInv(v)'
  <2>1. /\ pc'[v] = pc[v] /\ now'[v] = now[v] /\ todo'[v] = todo[v] /\ cur'[v] = cur[v]
        /\ snap'[v] = snap[v] /\ mem'[v] = mem[v] /\ held'[v] = held[v]
    BY <1>2 DEF QueueInv, SessionsOK, Only
  <2>2. BatchInv(v) /\ now[v] <= clock'
    BY DEF QueueInv, BatchInv
  <2> QED
    BY <2>1, <2>2, KeepBatch
<1> QED
  BY <1>1, <1>2

\* The SELECT of a batch copies rows that are due.
LEMMA SelectSession ==
    ASSUME QueueInv, NEW w \in Workers, Select(w)
    PROVE  Only(w) /\ SessionOK(w)' /\ BatchInv(w)'
<1> DEFINE due == {a \in Ids : Exists(a) /\ Due(rows[a], clock)}
<1>1. PICK b \in SUBSET due :
        /\ todo' = [todo EXCEPT ![w] = b]
        /\ snap' = [snap EXCEPT ![w] = [a \in Ids |-> IF a \in b THEN rows[a] ELSE None]]
  BY DEF Select
<1>2. /\ pc[w] = "idle" /\ pc' = [pc EXCEPT ![w] = "lease"]
      /\ now' = [now EXCEPT ![w] = clock] /\ mem' = [mem EXCEPT ![w] = snap'[w]]
      /\ cur' = cur /\ held' = held /\ clock' = clock /\ settings' = settings
  BY DEF Select, world
<1>3. /\ todo'[w] = b /\ snap'[w] = [a \in Ids |-> IF a \in b THEN rows[a] ELSE None]
      /\ mem'[w] = snap'[w] /\ now'[w] = clock /\ pc'[w] = "lease"
  BY <1>1, <1>2 DEF QueueInv, SessionsOK
<1>4. Only(w)
  BY <1>1, <1>2, <1>3 DEF Only, QueueInv, SessionsOK
<1>5. /\ snap'[w] \in [Ids -> Row \cup {None}]
      /\ \A a \in Ids : snap'[w][a] = IF a \in b THEN rows[a] ELSE None
  BY <1>3 DEF QueueInv, TableOK
<1>6. SessionOK(w)'
  BY <1>2, <1>3, <1>5 DEF SessionOK, QueueInv, SessionsOK, WorldOK
<1>7. cur[w] = None /\ None \notin Ids
  BY <1>2, DistinctNone DEF QueueInv, BatchInv, Ids
<1>8. ASSUME NEW a \in Ids PROVE ItemInv(w, a)'
  <2>1. CASE a \notin b
    <3>1. snap'[w][a] = None /\ mem'[w][a] = None /\ cur'[w] # a
      BY <1>2, <1>3, <1>5, <1>7, <2>1
    <3> QED
      BY <1>3, <2>1, <3>1 DEF ItemInv
  <2>2. CASE a \in b
    <3>1. Exists(a) /\ Due(rows[a], clock) /\ InLimit(rows[a])
      BY <2>2 DEF QueueInv, TableOK
    <3>2. snap'[w][a] = rows[a] /\ mem'[w][a] = rows[a] /\ snap'[w][a] # None
      BY <1>3, <1>5, <2>2, <3>1 DEF Exists
    <3>3. Ahead(w, a)' /\ ~Leased(w, a)'
      BY <1>3, <2>2 DEF Ahead, Leased
    <3> QED
      BY <1>3, <3>1, <3>2, <3>3 DEF ItemInv, Due, InLimit, Pending
  <2> QED
    BY <2>1, <2>2
<1>9. clock <= clock
  BY DEF QueueInv, WorldOK
<1> QED
  BY <1>2, <1>3, <1>4, <1>6, <1>7, <1>8, <1>9 DEF BatchInv

\* The UPDATE of the lease, on an item that the worker has come to.
LEMMA TakeLeaseSession ==
    ASSUME QueueInv, NEW w \in Workers, NEW b \in Ids, pc[w] \in {"lease", "wait"},
           Ahead(w, b), b \notin todo'[w], pc[w] = "wait" => b = cur[w],
           TakeLease(w, b),
           cur' = [cur EXCEPT ![w] = b], todo' = [todo EXCEPT ![w] = @ \ {b}]
    PROVE  Only(w) /\ SessionOK(w)' /\ BatchInv(w)'
<1> DEFINE mark == [by |-> w, at |-> now[w]]
<1>1. /\ Exists(b) /\ held' = [held EXCEPT ![w] = @ \cup {Lock(b)}]
      /\ mem' = [mem EXCEPT ![w] = [mem[w] EXCEPT ![b] = [mem[w][b] EXCEPT !.lease = mark]]]
      /\ pc' = [pc EXCEPT ![w] = "attempt"]
      /\ now' = now /\ snap' = snap /\ rows' = rows /\ settings' = settings /\ clock' = clock
  BY DEF TakeLease, world
<1>2. ItemInv(w, b) /\ snap[w][b] # None /\ mem[w][b] = snap[w][b] /\ snap[w][b] \in Row
  <2>1. ItemInv(w, b)
    BY DEF QueueInv, BatchInv
  <2>2. snap[w][b] # None
    BY <2>1 DEF ItemInv, Ahead
  <2> QED
    BY <2>1, <2>2 DEF ItemInv, QueueInv, SessionsOK
<1>3. mark \in LeaseMark /\ [snap[w][b] EXCEPT !.lease = mark] \in Row
  <2>1. mark \in LeaseMark
    BY DEF LeaseMark, QueueInv, SessionsOK
  <2> QED
    BY <1>2, <2>1 DEF Row
<1> HIDE DEF mark
<1>4. /\ pc'[w] = "attempt" /\ now'[w] = now[w] /\ todo'[w] = todo[w] \ {b} /\ cur'[w] = b
      /\ snap'[w] = snap[w] /\ held'[w] = held[w] \cup {Lock(b)}
      /\ mem'[w] = [mem[w] EXCEPT ![b] = [snap[w][b] EXCEPT !.lease = mark]]
  BY <1>1, <1>2 DEF QueueInv, SessionsOK
<1>5. Only(w)
  BY <1>1, <1>4 DEF Only, QueueInv, SessionsOK
<1>6. Lock(b) \in Ids \cup {"db"}
  BY DEF Lock
<1>7. SessionOK(w)'
  BY <1>3, <1>4, <1>6 DEF SessionOK, QueueInv, SessionsOK
<1>8. mem'[w][b] = [snap[w][b] EXCEPT !.lease = mark] /\ \A a \in Ids \ {b} : mem'[w][a] = mem[w][a]
  BY <1>4 DEF QueueInv, SessionsOK
<1>9. ASSUME NEW a \in Ids PROVE ItemInv(w, a)'
  <2>1. CASE a = b
    <3>1. ~Ahead(w, a)' /\ Leased(w, a)' /\ Lock(a)' = Lock(a)
      BY <1>1, <1>4, <2>1 DEF Ahead, Leased, Lock
    <3>2. mem'[w][a] # None /\ snap'[w][a] # None
      BY <1>2, <1>3, <1>4, <1>8, <2>1, RowFields
    <3>3. Lock(a)' \in held'[w] /\ Exists(a)'
      BY <1>1, <1>4, <2>1, <3>1 DEF Exists
    <3> QED
      BY <1>2, <1>4, <1>8, <2>1, <3>1, <3>2, <3>3 DEF ItemInv, Pending, mark
  <2>2. CASE a # b
    <3>1. ItemInv(w, a)
      BY DEF QueueInv, BatchInv
    <3>2. (Ahead(w, a)' <=> Ahead(w, a)) /\ ~Leased(w, a)' /\ ~Leased(w, a) /\ Lock(a)' = Lock(a)
      BY <1>1, <1>4, <2>2 DEF Ahead, Leased, Lock
    <3>3. Done(w, a) => Done(w, a)'
      BY <1>1, <1>4, <1>8, <2>2, KeepDone
    <3>4. Lock(a) \in held[w] /\ Exists(a) => Lock(a) \in held'[w] /\ Exists(a)'
      BY <1>1, <1>4 DEF Exists
    <3> QED
      BY <1>4, <1>8, <2>2, <3>1, <3>2, <3>3, <3>4 DEF ItemInv, Pending
  <2> QED
    BY <2>1, <2>2
<1>10. b # None
  BY DistinctNone DEF Ids
<1>11. now[w] <= clock
  BY DEF QueueInv, BatchInv
<1> QED
  BY <1>1, <1>4, <1>5, <1>7, <1>9, <1>10, <1>11 DEF BatchInv

\* The next item is leased, or its lock waited for.
LEMMA LeaseSession ==
    ASSUME QueueInv, NEW w \in Workers, Lease(w)
    PROVE  Only(w) /\ SessionOK(w)' /\ BatchInv(w)'
<1>1. PICK b \in First(w) :
        /\ cur' = [cur EXCEPT ![w] = b]
        /\ todo' = [todo EXCEPT ![w] = @ \ {b}]
        /\ \/ TakeLease(w, b)
           \/ /\ pc' = [pc EXCEPT ![w] = "wait"]
              /\ UNCHANGED <<world, rows, now, snap, mem, held>>
  BY DEF Lease
<1>2. b \in todo[w] /\ b \in Ids /\ pc[w] = "lease"
  BY <1>1 DEF First, Lease, QueueInv, SessionsOK
<1>3. todo'[w] = todo[w] \ {b} /\ cur'[w] = b
  BY <1>1 DEF QueueInv, SessionsOK
<1>4. CASE TakeLease(w, b)
  BY <1>1, <1>2, <1>3, <1>4, TakeLeaseSession DEF Ahead
<1>5. CASE pc' = [pc EXCEPT ![w] = "wait"] /\ UNCHANGED <<world, rows, now, snap, mem, held>>
  <2>1. pc'[w] = "wait" /\ settings' = settings /\ clock' = clock
    BY <1>5 DEF QueueInv, SessionsOK, world
  <2>2. Only(w)
    BY <1>1, <1>3, <1>5, <2>1 DEF Only, QueueInv, SessionsOK
  <2>3. SessionOK(w)'
    BY <1>2, <1>3, <1>5, <2>1 DEF SessionOK, QueueInv, SessionsOK
  <2>4. ASSUME NEW a \in Ids PROVE ItemInv(w, a)'
    <3>1. ItemInv(w, a)
      BY DEF QueueInv, BatchInv
    <3>2. (Ahead(w, a)' <=> Ahead(w, a)) /\ ~Leased(w, a)' /\ ~Leased(w, a)
          /\ Lock(a)' = Lock(a) /\ (Exists(a)' <=> Exists(a))
      BY <1>2, <1>3, <1>5, <2>1 DEF Ahead, Leased, Lock, Exists
    <3>3. Done(w, a) => Done(w, a)'
      BY <1>5, <2>1, KeepDone
    <3>4. snap[w][a] = None => cur'[w] # a
      BY <1>2, <1>3, <3>1 DEF ItemInv
    <3> QED
      BY <1>3, <1>5, <3>1, <3>2, <3>3, <3>4 DEF ItemInv, Pending
  <2>5. b # None /\ now[w] <= clock
    BY <1>2, DistinctNone DEF Ids, QueueInv, BatchInv
  <2> QED
    BY <1>3, <1>5, <2>1, <2>2, <2>3, <2>4, <2>5 DEF BatchInv
<1> QED
  BY <1>1, <1>4, <1>5

\* The lock has come.
LEMMA GetLockSession ==
    ASSUME QueueInv, NEW w \in Workers, GetLock(w)
    PROVE  Only(w) /\ SessionOK(w)' /\ BatchInv(w)'
<1>1. /\ pc[w] = "wait" /\ TakeLease(w, cur[w]) /\ todo' = todo /\ cur' = cur
  BY DEF GetLock
<1>2. cur[w] \in Ids /\ cur[w] \notin todo[w]
  BY <1>1 DEF QueueInv, SessionsOK, BatchInv
<1>3. cur' = [cur EXCEPT ![w] = cur[w]] /\ todo' = [todo EXCEPT ![w] = @ \ {cur[w]}]
  BY <1>1, <1>2 DEF QueueInv, SessionsOK
<1> QED
  BY <1>1, <1>2, <1>3, TakeLeaseSession DEF Ahead

\* The transport is called for the leased object, which is pending.
LEMMA AttemptSession ==
    ASSUME QueueInv, NEW w \in Workers, Attempt(w)
    PROVE  /\ Only(w) /\ SessionOK(w)' /\ BatchInv(w)'
           /\ cur[w] \in Ids /\ snap[w][cur[w]] # None /\ Leased(w, cur[w])
           /\ calls' = [calls EXCEPT ![cur[w]] = @ + 1]
<1> DEFINE b == cur[w]
           mark == [by |-> w, at |-> now[w]]
<1>1. /\ pc[w] = "attempt"
      /\ calls' = IF Settled(mem[w][b]) THEN calls ELSE [calls EXCEPT ![b] = @ + 1]
      /\ mem' = [mem EXCEPT ![w] = [mem[w] EXCEPT ![b] = ExecuteOnce(mem[w][b], now[w])]]
      /\ pc' = [pc EXCEPT ![w] = IF todo[w] = {} THEN "commit" ELSE "lease"]
      /\ now' = now /\ snap' = snap /\ rows' = rows /\ settings' = settings /\ clock' = clock
      /\ todo' = todo /\ cur' = cur /\ held' = held
  BY DEF Attempt, world
<1>2. b \in Ids /\ b \notin todo[w] /\ Leased(w, b) /\ ~Ahead(w, b) /\ ItemInv(w, b)
  BY <1>1 DEF QueueInv, SessionsOK, BatchInv, Leased, Ahead
<1>3. /\ snap[w][b] # None /\ snap[w][b] \in Row /\ Pending(snap[w][b])
      /\ mem[w][b] = [snap[w][b] EXCEPT !.lease = mark]
      /\ Lock(b) \in held[w] /\ Exists(b)
  BY <1>2 DEF ItemInv, QueueInv, SessionsOK
<1>4. mark \in LeaseMark /\ now[w] \in Nat
  BY DEF LeaseMark, QueueInv, SessionsOK
<1> HIDE DEF mark
<1>5. /\ mem[w][b].state = snap[w][b].state
      /\ Tried(mem[w][b], now[w]) = Tried(snap[w][b], now[w])
      /\ Tried(snap[w][b], now[w]) \in Row
  BY <1>3, <1>4, TriedLeased, TriedRow
<1>6. ~Settled(mem[w][b])
  BY <1>3, <1>5 DEF Settled, Pending
<1>7. /\ pc'[w] = IF todo[w] = {} THEN "commit" ELSE "lease"
      /\ mem'[w] = [mem[w] EXCEPT ![b] = Tried(snap[w][b], now[w])]
  BY <1>1, <1>5, <1>6 DEF QueueInv, SessionsOK, ExecuteOnce
<1>8. Only(w)
  BY <1>1, <1>7 DEF Only, QueueInv, SessionsOK
<1>9. SessionOK(w)'
  BY <1>1, <1>5, <1>7 DEF SessionOK, QueueInv, SessionsOK
<1>10. /\ mem'[w][b] = Tried(snap[w][b], now[w])
       /\ \A a \in Ids \ {b} : mem'[w][a] = mem[w][a]
  BY <1>2, <1>7 DEF QueueInv, SessionsOK
<1>11. ASSUME NEW a \in Ids PROVE ItemInv(w, a)'
  <2>1. ItemInv(w, a)
    BY DEF QueueInv, BatchInv
  <2>2. (Ahead(w, a)' <=> Ahead(w, a)) /\ ~Leased(w, a)' /\ Lock(a)' = Lock(a)
        /\ (Exists(a)' <=> Exists(a))
    BY <1>1, <1>2, <1>7 DEF Ahead, Leased, Lock, Exists
  <2>3. CASE a = b
    <3>1. Done(w, a)'
      BY <1>1, <1>10, <2>3 DEF Done, Tried, Transport
    <3>2. mem'[w][a] # None
      BY <1>5, <1>10, <2>3, RowFields
    <3> QED
      BY <1>1, <1>2, <1>3, <2>1, <2>2, <2>3, <3>1, <3>2 DEF ItemInv, Pending
  <2>4. CASE a # b
    <3>1. Done(w, a) => Done(w, a)'
      BY <1>1, <1>10, <2>4, KeepDone
    <3>2. ~Leased(w, a)
      BY <2>4 DEF Leased
    <3> QED
      BY <1>1, <1>10, <2>1, <2>2, <2>4, <3>1, <3>2 DEF ItemInv, Pending
  <2> QED
    BY <2>3, <2>4
<1>12. now[w] <= clock
  BY DEF QueueInv, BatchInv
<1>13. BatchInv(w)'
  BY <1>1, <1>2, <1>7, <1>11, <1>12 DEF BatchInv
<1> QED
  BY <1>1, <1>2, <1>3, <1>6, <1>8, <1>9, <1>13

\* A session that ends forgets its objects.
LEMMA CloseSession ==
    ASSUME QueueInv, NEW w \in Workers, Close(w), UNCHANGED clock
    PROVE  /\ Only(w) /\ SessionOK(w)' /\ BatchInv(w)'
           /\ \A a \in Ids : snap'[w][a] = None
<1>1. NoRows \in [Ids -> Row \cup {None}] /\ \A a \in Ids : NoRows[a] = None
  BY DEF NoRows
<1> HIDE DEF NoRows
<1>2. /\ pc'[w] = "idle" /\ now'[w] = 0 /\ todo'[w] = {} /\ cur'[w] = None
      /\ snap'[w] = NoRows /\ mem'[w] = NoRows /\ held'[w] = {}
  BY DEF Close, QueueInv, SessionsOK
<1>3. Only(w)
  BY <1>2 DEF Close, Only, QueueInv, SessionsOK
<1>4. SessionOK(w)'
  BY <1>1, <1>2 DEF SessionOK
<1>5. None \notin Ids /\ 0 <= clock
  BY DistinctNone DEF Ids, QueueInv, WorldOK
<1>6. \A a \in Ids : ItemInv(w, a)'
  BY <1>1, <1>2, <1>5 DEF ItemInv
<1> QED
  BY <1>1, <1>2, <1>3, <1>4, <1>5, <1>6 DEF BatchInv

\* What a commit writes: on each row of its batch, one attempt.
LEMMA CommitRows ==
    ASSUME QueueInv, NEW w \in Workers, Commit(w), NEW a \in Ids
    PROVE  /\ snap[w][a] = None => rows'[a] = rows[a]
           /\ snap[w][a] # None =>
                /\ rows[a] \in Row /\ snap[w][a] \in Row /\ Done(w, a)
                /\ InLimit(snap[w][a]) /\ Pending(snap[w][a])
                /\ rows'[a] = Merge(rows[a], snap[w][a], mem[w][a])
<1>1. /\ rows' = [j \in Ids |-> IF snap[w][j] = None THEN rows[j]
                                ELSE Merge(rows[j], snap[w][j], mem[w][j])]
      /\ pc[w] = "commit" /\ todo[w] = {}
  BY DEF Commit, QueueInv, BatchInv
<1>2. rows[a] \in Row \cup {None} /\ snap[w][a] \in Row \cup {None}
  BY DEF QueueInv, SessionsOK, TableOK
<1>3. ~Ahead(w, a) /\ ~Leased(w, a) /\ ItemInv(w, a)
  BY <1>1 DEF Ahead, Leased, QueueInv, BatchInv
<1>4. ASSUME snap[w][a] # None
      PROVE  Exists(a) /\ Done(w, a) /\ InLimit(snap[w][a]) /\ Pending(snap[w][a])
  <2>1. snap[w][a].attempts \in Nat /\ MaxAttempts \in Nat
    BY <1>2, <1>4, RowFields, Limits
  <2> QED
    BY <1>3, <1>4, <2>1 DEF ItemInv, InLimit
<1> QED
  BY <1>1, <1>2, <1>4 DEF Exists

\* Rows that were there stay, within the limit.
LEMMA CommitTable ==
    ASSUME QueueInv, NEW w \in Workers, Commit(w)
    PROVE  TableOK' /\ \A a \in Ids : Exists(a) => Exists(a)'
<1>1. ASSUME NEW a \in Ids
      PROVE  /\ rows'[a] \in Row \cup {None} /\ (rows'[a] # None => InLimit(rows'[a]))
             /\ rows[a] # None => rows'[a] # None
  <2>1. CASE snap[w][a] = None
    BY <2>1, CommitRows DEF QueueInv, TableOK, Exists
  <2>2. CASE snap[w][a] # None
    <3>1. /\ rows[a] \in Row /\ snap[w][a] \in Row /\ Done(w, a)
          /\ InLimit(snap[w][a]) /\ Pending(snap[w][a])
          /\ rows'[a] = Merge(rows[a], snap[w][a], mem[w][a])
      BY <2>2, CommitRows
    <3>2. mem[w][a] = Tried(snap[w][a], now[w]) /\ now[w] \in Nat
      BY <3>1 DEF Done, QueueInv, SessionsOK
    <3>3. InLimit(rows[a])
      BY <3>1, RowFields DEF QueueInv, TableOK, Exists
    <3>4. Tried(snap[w][a], now[w]) \in Row
      BY <3>1, <3>2, TriedRow
    <3>5. InLimit(rows'[a])
      BY <3>1, <3>2, <3>3, MergeInLimit
    <3>6. rows'[a] \in Row
      BY <3>1, <3>2, <3>4, MergedRow
    <3> QED
      BY <3>5, <3>6, RowFields
  <2> QED
    BY <2>1, <2>2
<1>2. rows' = [a \in Ids |-> rows'[a]]
  BY DEF Commit
<1>3. rows' \in [Ids -> Row \cup {None}]
  BY <1>1, <1>2
<1> QED
  BY <1>1, <1>3 DEF TableOK, Exists, InLimit, Pending

\* A step of a worker keeps the invariant.
LEMMA WorkerStep ==
    ASSUME QueueInv, NEW w \in Workers,
           Work(w) \/ LockTimeout(w) \/ DeadlockVictim(w) \/ Crash(w)
    PROVE  QueueInv'
<1>1. /\ Only(w) /\ SessionOK(w)' /\ BatchInv(w)' /\ TableOK'
      /\ \A a \in Ids : Exists(a) => Exists(a)'
      /\ UNCHANGED world /\ WorldOK' /\ used'.arrivals = used.arrivals
  <2>1. ASSUME UNCHANGED rows
        PROVE  TableOK' /\ \A a \in Ids : Exists(a) => Exists(a)'
    BY <2>1 DEF QueueInv, TableOK, Exists, InLimit, Pending
  <2>2. ASSUME UNCHANGED <<world, used, audit, calls>> PROVE WorldOK'
    BY <2>2 DEF QueueInv, WorldOK, world
  <2>3. CASE Select(w)
    <3>1. UNCHANGED <<world, used, rows, audit, calls>>
      BY <2>3 DEF Select
    <3> QED
      BY <2>1, <2>2, <2>3, <3>1, SelectSession
  <2>4. CASE Lease(w)
    <3>1. UNCHANGED <<world, used, rows, audit, calls>>
      BY <2>4 DEF Lease, TakeLease
    <3> QED
      BY <2>1, <2>2, <2>4, <3>1, LeaseSession
  <2>5. CASE GetLock(w)
    <3>1. UNCHANGED <<world, used, rows, audit, calls>>
      BY <2>5 DEF GetLock, TakeLease
    <3> QED
      BY <2>1, <2>2, <2>5, <3>1, GetLockSession
  <2>6. CASE Attempt(w)
    <3>1. UNCHANGED <<world, used, rows, audit>>
      BY <2>6 DEF Attempt
    <3>2. calls' \in [Ids -> Nat]
      BY <2>6, AttemptSession DEF QueueInv, WorldOK
    <3>3. WorldOK'
      BY <3>1, <3>2 DEF QueueInv, WorldOK, world
    <3> QED
      BY <2>1, <2>6, <3>1, <3>3, AttemptSession
  <2>7. CASE Commit(w)
    <3>1. UNCHANGED <<world, used, calls>> /\ Close(w)
      BY <2>7 DEF Commit
    <3>2. audit' \in [Ids -> Nat]
      BY <2>7 DEF Commit, QueueInv, WorldOK
    <3>3. WorldOK'
      BY <3>1, <3>2 DEF QueueInv, WorldOK, world
    <3>4. UNCHANGED clock
      BY <3>1 DEF world
    <3> QED
      BY <2>7, <3>1, <3>3, <3>4, CommitTable, CloseSession
  <2>8. CASE Rollback(w)
    <3>1. UNCHANGED <<world, used, rows, audit, calls>> /\ Close(w)
      BY <2>8 DEF Rollback
    <3>2. UNCHANGED clock
      BY <3>1 DEF world
    <3> QED
      BY <2>1, <2>2, <3>1, <3>2, CloseSession
  <2>9. CASE Crash(w)
    <3>1. /\ UNCHANGED <<world, rows, audit, calls>> /\ Close(w)
          /\ used.failures < MaxFailures /\ used' = [used EXCEPT !.failures = @ + 1]
      BY <2>9 DEF Crash
    <3>2. used.failures \in 0..MaxFailures
      BY DEF QueueInv, WorldOK
    <3>3. used.failures + 1 \in 0..MaxFailures
      BY <3>1, <3>2, Limits
    <3>4. /\ used' \in [arrivals : 0..MaxArrivals, sweeps : 0..MaxSweeps,
                        resets : 0..MaxResets, failures : 0..MaxFailures]
          /\ used'.arrivals = used.arrivals
      BY <3>1, <3>3 DEF QueueInv, WorldOK
    <3>5. WorldOK'
      BY <3>1, <3>4 DEF QueueInv, WorldOK, world
    <3>6. UNCHANGED clock
      BY <3>1 DEF world
    <3> QED
      BY <2>1, <3>1, <3>4, <3>5, <3>6, CloseSession
  <2> QED
    BY <2>3, <2>4, <2>5, <2>6, <2>7, <2>8, <2>9
       DEF Work, StaleData, LockTimeout, DeadlockVictim
<1>2. UNCHANGED <<clock, settings, seq, incidents>>
  BY <1>1 DEF world
<1>3. SessionsOK' /\ \A v \in Workers : BatchInv(v)'
  BY <1>1, <1>2, OneSession
<1>4. NumberInv'
  BY <1>1, <1>2 DEF QueueInv, NumberInv
<1> QED
  BY <1>1, <1>3, <1>4 DEF QueueInv

\* A step outside the workers keeps their batches.
LEMMA OutsideStep ==
    ASSUME QueueInv, UNCHANGED <<pc, batch, held, settings>>, clock' \in Nat, clock <= clock',
           \/ \A a \in Ids : Exists(a) => Exists(a)'
           \/ \A w \in Workers : held[w] = {}
    PROVE  SessionsOK' /\ \A w \in Workers : BatchInv(w)'
<1>1. UNCHANGED <<pc, now, todo, cur, snap, mem, held, settings>>
  BY DEF batch
<1>2. SessionsOK'
  BY <1>1 DEF QueueInv, SessionsOK
<1>3. ASSUME NEW w \in Workers PROVE BatchInv(w)'
  <2>1. BatchInv(w) /\ now[w] \in Nat /\ clock \in Nat
    BY DEF QueueInv, SessionsOK, WorldOK
  <2>2. now[w] <= clock'
    BY <2>1 DEF BatchInv
  <2> QED
    BY <1>1, <2>1, <2>2, KeepBatch
<1> QED
  BY <1>2, <1>3

\* The next incident has an id within the bound.
LEMMA NextIncident ==
    ASSUME QueueInv, used.arrivals < MaxArrivals
    PROVE  NextId(incidents, seq.incident) \in IncidentIds
           /\ NextId(incidents, seq.incident) <= used.arrivals + 1
<1>1. used.arrivals \in Nat /\ seq.incident \in Nat /\ seq.incident <= used.arrivals
  BY DEF QueueInv, WorldOK, NumberInv
<1> DEFINE S == {0} \cup {i \in DOMAIN incidents : incidents[i] # None}
<1>2. S \in SUBSET (0..used.arrivals) /\ S # {}
  BY <1>1 DEF QueueInv, WorldOK, NumberInv, IncidentIds
<1>3. Max(S) \in 0..used.arrivals
  BY <1>1, <1>2, LargestNumber
<1> HIDE DEF S
<1>4. NextId(incidents, seq.incident) = 1 + Max(S)
        \/ NextId(incidents, seq.incident) = seq.incident + 1
  BY DEF NextId, S
<1> QED
  BY <1>1, <1>3, <1>4, Limits DEF IncidentIds

\* A new incident, and the row of its action unless the backlog is full.
LEMMA IngestStep ==
    ASSUME QueueInv, NEW mode \in Modes, Ingest(mode)
    PROVE  QueueInv'
<1> DEFINE i == NextId(incidents, seq.incident)
           a == NextId(rows, seq.action)
           full == Backlog >= MaxQueueBacklog
           new == NewRow(i, mode, clock)
<1>1. /\ used.arrivals < MaxArrivals
      /\ used' = [used EXCEPT !.arrivals = @ + 1]
      /\ incidents' = [incidents EXCEPT ![i] = clock]
      /\ rows' = IF full THEN rows ELSE [rows EXCEPT ![a] = new]
      /\ Advance(i, IF full THEN seq.action ELSE a)
      /\ UNCHANGED <<clock, settings, sweep, audit, pc, batch, held, calls>>
  BY DEF Ingest
<1>2. i \in IncidentIds /\ i <= used.arrivals + 1
  BY <1>1, NextIncident
<1>3. new \in Row /\ InLimit(new) /\ new # None
  BY <1>2, NewRowOK, RowFields DEF QueueInv, WorldOK
<1> HIDE DEF i, new, full
<1>4. TableOK' /\ \A b \in Ids : Exists(b) => Exists(b)'
  <2>1. rows' \in [Ids -> Row \cup {None}]
    BY <1>1, <1>3 DEF QueueInv, TableOK
  <2>2. \A b \in Ids : rows'[b] = rows[b] \/ rows'[b] = new
    BY <1>1 DEF QueueInv, TableOK
  <2> QED
    BY <1>3, <2>1, <2>2 DEF QueueInv, TableOK, Exists, InLimit, Pending
<1>5. used.arrivals \in 0..MaxArrivals /\ used.arrivals + 1 \in 0..MaxArrivals
  BY <1>1, Limits DEF QueueInv, WorldOK
<1>6. /\ used' \in [arrivals : 0..MaxArrivals, sweeps : 0..MaxSweeps,
                    resets : 0..MaxResets, failures : 0..MaxFailures]
      /\ used'.arrivals = used.arrivals + 1
  BY <1>1, <1>5 DEF QueueInv, WorldOK
<1>7. WorldOK'
  BY <1>1, <1>6 DEF QueueInv, WorldOK
<1>8. NumberInv'
  <2>1. seq' \in [incident : Nat, action : Nat] /\ seq'.incident <= used.arrivals + 1
    <3>1. CASE settings.backend = "sqlite"
      BY <1>1, <1>5, <3>1 DEF Advance, QueueInv, NumberInv
    <3>2. CASE settings.backend # "sqlite"
      <4>1. a = seq.action + 1 /\ seq.action \in Nat
        BY <3>2 DEF NextId, QueueInv, NumberInv
      <4>2. seq' = [incident |-> i, action |-> IF full THEN seq.action ELSE a]
        BY <1>1, <3>2 DEF Advance
      <4>3. i \in Nat
        BY <1>2 DEF IncidentIds
      <4> HIDE DEF a
      <4> QED
        BY <1>2, <4>1, <4>2, <4>3
    <3> QED
      BY <3>1, <3>2
  <2>2. \A j \in IncidentIds : incidents'[j] # None => j <= used.arrivals + 1
    <3> TAKE j \in IncidentIds
    <3>1. CASE j = i
      BY <1>2, <3>1
    <3>2. CASE j # i
      <4>1. incidents'[j] = incidents[j]
        BY <1>1, <3>2 DEF QueueInv, WorldOK
      <4>2. incidents[j] # None => j <= used.arrivals
        BY DEF QueueInv, NumberInv
      <4>3. j \in Nat
        BY DEF IncidentIds
      <4> QED
        BY <1>5, <4>1, <4>2, <4>3
    <3> QED
      BY <3>1, <3>2
  <2> QED
    BY <1>6, <2>1, <2>2 DEF NumberInv
<1>9. clock' \in Nat /\ clock <= clock'
  BY <1>1 DEF QueueInv, WorldOK
<1>10. SessionsOK' /\ \A w \in Workers : BatchInv(w)'
  BY <1>1, <1>4, <1>9, OutsideStep
<1> QED
  BY <1>4, <1>7, <1>8, <1>10 DEF QueueInv

\* The incidents that a sweep has read can be counted.
LEMMA SweepFinite ==
    ASSUME NEW S \in SUBSET IncidentIds
    PROVE  IsFiniteSet(S) /\ Cardinality(S) \in Nat
<1>1. IsFiniteSet(IncidentIds)
  BY FS_Interval, Limits DEF IncidentIds
<1> QED
  BY <1>1, FS_Subset, FS_CardinalityType

\* The rows that a sweep adds.
LEMMA SweepWritesStep ==
    ASSUME QueueInv, SweepWrites
    PROVE  QueueInv'
<1> DEFINE last == NextId(rows, seq.action) - 1
           id(i) == last + Cardinality({j \in sweep : j <= i})
<1>1. /\ sweep \in SUBSET IncidentIds /\ sweep' = None
      /\ UNCHANGED <<clock, settings, used, incidents, audit, pc, batch, held, calls>>
  BY DEF SweepWrites, QueueInv, WorldOK
<1>2. \/ UNCHANGED <<rows, seq>>
      \/ /\ rows' = [a \in Ids |-> IF \E i \in sweep : a = id(i)
                       THEN NewRow(CHOOSE i \in sweep : a = id(i), "follow up", None)
                       ELSE rows[a]]
         /\ Advance(seq.incident, last + Cardinality(sweep))
  BY DEF SweepWrites
<1> HIDE DEF id
<1>3. \A a \in Ids : rows'[a] = rows[a] \/ \E i \in IncidentIds : rows'[a] = NewRow(i, "follow up", None)
  <2>1. CASE UNCHANGED <<rows, seq>>
    BY <2>1
  <2>2. CASE rows' = [a \in Ids |-> IF \E i \in sweep : a = id(i)
                       THEN NewRow(CHOOSE i \in sweep : a = id(i), "follow up", None)
                       ELSE rows[a]]
    <3> TAKE a \in Ids
    <3>1. CASE \E i \in sweep : a = id(i)
      <4>1. (CHOOSE i \in sweep : a = id(i)) \in sweep
        BY <3>1
      <4>2. rows'[a] = NewRow(CHOOSE i \in sweep : a = id(i), "follow up", None)
        BY <2>2, <3>1
      <4> QED
        BY <1>1, <4>1, <4>2
    <3>2. CASE ~\E i \in sweep : a = id(i)
      BY <2>2, <3>2
    <3> QED
      BY <3>1, <3>2
  <2> QED
    BY <1>2, <2>1, <2>2
<1>4. \A i \in IncidentIds : LET new == NewRow(i, "follow up", None) IN
        new \in Row /\ InLimit(new) /\ new # None
  BY NewRowOK, RowFields DEF QueueInv, WorldOK
<1>5. TableOK' /\ \A a \in Ids : Exists(a) => Exists(a)'
  <2>1. rows' = [a \in Ids |-> rows'[a]]
    BY <1>2 DEF QueueInv, TableOK
  <2>2. \A a \in Ids : /\ rows'[a] \in Row \cup {None}
                       /\ rows'[a] # None => InLimit(rows'[a])
                       /\ rows[a] # None => rows'[a] # None
    BY <1>3, <1>4 DEF QueueInv, TableOK, Exists
  <2>3. rows' \in [Ids -> Row \cup {None}]
    BY <2>1, <2>2
  <2> QED
    BY <2>2, <2>3 DEF TableOK, Exists, InLimit, Pending
<1>6. WorldOK'
  BY <1>1 DEF QueueInv, WorldOK
<1>7. NumberInv'
  <2>1. seq' \in [incident : Nat, action : Nat] /\ seq'.incident = seq.incident
    <3>1. CASE seq' = seq
      BY <3>1 DEF QueueInv, NumberInv
    <3>2. CASE seq' # seq
      <4>1. settings.backend # "sqlite"
            /\ seq' = [incident |-> seq.incident, action |-> last + Cardinality(sweep)]
        BY <1>2, <3>2 DEF Advance
      <4>2. seq.action \in Nat /\ seq.incident \in Nat
        BY DEF QueueInv, NumberInv
      <4>3. last = seq.action
        BY <4>1, <4>2 DEF NextId
      <4>4. Cardinality(sweep) \in Nat
        BY <1>1, SweepFinite
      <4>5. last + Cardinality(sweep) \in Nat
        BY <4>2, <4>3, <4>4
      <4> QED
        BY <4>1, <4>2, <4>5
    <3> QED
      BY <3>1, <3>2
  <2> QED
    BY <1>1, <2>1 DEF QueueInv, NumberInv
<1>8. clock' \in Nat /\ clock <= clock'
  BY <1>1 DEF QueueInv, WorldOK
<1>9. SessionsOK' /\ \A w \in Workers : BatchInv(w)'
  BY <1>1, <1>5, <1>8, OutsideStep
<1> QED
  BY <1>5, <1>6, <1>7, <1>9 DEF QueueInv

\* The SELECT of a sweep, a reset, the passing of time.
LEMMA PlainStep ==
    ASSUME QueueInv, SweepReads \/ Reset \/ Tick \/ UNCHANGED vars
    PROVE  QueueInv'
<1>1. /\ UNCHANGED <<pc, batch, held, settings, seq>>
      /\ clock' \in Nat /\ clock <= clock'
      /\ (\A a \in Ids : Exists(a) => Exists(a)') \/ \A w \in Workers : held[w] = {}
  <2>1. clock \in Nat
    BY DEF QueueInv, WorldOK
  <2>2. CASE SweepReads
    BY <2>1, <2>2 DEF SweepReads, Exists
  <2>3. CASE Reset
    BY <2>1, <2>3 DEF Reset
  <2>4. CASE Tick
    BY <2>1, <2>4 DEF Tick, Exists
  <2>5. CASE UNCHANGED vars
    BY <2>1, <2>5 DEF vars, world, Exists
  <2> QED
    BY <2>2, <2>3, <2>4, <2>5
<1>2. /\ used' \in [arrivals : 0..MaxArrivals, sweeps : 0..MaxSweeps,
                    resets : 0..MaxResets, failures : 0..MaxFailures]
      /\ used'.arrivals = used.arrivals
  <2>1. used \in [arrivals : 0..MaxArrivals, sweeps : 0..MaxSweeps,
                  resets : 0..MaxResets, failures : 0..MaxFailures]
    BY DEF QueueInv, WorldOK
  <2>2. CASE SweepReads
    <3>1. used.sweeps + 1 \in 0..MaxSweeps /\ used' = [used EXCEPT !.sweeps = @ + 1]
      BY <2>1, <2>2, Limits DEF SweepReads
    <3> QED
      BY <2>1, <3>1
  <2>3. CASE Reset
    <3>1. used.resets + 1 \in 0..MaxResets /\ used' = [used EXCEPT !.resets = @ + 1]
      BY <2>1, <2>3, Limits DEF Reset
    <3> QED
      BY <2>1, <3>1
  <2>4. CASE Tick \/ UNCHANGED vars
    BY <2>1, <2>4 DEF Tick, vars
  <2> QED
    BY <2>2, <2>3, <2>4
<1>3. /\ incidents' \in [IncidentIds -> Nat \cup {None}]
      /\ \A i \in IncidentIds : incidents'[i] # None => incidents[i] # None
  BY DEF SweepReads, Reset, Tick, vars, world, QueueInv, WorldOK
<1>4. sweep' \in (SUBSET IncidentIds) \cup {None} /\ calls' \in [Ids -> Nat]
      /\ audit' \in [Ids -> Nat]
  BY DEF SweepReads, Reset, Tick, vars, world, QueueInv, WorldOK
<1>5. TableOK'
  <2>1. CASE UNCHANGED rows
    BY <2>1 DEF QueueInv, TableOK, Exists, InLimit, Pending
  <2>2. CASE rows' = NoRows
    BY <2>2 DEF NoRows, TableOK, Exists
  <2> QED
    BY <2>1, <2>2 DEF SweepReads, Reset, Tick, vars
<1>6. WorldOK'
  BY <1>1, <1>2, <1>3, <1>4 DEF QueueInv, WorldOK
<1>7. NumberInv'
  BY <1>1, <1>2, <1>3 DEF QueueInv, NumberInv
<1>8. SessionsOK' /\ \A w \in Workers : BatchInv(w)'
  BY <1>1, OutsideStep
<1> QED
  BY <1>5, <1>6, <1>7, <1>8 DEF QueueInv

LEMMA InitQueue == Init => QueueInv
<1> SUFFICES ASSUME Init PROVE QueueInv
  OBVIOUS
<1>1. WorldOK
  BY Limits DEF Init, WorldOK
<1>2. TableOK /\ SessionsOK
  BY DEF Init, TableOK, SessionsOK, NoRows, Exists
<1>3. NumberInv
  BY DEF Init, NumberInv
<1>4. None \notin Ids
  BY DistinctNone DEF Ids
<1>5. \A w \in Workers : BatchInv(w)
  BY <1>4 DEF Init, BatchInv, ItemInv, NoRows
<1> QED
  BY <1>1, <1>2, <1>3, <1>5 DEF QueueInv

LEMMA NextQueue == QueueInv /\ [Next]_vars => QueueInv'
<1> SUFFICES ASSUME QueueInv, [Next]_vars PROVE QueueInv'
  OBVIOUS
<1> QED
  BY WorkerStep, IngestStep, SweepWritesStep, PlainStep DEF Next

\* The inductive invariant, for any number of workers on either database: what a
\* session has in memory is its batch as loaded, leased or tried once, and the rows it
\* has touched are locked and there.
THEOREM QueueInvariance == Spec => []QueueInv
BY InitQueue, NextQueue, PTL DEF Spec

\* TypeOK for every number of workers: whatever workers write over each other, a row
\* never shows more attempts than the limit, nor a pending row all of them.
THEOREM TypeCorrect == Spec => []TypeOK
<1>1. QueueInv => TypeOK
  BY DEF QueueInv, WorldOK, TableOK, SessionsOK, InLimit, TypeOK
<1> QED
  BY <1>1, QueueInvariance, PTL

\* No committed row ever shows a lease, so a worker that dies in the middle of its batch
\* leaves nothing that keeps another worker away.
THEOREM LeasesNeverCommitted == Spec => []NoCommittedLease
<1>1. QueueInv => NoCommittedLease
  BY DEF QueueInv, TableOK, InLimit, NoCommittedLease
<1> QED
  BY <1>1, QueueInvariance, PTL

=============================================================================
