---------------------------- MODULE WorkerProofs ----------------------------
(***************************************************************************)
(* Proofs about ActionQueue with one worker at a time: what it has loaded  *)
(* is what is stored, so that a settled action stays settled, the transport*)
(* is called only for what is due, calls and attempts agree, the queue     *)
(* ends an action as the retry loop of the command line does, and the      *)
(* metrics agree with the audit trail.                                     *)
(***************************************************************************)
EXTENDS ActionQueueProofs

\* One worker, and no id is given out again: SQLite does so after a reset.
OneWorker == /\ \A v, w \in Workers : v = w
             /\ "sqlite" \notin Backends \/ MaxResets = 0

\* An id that no action has had yet.
Fresh(a) == IF settings.backend = "sqlite" THEN rows[a] = None ELSE a > seq.action

\* A fresh id has no row, no copy of one, and no call was made for it.
FreshInv ==
    \A a \in Ids : Fresh(a) => /\ rows[a] = None /\ calls[a] = 0
                               /\ \A w \in Workers : snap[w][a] = None

\* A copy is the row as it is stored, if it is still there, and a reset that deletes
\* one row of a batch deletes them all.
CopyInv ==
    \A w \in Workers, a \in Ids : snap[w][a] # None =>
        /\ Exists(a) => rows[a] = snap[w][a]
        /\ ~Exists(a) => \A b \in Ids : snap[w][b] # None => ~Exists(b)

\* The transport was called for the item in the batch that is not committed yet.
Called(w, a) == snap[w][a] # None /\ ~Ahead(w, a) /\ ~Leased(w, a)

InFlight(a) == IF \E w \in Workers : Called(w, a) THEN 1 ELSE 0

\* A call that no row shows is one of the batch in flight or of a worker that died.
Counted(a) ==
    /\ rows[a].attempts + InFlight(a) <= calls[a]
    /\ calls[a] <= rows[a].attempts + InFlight(a) + used.failures

CountInv == \A a \in Ids : Exists(a) => Counted(a)

SoleInv == FreshInv /\ CopyInv /\ CountInv

-----------------------------------------------------------------------------
(* New rows *)

\* Rows are added under ids that are fresh, and no longer so afterwards.
AddsRows ==
    \A a \in Ids : /\ Fresh(a)' => Fresh(a)
                   /\ \/ rows'[a] = rows[a]
                      \/ Fresh(a) /\ ~Fresh(a)' /\ rows'[a] \in Row /\ Unstarted(rows'[a])

\* The ids of the actions are numbers up to a bound.
LEMMA IdNumbers ==
    /\ MaxArrivals * (MaxSweeps + 1) \in Nat
    /\ \A a \in Ids : a \in Nat /\ a <= MaxArrivals * (MaxSweeps + 1)
<1>1. \A x, y \in Nat : x * y \in Nat
  OBVIOUS
<1>2. MaxArrivals * (MaxSweeps + 1) \in Nat
  BY <1>1, Limits
<1> QED
  BY <1>2 DEF Ids

\* The last id before the next one is a number, and every id beyond it is fresh.
LEMMA BeyondLast ==
    ASSUME QueueInv
    PROVE  LET last == NextId(rows, seq.action) - 1 IN
           /\ last \in Nat /\ NextId(rows, seq.action) = last + 1
           /\ \A a \in Ids : a > last => Fresh(a)
           /\ settings.backend # "sqlite" => last = seq.action
<1>1. CASE settings.backend = "sqlite"
  <2> DEFINE S == {0} \cup {i \in DOMAIN rows : rows[i] # None}
  <2>1. DOMAIN rows = Ids
    BY DEF QueueInv, TableOK
  <2>2. PICK n \in Nat : S \in SUBSET (0..n)
    BY <2>1, IdNumbers
  <2>3. Max(S) \in Nat /\ \A x \in S : x <= Max(S)
    <3>1. S # {}
      OBVIOUS
    <3> HIDE DEF S
    <3>2. Max(S) \in S /\ \A x \in S : x <= Max(S)
      BY <2>2, <3>1, LargestNumber
    <3>3. S \subseteq Nat
      BY <2>2
    <3>4. Max(S) \in Nat
      BY <3>2, <3>3
    <3> QED
      BY <3>2, <3>4, Zenon
  <2>4. NextId(rows, seq.action) = 1 + Max(S)
    BY <1>1 DEF NextId
  <2>5. \A a \in Ids : rows[a] # None => a \in S
    BY <2>1
  <2> HIDE DEF S
  <2>6. \A a \in Ids : a > Max(S) => rows[a] = None
    BY <2>3, <2>5, IdNumbers
  <2> QED
    BY <1>1, <2>3, <2>4, <2>6 DEF Fresh
<1>2. CASE settings.backend # "sqlite"
  <2>1. NextId(rows, seq.action) = seq.action + 1 /\ seq.action \in Nat
    BY <1>2 DEF NextId, QueueInv, NumberInv
  <2> QED
    BY <1>2, <2>1 DEF Fresh
<1> QED
  BY <1>1, <1>2

\* The id of an ingested action is fresh.
LEMMA IngestAdds ==
    ASSUME QueueInv, NEW mode \in Modes, Ingest(mode)
    PROVE  AddsRows
<1> DEFINE i == NextId(incidents, seq.incident)
           last == NextId(rows, seq.action) - 1
           b == NextId(rows, seq.action)
           full == Backlog >= MaxQueueBacklog
           new == NewRow(i, mode, clock)
<1>1. /\ used.arrivals < MaxArrivals
      /\ rows' = IF full THEN rows ELSE [rows EXCEPT ![b] = new]
      /\ Advance(i, IF full THEN seq.action ELSE b)
      /\ settings' = settings
  BY DEF Ingest
<1>2. i \in IncidentIds /\ clock \in Nat
  BY <1>1, NextIncident DEF QueueInv, WorldOK
<1>3. new \in Row /\ Unstarted(new) /\ new # None
  <2>1. mode \in Modes \cup {"follow up"} /\ clock \in Nat \cup {None}
    BY <1>2
  <2>2. new \in Row /\ Unstarted(new)
    BY <1>2, <2>1, NewRowOK, Zenon
  <2> QED
    BY <2>2, RowFields
<1>4. /\ last \in Nat /\ b = last + 1 /\ \A a \in Ids : a > last => Fresh(a)
      /\ settings.backend # "sqlite" => last = seq.action
  BY BeyondLast
<1> HIDE DEF i, last, b, full, new
<1>5. seq' = IF settings.backend = "sqlite" THEN seq
             ELSE [incident |-> i, action |-> IF full THEN seq.action ELSE b]
  BY <1>1 DEF Advance
<1> SUFFICES ASSUME NEW a \in Ids
             PROVE  /\ Fresh(a)' => Fresh(a)
                    /\ \/ rows'[a] = rows[a]
                       \/ Fresh(a) /\ ~Fresh(a)' /\ rows'[a] \in Row /\ Unstarted(rows'[a])
  BY DEF AddsRows, Unstarted
<1>6. a \in Nat
  BY IdNumbers
<1>7. CASE full \/ a # b
  <2>1. rows'[a] = rows[a]
    BY <1>1, <1>7 DEF QueueInv, TableOK
  <2>2. settings.backend # "sqlite" => seq'.action >= seq.action
    BY <1>4, <1>5 DEF QueueInv, NumberInv
  <2>3. seq.action \in Nat /\ (settings.backend # "sqlite" => seq'.action \in Nat)
    BY <1>4, <1>5 DEF QueueInv, NumberInv
  <2>4. Fresh(a)' => Fresh(a)
    BY <1>1, <1>6, <2>1, <2>2, <2>3 DEF Fresh
  <2> QED
    BY <2>1, <2>4
<1>8. CASE ~full /\ a = b
  <2>1. rows'[a] = new
    BY <1>1, <1>8 DEF QueueInv, TableOK
  <2>2. Fresh(a)
    BY <1>4, <1>6, <1>8
  <2>3. settings.backend # "sqlite" => seq'.action = a
    BY <1>5, <1>8
  <2>4. ~Fresh(a)'
    BY <1>1, <1>3, <1>6, <2>1, <2>3 DEF Fresh
  <2> QED
    BY <1>3, <2>1, <2>2, <2>4
<1> QED
  BY <1>7, <1>8

\* So are those of the follow-ups that a sweep queues.
LEMMA SweepAdds ==
    ASSUME QueueInv, SweepWrites
    PROVE  AddsRows
<1> DEFINE last == NextId(rows, seq.action) - 1
           id(i) == last + Cardinality({j \in sweep : j <= i})
<1>1. sweep \in SUBSET IncidentIds /\ settings' = settings
  BY DEF SweepWrites, QueueInv, WorldOK
<1>2. \/ UNCHANGED <<rows, seq>>
      \/ /\ rows' = [a \in Ids |-> IF \E i \in sweep : a = id(i)
                       THEN NewRow(CHOOSE i \in sweep : a = id(i), "follow up", None)
                       ELSE rows[a]]
         /\ Advance(seq.incident, last + Cardinality(sweep))
  BY DEF SweepWrites
<1>3. /\ last \in Nat /\ \A a \in Ids : a > last => Fresh(a)
      /\ settings.backend # "sqlite" => last = seq.action
  BY BeyondLast
<1>4. ASSUME NEW i \in sweep PROVE id(i) > last /\ id(i) <= last + Cardinality(sweep)
  <2> DEFINE T == {j \in sweep : j <= i}
  <2>1. IsFiniteSet(sweep) /\ Cardinality(sweep) \in Nat
    BY <1>1, SweepFinite
  <2>2. T \in SUBSET sweep
    OBVIOUS
  <2>3. IsFiniteSet(T) /\ Cardinality(T) \in Nat /\ Cardinality(T) <= Cardinality(sweep)
    BY <2>1, <2>2, FS_Subset, FS_CardinalityType
  <2>4. T # {}
    BY <1>1 DEF IncidentIds
  <2> HIDE DEF T
  <2>5. Cardinality(T) # 0
    BY <2>3, <2>4, FS_EmptySet
  <2>6. id(i) = last + Cardinality(T)
    BY DEF T
  <2> HIDE DEF id, last
  <2> QED
    BY <1>3, <2>1, <2>3, <2>5, <2>6
<1>5. Cardinality(sweep) \in Nat
  BY <1>1, SweepFinite
<1> HIDE DEF id, last
<1>6. CASE UNCHANGED <<rows, seq>>
  BY <1>1, <1>6 DEF AddsRows, Fresh
<1>7. CASE /\ rows' = [a \in Ids |-> IF \E i \in sweep : a = id(i)
                         THEN NewRow(CHOOSE i \in sweep : a = id(i), "follow up", None)
                         ELSE rows[a]]
           /\ Advance(seq.incident, last + Cardinality(sweep))
  <2> SUFFICES ASSUME NEW a \in Ids
               PROVE  /\ Fresh(a)' => Fresh(a)
                      /\ \/ rows'[a] = rows[a]
                         \/ Fresh(a) /\ ~Fresh(a)' /\ rows'[a] \in Row /\ Unstarted(rows'[a])
    BY DEF AddsRows, Unstarted
  <2>1. a \in Nat
    BY IdNumbers
  <2>2. settings.backend # "sqlite" => seq'.action = seq.action + Cardinality(sweep)
    BY <1>3, <1>7 DEF Advance
  <2>3. seq.action \in Nat
    BY DEF QueueInv, NumberInv
  <2>4. CASE \E i \in sweep : a = id(i)
    <3> DEFINE j == CHOOSE i \in sweep : a = id(i)
    <3>1. j \in sweep /\ a = id(j)
      BY <2>4
    <3>2. rows'[a] = NewRow(j, "follow up", None)
      BY <1>7, <2>4
    <3>3. a > last /\ a <= last + Cardinality(sweep)
      BY <1>4, <3>1
    <3>4. j \in IncidentIds /\ clock \in Nat
      BY <1>1, <3>1 DEF QueueInv, WorldOK
    <3> HIDE DEF j
    <3>5. rows'[a] \in Row /\ Unstarted(rows'[a]) /\ rows'[a] # None
      <4>1. rows'[a] \in Row /\ Unstarted(rows'[a])
        <5>1. "follow up" \in Modes \cup {"follow up"} /\ None \in Nat \cup {None}
          OBVIOUS
        <5> QED
          BY <3>2, <3>4, <5>1, NewRowOK, Zenon
      <4> QED
        BY <4>1, RowFields
    <3>6. Fresh(a) /\ ~Fresh(a)'
      BY <1>1, <1>3, <1>5, <2>1, <2>2, <2>3, <3>3, <3>5 DEF Fresh
    <3> QED
      BY <3>5, <3>6
  <2>5. CASE ~\E i \in sweep : a = id(i)
    <3>1. rows'[a] = rows[a]
      BY <1>7, <2>5
    <3>2. Fresh(a)' => Fresh(a)
      BY <1>1, <1>5, <2>1, <2>2, <2>3, <3>1 DEF Fresh
    <3> QED
      BY <3>1, <3>2
  <2> QED
    BY <2>4, <2>5
<1> QED
  BY <1>2, <1>6, <1>7

-----------------------------------------------------------------------------
(* Every step keeps the copies true and the calls counted *)

\* The counters of a row that exists.
LEMMA CountTypes ==
    ASSUME QueueInv, NEW a \in Ids, Exists(a)
    PROVE  /\ rows[a] \in Row /\ rows[a].attempts \in Nat /\ calls[a] \in Nat
           /\ used.failures \in Nat /\ InFlight(a) \in {0, 1}
<1>1. rows[a] \in Row
  BY DEF QueueInv, TableOK, Exists
<1>2. rows[a].attempts \in Nat
  BY <1>1, RowFields
<1>3. calls[a] \in Nat /\ used.failures \in Nat
  BY Limits DEF QueueInv, WorldOK
<1>4. InFlight(a) \in {0, 1}
  BY DEF InFlight
<1> QED
  BY <1>1, <1>2, <1>3, <1>4

\* Steps that leave rows, copies and calls alone.
Quiet ==
    /\ UNCHANGED <<rows, calls, seq, settings, snap>>
    /\ used'.failures = used.failures
    /\ \A w \in Workers, a \in Ids : Called(w, a)' <=> Called(w, a)

LEMMA QuietSole ==
    ASSUME SoleInv, Quiet
    PROVE  SoleInv'
<1>1. \A a \in Ids : Fresh(a)' <=> Fresh(a)
  BY DEF Quiet, Fresh
<1>2. \A a \in Ids : InFlight(a)' = InFlight(a)
  BY DEF Quiet, InFlight
<1>3. FreshInv'
  BY <1>1 DEF SoleInv, FreshInv, Quiet
<1>4. CopyInv'
  BY DEF SoleInv, CopyInv, Quiet, Exists
<1>5. CountInv'
  BY <1>2 DEF SoleInv, CountInv, Counted, Quiet, Exists
<1> QED
  BY <1>3, <1>4, <1>5 DEF SoleInv

\* Nothing is called in a session that has just been opened or closed.
LEMMA NothingCalled ==
    ASSUME QueueInv, NEW w \in Workers, pc[w] = "idle", NEW a \in Ids
    PROVE  ~Called(w, a) /\ snap[w][a] = None
BY DEF QueueInv, BatchInv, Called

\* What was called is locked, and so there.
LEMMA CalledExists ==
    ASSUME QueueInv, NEW w \in Workers, NEW a \in Ids, Called(w, a)
    PROVE  Exists(a) /\ Done(w, a)
BY DEF QueueInv, BatchInv, ItemInv, Called

\* The SELECT: the copies are the rows.
LEMMA SelectSole ==
    ASSUME QueueInv, SoleInv, OneWorker, NEW w \in Workers, Select(w)
    PROVE  SoleInv'
<1>1. UNCHANGED <<rows, calls, seq, settings, used>> /\ pc[w] = "idle"
  BY DEF Select, world
<1>2. \A v \in Workers : v = w
  BY DEF OneWorker
<1>3. PICK b \in SUBSET {a \in Ids : Exists(a)} :
        /\ todo'[w] = b
        /\ \A a \in Ids : snap'[w][a] = IF a \in b THEN rows[a] ELSE None
  <2>1. PICK b \in SUBSET {a \in Ids : Exists(a) /\ Due(rows[a], clock)} :
          /\ todo' = [todo EXCEPT ![w] = b]
          /\ snap' = [snap EXCEPT ![w] = [a \in Ids |-> IF a \in b THEN rows[a] ELSE None]]
    BY DEF Select
  <2> QED
    BY <2>1 DEF QueueInv, SessionsOK
<1>4. \A a \in Ids : ~Called(w, a) /\ ~Called(w, a)'
  BY <1>1, <1>3, NothingCalled DEF Called, Ahead
<1>5. \A a \in Ids : InFlight(a)' = InFlight(a)
  BY <1>2, <1>4 DEF InFlight
<1>6. \A a \in b : Exists(a) /\ ~Fresh(a)
  BY DEF SoleInv, FreshInv, Exists
<1>7. \A a \in Ids : Fresh(a)' <=> Fresh(a)
  BY <1>1 DEF Fresh
<1>8. FreshInv'
  BY <1>1, <1>2, <1>3, <1>6, <1>7 DEF SoleInv, FreshInv
<1>9. CopyInv'
  BY <1>1, <1>2, <1>3, <1>6 DEF CopyInv, Exists
<1>10. CountInv'
  BY <1>1, <1>5 DEF SoleInv, CountInv, Counted, Exists
<1> QED
  BY <1>8, <1>9, <1>10 DEF SoleInv

\* Leases change nothing that is counted.
LEMMA LeaseSole ==
    ASSUME QueueInv, SoleInv, OneWorker, NEW w \in Workers, Lease(w) \/ GetLock(w)
    PROVE  SoleInv'
<1>1. UNCHANGED <<rows, calls, seq, settings, snap, used>>
  BY DEF Lease, GetLock, TakeLease, world
<1>2. \A v \in Workers : v = w
  BY DEF OneWorker
<1>3. ASSUME NEW a \in Ids PROVE Called(w, a)' <=> Called(w, a)
  <2>1. (Ahead(w, a) \/ Leased(w, a))' <=> (Ahead(w, a) \/ Leased(w, a))
    <3>1. CASE Lease(w)
      <4>1. PICK b \in First(w) :
              /\ cur' = [cur EXCEPT ![w] = b] /\ todo' = [todo EXCEPT ![w] = @ \ {b}]
              /\ pc' = [pc EXCEPT ![w] = "attempt"] \/ pc' = [pc EXCEPT ![w] = "wait"]
        BY <3>1 DEF Lease, TakeLease
      <4>2. /\ b \in todo[w] /\ pc[w] = "lease" /\ todo'[w] = todo[w] \ {b} /\ cur'[w] = b
            /\ pc'[w] \in {"attempt", "wait"}
        BY <3>1, <4>1 DEF First, Lease, QueueInv, SessionsOK
      <4> QED
        BY <4>2 DEF Ahead, Leased
    <3>2. CASE GetLock(w)
      <4>1. pc[w] = "wait" /\ pc'[w] = "attempt" /\ todo' = todo /\ cur' = cur
        BY <3>2 DEF GetLock, TakeLease, QueueInv, SessionsOK
      <4> QED
        BY <4>1 DEF Ahead, Leased
    <3> QED
      BY <3>1, <3>2
  <2> QED
    BY <1>1, <2>1 DEF Called
<1>4. Quiet
  BY <1>1, <1>2, <1>3 DEF Quiet
<1> QED
  BY <1>4, QuietSole

\* A call is counted for the item that is in flight from now on.
LEMMA AttemptSole ==
    ASSUME QueueInv, SoleInv, OneWorker, NEW w \in Workers, Attempt(w)
    PROVE  SoleInv'
<1>1. UNCHANGED <<rows, seq, settings, snap, used, todo, cur>> /\ pc[w] = "attempt"
      /\ pc' = [pc EXCEPT ![w] = IF todo[w] = {} THEN "commit" ELSE "lease"]
  BY DEF Attempt, world
<1>2. \A v \in Workers : v = w
  BY DEF OneWorker
<1>3. PICK b \in Ids : /\ b = cur[w] /\ snap[w][b] # None /\ Leased(w, b)
                       /\ calls' = [calls EXCEPT ![b] = @ + 1]
  BY AttemptSession
<1>4. /\ calls[b] \in Nat /\ calls'[b] = calls[b] + 1
      /\ \A a \in Ids \ {b} : calls'[a] = calls[a]
  BY <1>3 DEF QueueInv, WorldOK
<1>5. pc'[w] \in {"commit", "lease"} /\ b \notin todo[w]
  BY <1>1, <1>3 DEF QueueInv, SessionsOK, BatchInv
<1>6. /\ Called(w, b)' /\ ~Called(w, b)
      /\ \A a \in Ids \ {b} : Called(w, a)' <=> Called(w, a)
  BY <1>1, <1>3, <1>5 DEF Called, Ahead, Leased
<1>7. /\ InFlight(b) = 0 /\ InFlight(b)' = 1
      /\ \A a \in Ids \ {b} : InFlight(a)' = InFlight(a)
  BY <1>2, <1>6 DEF InFlight
<1>8. \A a \in Ids : Fresh(a)' <=> Fresh(a)
  BY <1>1 DEF Fresh
<1>9. ~Fresh(b)
  BY <1>3 DEF SoleInv, FreshInv
<1>10. FreshInv'
  BY <1>1, <1>4, <1>8, <1>9 DEF SoleInv, FreshInv
<1>11. CopyInv'
  BY <1>1 DEF SoleInv, CopyInv, Exists
<1>12. ASSUME NEW a \in Ids, Exists(a)' PROVE Counted(a)'
  <2>1. Exists(a) /\ Counted(a)
    BY <1>1, <1>12 DEF Exists, SoleInv, CountInv
  <2>2. CASE a # b
    BY <1>1, <1>4, <1>7, <2>1, <2>2 DEF Counted
  <2>3. CASE a = b
    <3>1. rows[a].attempts \in Nat /\ used.failures \in Nat
      BY <2>1, CountTypes
    <3>2. rows[a].attempts <= calls[a] /\ calls[a] <= rows[a].attempts + used.failures
      BY <1>7, <2>1, <2>3, <3>1 DEF Counted
    <3>3. /\ rows' = rows /\ calls'[a] = calls[a] + 1 /\ calls[a] \in Nat
          /\ used' = used /\ InFlight(a)' = 1
      BY <1>1, <1>4, <1>7, <2>3
    <3> QED
      BY <3>1, <3>2, <3>3 DEF Counted
  <2> QED
    BY <2>2, <2>3
<1> QED
  BY <1>10, <1>11, <1>12 DEF SoleInv, CountInv

\* With one worker a commit stores exactly the objects it has tried.
LEMMA CommitWritesObjects ==
    ASSUME QueueInv, SoleInv, NEW w \in Workers, Commit(w), NEW a \in Ids, snap[w][a] # None
    PROVE  /\ rows[a] = snap[w][a] /\ rows[a] \in Row /\ Pending(rows[a])
           /\ rows[a].attempts < MaxAttempts
           /\ rows'[a] = Tried(rows[a], now[w]) /\ rows'[a] \in Row
           /\ rows'[a].attempts = rows[a].attempts + 1
           /\ Called(w, a)
<1>1. /\ rows[a] \in Row /\ snap[w][a] \in Row /\ Done(w, a)
      /\ InLimit(snap[w][a]) /\ Pending(snap[w][a])
      /\ rows'[a] = Merge(rows[a], snap[w][a], mem[w][a])
  BY CommitRows
<1>2. rows[a] = snap[w][a]
  BY <1>1, RowFields DEF SoleInv, CopyInv, Exists
<1>3. mem[w][a] = Tried(rows[a], now[w]) /\ now[w] \in Nat
  BY <1>1, <1>2 DEF Done, QueueInv, SessionsOK
<1>4. mem[w][a] \in Row /\ mem[w][a].attempts = rows[a].attempts + 1
  <2>1. /\ Tried(rows[a], now[w]) \in Row
        /\ Tried(rows[a], now[w]).attempts = rows[a].attempts + 1
    BY <1>1, <1>3, TriedRow
  <2> QED
    BY <1>3, <2>1
<1>5. rows'[a] = mem[w][a]
  BY <1>1, <1>2, <1>4, MergedRow
<1>6. Called(w, a)
  BY DEF Commit, Called, Ahead, Leased, QueueInv, BatchInv
<1>7. rows[a].attempts < MaxAttempts
  BY <1>1, <1>2 DEF InLimit
<1> QED
  BY <1>1, <1>2, <1>3, <1>4, <1>5, <1>6, <1>7

LEMMA CommitSole ==
    ASSUME QueueInv, QueueInv', SoleInv, OneWorker, NEW w \in Workers, Commit(w)
    PROVE  SoleInv'
<1>1. UNCHANGED <<calls, seq, settings, used>> /\ pc'[w] = "idle"
  BY DEF Commit, Close, world, QueueInv, SessionsOK
<1>2. \A v \in Workers : v = w
  BY DEF OneWorker
<1>3. \A a \in Ids : ~Called(w, a)' /\ snap'[w][a] = None
  BY <1>1 DEF QueueInv, BatchInv, Called
<1>4. \A a \in Ids : snap[w][a] = None => rows'[a] = rows[a]
  BY CommitRows
<1>5. \A a \in Ids : snap[w][a] # None => rows[a] # None /\ rows'[a] # None
  BY CommitWritesObjects, RowFields
<1>6. \A a \in Ids : Fresh(a)' => Fresh(a)
  BY <1>1, <1>4, <1>5 DEF Fresh
<1>7. \A a \in Ids : Fresh(a) => rows'[a] = rows[a]
  BY <1>4 DEF SoleInv, FreshInv
<1>8. FreshInv'
  BY <1>1, <1>2, <1>3, <1>6, <1>7 DEF SoleInv, FreshInv
<1>9. CopyInv'
  BY <1>2, <1>3 DEF CopyInv
<1>10. ASSUME NEW a \in Ids, Exists(a)' PROVE Counted(a)'
  <2>1. InFlight(a)' = 0
    BY <1>2, <1>3 DEF InFlight
  <2>2. CASE snap[w][a] = None
    <3>1. Exists(a) /\ rows'[a] = rows[a] /\ InFlight(a) = 0
      BY <1>2, <1>4, <1>10, <2>2 DEF Exists, InFlight, Called
    <3>2. Counted(a)
      BY <3>1 DEF SoleInv, CountInv
    <3> QED
      BY <1>1, <2>1, <3>1, <3>2 DEF Counted
  <2>3. CASE snap[w][a] # None
    <3>1. /\ Exists(a) /\ rows'[a].attempts = rows[a].attempts + 1 /\ InFlight(a) = 1
      BY <1>5, <2>3, CommitWritesObjects DEF Exists, InFlight
    <3>2. Counted(a) /\ rows[a].attempts \in Nat /\ calls[a] \in Nat /\ used.failures \in Nat
      BY <3>1, CountTypes DEF SoleInv, CountInv
    <3> QED
      BY <1>1, <2>1, <3>1, <3>2 DEF Counted
  <2> QED
    BY <2>2, <2>3
<1> QED
  BY <1>8, <1>9, <1>10 DEF SoleInv, CountInv

\* A session that ends without a commit: it has called nothing for the rows that are
\* there, or its death is counted.
LEMMA EndSole ==
    ASSUME QueueInv, QueueInv', SoleInv, OneWorker, NEW w \in Workers, Close(w),
           UNCHANGED <<rows, calls, seq, settings>>,
           \/ used'.failures = used.failures /\ \A a \in Ids : ~Called(w, a)
           \/ used'.failures = used.failures + 1
    PROVE  SoleInv'
<1>1. pc'[w] = "idle"
  BY DEF Close, QueueInv, SessionsOK
<1>2. \A v \in Workers : v = w
  BY DEF OneWorker
<1>3. \A a \in Ids : ~Called(w, a)' /\ snap'[w][a] = None
  BY <1>1 DEF QueueInv, BatchInv, Called
<1>4. \A a \in Ids : Fresh(a)' <=> Fresh(a)
  BY DEF Fresh
<1>5. FreshInv'
  BY <1>2, <1>3, <1>4 DEF SoleInv, FreshInv
<1>6. CopyInv'
  BY <1>2, <1>3 DEF CopyInv
<1>7. ASSUME NEW a \in Ids, Exists(a)' PROVE Counted(a)'
  <2>1. Exists(a) /\ Counted(a)
    BY <1>7 DEF Exists, SoleInv, CountInv
  <2>2. /\ rows[a].attempts \in Nat /\ calls[a] \in Nat /\ used.failures \in Nat
        /\ InFlight(a) \in {0, 1}
    BY <2>1, CountTypes
  <2>3. InFlight(a)' = 0
    BY <1>2, <1>3 DEF InFlight
  <2>4. CASE used'.failures = used.failures /\ \A j \in Ids : ~Called(w, j)
    <3>1. InFlight(a) = 0
      BY <1>2, <2>4 DEF InFlight
    <3> QED
      BY <2>1, <2>3, <2>4, <3>1 DEF Counted
  <2>5. CASE used'.failures = used.failures + 1
    BY <2>1, <2>2, <2>3, <2>5 DEF Counted
  <2> QED
    BY <2>4, <2>5
<1> QED
  BY <1>5, <1>6, <1>7 DEF SoleInv, CountInv

\* A rollback happens before anything was called for a row that is there: only a reset
\* makes an UPDATE miss, and it has deleted the whole batch.
LEMMA RollbackSole ==
    ASSUME QueueInv, QueueInv', SoleInv, OneWorker, NEW w \in Workers,
           StaleData(w) \/ LockTimeout(w) \/ DeadlockVictim(w)
    PROVE  SoleInv'
<1>1. Close(w) /\ UNCHANGED <<rows, calls, seq, settings, used>>
  BY DEF StaleData, LockTimeout, DeadlockVictim, Rollback, world
<1>2. Workers \ {w} = {}
  BY DEF OneWorker
<1>3. StaleData(w)
  BY <1>2 DEF LockTimeout, DeadlockVictim, Free
<1>4. PICK b \in Ids : snap[w][b] # None /\ ~Exists(b)
  <2>1. CASE pc[w] = "lease" /\ \E a \in First(w) : ~Exists(a)
    <3>1. PICK a \in todo[w] : ~Exists(a)
      BY <2>1 DEF First
    <3>2. a \in Ids
      BY DEF QueueInv, SessionsOK
    <3> QED
      BY <3>1, <3>2 DEF QueueInv, BatchInv, ItemInv
  <2>2. CASE pc[w] = "wait" /\ ~Exists(cur[w])
    <3>1. cur[w] \in Ids
      BY <2>2 DEF QueueInv, SessionsOK, BatchInv
    <3> QED
      BY <2>2, <3>1 DEF QueueInv, BatchInv, ItemInv
  <2> QED
    BY <1>3, <2>1, <2>2 DEF StaleData
<1>5. \A a \in Ids : ~Called(w, a)
  BY <1>4, CalledExists DEF SoleInv, CopyInv, Called
<1> QED
  BY <1>1, <1>5, EndSole

\* New rows touch no copy.
LEMMA AddsSole ==
    ASSUME QueueInv, SoleInv, AddsRows, UNCHANGED <<calls, pc, batch, held>>,
           used'.failures = used.failures
    PROVE  SoleInv'
<1>1. UNCHANGED <<snap, todo, cur>>
  BY DEF batch
<1>2. \A a \in Ids : InFlight(a)' = InFlight(a)
  BY <1>1 DEF InFlight, Called, Ahead, Leased
<1>3. \A a \in Ids : Fresh(a) => /\ rows[a] = None /\ calls[a] = 0
                                 /\ \A w \in Workers : snap[w][a] = None
  BY DEF SoleInv, FreshInv
<1>4. \A a \in Ids : Fresh(a)' => Fresh(a) /\ rows'[a] = rows[a]
  BY DEF AddsRows
<1>5. FreshInv'
  BY <1>1, <1>3, <1>4 DEF FreshInv
<1>6. \A w \in Workers, a \in Ids : snap[w][a] # None => rows'[a] = rows[a]
  BY <1>3 DEF AddsRows
<1>7. CopyInv'
  BY <1>1, <1>6 DEF SoleInv, CopyInv, Exists
<1>8. ASSUME NEW a \in Ids, Exists(a)' PROVE Counted(a)'
  <2>1. CASE rows'[a] = rows[a]
    BY <1>2, <1>8, <2>1 DEF SoleInv, CountInv, Counted, Exists
  <2>2. CASE rows'[a] # rows[a]
    <3>1. Fresh(a) /\ rows'[a].attempts = 0
      BY <2>2 DEF AddsRows, Unstarted
    <3>2. calls'[a] = 0 /\ InFlight(a)' = 0
      BY <1>2, <1>3, <3>1 DEF InFlight, Called
    <3>3. used'.failures >= 0 /\ used'.failures \in Nat
      BY Limits DEF QueueInv, WorldOK
    <3> QED
      BY <3>1, <3>2, <3>3 DEF Counted
  <2> QED
    BY <2>1, <2>2
<1> QED
  BY <1>5, <1>7, <1>8 DEF SoleInv, CountInv

\* A reset deletes every row, and with one worker it meets no id that is given out again.
LEMMA ResetSole ==
    ASSUME QueueInv, SoleInv, OneWorker, Reset
    PROVE  SoleInv'
<1>1. /\ \A a \in Ids : rows'[a] = None
      /\ UNCHANGED <<seq, settings, snap, calls>>
  BY DEF Reset, NoRows, batch
<1>2. settings.backend # "sqlite"
  <2>1. used.resets \in 0..MaxResets /\ used.resets < MaxResets /\ settings.backend \in Backends
    BY DEF QueueInv, WorldOK, Reset
  <2>2. MaxResets # 0
    BY <2>1, Limits
  <2> QED
    BY <2>1, <2>2 DEF OneWorker
<1>3. \A a \in Ids : Fresh(a)' <=> Fresh(a)
  BY <1>1, <1>2 DEF Fresh
<1>4. FreshInv'
  BY <1>1, <1>3 DEF SoleInv, FreshInv
<1>5. CopyInv' /\ CountInv'
  BY <1>1 DEF CopyInv, CountInv, Exists
<1> QED
  BY <1>4, <1>5 DEF SoleInv

LEMMA NextSole == QueueInv /\ QueueInv' /\ SoleInv /\ OneWorker /\ [Next]_vars => SoleInv'
<1> SUFFICES ASSUME QueueInv, QueueInv', SoleInv, OneWorker, [Next]_vars PROVE SoleInv'
  OBVIOUS
<1>1. ASSUME NEW w \in Workers, Crash(w) PROVE SoleInv'
  <2>1. Close(w) /\ UNCHANGED <<rows, calls, seq, settings>>
    BY <1>1 DEF Crash, world
  <2>2. used'.failures = used.failures + 1
    BY <1>1 DEF Crash, QueueInv, WorldOK
  <2> QED
    BY <2>1, <2>2, EndSole
<1>2. ASSUME NEW mode \in Modes, Ingest(mode) PROVE SoleInv'
  <2>1. used'.failures = used.failures /\ UNCHANGED <<calls, pc, batch, held>>
    BY <1>2 DEF Ingest, QueueInv, WorldOK
  <2> QED
    BY <1>2, <2>1, IngestAdds, AddsSole
<1>3. ASSUME SweepWrites PROVE SoleInv'
  <2>1. used'.failures = used.failures /\ UNCHANGED <<calls, pc, batch, held>>
    BY <1>3 DEF SweepWrites
  <2> QED
    BY <1>3, <2>1, SweepAdds, AddsSole
<1>4. ASSUME SweepReads \/ Tick \/ UNCHANGED vars PROVE SoleInv'
  <2>1. UNCHANGED <<rows, calls, seq, settings, pc, todo, cur, snap>>
    BY <1>4 DEF SweepReads, Tick, vars, world, batch
  <2>2. used'.failures = used.failures
    BY <1>4 DEF SweepReads, Tick, vars, QueueInv, WorldOK
  <2>3. Quiet
    BY <2>1, <2>2 DEF Quiet, Called, Ahead, Leased
  <2> QED
    BY <2>3, QuietSole
<1> QED
  BY <1>1, <1>2, <1>3, <1>4, SelectSole, LeaseSole, AttemptSole, CommitSole, RollbackSole,
     ResetSole DEF Next, Work

\* The inductive invariant of one worker at a time.
THEOREM SoleInvariance == ASSUME OneWorker PROVE Spec => []SoleInv
<1>1. Init => SoleInv
  BY DEF Init, SoleInv, FreshInv, CopyInv, CountInv, NoRows, Exists
<1>2. QueueInv /\ QueueInv' /\ SoleInv /\ [Next]_vars => SoleInv'
  BY NextSole
<1> QED
  BY <1>1, <1>2, QueueInvariance, PTL DEF Spec

-----------------------------------------------------------------------------
(* What it gives *)

\* With one worker the calls made for an action and the attempts its row shows differ by
\* the workers that died and by the batch in flight, whatever was rolled back or deleted.
THEOREM CallsAgree == ASSUME OneWorker PROVE Spec => []CallsAccounted
<1>1. ASSUME QueueInv, SoleInv PROVE CallsAccounted
  <2> SUFFICES ASSUME NEW a \in Ids, Exists(a)
               PROVE  LET busy == {w \in Workers : snap[w][a] # None /\ mem[w][a] # snap[w][a]}
                      IN  /\ rows[a].attempts <= calls[a]
                          /\ calls[a] <= rows[a].attempts + used.failures + Cardinality(busy)
    BY DEF CallsAccounted
  <2> DEFINE busy == {w \in Workers : snap[w][a] # None /\ mem[w][a] # snap[w][a]}
  <2>1. /\ rows[a].attempts \in Nat /\ calls[a] \in Nat /\ used.failures \in Nat
        /\ InFlight(a) \in {0, 1} /\ Counted(a)
    BY <1>1, CountTypes DEF SoleInv, CountInv
  <2>2. IsFiniteSet(busy) /\ Cardinality(busy) \in Nat
    <3>1. CASE busy = {}
      BY <3>1, FS_EmptySet
    <3>2. CASE busy # {}
      <4>1. PICK w \in busy : TRUE
        BY <3>2
      <4>2. busy = {w}
        BY <4>1 DEF OneWorker
      <4>3. IsFiniteSet({w}) /\ Cardinality({w}) = 1
        BY FS_Singleton
      <4> HIDE DEF busy
      <4> QED
        BY <4>2, <4>3
    <3> QED
      BY <3>1, <3>2
  <2>3. InFlight(a) <= Cardinality(busy)
    <3>1. CASE \E w \in Workers : Called(w, a)
      <4>1. PICK w \in Workers : Called(w, a)
        BY <3>1
      <4>2. Done(w, a) /\ snap[w][a] \in Row /\ now[w] \in Nat
        BY <1>1, <4>1, CalledExists DEF Called, QueueInv, SessionsOK
      <4>3. /\ mem[w][a].attempts = snap[w][a].attempts + 1
            /\ snap[w][a].attempts \in Nat
        <5>1. Tried(snap[w][a], now[w]).attempts = snap[w][a].attempts + 1
          BY <4>2, TriedRow
        <5>2. snap[w][a].attempts \in Nat
          BY <4>2, RowFields
        <5> QED
          BY <4>2, <5>1, <5>2 DEF Done
      <4>4. mem[w][a] # snap[w][a]
        BY <4>3
      <4>5. w \in busy
        BY <4>1, <4>4 DEF Called
      <4> HIDE DEF busy
      <4>6. Cardinality(busy) # 0
        BY <2>2, <4>5, FS_EmptySet
      <4> QED
        BY <2>1, <2>2, <4>6
    <3>2. CASE ~\E w \in Workers : Called(w, a)
      <4>1. InFlight(a) = 0
        BY <3>2 DEF InFlight
      <4> HIDE DEF busy
      <4> QED
        BY <2>2, <4>1
    <3> QED
      BY <3>1, <3>2
  <2> HIDE DEF busy
  <2>4. /\ rows[a].attempts <= calls[a]
        /\ calls[a] <= rows[a].attempts + used.failures + Cardinality(busy)
    BY <2>1, <2>2, <2>3 DEF Counted
  <2> QED
    BY <2>4 DEF busy
<1> QED
  BY <1>1, QueueInvariance, SoleInvariance, PTL

\* What SettledIsFinal and CalledOnlyWhenDue say of one step.
FinalStep == \A a \in Ids : Exists(a) /\ Settled(rows[a]) => rows'[a] \in {rows[a], None}
DueStep ==
    \A a \in Ids : calls'[a] # calls[a] =>
        Pending(rows[a]) /\ (rows[a].next = None \/ rows[a].next <= clock)

LEMMA NextFinal == QueueInv /\ SoleInv /\ [Next]_vars => FinalStep
<1> SUFFICES ASSUME QueueInv, SoleInv, [Next]_vars PROVE FinalStep
  OBVIOUS
<1>1. ASSUME UNCHANGED rows PROVE FinalStep
  BY <1>1 DEF FinalStep
<1>2. ASSUME AddsRows PROVE FinalStep
  BY <1>2 DEF AddsRows, SoleInv, FreshInv, FinalStep, Exists
<1>3. ASSUME Reset PROVE FinalStep
  BY <1>3 DEF Reset, NoRows, FinalStep
<1>4. ASSUME NEW w \in Workers, Commit(w) PROVE FinalStep
  <2>1. \A a \in Ids : snap[w][a] = None => rows'[a] = rows[a]
    BY <1>4, CommitRows
  <2>2. \A a \in Ids : snap[w][a] # None => Pending(rows[a])
    BY <1>4, CommitWritesObjects
  <2> QED
    BY <2>1, <2>2 DEF FinalStep, Settled, Pending
<1>5. ASSUME NEW w \in Workers,
             \/ Select(w) \/ Lease(w) \/ GetLock(w) \/ Attempt(w) \/ StaleData(w)
             \/ LockTimeout(w) \/ DeadlockVictim(w) \/ Crash(w)
      PROVE  UNCHANGED rows
  BY <1>5 DEF Select, Lease, GetLock, TakeLease, Attempt, StaleData, LockTimeout,
              DeadlockVictim, Rollback, Crash
<1>6. ASSUME SweepReads \/ Tick \/ UNCHANGED vars PROVE UNCHANGED rows
  BY <1>6 DEF SweepReads, Tick, vars
<1> QED
  BY <1>1, <1>2, <1>3, <1>4, <1>5, <1>6, IngestAdds, SweepAdds DEF Next, Work

LEMMA NextDue == QueueInv /\ SoleInv /\ [Next]_vars => DueStep
<1> SUFFICES ASSUME QueueInv, SoleInv, [Next]_vars PROVE DueStep
  OBVIOUS
<1>1. ASSUME UNCHANGED calls PROVE DueStep
  BY <1>1 DEF DueStep
<1>2. ASSUME NEW w \in Workers, Attempt(w) PROVE DueStep
  <2>1. PICK b \in Ids : /\ snap[w][b] # None /\ Leased(w, b)
                         /\ calls' = [calls EXCEPT ![b] = @ + 1]
    BY <1>2, AttemptSession
  <2>2. ItemInv(w, b) /\ ~Ahead(w, b)
    BY <2>1 DEF QueueInv, BatchInv, Ahead, Leased
  <2>3. /\ Exists(b) /\ Pending(snap[w][b])
        /\ snap[w][b].next = None \/ snap[w][b].next <= now[w]
    BY <2>1, <2>2 DEF ItemInv
  <2>4. rows[b] = snap[w][b]
    BY <2>1, <2>3 DEF SoleInv, CopyInv
  <2>5. rows[b].next = None \/ rows[b].next <= clock
    <3>1. now[w] \in Nat /\ clock \in Nat /\ now[w] <= clock
      BY DEF QueueInv, SessionsOK, WorldOK, BatchInv
    <3>2. rows[b].next \in Nat \cup {None}
      BY <2>3, RowFields DEF QueueInv, TableOK, Exists
    <3> QED
      BY <2>3, <2>4, <3>1, <3>2
  <2>6. \A a \in Ids \ {b} : calls'[a] = calls[a]
    BY <2>1 DEF QueueInv, WorldOK
  <2> QED
    BY <2>3, <2>4, <2>5, <2>6 DEF DueStep, Pending
<1>3. ASSUME NEW w \in Workers,
             \/ Select(w) \/ Lease(w) \/ GetLock(w) \/ Commit(w) \/ StaleData(w)
             \/ LockTimeout(w) \/ DeadlockVictim(w) \/ Crash(w)
      PROVE  UNCHANGED calls
  BY <1>3 DEF Select, Lease, GetLock, TakeLease, Commit, StaleData, LockTimeout,
              DeadlockVictim, Rollback, Crash
<1>4. ASSUME \/ SweepReads \/ SweepWrites \/ Reset \/ Tick \/ UNCHANGED vars
             \/ \E mode \in Modes : Ingest(mode)
      PROVE  UNCHANGED calls
  BY <1>4 DEF SweepReads, SweepWrites, Reset, Tick, Ingest, vars
<1> QED
  BY <1>1, <1>2, <1>3, <1>4 DEF Next, Work

\* With one worker an action that has succeeded or failed is never written again, also
\* when a reset and new rows come between the SELECT of a batch and its commit.
THEOREM FinalWhenAlone == ASSUME OneWorker PROVE Spec => SettledIsFinal
<1>1. QueueInv /\ SoleInv /\ [Next]_vars => [FinalStep]_vars
  BY NextFinal
<1> QED
  BY <1>1, QueueInvariance, SoleInvariance, PTL DEF Spec, SettledIsFinal, FinalStep

\* With one worker the transport is called only for actions whose stored row is due.
THEOREM CalledWhenDue == ASSUME OneWorker PROVE Spec => CalledOnlyWhenDue
<1>1. QueueInv /\ SoleInv /\ [Next]_vars => [DueStep]_vars
  BY NextDue
<1> QED
  BY <1>1, QueueInvariance, SoleInvariance, PTL DEF Spec, CalledOnlyWhenDue, DueStep

-----------------------------------------------------------------------------
(* The queue and the retry loop of the command line agree *)

\* A property that holds of 0 and passes on to the next number holds up to n.
LEMMA UpTo ==
    ASSUME NEW n \in Nat, NEW S, 0 \in S, \A m \in Nat : m < n /\ m \in S => m + 1 \in S
    PROVE  \A m \in 0..n : m \in S
<1> DEFINE T == {m \in 0..n : m \notin S}
<1> SUFFICES ASSUME T # {} PROVE FALSE
  OBVIOUS
<1>1. T \subseteq Nat
  OBVIOUS
<1>2. PICK m \in T : \A y \in T : ~(<<y, m>> \in OpToRel(<, Nat))
  BY <1>1, NatLessThanWellFounded, WFMin
<1>3. m \in 0..n /\ m \notin S /\ \A y \in T : ~(y < m)
  BY <1>1, <1>2 DEF OpToRel
<1>4. m # 0
  BY <1>3
<1>5. m - 1 \in Nat /\ m - 1 \in 0..n /\ m - 1 < n /\ (m - 1) + 1 = m /\ m - 1 < m
  BY <1>3, <1>4
<1>6. m - 1 \in S
  BY <1>3, <1>5
<1> QED
  BY <1>3, <1>5, <1>6

\* The rows that the loop of execute_action_with_retry goes through, from a row on.
IsDrive(f, row) ==
    f = [n \in 0..MaxAttempts |-> IF n = 0 THEN row ELSE ExecuteOnce(f[n - 1], 0)]

\* There are such rows.
LEMMA DriveExists ==
    ASSUME NEW row
    PROVE  \E f : IsDrive(f, row)
<1> DEFINE Partial(g, k) == g = [n \in 0..k |-> IF n = 0 THEN row ELSE ExecuteOnce(g[n - 1], 0)]
           S == {k \in Nat : \E g : Partial(g, k)}
<1>1. 0 \in S
  <2>1. Partial([n \in 0..0 |-> row], 0)
    OBVIOUS
  <2> QED
    BY <2>1
<1>2. ASSUME NEW k \in Nat, k \in S PROVE k + 1 \in S
  <2>1. PICK g : Partial(g, k)
    BY <1>2
  <2> DEFINE h == [n \in 0..(k + 1) |-> IF n <= k THEN g[n] ELSE ExecuteOnce(g[k], 0)]
  <2>2. \A n \in 0..(k + 1) : h[n] = IF n = 0 THEN row ELSE ExecuteOnce(h[n - 1], 0)
    <3> TAKE n \in 0..(k + 1)
    <3>1. CASE n = 0
      BY <2>1, <3>1
    <3>2. CASE n # 0 /\ n <= k
      <4>1. n - 1 \in 0..k /\ n - 1 \in 0..(k + 1) /\ n \in 0..k /\ n - 1 <= k
        BY <3>2
      <4>2. g[n] = ExecuteOnce(g[n - 1], 0)
        BY <2>1, <3>2, <4>1
      <4> QED
        BY <3>2, <4>1, <4>2
    <3>3. CASE n = k + 1
      <4>1. n - 1 = k /\ k \in 0..(k + 1) /\ k <= k /\ ~(n <= k) /\ n # 0
        BY <3>3
      <4> QED
        BY <4>1
    <3> QED
      BY <3>1, <3>2, <3>3
  <2>3. Partial(h, k + 1)
    BY <2>2
  <2>4. k + 1 \in Nat
    OBVIOUS
  <2> HIDE DEF h, Partial
  <2> QED
    BY <2>3, <2>4, Zenon
<1>3. \A m \in 0..MaxAttempts : m \in S
  <2> HIDE DEF S
  <2> QED
    BY <1>1, <1>2, Limits, UpTo
<1>4. MaxAttempts \in 0..MaxAttempts
  BY Limits
<1>5. \E g : Partial(g, MaxAttempts)
  BY <1>3, <1>4
<1> QED
  BY <1>5 DEF IsDrive

\* What execute_action_with_retry returns is the last of them.
LEMMA DriveReturns ==
    ASSUME NEW row
    PROVE  \E f : IsDrive(f, row) /\ ExecuteWithRetry(row) = f[MaxAttempts]
<1> DEFINE f == CHOOSE g : g = [n \in 0..MaxAttempts |->
                                  IF n = 0 THEN row ELSE ExecuteOnce(g[n - 1], 0)]
<1>1. IsDrive(f, row)
  BY DriveExists, Zenon DEF IsDrive
<1>2. ExecuteWithRetry(row) = f[MaxAttempts]
  BY DEF ExecuteWithRetry
<1> QED
  BY <1>1, <1>2, Zenon

\* The columns that tell what was done for an action.
Like(x, y) == x.state = y.state /\ x.attempts = y.attempts /\ x.detail = y.detail

\* One attempt leaves like rows alike, whenever it is made.
LEMMA TriedAlike ==
    ASSUME NEW x \in Row, NEW y \in Row, NEW t \in Nat, NEW u \in Nat, Like(x, y)
    PROVE  Like(Tried(x, t), Tried(y, u))
<1>1. NextState(x, Transport(x.detail, x.attempts + 1))
        = NextState(y, Transport(y.detail, y.attempts + 1))
  BY DEF Like, NextState
<1>2. /\ Tried(x, t).attempts = x.attempts + 1
      /\ Tried(x, t).state = NextState(x, Transport(x.detail, x.attempts + 1))
      /\ Tried(x, t).detail = IF Tried(x, t).state = "retry" THEN x.detail
                              ELSE Transport(x.detail, x.attempts + 1)
  BY TriedRow
<1>3. /\ Tried(y, u).attempts = y.attempts + 1
      /\ Tried(y, u).state = NextState(y, Transport(y.detail, y.attempts + 1))
      /\ Tried(y, u).detail = IF Tried(y, u).state = "retry" THEN y.detail
                              ELSE Transport(y.detail, y.attempts + 1)
  BY TriedRow
<1> QED
  BY <1>1, <1>2, <1>3 DEF Like

\* The loop goes through rows, one step after the other.
LEMMA DriveRows ==
    ASSUME NEW f, NEW row \in Row, IsDrive(f, row)
    PROVE  /\ f[0] = row
           /\ \A n \in 0..MaxAttempts : f[n] \in Row
           /\ \A n \in Nat : n < MaxAttempts => f[n + 1] = ExecuteOnce(f[n], 0)
<1>1. f[0] = row
  <2>1. 0 \in 0..MaxAttempts
    BY Limits
  <2> QED
    BY <2>1 DEF IsDrive
<1>2. ASSUME NEW n \in Nat, n < MaxAttempts PROVE f[n + 1] = ExecuteOnce(f[n], 0)
  <2>1. n + 1 \in 0..MaxAttempts /\ n + 1 # 0 /\ (n + 1) - 1 = n
    BY <1>2, Limits
  <2> QED
    BY <2>1 DEF IsDrive
<1> DEFINE S == {n \in Nat : f[n] \in Row}
<1>3. 0 \in S
  BY <1>1
<1>4. ASSUME NEW n \in Nat, n < MaxAttempts, n \in S PROVE n + 1 \in S
  <2>1. ExecuteOnce(f[n], 0) \in Row
    BY <1>4, TriedRow DEF ExecuteOnce
  <2> QED
    BY <1>2, <1>4, <2>1
<1>5. \A n \in 0..MaxAttempts : n \in S
  <2> HIDE DEF S
  <2> QED
    BY <1>3, <1>4, Limits, UpTo
<1> QED
  BY <1>1, <1>2, <1>5

\* The loop goes no further than a settled row.
LEMMA DriveStops ==
    ASSUME NEW f, NEW row \in Row, IsDrive(f, row), NEW m \in 0..MaxAttempts, Settled(f[m])
    PROVE  f[MaxAttempts] = f[m]
<1> DEFINE S == {n \in Nat : n >= m => f[n] = f[m]}
<1>1. 0 \in S
  BY Limits
<1>2. ASSUME NEW n \in Nat, n < MaxAttempts, n \in S PROVE n + 1 \in S
  <2>1. CASE n >= m
    <3>1. f[n] = f[m] /\ f[n + 1] = ExecuteOnce(f[n], 0)
      BY <1>2, <2>1, DriveRows
    <3> QED
      BY <3>1 DEF ExecuteOnce
  <2>2. CASE n < m
    <3>1. n + 1 >= m => n + 1 = m
      BY <2>2
    <3> QED
      BY <3>1
  <2> QED
    BY <2>1, <2>2
<1>3. \A n \in 0..MaxAttempts : n \in S
  <2> HIDE DEF S
  <2> QED
    BY <1>1, <1>2, Limits, UpTo
<1>4. MaxAttempts \in 0..MaxAttempts /\ MaxAttempts >= m
  BY Limits
<1> QED
  BY <1>3, <1>4

\* The row shows what the loop shows after as many attempts.
AsDriven(row) ==
    \A start \in Row : \A f :
        Unstarted(start) /\ start.mode = row.mode /\ IsDrive(f, start)
          => Like(row, f[row.attempts])

DrivenInv == \A a \in Ids : Exists(a) => AsDriven(rows[a])

\* The loop depends on nothing but the row and the settings.
LEMMA DriveStays ==
    ASSUME NEW f, NEW row, settings' = settings
    PROVE  IsDrive(f, row)' <=> IsDrive(f, row)
BY DEF IsDrive, ExecuteOnce, Tried, Transport

\* What a step does to a row that is there afterwards: nothing, or it is new, or it has
\* had one attempt.
LEMMA RowSteps ==
    ASSUME QueueInv, SoleInv, [Next]_vars, NEW a \in Ids, Exists(a)'
    PROVE  \/ rows'[a] = rows[a]
           \/ rows'[a] \in Row /\ Unstarted(rows'[a])
           \/ /\ rows[a] \in Row /\ Pending(rows[a]) /\ rows[a].attempts < MaxAttempts
              /\ \E t \in Nat : rows'[a] = Tried(rows[a], t)
<1>1. ASSUME AddsRows
      PROVE  rows'[a] = rows[a] \/ (rows'[a] \in Row /\ Unstarted(rows'[a]))
  BY <1>1 DEF AddsRows
<1>2. ~Reset
  BY DEF Reset, NoRows, Exists
<1>3. ASSUME NEW w \in Workers, Commit(w)
      PROVE  \/ rows'[a] = rows[a]
             \/ /\ rows[a] \in Row /\ Pending(rows[a]) /\ rows[a].attempts < MaxAttempts
                /\ \E t \in Nat : rows'[a] = Tried(rows[a], t)
  <2>1. CASE snap[w][a] = None
    BY <1>3, <2>1, CommitRows
  <2>2. CASE snap[w][a] # None
    <3>1. /\ rows[a] \in Row /\ Pending(rows[a]) /\ rows[a].attempts < MaxAttempts
          /\ rows'[a] = Tried(rows[a], now[w])
      BY <1>3, <2>2, CommitWritesObjects
    <3>2. now[w] \in Nat
      BY DEF QueueInv, SessionsOK
    <3> QED
      BY <3>1, <3>2
  <2> QED
    BY <2>1, <2>2
<1>4. ASSUME NEW w \in Workers,
             \/ Select(w) \/ Lease(w) \/ GetLock(w) \/ Attempt(w) \/ StaleData(w)
             \/ LockTimeout(w) \/ DeadlockVictim(w) \/ Crash(w)
      PROVE  UNCHANGED rows
  BY <1>4 DEF Select, Lease, GetLock, TakeLease, Attempt, StaleData, LockTimeout,
              DeadlockVictim, Rollback, Crash
<1>5. ASSUME SweepReads \/ Tick \/ UNCHANGED vars PROVE UNCHANGED rows
  BY <1>5 DEF SweepReads, Tick, vars
<1> QED
  BY <1>1, <1>2, <1>3, <1>4, <1>5, IngestAdds, SweepAdds DEF Next, Work

\* The settings stay as they were deployed.
LEMMA SettingsStay == [Next]_vars => settings' = settings
<1>1. ASSUME NEW w \in Workers, Work(w) \/ LockTimeout(w) \/ DeadlockVictim(w) \/ Crash(w)
      PROVE  settings' = settings
  BY <1>1 DEF Work, Select, Lease, GetLock, TakeLease, Attempt, Commit, StaleData, LockTimeout,
              DeadlockVictim, Rollback, Crash, world
<1>2. ASSUME NEW mode \in Modes, Ingest(mode) PROVE settings' = settings
  BY <1>2 DEF Ingest
<1>3. ASSUME SweepReads \/ SweepWrites \/ Reset \/ Tick \/ UNCHANGED vars
      PROVE  settings' = settings
  BY <1>3 DEF SweepReads, SweepWrites, Reset, Tick, vars, world
<1> QED
  BY <1>1, <1>2, <1>3 DEF Next

\* Every row follows the loop after every step.
LEMMA NextDriven == QueueInv /\ SoleInv /\ DrivenInv /\ [Next]_vars => DrivenInv'
<1> SUFFICES ASSUME QueueInv, SoleInv, DrivenInv, [Next]_vars, NEW a \in Ids, Exists(a)',
                    NEW start \in Row, NEW f, Unstarted(start), start.mode = rows'[a].mode,
                    IsDrive(f, start)'
             PROVE  Like(rows'[a], f[rows'[a].attempts])
  BY DEF DrivenInv, AsDriven, Unstarted, Like
<1>1. IsDrive(f, start)
  BY SettingsStay, DriveStays
<1>2. f[0] = start
  BY <1>1, DriveRows
<1>3. CASE rows'[a] = rows[a]
  <2>1. Exists(a) /\ start.mode = rows[a].mode
    BY <1>3 DEF Exists
  <2>2. Like(rows[a], f[rows[a].attempts])
    BY <1>1, <2>1 DEF DrivenInv, AsDriven
  <2> QED
    BY <1>3, <2>2
<1>4. CASE rows'[a] \in Row /\ Unstarted(rows'[a])
  BY <1>2, <1>4 DEF Like, Unstarted
<1>5. ASSUME rows[a] \in Row, Pending(rows[a]), rows[a].attempts < MaxAttempts,
             NEW t \in Nat, rows'[a] = Tried(rows[a], t)
      PROVE  Like(rows'[a], f[rows'[a].attempts])
  <2> DEFINE n == rows[a].attempts
  <2>1. n \in Nat /\ n < MaxAttempts /\ n \in 0..MaxAttempts
    <3>1. n \in Nat
      BY <1>5, RowFields
    <3>2. n < MaxAttempts
      BY <1>5
    <3>3. MaxAttempts \in Nat
      BY Limits
    <3> HIDE DEF n
    <3> QED
      BY <3>1, <3>2, <3>3
  <2>2. rows'[a].mode = rows[a].mode /\ rows'[a].attempts = n + 1
    BY <1>5, TriedRow
  <2>3. Exists(a)
    BY <1>5, RowFields DEF Exists
  <2>4. Like(rows[a], f[n])
    BY <1>1, <2>2, <2>3 DEF DrivenInv, AsDriven
  <2>5. f[n] \in Row /\ f[n + 1] = ExecuteOnce(f[n], 0)
    BY <1>1, <2>1, DriveRows
  <2>6. ~Settled(f[n])
    BY <1>5, <2>4 DEF Like, Settled, Pending
  <2>7. f[n + 1] = Tried(f[n], 0)
    BY <2>5, <2>6 DEF ExecuteOnce
  <2> HIDE DEF n
  <2>8. Like(Tried(rows[a], t), Tried(f[n], 0))
    BY <1>5, <2>4, <2>5, TriedAlike
  <2> QED
    BY <1>5, <2>2, <2>7, <2>8
<1> QED
  BY <1>3, <1>4, <1>5, RowSteps

\* With one worker an action that is worked off in batches, with delays, deaths of the
\* worker and resets, ends as the retry loop of the command line ends it in one go.
THEOREM QueueAgreesWithLoop == ASSUME OneWorker PROVE Spec => []SettledAsDriven
<1>1. Init => DrivenInv
  BY DEF Init, DrivenInv, NoRows, Exists
<1>2. Spec => []DrivenInv
  BY <1>1, NextDriven, QueueInvariance, SoleInvariance, PTL DEF Spec
<1>3. ASSUME QueueInv, DrivenInv PROVE SettledAsDriven
  <2> SUFFICES ASSUME NEW a \in Ids, Exists(a), Settled(rows[a])
               PROVE  LET driven == ExecuteWithRetry(NewRow(rows[a].incident, rows[a].mode, None))
                      IN  \A c \in {"state", "attempts", "detail"} : rows[a][c] = driven[c]
    BY DEF SettledAsDriven
  <2> DEFINE start == NewRow(rows[a].incident, rows[a].mode, None)
  <2>1. /\ rows[a] \in Row /\ clock \in Nat
        /\ rows[a].attempts <= MaxAttempts
    BY <1>3 DEF QueueInv, TableOK, WorldOK, Exists, InLimit
  <2>2. /\ rows[a].incident \in IncidentIds /\ rows[a].mode \in Modes \cup {"follow up"}
        /\ rows[a].attempts \in 0..MaxAttempts /\ None \in Nat \cup {None}
    <3>1. /\ rows[a].incident \in IncidentIds /\ rows[a].mode \in Modes \cup {"follow up"}
          /\ rows[a].attempts \in Nat
      BY <2>1, RowFields
    <3>2. rows[a].attempts \in 0..MaxAttempts
      <4>1. MaxAttempts \in Nat
        BY Limits
      <4>2. rows[a].attempts \in Nat /\ rows[a].attempts <= MaxAttempts
        BY <2>1, <3>1
      <4> QED
        BY <4>1, <4>2
    <3> QED
      BY <3>1, <3>2
  <2>3. start \in Row /\ start.mode = rows[a].mode /\ Unstarted(start)
    BY <2>1, <2>2, NewRowOK, Zenon
  <2> HIDE DEF start
  <2>4. PICK f : IsDrive(f, start) /\ ExecuteWithRetry(start) = f[MaxAttempts]
    BY DriveReturns
  <2>5. Like(rows[a], f[rows[a].attempts])
    BY <1>3, <2>3, <2>4 DEF DrivenInv, AsDriven
  <2>6. Settled(f[rows[a].attempts])
    BY <2>5 DEF Like, Settled
  <2>7. f[MaxAttempts] = f[rows[a].attempts]
    BY <2>2, <2>3, <2>4, <2>6, DriveStops
  <2>8. Like(rows[a], ExecuteWithRetry(start))
    BY <2>4, <2>5, <2>7
  <2> QED
    BY <2>8 DEF Like, start
<1> QED
  BY <1>2, <1>3, QueueInvariance, PTL
-----------------------------------------------------------------------------
(* The metrics and the audit trail agree *)

\* A row shows as many attempts as its audit trail has executions, and an id that no
\* action has had yet has none.
AuditInv ==
    \A a \in Ids : /\ Exists(a) => audit[a] = rows[a].attempts
                   /\ Fresh(a) => audit[a] = 0

\* The detail is what the action was created with until it is settled, and then tells
\* a permanent failure from everything else.
Told(row) ==
    /\ Pending(row) => row.detail = row.mode
    /\ Settled(row) => (row.state = "failed" /\ row.detail = "permanent failure"
                          <=> row.mode = "permanent_failure")

ToldInv == settings.timely => \A a \in Ids : Exists(a) => Told(rows[a])

\* A step that touches neither rows nor their audit trails.
LEMMA QuietAudit ==
    ASSUME AuditInv, UNCHANGED <<rows, audit, settings, seq>>
    PROVE  AuditInv'
BY DEF AuditInv, Exists, Fresh

\* New rows have no attempts, and their ids no audit trail.
LEMMA AddsAudit ==
    ASSUME AuditInv, AddsRows, UNCHANGED audit
    PROVE  AuditInv'
<1> SUFFICES ASSUME NEW a \in Ids
             PROVE  /\ Exists(a)' => audit[a] = rows'[a].attempts
                    /\ Fresh(a)' => audit[a] = 0
  BY DEF AuditInv
<1>1. Fresh(a)' => audit[a] = 0
  BY DEF AuditInv, AddsRows
<1>2. CASE rows'[a] = rows[a]
  BY <1>1, <1>2 DEF AuditInv, Exists
<1>3. CASE Fresh(a) /\ Unstarted(rows'[a])
  BY <1>1, <1>3 DEF AuditInv, Unstarted
<1> QED
  BY <1>2, <1>3 DEF AddsRows

\* A commit writes one audit row for each attempt that it stores.
LEMMA CommitAudit ==
    ASSUME QueueInv, SoleInv, AuditInv, NEW w \in Workers, Commit(w)
    PROVE  AuditInv'
<1> SUFFICES ASSUME NEW a \in Ids
             PROVE  /\ Exists(a)' => audit'[a] = rows'[a].attempts
                    /\ Fresh(a)' => audit'[a] = 0
  BY DEF AuditInv
<1>1. UNCHANGED <<settings, seq>>
  BY DEF Commit, world
<1>2. audit'[a] = IF mem[w][a] = snap[w][a] THEN audit[a] ELSE audit[a] + 1
  BY DEF Commit
<1>3. CASE snap[w][a] = None
  <2>1. rows'[a] = rows[a]
    BY <1>3, CommitRows
  <2>2. mem[w][a] = None
    <3>1. ItemInv(w, a)
      BY DEF QueueInv, BatchInv
    <3> QED
      BY <1>3, <3>1 DEF ItemInv
  <2>3. audit'[a] = audit[a]
    BY <1>2, <1>3, <2>2
  <2> QED
    BY <1>1, <2>1, <2>3 DEF AuditInv, Exists, Fresh
<1>4. CASE snap[w][a] # None
  <2>1. /\ rows[a] = snap[w][a] /\ rows[a] \in Row /\ rows'[a] = Tried(rows[a], now[w])
        /\ rows'[a] \in Row
    BY <1>4, CommitWritesObjects
  <2>2. now[w] \in Nat
    BY DEF QueueInv, SessionsOK
  <2>3. Exists(a) /\ ~Fresh(a)
    BY <1>4, <2>1, RowFields DEF Exists, SoleInv, FreshInv
  <2>4. ~Fresh(a)'
    <3>1. rows'[a] # None
      BY <2>1, RowFields
    <3> QED
      BY <1>1, <2>3, <3>1 DEF Fresh
  <2>5. rows'[a].attempts = rows[a].attempts + 1 /\ rows[a].attempts \in Nat
    <3>1. rows[a].attempts \in Nat
      BY <2>1, RowFields
    <3>2. rows'[a].attempts = rows[a].attempts + 1
      BY <2>1, <2>2, TriedRow
    <3> QED
      BY <3>1, <3>2
  <2>6. mem[w][a] = rows'[a]
    <3>1. ~Ahead(w, a) /\ ~Leased(w, a)
      BY DEF Commit, QueueInv, BatchInv, Ahead, Leased
    <3>2. Done(w, a)
      BY <1>4, <3>1 DEF QueueInv, BatchInv, ItemInv
    <3> QED
      BY <2>1, <3>2 DEF Done
  <2>7. mem[w][a] # snap[w][a]
    BY <2>1, <2>5, <2>6
  <2>8. audit'[a] = audit[a] + 1 /\ audit[a] = rows[a].attempts
    BY <1>2, <2>3, <2>7 DEF AuditInv
  <2> QED
    BY <2>4, <2>5, <2>8
<1> QED
  BY <1>3, <1>4

\* Attempts and audit trails agree after every step.
LEMMA NextAudit == QueueInv /\ SoleInv /\ AuditInv /\ [Next]_vars => AuditInv'
<1> SUFFICES ASSUME QueueInv, SoleInv, AuditInv, [Next]_vars PROVE AuditInv'
  OBVIOUS
<1>1. ASSUME NEW w \in Workers,
             \/ Select(w) \/ Lease(w) \/ GetLock(w) \/ Attempt(w) \/ StaleData(w)
             \/ LockTimeout(w) \/ DeadlockVictim(w) \/ Crash(w)
      PROVE  AuditInv'
  <2>1. UNCHANGED <<rows, audit, settings, seq>>
    BY <1>1 DEF Select, Lease, GetLock, TakeLease, Attempt, StaleData, LockTimeout,
                DeadlockVictim, Rollback, Crash, world
  <2> QED
    BY <2>1, QuietAudit
<1>2. ASSUME SweepReads \/ Tick \/ UNCHANGED vars PROVE AuditInv'
  <2>1. UNCHANGED <<rows, audit, settings, seq>>
    BY <1>2 DEF SweepReads, Tick, vars, world
  <2> QED
    BY <2>1, QuietAudit
<1>3. ASSUME Reset PROVE AuditInv'
  BY <1>3 DEF Reset, NoRows, AuditInv, Exists
<1>4. ASSUME NEW mode \in Modes, Ingest(mode) PROVE AuditInv'
  <2>1. UNCHANGED audit
    BY <1>4 DEF Ingest
  <2> QED
    BY <1>4, <2>1, IngestAdds, AddsAudit
<1>5. ASSUME SweepWrites PROVE AuditInv'
  <2>1. UNCHANGED audit
    BY <1>5 DEF SweepWrites
  <2> QED
    BY <1>5, <2>1, SweepAdds, AddsAudit
<1> QED
  BY <1>1, <1>2, <1>3, <1>4, <1>5, CommitAudit DEF Next, Work

\* What an attempt leaves in the detail.
LEMMA TriedTold ==
    ASSUME NEW row \in Row, NEW t \in Nat, settings.timely, Pending(row), Told(row)
    PROVE  Told(Tried(row, t))
<1> DEFINE outcome == Transport(row.detail, row.attempts + 1)
           new == Tried(row, t)
<1>1. /\ new.state = NextState(row, outcome) /\ new.mode = row.mode
      /\ new.detail = IF new.state = "retry" THEN row.detail ELSE outcome
  BY TriedRow
<1>2. row.detail = row.mode
  BY DEF Told
<1>3. outcome = "permanent failure" <=> row.mode = "permanent_failure"
  BY <1>2 DEF Transport
<1>4. row.mode = "permanent_failure" => NextState(row, outcome) = "failed"
  BY <1>2, <1>3 DEF NextState
<1>5. NextState(row, outcome) \in {"succeeded", "failed", "retry"}
  BY DEF NextState
<1>6. outcome = "permanent failure" => NextState(row, outcome) = "failed"
  BY <1>3, <1>4
<1> HIDE DEF outcome, new
<1> QED
  BY <1>1, <1>2, <1>3, <1>4, <1>5, <1>6 DEF Told, Pending, Settled, new

\* The details tell what happened after every step.
LEMMA NextTold == QueueInv /\ SoleInv /\ ToldInv /\ [Next]_vars => ToldInv'
<1> SUFFICES ASSUME QueueInv, SoleInv, ToldInv, [Next]_vars, settings'.timely,
                    NEW a \in Ids, Exists(a)'
             PROVE  Told(rows'[a])
  BY DEF ToldInv, Told, Pending, Settled
<1>1. settings.timely
  BY SettingsStay
<1>2. CASE rows'[a] = rows[a]
  BY <1>1, <1>2 DEF ToldInv, Exists
<1>3. CASE rows'[a] \in Row /\ Unstarted(rows'[a])
  BY <1>3 DEF Unstarted, Told, Pending, Settled
<1>4. ASSUME rows[a] \in Row, Pending(rows[a]), NEW t \in Nat, rows'[a] = Tried(rows[a], t)
      PROVE  Told(rows'[a])
  <2>1. Told(rows[a])
    BY <1>1, <1>4, RowFields DEF ToldInv, Exists
  <2> QED
    BY <1>1, <1>4, <2>1, TriedTold
<1> QED
  BY <1>2, <1>3, <1>4, RowSteps

-----------------------------------------------------------------------------
(* Sums over finite sets *)

\* The element that the fold of MapThenSumSet takes from a set.
Taken(s) == CHOOSE x \in s : TRUE

\* The sums of f over the subsets of S.
IsSum(it, S, f) ==
    it = [s \in SUBSET S |-> IF s = {} THEN 0 ELSE f[Taken(s)] + it[s \ {Taken(s)}]]

\* Without the element that was taken a set is smaller by one.
LEMMA TakeOne ==
    ASSUME NEW s, IsFiniteSet(s), s # {}
    PROVE  /\ Taken(s) \in s /\ IsFiniteSet(s \ {Taken(s)})
           /\ Cardinality(s) \in Nat /\ Cardinality(s \ {Taken(s)}) \in Nat
           /\ Cardinality(s) = Cardinality(s \ {Taken(s)}) + 1
<1>1. Taken(s) \in s
  BY DEF Taken
<1>2. IsFiniteSet(s \ {Taken(s)}) /\ Cardinality(s \ {Taken(s)}) = Cardinality(s) - 1
  BY <1>1, FS_RemoveElement
<1>3. Cardinality(s) \in Nat /\ Cardinality(s \ {Taken(s)}) \in Nat
  BY <1>2, FS_CardinalityType
<1> QED
  BY <1>1, <1>2, <1>3

\* What holds of the empty set, and of every set if it holds of the set without the
\* element that is taken, holds of all subsets of a finite set.
LEMMA BySize ==
    ASSUME NEW S, IsFiniteSet(S), NEW P, {} \in P,
           \A s \in SUBSET S : s # {} /\ s \ {Taken(s)} \in P => s \in P
    PROVE  \A s \in SUBSET S : s \in P
<1> DEFINE N == Cardinality(S)
           T == {n \in Nat : \A s \in SUBSET S : Cardinality(s) = n => s \in P}
<1>1. \A s \in SUBSET S : IsFiniteSet(s) /\ Cardinality(s) \in Nat /\ Cardinality(s) <= N
  BY FS_Subset, FS_CardinalityType
<1>2. 0 \in T
  BY <1>1, FS_EmptySet
<1>3. ASSUME NEW n \in Nat, n \in T PROVE n + 1 \in T
  <2> SUFFICES ASSUME NEW s \in SUBSET S, Cardinality(s) = n + 1 PROVE s \in P
    OBVIOUS
  <2>1. s # {}
    BY FS_EmptySet
  <2>2. IsFiniteSet(s)
    BY <1>1
  <2>3. /\ Cardinality(s) = Cardinality(s \ {Taken(s)}) + 1
        /\ Cardinality(s \ {Taken(s)}) \in Nat
    BY <2>1, <2>2, TakeOne
  <2>4. Cardinality(s \ {Taken(s)}) = n
    BY <2>3
  <2>5. s \ {Taken(s)} \in P
    BY <1>3, <2>4
  <2> QED
    BY <2>1, <2>5
<1>4. N \in Nat
  BY FS_CardinalityType
<1>5. \A n \in 0..N : n \in T
  <2> HIDE DEF N, T
  <2> QED
    BY <1>2, <1>3, <1>4, UpTo
<1>6. \A s \in SUBSET S : Cardinality(s) \in 0..N
  <2> HIDE DEF N
  <2> QED
    BY <1>1, <1>4
<1> QED
  BY <1>5, <1>6

\* There are sums over the subsets of a finite set.
LEMMA SumExists ==
    ASSUME NEW S, IsFiniteSet(S), NEW f
    PROVE  \E it : IsSum(it, S, f)
<1> DEFINE N == Cardinality(S)
           Small(k) == {s \in SUBSET S : Cardinality(s) <= k}
           Partial(g, k) == g = [s \in Small(k) |->
                                   IF s = {} THEN 0 ELSE f[Taken(s)] + g[s \ {Taken(s)}]]
           T == {k \in Nat : \E g : Partial(g, k)}
<1>1. \A s \in SUBSET S : IsFiniteSet(s) /\ Cardinality(s) \in Nat /\ Cardinality(s) <= N
  BY FS_Subset, FS_CardinalityType
<1>2. \A s \in SUBSET S : s # {} =>
        /\ s \ {Taken(s)} \in SUBSET S /\ Cardinality(s \ {Taken(s)}) \in Nat
        /\ Cardinality(s) = Cardinality(s \ {Taken(s)}) + 1
  BY <1>1, TakeOne
<1>3. 0 \in T
  <2> DEFINE g == [s \in Small(0) |-> 0]
  <2>1. \A s \in Small(0) : s = {}
    BY <1>1, FS_EmptySet
  <2>2. g = [s \in Small(0) |-> IF s = {} THEN 0 ELSE f[Taken(s)] + g[s \ {Taken(s)}]]
    BY <2>1
  <2> QED
    BY <2>2, Zenon
<1>4. ASSUME NEW k \in Nat, k \in T PROVE k + 1 \in T
  <2>1. PICK g : Partial(g, k)
    BY <1>4
  <2> DEFINE h == [s \in Small(k + 1) |->
                     IF s \in Small(k) THEN g[s] ELSE f[Taken(s)] + g[s \ {Taken(s)}]]
  <2>2. \A s \in Small(k + 1) : h[s] = IF s = {} THEN 0 ELSE f[Taken(s)] + h[s \ {Taken(s)}]
    <3> TAKE s \in Small(k + 1)
    <3>1. s \in SUBSET S /\ Cardinality(s) \in Nat /\ Cardinality(s) <= k + 1
      BY <1>1
    <3>2. CASE s = {}
      <4>1. s \in Small(k)
        BY <3>1, <3>2, FS_EmptySet
      <4>2. g[s] = 0
        BY <2>1, <3>2, <4>1
      <4> QED
        BY <3>2, <4>1, <4>2
    <3>3. CASE s # {}
      <4> DEFINE r == s \ {Taken(s)}
      <4>1. r \in SUBSET S /\ Cardinality(r) \in Nat /\ Cardinality(s) = Cardinality(r) + 1
        BY <1>2, <3>1, <3>3
      <4>2. Cardinality(r) <= k /\ Cardinality(r) <= k + 1
        BY <3>1, <4>1
      <4>3. r \in Small(k) /\ r \in Small(k + 1)
        BY <4>1, <4>2
      <4>4. h[r] = g[r]
        BY <4>3
      <4>5. CASE s \in Small(k)
        <5>1. g[s] = f[Taken(s)] + g[r]
          BY <2>1, <3>3, <4>5
        <5> QED
          BY <3>3, <4>4, <4>5, <5>1
      <4>6. CASE s \notin Small(k)
        BY <3>3, <4>4, <4>6
      <4> QED
        BY <4>5, <4>6
    <3> QED
      BY <3>2, <3>3
  <2>3. Partial(h, k + 1)
    BY <2>2
  <2>4. k + 1 \in Nat
    OBVIOUS
  <2> HIDE DEF h, Partial
  <2> QED
    BY <2>3, <2>4, Zenon
<1>5. N \in Nat /\ N \in 0..N
  BY FS_CardinalityType
<1>6. \A n \in 0..N : n \in T
  <2> HIDE DEF N, T
  <2> QED
    BY <1>3, <1>4, <1>5, UpTo
<1>7. PICK g : Partial(g, N)
  BY <1>5, <1>6
<1>8. Small(N) = SUBSET S
  BY <1>1
<1> QED
  BY <1>7, <1>8 DEF IsSum

\* The sums of a number for each element are numbers, and the sum without the first of
\* each is less by the elements that have one.
LEMMA SumsDiffer ==
    ASSUME NEW S, IsFiniteSet(S), NEW f, NEW g, NEW x, NEW y, IsSum(x, S, f), IsSum(y, S, g),
           \A a \in S : g[a] \in Nat /\ f[a] = IF g[a] = 0 THEN 0 ELSE g[a] - 1
    PROVE  x[S] = y[S] - Cardinality({a \in S : g[a] > 0})
<1> DEFINE Some(s) == {a \in s : g[a] > 0}
           P == {s \in SUBSET S : /\ x[s] \in Nat /\ y[s] \in Nat
                                  /\ x[s] = y[s] - Cardinality(Some(s))}
<1>1. {} \in P
  <2>1. x[{}] = 0 /\ y[{}] = 0
    BY DEF IsSum
  <2>2. Some({}) = {} /\ Cardinality({}) = 0
    BY FS_EmptySet
  <2> QED
    BY <2>1, <2>2
<1>2. ASSUME NEW s \in SUBSET S, s # {}, s \ {Taken(s)} \in P PROVE s \in P
  <2> DEFINE r == s \ {Taken(s)}
             b == Taken(s)
  <2>1. IsFiniteSet(s)
    BY FS_Subset
  <2>2. b \in s /\ b \in S /\ IsFiniteSet(r) /\ r \in SUBSET S
    BY <2>1, <1>2, TakeOne
  <2>3. x[s] = f[b] + x[r] /\ y[s] = g[b] + y[r]
    BY <1>2 DEF IsSum
  <2>4. x[r] \in Nat /\ y[r] \in Nat /\ x[r] = y[r] - Cardinality(Some(r))
    BY <1>2
  <2>5. IsFiniteSet(Some(r)) /\ Cardinality(Some(r)) \in Nat
    BY <2>2, FS_Subset, FS_CardinalityType
  <2>6. g[b] \in Nat /\ f[b] = IF g[b] = 0 THEN 0 ELSE g[b] - 1
    BY <2>2
  <2>7. CASE g[b] = 0
    <3>1. Some(s) = Some(r)
      BY <2>7
    <3>2. f[b] = 0
      BY <2>6, <2>7
    <3> HIDE DEF Some, r, b
    <3>3. x[s] = x[r] /\ y[s] = y[r]
      BY <2>3, <2>4, <2>7, <3>2
    <3> QED
      BY <2>4, <3>1, <3>3
  <2>8. CASE g[b] # 0
    <3>1. g[b] > 0
      BY <2>6, <2>8
    <3>2. Some(s) = Some(r) \cup {b} /\ b \notin Some(r)
      BY <2>2, <3>1
    <3>3. Cardinality(Some(s)) = Cardinality(Some(r)) + 1
      BY <2>5, <3>2, FS_AddElement
    <3>4. f[b] = g[b] - 1
      BY <2>6, <2>8
    <3> HIDE DEF Some, r, b
    <3>5. /\ f[b] + x[r] \in Nat /\ g[b] + y[r] \in Nat
          /\ f[b] + x[r] = (g[b] + y[r]) - (Cardinality(Some(r)) + 1)
      BY <2>4, <2>5, <2>6, <3>1, <3>4
    <3> QED
      BY <2>3, <3>3, <3>5
  <2> QED
    BY <2>7, <2>8
<1>3. \A s \in SUBSET S : s \in P
  <2> HIDE DEF P
  <2> QED
    BY <1>1, <1>2, BySize
<1> QED
  BY <1>3

-----------------------------------------------------------------------------
(* The counters of GET /metrics *)

\* There are finitely many actions, each pending or settled.
LEMMA ActionsFinite ==
    ASSUME QueueInv
    PROVE  /\ IsFiniteSet({a \in Ids : Exists(a)})
           /\ \A a \in Ids : Exists(a) => (Pending(rows[a]) <=> ~Settled(rows[a]))
<1>1. IsFiniteSet(Ids)
  BY IdNumbers, FS_Interval DEF Ids
<1>2. IsFiniteSet({a \in Ids : Exists(a)})
  BY <1>1, FS_Subset
<1>3. ASSUME NEW a \in Ids, Exists(a) PROVE Pending(rows[a]) <=> ~Settled(rows[a])
  <2>1. rows[a] \in Row
    BY <1>3 DEF QueueInv, TableOK, Exists
  <2>2. rows[a].state \in States
    BY <2>1, RowFields
  <2> QED
    BY <2>2 DEF States, Pending, Settled
<1> QED
  BY <1>2, <1>3

\* Every action is waiting or processed.
LEMMA EachCounted ==
    ASSUME QueueInv
    PROVE  Metrics.queue_backlog + Metrics.actions_processed = Cardinality({a \in Ids : Exists(a)})
<1> DEFINE A == {a \in Ids : Exists(a)}
           W == {a \in Ids : Exists(a) /\ Pending(rows[a])}
           D == {a \in A : Settled(rows[a])}
<1>1. IsFiniteSet(A) /\ W \subseteq A /\ D \subseteq A
  BY ActionsFinite
<1>2. IsFiniteSet(W) /\ IsFiniteSet(D)
  BY <1>1, FS_Subset
<1>3. W \cup D = A /\ W \cap D = {}
  <2>1. \A a \in Ids : Exists(a) => (Pending(rows[a]) <=> ~Settled(rows[a]))
    BY ActionsFinite
  <2> QED
    BY <2>1
<1>4. Metrics.queue_backlog = Cardinality(W) /\ Metrics.actions_processed = Cardinality(D)
  BY DEF Metrics, Backlog
<1> HIDE DEF A, W, D
<1>5. Cardinality(A) = Cardinality(W) + Cardinality(D) - Cardinality(W \cap D)
  BY <1>2, <1>3, FS_Union
<1>6. Cardinality(W) \in Nat /\ Cardinality(D) \in Nat /\ Cardinality(W \cap D) = 0
  BY <1>2, <1>3, FS_CardinalityType, FS_EmptySet
<1>7. Cardinality(A) = Cardinality(W) + Cardinality(D)
  BY <1>5, <1>6
<1> QED
  BY <1>4, <1>7 DEF A

\* MapThenSumSet over the retries that rows show takes the sums defined above.
LEMMA RetriesSummed ==
    ASSUME NEW S \in SUBSET Ids, IsFiniteSet(S)
    PROVE  \E it : /\ IsSum(it, S, [a \in Ids |-> Retries(rows[a])])
                   /\ MapThenSumSet(LAMBDA a : Retries(rows[a]), S) = it[S]
<1> DEFINE f == [a \in Ids |-> Retries(rows[a])]
           Body(it) == [s \in SUBSET S |-> IF s = {} THEN 0 ELSE
                          Retries(rows[CHOOSE x \in s : TRUE]) + it[s \ {CHOOSE x \in s : TRUE}]]
           fold == CHOOSE it : it = Body(it)
<1>1. \A it : IsSum(it, S, f) <=> it = Body(it)
  <2> TAKE it
  <2>1. \A s \in SUBSET S : s # {} =>
          f[Taken(s)] = Retries(rows[CHOOSE x \in s : TRUE])
    BY DEF Taken
  <2>2. [s \in SUBSET S |-> IF s = {} THEN 0 ELSE f[Taken(s)] + it[s \ {Taken(s)}]] = Body(it)
    <3> HIDE DEF f
    <3> QED
      BY <2>1 DEF Taken
  <2> QED
    BY <2>2, Zenon DEF IsSum
<1>2. \E it : it = Body(it)
  <2> HIDE DEF f, Body
  <2> QED
    BY <1>1, SumExists, Zenon
<1>3. fold = Body(fold)
  <2> HIDE DEF Body
  <2> QED
    BY <1>2, Zenon
<1>4. MapThenSumSet(LAMBDA a : Retries(rows[a]), S) = fold[S]
  BY DEF MapThenSumSet, MapThenFoldSet
<1> HIDE DEF fold, Body
<1> QED
  BY <1>1, <1>3, <1>4, Zenon

\* MapThenSumSet over audit trails takes them too.
LEMMA AuditSummed ==
    ASSUME NEW S \in SUBSET Ids, IsFiniteSet(S)
    PROVE  \E it : IsSum(it, S, audit) /\ MapThenSumSet(LAMBDA a : audit[a], S) = it[S]
<1> DEFINE Body(it) == [s \in SUBSET S |-> IF s = {} THEN 0 ELSE
                          audit[CHOOSE x \in s : TRUE] + it[s \ {CHOOSE x \in s : TRUE}]]
           fold == CHOOSE it : it = Body(it)
<1>1. \A it : IsSum(it, S, audit) <=> it = Body(it)
  BY Zenon DEF IsSum, Taken
<1>2. \E it : it = Body(it)
  <2> HIDE DEF Body
  <2> QED
    BY <1>1, SumExists, Zenon
<1>3. fold = Body(fold)
  <2> HIDE DEF Body
  <2> QED
    BY <1>2, Zenon
<1>4. MapThenSumSet(LAMBDA a : audit[a], S) = fold[S]
  BY DEF MapThenSumSet, MapThenFoldSet
<1> HIDE DEF fold, Body
<1> QED
  BY <1>1, <1>3, <1>4, Zenon

\* The retries are the audited executions after the first of each action.
LEMMA RetriesCounted ==
    ASSUME QueueInv, AuditInv
    PROVE  LET actions == {a \in Ids : Exists(a)}
           IN  Metrics.retries = MapThenSumSet(LAMBDA a : audit[a], actions)
                                   - Cardinality({a \in actions : audit[a] > 0})
<1> DEFINE A == {a \in Ids : Exists(a)}
           f == [a \in Ids |-> Retries(rows[a])]
<1>1. IsFiniteSet(A) /\ A \in SUBSET Ids
  BY ActionsFinite
<1>2. PICK x : IsSum(x, A, f) /\ MapThenSumSet(LAMBDA a : Retries(rows[a]), A) = x[A]
  <2> HIDE DEF A
  <2> QED
    BY <1>1, RetriesSummed
<1>3. PICK y : IsSum(y, A, audit) /\ MapThenSumSet(LAMBDA a : audit[a], A) = y[A]
  <2> HIDE DEF A
  <2> QED
    BY <1>1, AuditSummed
<1>4. Metrics.retries = MapThenSumSet(LAMBDA a : Retries(rows[a]), A)
  BY DEF Metrics
<1>5. \A a \in A : audit[a] \in Nat /\ f[a] = IF audit[a] = 0 THEN 0 ELSE audit[a] - 1
  BY DEF QueueInv, WorldOK, AuditInv, Retries
<1>6. x[A] = y[A] - Cardinality({a \in A : audit[a] > 0})
  <2> HIDE DEF A, f
  <2> QED
    BY <1>1, <1>2, <1>3, <1>5, SumsDiffer
<1> QED
  BY <1>2, <1>3, <1>4, <1>6

\* With one worker GET /metrics tells what happened, for any number of actions: every
\* action counts as waiting or processed, retries are the audited executions after the
\* first of each action, and permanent failures are the actions asked to fail.
THEOREM MetricsAgree == ASSUME OneWorker PROVE Spec => []MetricsAccount
<1>1. Init => AuditInv /\ ToldInv
  BY DEF Init, AuditInv, ToldInv, NoRows, Exists
<1>2. Spec => [](AuditInv /\ ToldInv)
  BY <1>1, NextAudit, NextTold, QueueInvariance, SoleInvariance, PTL DEF Spec
<1>3. ASSUME QueueInv, AuditInv, ToldInv PROVE MetricsAccount
  <2>1. ASSUME settings.timely
        PROVE  {a \in {b \in {c \in Ids : Exists(c)} : rows[b].state = "failed"} :
                  rows[a].detail = "permanent failure"}
                 = {a \in {b \in Ids : Exists(b)} :
                      rows[a].mode = "permanent_failure" /\ Settled(rows[a])}
    BY <1>3, <2>1 DEF ToldInv, Told, Settled
  <2>2. Metrics.permanentFailures =
          Cardinality({a \in {b \in {c \in Ids : Exists(c)} : rows[b].state = "failed"} :
                         rows[a].detail = "permanent failure"})
    BY DEF Metrics
  <2> HIDE DEF Metrics
  <2> QED
    BY <1>3, <2>1, <2>2, EachCounted, RetriesCounted DEF MetricsAccount
<1> QED
  BY <1>2, <1>3, QueueInvariance, PTL
=============================================================================
