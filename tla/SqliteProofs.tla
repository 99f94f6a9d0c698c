---------------------------- MODULE SqliteProofs ----------------------------
(***************************************************************************)
(* What the one write lock of SQLite gives event ingestion: from the flush *)
(* of its event to its commit a request is alone, so that what it has      *)
(* tested still holds when it commits.  None of this is true of PostgreSQL *)
(* (run cooldown_race_postgres shows it for the cooldown).                 *)
(***************************************************************************)
EXTENDS IngestProofs, FiniteSetTheorems

\* The request has flushed its event: its transaction is open.
Writing(r) == pc[r] \in {"match", "cooldown", "incident", "backlog", "commit"}

\* The write lock is held by the writing requests, of which there is at most one.
LockInv ==
    /\ \A r \in Requests : held[r] = IF Writing(r) THEN {"db"} ELSE {}
    /\ \A r, q \in Requests : Writing(r) /\ Writing(q) => r = q

\* An incident opened at t under a rule with this cooldown respects those there are.
Clear(asset, cooldown, t) ==
    \A i \in incidents : i.asset = asset /\ cooldown > 0 => i.at < t - cooldown

\* The incident j is not older than any there is, and respects them.
Latest(j) == /\ j.at <= clock
             /\ \A i \in incidents : i.at <= j.at
             /\ Clear(j.asset, j.rule.cooldown, j.at)

\* The cooldown that a request has tested still holds.
CooldownInv ==
    /\ \A i \in incidents : i.at <= clock
    /\ \A r \in Requests : pc[r] = "incident" =>
         Clear(payload[r].asset, rule[r].cooldown, clock)
    /\ \A r \in Requests : pc[r] \in {"backlog", "commit"} /\ draft[r].incident # None =>
         Latest(draft[r].incident)

\* The room in the queue that a request has seen is still there.
RoomInv ==
    \A r \in Requests : pc[r] = "commit" /\ draft[r].action =>
        Cardinality(backlog) < MaxQueueBacklog

SerialInv == /\ LockInv
             /\ CooldownInv /\ CooldownRespected
             /\ RoomInv /\ BacklogBounded
             /\ HitsMatchReplays

SqliteInv == AnswerInv /\ (Backend = "sqlite" => SerialInv)

-----------------------------------------------------------------------------
(* The write lock *)

\* A step that neither enters nor leaves the writing part.
LEMMA LockFrame ==
    ASSUME LockInv, UNCHANGED held, \A q \in Requests : Writing(q)' <=> Writing(q)
    PROVE  LockInv'
BY DEF LockInv

\* A request that ends gives the lock back.
LEMMA LockReleased ==
    ASSUME LockInv, TypeOK, NEW r \in Requests,
           pc' = [pc EXCEPT ![r] = "done"], held' = [held EXCEPT ![r] = {}]
    PROVE  LockInv'
BY DEF LockInv, TypeOK, Writing

\* The steps of one request: only the flush takes the lock, when nobody has it.
LEMMA RequestLockInv ==
    ASSUME Backend = "sqlite", LockInv, TypeOK, NEW r \in Requests,
           Begin(r) \/ Step(r) \/ LockTimeout(r) \/ Crash(r) \/ ActionSettles(r)
    PROVE  LockInv'
<1>1. CASE Begin(r) \/ Lookup(r) \/ Poll(r)
  BY <1>1, LockFrame DEF TypeOK, Writing, Begin, Lookup, Poll, LoadIfDone
<1>2. CASE Claim(r)
  BY <1>2, LockFrame DEF TypeOK, Writing, Claim
<1>3. CASE MatchRule(r) \/ CheckCooldown(r) \/ CreateIncident(r) \/ CheckBacklog(r)
  <2>1. UNCHANGED held /\ Writing(r) /\ Writing(r)'
    BY <1>3 DEF TypeOK, Writing, Skip, MatchRule, CheckCooldown, CreateIncident, CheckBacklog
  <2>2. \A q \in Requests \ {r} : pc'[q] = pc[q]
    BY <1>3 DEF TypeOK, Skip, MatchRule, CheckCooldown, CreateIncident, CheckBacklog
  <2>3. \A q \in Requests : Writing(q)' <=> Writing(q)
    BY <2>1, <2>2 DEF Writing
  <2> QED
    BY <2>1, <2>3, LockFrame
<1>4. CASE WaitTimesOut(r) \/ Replay(r) \/ ReplayMissing(r) \/ Commit(r) \/ LockTimeout(r)
           \/ Crash(r)
  BY <1>4, LockReleased
     DEF WaitTimesOut, Replay, ReplayMissing, Commit, LockTimeout, Crash, Fail, Finish
<1>5. CASE ReadAsset(r)
  <2>1. CASE Fail(r, "not_found")
    BY <2>1, LockReleased DEF Fail, Finish
  <2>2. CASE ~Fail(r, "not_found")
    BY <1>5, <2>2, LockFrame DEF TypeOK, Writing, ReadAsset
  <2> QED
    BY <2>1, <2>2
<1>6. CASE FlushEvent(r)
  BY <1>6 DEF LockInv, TypeOK, Writing, FlushEvent, Free, Lock
<1>7. CASE ActionSettles(r)
  BY <1>7, LockFrame DEF Writing, ActionSettles
<1> QED
  BY <1>1, <1>2, <1>3, <1>4, <1>5, <1>6, <1>7 DEF Step

\* At most one request writes at a time.
LEMMA NextLockInv ==
    ASSUME Backend = "sqlite", LockInv, TypeOK, [Next]_vars
    PROVE  LockInv'
<1>1. CASE \E r \in Requests : Begin(r) \/ Step(r) \/ LockTimeout(r) \/ Crash(r)
                               \/ ActionSettles(r)
  BY <1>1, RequestLockInv
<1>2. CASE (\E a \in Assets : CreateAsset(a)) \/ (\E rl \in RuleSet : CreateRule(rl))
           \/ SeedDemo \/ Reset \/ Tick \/ UNCHANGED vars
  BY <1>2, LockFrame DEF Writing, CreateAsset, CreateRule, SeedDemo, Reset, Tick, vars
<1> QED
  BY <1>1, <1>2 DEF Next

-----------------------------------------------------------------------------
(* What was tested still holds *)

WriterInv == CooldownInv /\ CooldownRespected /\ RoomInv /\ BacklogBounded

\* Numbers of an incident.
LEMMA IncidentFields ==
    ASSUME NEW i \in IncidentRow
    PROVE  i.at \in Nat /\ i.rule \in RuleSet /\ i.rule.cooldown \in Nat
BY RuleShape DEF IncidentRow, Rule

\* A step that writes no draft and commits no incident or action.
LEMMA QuietWriter ==
    ASSUME WriterInv, UNCHANGED <<clock, incidents, backlog, payload, rule, draft>>,
           \A q \in Requests : pc'[q] \in {"incident", "backlog", "commit"} => pc'[q] = pc[q]
    PROVE  WriterInv'
<1> USE DEF WriterInv
<1>1. CooldownInv'
  BY DEF CooldownInv, Latest, Clear
<1>2. CooldownRespected' /\ RoomInv' /\ BacklogBounded'
  BY DEF CooldownRespected, RoomInv, BacklogBounded
<1> QED
  BY <1>1, <1>2

\* Time only takes incidents out of the cooldown.
LEMMA TickWriterInv ==
    ASSUME AnswerInv, WriterInv, Tick
    PROVE  WriterInv'
<1> USE DEF WriterInv
<1>1. clock \in Nat /\ clock' = clock + 1
  BY DEF AnswerInv, IndInv, TypeOK, Tick
<1>2. UNCHANGED <<incidents, backlog, pc, payload, rule, draft>>
  BY DEF Tick, tables, session
<1>3. \A i \in incidents : i.at \in Nat
  BY IncidentFields DEF AnswerInv, IndInv, TypeOK
<1>4. ASSUME NEW r \in Requests, pc[r] = "incident"
      PROVE  Clear(payload[r].asset, rule[r].cooldown, clock)'
  <2>1. rule[r].cooldown \in Nat
    BY <1>4, RuleShape DEF AnswerInv, IndInv, SessionInv, Rule
  <2> QED
    BY <1>1, <1>2, <1>3, <1>4, <2>1 DEF CooldownInv, Clear
<1>5. ASSUME NEW r \in Requests, pc[r] \in {"backlog", "commit"}, draft[r].incident # None
      PROVE  Latest(draft[r].incident)'
  <2>1. draft[r].incident.at \in Nat
    BY <1>5, ResultFields, IncidentFields DEF AnswerInv, IndInv, TypeOK
  <2> QED
    BY <1>1, <1>2, <1>5, <2>1 DEF CooldownInv, Latest, Clear
<1>6. CooldownInv'
  BY <1>1, <1>2, <1>3, <1>4, <1>5 DEF CooldownInv
<1> QED
  BY <1>2, <1>6 DEF CooldownRespected, RoomInv, BacklogBounded

\* A skipped event has no draft that needs testing.
LEMMA SkipWriterInv ==
    ASSUME AnswerInv, WriterInv, NEW r \in Requests, NEW why \in Reasons, Skip(r, why),
           pc[r] \in {"match", "cooldown"},
           UNCHANGED <<clock, incidents, backlog, payload>>,
           \A q \in Requests \ {r} : rule'[q] = rule[q]
    PROVE  WriterInv'
<1> USE DEF WriterInv
<1>a. draft[r].incident = None /\ ~draft[r].action
  BY DEF AnswerInv, DraftInv
<1>b. draft'[r].incident = draft[r].incident /\ draft'[r].action = draft[r].action
  BY DEF AnswerInv, IndInv, TypeOK, Skip, Result
<1>c. pc'[r] = "commit" /\ \A q \in Requests \ {r} : pc'[q] = pc[q] /\ draft'[q] = draft[q]
  BY DEF AnswerInv, IndInv, TypeOK, Skip
<1>1. /\ pc'[r] = "commit" /\ draft'[r].incident = None /\ ~draft'[r].action
      /\ \A q \in Requests \ {r} : pc'[q] = pc[q] /\ draft'[q] = draft[q]
  BY <1>a, <1>b, <1>c
<1>2. CooldownInv'
  BY <1>1 DEF CooldownInv, Latest, Clear
<1>3. RoomInv'
  BY <1>1 DEF RoomInv
<1> QED
  BY <1>2, <1>3 DEF CooldownRespected, BacklogBounded

\* _in_cooldown has looked at every incident of the asset.
LEMMA CheckCooldownWriterInv ==
    ASSUME AnswerInv, WriterInv, NEW r \in Requests, CheckCooldown(r)
    PROVE  WriterInv'
<1> USE DEF WriterInv
<1>1. CASE Skip(r, "cooldown")
  BY <1>1, SkipWriterInv DEF CheckCooldown, Reasons, tables, session
<1>2. CASE ~Skip(r, "cooldown")
  <2>1. /\ pc[r] = "cooldown" /\ pc' = [pc EXCEPT ![r] = "incident"]
        /\ ~InCooldown(payload[r].asset, rule[r].cooldown)
        /\ UNCHANGED <<clock, incidents, backlog, payload, rule, draft>>
    BY <1>2 DEF CheckCooldown, tables
  <2>2. rule[r].cooldown \in Nat /\ clock \in Nat /\ \A i \in incidents : i.at \in Nat
    BY <2>1, RuleShape, IncidentFields DEF AnswerInv, IndInv, TypeOK, SessionInv, Rule
  <2>3. Clear(payload[r].asset, rule[r].cooldown, clock)
    BY <2>1, <2>2 DEF InCooldown, Clear
  <2>4. CooldownInv'
    BY <2>1, <2>3 DEF CooldownInv, Clear, Latest, AnswerInv, IndInv, TypeOK
  <2>5. RoomInv'
    BY <2>1 DEF RoomInv, AnswerInv, IndInv, TypeOK
  <2> QED
    BY <2>1, <2>4, <2>5 DEF CooldownRespected, BacklogBounded
<1> QED
  BY <1>1, <1>2

\* The incident of a request that has passed the test is the latest.
LEMMA CreateIncidentWriterInv ==
    ASSUME AnswerInv, WriterInv, NEW r \in Requests, CreateIncident(r)
    PROVE  WriterInv'
<1> USE DEF WriterInv
<1> DEFINE j == [event |-> r, asset |-> payload[r].asset, rule |-> rule[r], at |-> clock]
<1>1. /\ pc[r] = "incident" /\ pc'[r] \in {"commit", "backlog"}
      /\ \A q \in Requests \ {r} : pc'[q] = pc[q] /\ draft'[q] = draft[q]
      /\ UNCHANGED <<clock, incidents, backlog, payload, rule>>
  BY DEF CreateIncident, tables, AnswerInv, IndInv, TypeOK
<1>2. draft'[r].incident = j /\ ~draft'[r].action
  BY DEF CreateIncident, AnswerInv, IndInv, TypeOK, DraftInv, Result
<1>3. clock \in Nat
  BY DEF AnswerInv, IndInv, TypeOK
<1>4. Latest(j)
  BY <1>1, <1>3 DEF CooldownInv, Latest
<1>5. Latest(j)'
  BY <1>1, <1>4 DEF Latest, Clear
<1>6. CooldownInv'
  BY <1>1, <1>2, <1>5 DEF CooldownInv, Latest, Clear
<1>7. RoomInv'
  BY <1>1, <1>2 DEF RoomInv
<1> QED
  BY <1>1, <1>6, <1>7 DEF CooldownRespected, BacklogBounded

\* An action is drafted only when there is room for it.
LEMMA CheckBacklogWriterInv ==
    ASSUME AnswerInv, WriterInv, NEW r \in Requests, CheckBacklog(r)
    PROVE  WriterInv'
<1> USE DEF WriterInv
<1>1. /\ pc[r] = "backlog" /\ pc'[r] = "commit"
      /\ \A q \in Requests \ {r} : pc'[q] = pc[q] /\ draft'[q] = draft[q]
      /\ UNCHANGED <<clock, incidents, backlog, payload, rule>>
  BY DEF CheckBacklog, tables, AnswerInv, IndInv, TypeOK
<1>2. draft'[r].incident = draft[r].incident
  BY DEF CheckBacklog, AnswerInv, IndInv, TypeOK, Result
<1>3. draft'[r].action => ~BacklogFull
  <2>1. ASSUME BacklogFull PROVE draft'[r].action = draft[r].action
    BY <2>1 DEF CheckBacklog, AnswerInv, IndInv, TypeOK, Result
  <2>2. ~draft[r].action
    BY <1>1 DEF AnswerInv, DraftInv
  <2> QED
    BY <2>1, <2>2
<1>4. Cardinality(backlog) \in Nat
  BY FS_Subset, FS_CardinalityType, FiniteRequests DEF AnswerInv, IndInv, TypeOK
<1>5. CooldownInv'
  BY <1>1, <1>2 DEF CooldownInv, Latest, Clear
<1>6. RoomInv'
  BY <1>1, <1>3, <1>4, Numbers DEF RoomInv, BacklogFull
<1> QED
  BY <1>1, <1>5, <1>6 DEF CooldownRespected, BacklogBounded

\* The order of two incidents that are both there, or one of which is the latest.
Respects(i, m) ==
    i.asset = m.asset /\ i # m =>
        /\ i.at < m.at /\ m.rule.cooldown > 0 => i.at < m.at - m.rule.cooldown
        /\ i.at = m.at => i.rule.cooldown = 0 \/ m.rule.cooldown = 0

\* Adding the latest incident keeps the cooldowns.
LEMMA LatestRespects ==
    ASSUME NEW j \in IncidentRow, incidents \subseteq IncidentRow, Latest(j),
           CooldownRespected
    PROVE  \A i, m \in incidents \cup {j} :
             i.asset = m.asset /\ i # m =>
               /\ i.at < m.at /\ m.rule.cooldown > 0 => i.at < m.at - m.rule.cooldown
               /\ i.at = m.at => i.rule.cooldown = 0 \/ m.rule.cooldown = 0
<1>1. ASSUME NEW i \in incidents, NEW m \in incidents PROVE Respects(i, m)
  BY <1>1 DEF CooldownRespected, Respects
<1>2. ASSUME NEW i \in incidents PROVE Respects(i, j) /\ Respects(j, i)
  <2>1. /\ i.at \in Nat /\ i.rule.cooldown \in Nat
        /\ j.at \in Nat /\ j.rule.cooldown \in Nat
    BY <1>2, IncidentFields
  <2>2. /\ i.at <= j.at
        /\ i.asset = j.asset /\ j.rule.cooldown > 0 => i.at < j.at - j.rule.cooldown
    BY <1>2 DEF Latest, Clear
  <2> QED
    BY <2>1, <2>2 DEF Respects
<1>3. Respects(j, j)
  BY DEF Respects
<1>4. \A i, m \in incidents \cup {j} : Respects(i, m)
  BY <1>1, <1>2, <1>3
<1> QED
  BY <1>4 DEF Respects

\* The commit of the one writer: its incident respects all others and its action
\* has room.
LEMMA CommitWriterInv ==
    ASSUME AnswerInv, LockInv, WriterInv, NEW r \in Requests, Commit(r)
    PROVE  WriterInv'
<1> USE DEF WriterInv
<1> DEFINE j == draft[r].incident
<1>1. pc[r] = "commit" /\ UNCHANGED <<clock, payload, rule, draft>>
  BY DEF Commit, session
<1>2. \A q \in Requests : pc'[q] \notin {"incident", "backlog", "commit"}
  BY DEF LockInv, Writing, Commit, Finish, AnswerInv, IndInv, TypeOK
<1>3. incidents' = incidents \/ (j # None /\ incidents' = incidents \cup {j})
  BY DEF Commit
<1>4. backlog' = backlog \/ (draft[r].action /\ backlog' = backlog \cup {r})
  BY DEF Commit
<1>5. incidents \subseteq IncidentRow /\ (j # None => j \in IncidentRow)
  BY ResultFields DEF AnswerInv, IndInv, TypeOK
<1>6. j # None => Latest(j)
  BY <1>1 DEF CooldownInv
<1>7. CooldownInv'
  <2>1. \A i \in incidents' : i.at <= clock'
    BY <1>1, <1>3, <1>6 DEF CooldownInv, Latest
  <2> QED
    BY <1>2, <2>1 DEF CooldownInv
<1>8. CooldownRespected'
  <2>1. CASE incidents' = incidents
    BY <2>1 DEF CooldownRespected
  <2>2. CASE j # None /\ incidents' = incidents \cup {j}
    BY <1>5, <1>6, <2>2, LatestRespects DEF CooldownRespected
  <2> QED
    BY <1>3, <2>1, <2>2
<1>9. BacklogBounded'
  <2>1. IsFiniteSet(backlog) /\ Cardinality(backlog) \in Nat
    BY FS_Subset, FS_CardinalityType, FiniteRequests DEF AnswerInv, IndInv, TypeOK
  <2>2. Cardinality(backlog \cup {r}) <= Cardinality(backlog) + 1
    BY <2>1, FS_AddElement
  <2>3. Cardinality(backlog \cup {r}) \in Nat
    BY <2>1, FS_AddElement, FS_CardinalityType
  <2>4. draft[r].action => Cardinality(backlog) < MaxQueueBacklog
    BY <1>1 DEF RoomInv
  <2>5. CASE backlog' = backlog
    BY <2>5 DEF BacklogBounded
  <2>6. CASE draft[r].action /\ backlog' = backlog \cup {r}
    <3>1. Cardinality(backlog \cup {r}) <= MaxQueueBacklog
      BY <2>1, <2>2, <2>3, <2>4, <2>6, Numbers
    <3> QED
      BY <2>6, <3>1 DEF BacklogBounded
  <2> QED
    BY <1>4, <2>5, <2>6
<1>10. RoomInv'
  BY <1>2 DEF RoomInv
<1> QED
  BY <1>7, <1>8, <1>9, <1>10

\* A worker only makes room.
LEMMA ActionSettlesWriterInv ==
    ASSUME AnswerInv, WriterInv, NEW r \in Requests, ActionSettles(r)
    PROVE  WriterInv'
<1> USE DEF WriterInv
<1>1. UNCHANGED <<clock, incidents, payload, rule, draft, pc>> /\ backlog' = backlog \ {r}
  BY DEF ActionSettles, session
<1>2. CooldownInv' /\ CooldownRespected'
  BY <1>1 DEF CooldownInv, CooldownRespected, Latest, Clear
<1>3. IsFiniteSet(backlog)
  BY FS_Subset, FiniteRequests DEF AnswerInv, IndInv, TypeOK
<1>4. /\ Cardinality(backlog) \in Nat /\ Cardinality(backlog \ {r}) \in Nat
      /\ Cardinality(backlog \ {r}) <= Cardinality(backlog)
  BY <1>3, FS_Subset, FS_CardinalityType
<1>5. RoomInv' /\ BacklogBounded'
  BY <1>1, <1>4, Numbers DEF RoomInv, BacklogBounded
<1> QED
  BY <1>2, <1>5

\* Every step keeps what the writer has tested.
LEMMA NextWriterInv ==
    ASSUME Backend = "sqlite", AnswerInv, LockInv, WriterInv, [Next]_vars
    PROVE  WriterInv'
<1>t. TypeOK
  BY DEF AnswerInv, IndInv
<1>1. ASSUME NEW r \in Requests, Begin(r) \/ Lookup(r) \/ Claim(r) \/ Poll(r)
      PROVE  WriterInv'
  BY <1>t, <1>1, QuietWriter DEF TypeOK, Begin, Lookup, Claim, Poll, LoadIfDone, tables, session
<1>2. ASSUME NEW r \in Requests, WaitTimesOut(r) \/ ReplayMissing(r) \/ LockTimeout(r)
      PROVE  WriterInv'
  BY <1>t, <1>2, QuietWriter
     DEF TypeOK, WaitTimesOut, ReplayMissing, LockTimeout, Fail, Finish, tables, session
<1>3. ASSUME NEW r \in Requests, Replay(r) PROVE WriterInv'
  BY <1>t, <1>3, QuietWriter DEF TypeOK, Replay, Finish, session
<1>4. ASSUME NEW r \in Requests, ReadAsset(r) \/ FlushEvent(r) \/ Crash(r) PROVE WriterInv'
  BY <1>t, <1>4, QuietWriter
     DEF TypeOK, ReadAsset, FlushEvent, Crash, Fail, Finish, tables, session
<1>5. ASSUME NEW r \in Requests, MatchRule(r) PROVE WriterInv'
  <2>1. CASE Skip(r, "no_matching_rule") /\ UNCHANGED rule
    BY <1>5, <2>1, SkipWriterInv DEF MatchRule, Reasons, tables, session
  <2>2. CASE pc' = [pc EXCEPT ![r] = "cooldown"] /\ UNCHANGED draft
    <3>1. /\ UNCHANGED <<clock, incidents, backlog, payload, draft>> /\ pc'[r] = "cooldown"
          /\ \A q \in Requests \ {r} : rule'[q] = rule[q] /\ pc'[q] = pc[q]
      BY <1>t, <1>5, <2>2 DEF TypeOK, MatchRule, tables
    <3> QED
      BY <3>1 DEF WriterInv, CooldownInv, CooldownRespected, RoomInv, BacklogBounded,
                  Latest, Clear
  <2> QED
    BY <1>5, <2>1, <2>2 DEF MatchRule
<1>6. CASE (\E a \in Assets : CreateAsset(a)) \/ (\E rl \in RuleSet : CreateRule(rl))
           \/ SeedDemo \/ UNCHANGED vars
  BY <1>6, QuietWriter DEF CreateAsset, CreateRule, SeedDemo, vars, tables, session
<1>7. ~Reset
  BY DEF Reset
<1> QED
  BY <1>1, <1>2, <1>3, <1>4, <1>5, <1>6, <1>7, CheckCooldownWriterInv,
     CreateIncidentWriterInv, CheckBacklogWriterInv, CommitWriterInv,
     ActionSettlesWriterInv, TickWriterInv DEF Next, Step

-----------------------------------------------------------------------------
(* hits and the audit trail *)

\* The replays of a key that were answered, and those that were audited.
Replayed(k) == {r \in Requests : payload[r].key = k /\ reply[r] # None
                                   /\ reply[r].kind = "replay"}
Audited(k) == {r \in Requests : payload[r].key = k /\ <<"idempotency_hit", r>> \in audit}

\* HitsMatchReplays in these words.
LEMMA HitsCount ==
    HitsMatchReplays <=> \A k \in Keys : /\ hits[k] = Cardinality(Replayed(k))
                                          /\ Audited(k) = Replayed(k)
BY DEF HitsMatchReplays, Replayed, Audited

\* The same after a step.
LEMMA HitsCountNext ==
    HitsMatchReplays' <=> \A k \in Keys : /\ hits'[k] = Cardinality(Replayed(k)')
                                           /\ Audited(k)' = Replayed(k)'
BY DEF HitsMatchReplays, Replayed, Audited

\* Every step keeps the count: without a reset hits loses no replay.
LEMMA NextHitsMatch ==
    ASSUME Backend = "sqlite", AnswerInv, HitsMatchReplays, [Next]_vars
    PROVE  HitsMatchReplays'
<1>t. TypeOK /\ ReplyInv
  BY DEF AnswerInv, IndInv
<1>1. CASE Silent
  BY <1>1, HitsCount, HitsCountNext DEF Silent, Replayed, Audited
<1>2. ASSUME NEW r \in Requests, NEW kind \in Failures, Fails(r, kind)
      PROVE  HitsMatchReplays'
  <2>1. UNCHANGED <<hits, audit, payload>> /\ reply[r] = None
        /\ reply' = [reply EXCEPT ![r] = [kind |-> kind, result |-> None]]
    BY <1>t, <1>2 DEF Fails, Fail, Finish, tables, session, ReplyInv
  <2>2. \A q \in Requests : (reply'[q] # None /\ reply'[q].kind = "replay")
                              <=> (reply[q] # None /\ reply[q].kind = "replay")
    BY <1>t, <2>1 DEF TypeOK, Failures
  <2>3. \A k \in Keys : Replayed(k)' = Replayed(k) /\ Audited(k)' = Audited(k)
    BY <2>1, <2>2 DEF Replayed, Audited
  <2> QED
    BY <2>1, <2>3, HitsCount, HitsCountNext
<1>3. ASSUME NEW r \in Requests, Commit(r) PROVE HitsMatchReplays'
  <2>1. UNCHANGED <<hits, payload>> /\ reply[r] = None
        /\ reply' = [reply EXCEPT ![r] = [kind |-> "ok", result |-> draft[r]]]
    BY <1>t, <1>3 DEF Commit, Finish, session, ReplyInv
  <2>2. \A q \in Requests : (reply'[q] # None /\ reply'[q].kind = "replay")
                              <=> (reply[q] # None /\ reply[q].kind = "replay")
    BY <1>t, <2>1 DEF TypeOK
  <2>3. \A q : <<"idempotency_hit", q>> \in audit' <=> <<"idempotency_hit", q>> \in audit
    <3>1. AuditKind(draft[r]) # "idempotency_hit"
      BY DEF AuditKind
    <3>2. audit' = audit \cup {<<AuditKind(draft[r]), r>>}
      BY <1>3 DEF Commit
    <3> QED
      BY <3>1, <3>2
  <2>4. \A k \in Keys : Replayed(k)' = Replayed(k) /\ Audited(k)' = Audited(k)
    BY <2>1, <2>2, <2>3 DEF Replayed, Audited
  <2> QED
    BY <2>1, <2>4, HitsCount, HitsCountNext
<1>4. ASSUME NEW r \in Requests, Replay(r) PROVE HitsMatchReplays'
  <2> DEFINE answered == [kind |-> "replay", result |-> loaded[r]]
  <2>1. PICK k \in Keys : k = payload[r].key
    BY <1>4, ReplayIsStored
  <2>2. answered # None
    BY <1>4, LoadedResult, SuccessReply, DistinctNone DEF AnswerInv, Replay
  <2>3. /\ UNCHANGED payload /\ reply[r] = None
        /\ reply' = [reply EXCEPT ![r] = answered]
        /\ hits' = [hits EXCEPT ![k] = hits[k] + 1]
        /\ audit' = audit \cup {<<"idempotency_hit", r>>}
    BY <1>t, <1>4, <2>1 DEF Replay, NextHits, Finish, session, ReplyInv
  <2>4. Replayed(k)' = Replayed(k) \cup {r} /\ r \notin Replayed(k)
    BY <1>t, <2>1, <2>2, <2>3 DEF TypeOK, Replayed
  <2>5. Audited(k)' = Audited(k) \cup {r}
    BY <2>1, <2>3 DEF Audited
  <2>6. \A m \in Keys \ {k} : Replayed(m)' = Replayed(m) /\ Audited(m)' = Audited(m)
    BY <1>t, <2>1, <2>3 DEF TypeOK, Replayed, Audited
  <2>7. Cardinality(Replayed(k) \cup {r}) = Cardinality(Replayed(k)) + 1
    <3>1. Replayed(k) \subseteq Requests
      BY DEF Replayed
    <3>2. IsFiniteSet(Replayed(k))
      BY <3>1, FS_Subset, FiniteRequests
    <3> QED
      BY <2>4, <3>2, FS_AddElement
  <2>8. hits'[k] = hits[k] + 1 /\ \A m \in Keys \ {k} : hits'[m] = hits[m]
    BY <1>t, <2>3 DEF TypeOK
  <2>9. \A m \in Keys : hits[m] = Cardinality(Replayed(m)) /\ Audited(m) = Replayed(m)
    BY HitsCount
  <2>10. \A m \in Keys : /\ hits'[m] = Cardinality(Replayed(m)')
                         /\ Audited(m)' = Replayed(m)'
    BY <2>4, <2>5, <2>6, <2>7, <2>8, <2>9
  <2> QED
    BY <2>10, HitsCountNext
<1>5. ~Reset
  BY DEF Reset
<1> QED
  BY <1>t, <1>1, <1>2, <1>3, <1>4, <1>5, StepKinds

-----------------------------------------------------------------------------
(* The theorems *)

\* Nobody writes at first, and there is nothing to respect.
LEMMA InitSqliteInv == Init => SqliteInv
<1> SUFFICES ASSUME Init PROVE SqliteInv
  OBVIOUS
<1>1. LockInv
  BY DEF Init, LockInv, Writing
<1>2. CooldownInv /\ CooldownRespected /\ RoomInv
  BY DEF Init, CooldownInv, CooldownRespected, RoomInv
<1>3. BacklogBounded
  BY FS_EmptySet, Numbers DEF Init, BacklogBounded
<1>4. HitsMatchReplays
  <2>1. \A k \in Keys : Replayed(k) = {} /\ Audited(k) = {} /\ hits[k] = 0
    BY DEF Init, Replayed, Audited
  <2> QED
    BY <2>1, HitsCount, FS_EmptySet
<1> QED
  BY <1>1, <1>2, <1>3, <1>4, InitAnswerInv DEF SqliteInv, SerialInv

\* Every step keeps the invariant of SQLite.
LEMMA NextSqliteInv == SqliteInv /\ [Next]_vars => SqliteInv'
<1> SUFFICES ASSUME SqliteInv, [Next]_vars PROVE SqliteInv'
  OBVIOUS
<1>1. AnswerInv'
  BY NextAnswerInv DEF SqliteInv
<1>2. ASSUME Backend = "sqlite" PROVE SerialInv'
  <2>1. AnswerInv /\ TypeOK /\ LockInv /\ WriterInv /\ HitsMatchReplays
    BY <1>2 DEF SqliteInv, SerialInv, WriterInv, AnswerInv, IndInv
  <2>2. LockInv'
    BY <1>2, <2>1, NextLockInv
  <2>3. WriterInv'
    BY <1>2, <2>1, NextWriterInv
  <2>4. HitsMatchReplays'
    BY <1>2, <2>1, NextHitsMatch
  <2> QED
    BY <2>2, <2>3, <2>4 DEF SerialInv, WriterInv
<1> QED
  BY <1>1, <1>2 DEF SqliteInv

\* On SQLite at most one request is between the flush of its event and its commit,
\* and what it has tested there stays true.
THEOREM SqliteInvariance == Spec => []SqliteInv
BY InitSqliteInv, NextSqliteInv, PTL DEF Spec

\* On SQLite no incident of an asset opens within the cooldown of its rule.
THEOREM CooldownHolds == Spec => [](Backend = "sqlite" => CooldownRespected)
<1>1. SqliteInv => (Backend = "sqlite" => CooldownRespected)
  BY DEF SqliteInv, SerialInv
<1> QED
  BY <1>1, SqliteInvariance, PTL

\* On SQLite ingestion never grows the queue beyond max_queue_backlog.
THEOREM BacklogStaysBounded == Spec => [](Backend = "sqlite" => BacklogBounded)
<1>1. SqliteInv => (Backend = "sqlite" => BacklogBounded)
  BY DEF SqliteInv, SerialInv
<1> QED
  BY <1>1, SqliteInvariance, PTL

\* On SQLite hits and the audit trail count the answered replays, none lost.
THEOREM HitsCounted == Spec => [](Backend = "sqlite" => HitsMatchReplays)
<1>1. SqliteInv => (Backend = "sqlite" => HitsMatchReplays)
  BY DEF SqliteInv, SerialInv
<1> QED
  BY <1>1, SqliteInvariance, PTL
=============================================================================
