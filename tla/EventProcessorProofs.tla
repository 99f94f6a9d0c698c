------------------------ MODULE EventProcessorProofs ------------------------
(***************************************************************************)
(* Proofs about EventProcessor, for any number of requests, keys, assets   *)
(* and rules and for both databases.                                       *)
(***************************************************************************)
EXTENDS EventProcessor, TLAPS

\* The request runs _process_new: if it has a key, it owns the claim of it.
Working(r) == pc[r] \in {"asset", "flush", "match", "cooldown", "incident",
                         "backlog", "commit"}

\* Only a request with a key is on the idempotency path, and what a step reads
\* from its own session has been loaded before.
SessionInv ==
    \A r \in Requests :
        /\ pc[r] \in {"lookup", "claim", "wait", "replay"} => payload[r].key # None
        /\ pc[r] \in {"cooldown", "incident"} => rule[r] \in RuleSet
        /\ pc[r] = "replay" => loaded[r] # None
        /\ draft[r].event = r

\* The owner of a claim: SQLite shows the claim to everybody, PostgreSQL keeps
\* it behind the lock of the unique key.  Either way the key has no result yet.
OwnerInv ==
    \A r \in Requests : Working(r) /\ payload[r].key # None =>
        /\ stored[payload[r].key] = None
        /\ Backend = "sqlite" => payload[r].key \in taken
        /\ Backend = "postgres" => payload[r].key \in held[r]

\* Two requests never own the same key.
SingleOwner ==
    \A r, q \in Requests :
        /\ Working(r) /\ Working(q)
        /\ payload[r].key = payload[q].key /\ payload[r].key # None
        => r = q

\* A committed event is the one its key stands for.
EventInv ==
    /\ \A r \in events :
         /\ pc[r] = "done"
         /\ payload[r].key # None => /\ stored[payload[r].key] # None
                                     /\ stored[payload[r].key].event = r
    /\ \A k \in Keys : stored[k] # None => k \in taken

IndInv == TypeOK /\ SessionInv /\ OwnerInv /\ SingleOwner /\ EventInv

-----------------------------------------------------------------------------
(* Facts about the records the model is built from. *)

\* The fields of a request are what EventCreate admits.
LEMMA PayloadFields ==
    ASSUME TypeOK, NEW r \in Requests
    PROVE  /\ payload[r].key \in Keys \cup {None}
           /\ payload[r].asset \in Assets
           /\ payload[r].category \in Categories
BY PayloadShape DEF TypeOK, Payload

\* What _process_new starts from is a result.
LEMMA EmptyResultType == \A r \in Requests : EmptyResult(r) \in Result
BY DEF EmptyResult, Result

\* The failures of POST /events are replies ...
LEMMA FailureReply ==
    ASSUME NEW kind \in {"not_found", "timeout", "locked", "missing"}
    PROVE  [kind |-> kind, result |-> None] \in Replies
BY DEF Replies

\* ... and so are its answers with a result.
LEMMA SuccessReply ==
    ASSUME NEW kind \in {"ok", "replay"}, NEW res \in Result
    PROVE  [kind |-> kind, result |-> res] \in Replies
BY DEF Replies

\* The fields of a result, and that filling one in keeps it a result.
LEMMA ResultFields ==
    ASSUME NEW res \in Result
    PROVE  /\ res.event \in Requests
           /\ res.incident \in IncidentRow \cup {None}
           /\ res.action \in BOOLEAN
           /\ \A i \in IncidentRow : [res EXCEPT !.incident = i] \in Result
           /\ [res EXCEPT !.action = TRUE] \in Result
           /\ \A why \in Reasons : [res EXCEPT !.skipped = why] \in Result
BY DEF Result

\* Filling in a field of a draft keeps it a result, of the same event.
LEMMA DraftSkipped ==
    ASSUME draft \in [Requests -> Result], NEW r \in Requests, NEW why \in Reasons,
           draft' = [draft EXCEPT ![r].skipped = why]
    PROVE  /\ draft' \in [Requests -> Result]
           /\ \A q \in Requests : draft'[q].event = draft[q].event
BY DEF Result

\* The same for the action that ends _process_new.
LEMMA DraftAction ==
    ASSUME draft \in [Requests -> Result], NEW r \in Requests,
           draft' = [draft EXCEPT ![r].action = TRUE]
    PROVE  /\ draft' \in [Requests -> Result]
           /\ \A q \in Requests : draft'[q].event = draft[q].event
<1> DEFINE e == [draft[r] EXCEPT !.action = TRUE]
<1>1. e \in Result
  BY ResultFields
<1>2. e.event = draft[r].event
  BY DEF Result
<1>3. draft' = [draft EXCEPT ![r] = e]
  OBVIOUS
<1> HIDE DEF e
<1> QED
  BY <1>1, <1>2, <1>3

\* RuleEngine.match returns rules.
LEMMA MatchedRules == ASSUME TypeOK, NEW p PROVE Match(p) \subseteq RuleSet
BY DEF TypeOK, Match

-----------------------------------------------------------------------------
(* The initial states *)

\* Before the first request nobody owns a claim.
LEMMA InitIndInv == Init => IndInv
<1> SUFFICES ASSUME Init PROVE IndInv
  OBVIOUS
<1>1. TypeOK
  BY EmptyResultType, Numbers DEF Init, TypeOK, Statuses, Labels
<1>2. SessionInv
  BY DEF Init, SessionInv, EmptyResult
<1>3. OwnerInv /\ SingleOwner
  BY DEF Init, OwnerInv, SingleOwner, Working
<1>4. EventInv
  BY DEF Init, EventInv
<1> QED
  BY <1>1, <1>2, <1>3, <1>4 DEF IndInv

-----------------------------------------------------------------------------
(* One lemma per action *)

\* A step that touches neither the idempotency table nor the events keeps the
\* ownership of claims, if no request with a key starts to work in it and no
\* working request loses a lock.
LEMMA QuietStep ==
    ASSUME IndInv,
           UNCHANGED <<payload, taken, stored, events>>,
           \A q \in Requests : Working(q)' /\ payload[q].key # None =>
                                 Working(q) /\ held[q] \subseteq held'[q],
           \A q \in Requests : pc[q] = "done" => pc'[q] = "done"
    PROVE  OwnerInv' /\ SingleOwner' /\ EventInv'
<1> USE DEF IndInv
<1>1. OwnerInv'
  BY DEF OwnerInv
<1>2. SingleOwner'
  BY DEF SingleOwner
<1>3. EventInv'
  BY DEF TypeOK, EventInv
<1> QED
  BY <1>1, <1>2, <1>3

\* process: a request with a key goes to the lookup, it owns nothing yet.
LEMMA BeginStep ==
    ASSUME IndInv, NEW r \in Requests, Begin(r)
    PROVE  IndInv'
<1> USE DEF IndInv
<1>1. TypeOK'
  BY DEF TypeOK, Labels, Begin, catalog, tables, session
<1>2. SessionInv'
  BY DEF SessionInv, Begin, session
<1>3. OwnerInv' /\ SingleOwner' /\ EventInv'
  BY QuietStep DEF Working, Begin, tables, session
<1> QED
  BY <1>1, <1>2, <1>3

\* The lookup only loads a stored result.
LEMMA LookupStep ==
    ASSUME IndInv, NEW r \in Requests, Lookup(r)
    PROVE  IndInv'
<1> USE DEF IndInv
<1>1. TypeOK'
  BY PayloadFields DEF TypeOK, Labels, SessionInv, Lookup, LoadIfDone, catalog, tables
<1>2. SessionInv'
  BY DEF TypeOK, SessionInv, Lookup, LoadIfDone, Done
<1>3. OwnerInv' /\ SingleOwner' /\ EventInv'
  BY QuietStep DEF Working, Lookup, LoadIfDone, tables
<1> QED
  BY <1>1, <1>2, <1>3

\* The INSERT of the record: here ownership begins.  On SQLite the key was not in
\* the table, on PostgreSQL nobody else holds its lock.
LEMMA ClaimStep ==
    ASSUME IndInv, NEW r \in Requests, Claim(r)
    PROVE  IndInv'
<1> USE DEF IndInv
<1>1. TypeOK'
  <2>1. payload[r].key \in Keys
    BY PayloadFields DEF TypeOK, SessionInv, Claim
  <2>2. pc' \in [Requests -> Labels]
    BY DEF TypeOK, Labels, Claim
  <2>3. taken' \subseteq Keys
    BY <2>1 DEF TypeOK, Claim
  <2>4. held' \in [Requests -> SUBSET (Keys \cup Assets \cup {"db"})]
    BY <2>1 DEF TypeOK, Claim
  <2> QED
    BY <2>2, <2>3, <2>4 DEF TypeOK, Claim, catalog, session
<1>2. SessionInv'
  BY DEF TypeOK, SessionInv, Claim, session
<1>3. OwnerInv'
  BY PayloadFields DEF TypeOK, OwnerInv, EventInv, Working, Claim, KeyTaken, session
<1>4. SingleOwner'
  BY BackendKind
     DEF TypeOK, OwnerInv, SingleOwner, Working, Claim, Free, Lock, KeyTaken, session
<1>5. EventInv'
  BY DEF TypeOK, EventInv, Claim, session
<1> QED
  BY <1>1, <1>2, <1>3, <1>4, <1>5

\* A poll only loads a stored result.
LEMMA PollStep ==
    ASSUME IndInv, NEW r \in Requests, Poll(r)
    PROVE  IndInv'
<1> USE DEF IndInv
<1>1. TypeOK'
  BY PayloadFields, Numbers
     DEF TypeOK, Labels, SessionInv, Poll, PollsLeft, LoadIfDone, catalog, tables
<1>2. SessionInv'
  BY DEF TypeOK, SessionInv, Poll, LoadIfDone, Done
<1>3. OwnerInv' /\ SingleOwner' /\ EventInv'
  BY QuietStep DEF Working, Poll, LoadIfDone, tables
<1> QED
  BY <1>1, <1>2, <1>3

\* A wait that ends in TimeoutError owned nothing.
LEMMA WaitTimesOutStep ==
    ASSUME IndInv, NEW r \in Requests, WaitTimesOut(r)
    PROVE  IndInv'
<1> USE DEF IndInv
<1>1. TypeOK'
  BY FailureReply
     DEF TypeOK, Labels, WaitTimesOut, Fail, Finish, catalog, tables, session
<1>2. SessionInv'
  BY DEF SessionInv, WaitTimesOut, Fail, Finish, session
<1>3. OwnerInv' /\ SingleOwner' /\ EventInv'
  BY QuietStep DEF Working, WaitTimesOut, Fail, Finish, tables, session
<1> QED
  BY <1>1, <1>2, <1>3

\* A replay changes hits and the audit trail, not the result.
LEMMA ReplayStep ==
    ASSUME IndInv, NEW r \in Requests, Replay(r)
    PROVE  IndInv'
<1> USE DEF IndInv
<1>1. TypeOK'
  BY PayloadFields, SuccessReply
     DEF TypeOK, Labels, SessionInv, Replay, NextHits, Finish, catalog, session
<1>2. SessionInv'
  BY DEF SessionInv, Replay, Finish, session
<1>3. OwnerInv' /\ SingleOwner' /\ EventInv'
  BY QuietStep DEF Working, Replay, Finish, session
<1> QED
  BY <1>1, <1>2, <1>3

\* A replay that ends in RuntimeError owned nothing.
LEMMA ReplayMissingStep ==
    ASSUME IndInv, NEW r \in Requests, ReplayMissing(r)
    PROVE  IndInv'
<1> USE DEF IndInv
<1>1. TypeOK'
  BY FailureReply
     DEF TypeOK, Labels, ReplayMissing, Fail, Finish, catalog, tables, session
<1>2. SessionInv'
  BY DEF SessionInv, ReplayMissing, Fail, Finish, session
<1>3. OwnerInv' /\ SingleOwner' /\ EventInv'
  BY QuietStep DEF Working, ReplayMissing, Fail, Finish, tables, session
<1> QED
  BY <1>1, <1>2, <1>3

\* Either the request fails with 404 or it goes on with what it owns.
LEMMA ReadAssetStep ==
    ASSUME IndInv, NEW r \in Requests, ReadAsset(r)
    PROVE  IndInv'
<1> USE DEF IndInv
<1>1. TypeOK'
  <2>1. CASE status[payload[r].asset] = None
    BY <2>1, FailureReply
       DEF TypeOK, Labels, ReadAsset, Fail, Finish, catalog, tables, session
  <2>2. CASE status[payload[r].asset] # None
    BY <2>2, PayloadFields DEF TypeOK, Labels, ReadAsset, catalog, tables
  <2> QED
    BY <2>1, <2>2
<1>2. SessionInv'
  BY DEF TypeOK, SessionInv, ReadAsset, Fail, Finish, session
<1>3. OwnerInv' /\ SingleOwner' /\ EventInv'
  BY QuietStep DEF TypeOK, Working, ReadAsset, Fail, Finish, tables, session
<1> QED
  BY <1>1, <1>2, <1>3

\* The flush of the event adds locks, and takes none away.
LEMMA FlushEventStep ==
    ASSUME IndInv, NEW r \in Requests, FlushEvent(r)
    PROVE  IndInv'
<1> USE DEF IndInv
<1>1. TypeOK'
  BY PayloadFields DEF TypeOK, Labels, FlushEvent, Lock, catalog, tables, session
<1>2. SessionInv'
  BY DEF SessionInv, FlushEvent, session
<1>3. OwnerInv' /\ SingleOwner' /\ EventInv'
  BY QuietStep DEF TypeOK, Working, FlushEvent, tables, session
<1> QED
  BY <1>1, <1>2, <1>3

\* A matched rule is in the session before the cooldown is tested.
LEMMA MatchRuleStep ==
    ASSUME IndInv, NEW r \in Requests, MatchRule(r)
    PROVE  IndInv'
<1> USE DEF IndInv
<1>a. /\ draft' \in [Requests -> Result]
      /\ \A q \in Requests : draft'[q].event = draft[q].event
  <2>1. CASE Skip(r, "no_matching_rule")
    BY <2>1, DraftSkipped DEF TypeOK, Skip, Reasons
  <2>2. CASE UNCHANGED draft
    BY <2>2 DEF TypeOK
  <2> QED
    BY <2>1, <2>2 DEF MatchRule
<1>b. rule' \in [Requests -> RuleSet \cup {None}]
  BY MatchedRules DEF TypeOK, MatchRule
<1>c. pc'[r] = "cooldown" => rule'[r] \in RuleSet
  BY MatchedRules DEF TypeOK, MatchRule, Skip
<1>1. TypeOK'
  BY <1>a, <1>b DEF TypeOK, Labels, MatchRule, Skip, catalog, tables
<1>2. SessionInv'
  BY <1>a, <1>c DEF TypeOK, SessionInv, MatchRule, Skip
<1>3. OwnerInv' /\ SingleOwner' /\ EventInv'
  BY QuietStep DEF TypeOK, Working, MatchRule, Skip, tables
<1> QED
  BY <1>1, <1>2, <1>3

\* The cooldown test writes only to the draft.
LEMMA CheckCooldownStep ==
    ASSUME IndInv, NEW r \in Requests, CheckCooldown(r)
    PROVE  IndInv'
<1> USE DEF IndInv
<1>a. /\ draft' \in [Requests -> Result]
      /\ \A q \in Requests : draft'[q].event = draft[q].event
  <2>1. CASE Skip(r, "cooldown")
    BY <2>1, DraftSkipped DEF TypeOK, Skip, Reasons
  <2>2. CASE UNCHANGED draft
    BY <2>2 DEF TypeOK
  <2> QED
    BY <2>1, <2>2 DEF CheckCooldown
<1>1. TypeOK'
  BY <1>a DEF TypeOK, Labels, CheckCooldown, Skip, catalog, tables
<1>2. SessionInv'
  BY <1>a DEF TypeOK, SessionInv, CheckCooldown, Skip
<1>3. OwnerInv' /\ SingleOwner' /\ EventInv'
  BY QuietStep DEF TypeOK, Working, CheckCooldown, Skip, tables
<1> QED
  BY <1>1, <1>2, <1>3

\* The incident is still part of the draft.
LEMMA CreateIncidentStep ==
    ASSUME IndInv, NEW r \in Requests, CreateIncident(r)
    PROVE  IndInv'
<1> USE DEF IndInv
<1>1. TypeOK'
  BY PayloadFields, ResultFields
     DEF TypeOK, Labels, SessionInv, CreateIncident, IncidentRow, catalog, tables
<1>2. SessionInv'
  BY DEF SessionInv, CreateIncident
<1>3. OwnerInv' /\ SingleOwner' /\ EventInv'
  BY QuietStep DEF Working, CreateIncident, tables
<1> QED
  BY <1>1, <1>2, <1>3

\* So is the action.
LEMMA CheckBacklogStep ==
    ASSUME IndInv, NEW r \in Requests, CheckBacklog(r)
    PROVE  IndInv'
<1> USE DEF IndInv
<1>a. /\ draft' \in [Requests -> Result]
      /\ \A q \in Requests : draft'[q].event = draft[q].event
  <2>1. CASE draft' = [draft EXCEPT ![r].skipped = "queue_backpressure"]
    BY <2>1, DraftSkipped DEF TypeOK, Reasons
  <2>2. CASE draft' = [draft EXCEPT ![r].action = TRUE]
    BY <2>2, DraftAction DEF TypeOK
  <2> QED
    BY <2>1, <2>2 DEF CheckBacklog
<1>1. TypeOK'
  BY <1>a DEF TypeOK, Labels, CheckBacklog, catalog, tables
<1>2. SessionInv'
  BY <1>a DEF SessionInv, CheckBacklog
<1>3. OwnerInv' /\ SingleOwner' /\ EventInv'
  BY QuietStep DEF Working, CheckBacklog, tables
<1> QED
  BY <1>1, <1>2, <1>3

\* The commit: the draft becomes visible, the key gets its result and its owner
\* stops working.
LEMMA CommitStep ==
    ASSUME IndInv, NEW r \in Requests, Commit(r)
    PROVE  IndInv'
<1> USE DEF IndInv
<1>a. status' \in [Assets -> Statuses]
  BY PayloadFields DEF TypeOK, Statuses, Commit
<1>b. taken' \subseteq Keys /\ stored' \in [Keys -> Result \cup {None}]
  BY PayloadFields DEF TypeOK, Commit, StoreResult
<1>c. incidents' \subseteq IncidentRow
  BY ResultFields DEF TypeOK, Commit
<1>d. reply' \in [Requests -> Replies \cup {None}]
  BY SuccessReply DEF TypeOK, Commit, Finish
<1>1. TypeOK'
  BY <1>a, <1>b, <1>c, <1>d DEF TypeOK, Labels, Commit, Finish, session
<1>2. SessionInv'
  BY DEF SessionInv, Commit, Finish, session
<1>3. OwnerInv'
  BY PayloadFields
     DEF TypeOK, OwnerInv, SingleOwner, Working, Commit, StoreResult, Finish, session
<1>4. SingleOwner'
  BY DEF SingleOwner, Working, Commit, Finish, session
<1>5. EventInv'
  <2> DEFINE k == payload[r].key
  <2>1. draft[r] # None /\ draft[r].event = r
    BY DistinctNone DEF TypeOK, SessionInv
  <2>2. UNCHANGED payload /\ events' = events \cup {r} /\ pc' = [pc EXCEPT ![r] = "done"]
    BY DEF Commit, Finish, session
  <2>3. CASE k = None
    <3>1. UNCHANGED <<taken, stored>>
      BY <2>3 DEF Commit, StoreResult
    <3> QED
      BY <2>2, <2>3, <3>1 DEF TypeOK, EventInv
  <2>4. CASE k # None
    <3>1. k \in Keys /\ stored[k] = None
      BY <2>4, PayloadFields DEF OwnerInv, Working, Commit
    <3>2. taken' = taken \cup {k} /\ stored' = [stored EXCEPT ![k] = draft[r]]
      BY <2>4 DEF Commit, StoreResult
    <3>3. \A q \in events : payload[q].key # k
      BY <2>4, <3>1 DEF EventInv
    <3> QED
      BY <2>1, <2>2, <3>1, <3>2, <3>3, PayloadFields DEF TypeOK, EventInv
  <2> QED
    BY <2>3, <2>4
<1> QED
  BY <1>1, <1>2, <1>3, <1>4, <1>5

\* A rolled back request stops working and commits nothing.
LEMMA LockTimeoutStep ==
    ASSUME IndInv, NEW r \in Requests, LockTimeout(r)
    PROVE  IndInv'
<1> USE DEF IndInv
<1>1. TypeOK'
  BY FailureReply
     DEF TypeOK, Labels, LockTimeout, Fail, Finish, catalog, tables, session
<1>2. SessionInv'
  BY DEF SessionInv, LockTimeout, Fail, Finish, session
<1>3. OwnerInv' /\ SingleOwner' /\ EventInv'
  BY QuietStep DEF TypeOK, Working, LockTimeout, Fail, Finish, tables, session
<1> QED
  BY <1>1, <1>2, <1>3

\* So does one whose process dies.
LEMMA CrashStep ==
    ASSUME IndInv, NEW r \in Requests, Crash(r)
    PROVE  IndInv'
<1> USE DEF IndInv
<1>1. TypeOK'
  BY Numbers DEF TypeOK, Labels, Crash, catalog, tables, session
<1>2. SessionInv'
  BY DEF SessionInv, Crash, session
<1>3. OwnerInv' /\ SingleOwner' /\ EventInv'
  BY QuietStep DEF TypeOK, Working, Crash, tables, session
<1> QED
  BY <1>1, <1>2, <1>3

\* A worker that settles an action touches the backlog only.
LEMMA ActionSettlesStep ==
    ASSUME IndInv, NEW r \in Requests, ActionSettles(r)
    PROVE  IndInv'
<1> USE DEF IndInv
<1>1. TypeOK'
  BY DEF TypeOK, ActionSettles, catalog, session
<1>2. SessionInv'
  BY DEF SessionInv, ActionSettles, session
<1>3. OwnerInv' /\ SingleOwner' /\ EventInv'
  BY QuietStep DEF Working, ActionSettles, session
<1> QED
  BY <1>1, <1>2, <1>3

-----------------------------------------------------------------------------
(* The actions that belong to no request, and the whole next-state relation *)

\* POST /assets touches no request.
LEMMA CreateAssetStep ==
    ASSUME IndInv, NEW a \in Assets, CreateAsset(a)
    PROVE  IndInv'
BY DEF IndInv, TypeOK, SessionInv, OwnerInv, SingleOwner, EventInv, Working,
       CreateAsset, Statuses, tables, session

\* POST /rules touches no request.
LEMMA CreateRuleStep ==
    ASSUME IndInv, NEW rl \in RuleSet, CreateRule(rl)
    PROVE  IndInv'
BY DEF IndInv, TypeOK, SessionInv, OwnerInv, SingleOwner, EventInv, Working,
       CreateRule, tables, session

\* POST /demo/seed touches no request.
LEMMA SeedDemoStep == IndInv /\ SeedDemo => IndInv'
BY SeedShape DEF IndInv, TypeOK, SessionInv, OwnerInv, SingleOwner, EventInv, Working,
       SeedDemo, Statuses, tables, session

\* A reset leaves the claims of working requests alone: on PostgreSQL they are
\* locks, not rows.
LEMMA ResetStep == IndInv /\ Reset => IndInv'
<1> SUFFICES ASSUME IndInv, Reset PROVE IndInv'
  OBVIOUS
<1> USE DEF IndInv
<1>1. TypeOK'
  BY DEF TypeOK, Reset, catalog, session
<1>2. SessionInv' /\ SingleOwner'
  BY DEF SessionInv, SingleOwner, Working, Reset, session
<1>3. OwnerInv'
  BY PayloadFields DEF OwnerInv, Working, Reset, session
<1>4. EventInv'
  BY DEF EventInv, Reset
<1> QED
  BY <1>1, <1>2, <1>3, <1>4

\* Time touches no request.
LEMMA TickStep == IndInv /\ Tick => IndInv'
BY DEF IndInv, TypeOK, SessionInv, OwnerInv, SingleOwner, EventInv, Working,
       Tick, catalog, tables, session

\* A step that changes nothing.
LEMMA StutterStep == IndInv /\ UNCHANGED vars => IndInv'
BY DEF IndInv, TypeOK, SessionInv, OwnerInv, SingleOwner, EventInv, Working,
       vars, catalog, tables, session

\* Every step keeps the inductive invariant.
LEMMA NextIndInv == IndInv /\ [Next]_vars => IndInv'
<1> SUFFICES ASSUME IndInv, [Next]_vars PROVE IndInv'
  OBVIOUS
<1>1. ASSUME NEW r \in Requests, Step(r) PROVE IndInv'
  BY <1>1, LookupStep, ClaimStep, PollStep, WaitTimesOutStep, ReplayStep,
     ReplayMissingStep, ReadAssetStep,
     FlushEventStep, MatchRuleStep, CheckCooldownStep, CreateIncidentStep,
     CheckBacklogStep, CommitStep DEF Step
<1>2. ASSUME NEW r \in Requests,
             Begin(r) \/ LockTimeout(r) \/ Crash(r) \/ ActionSettles(r)
      PROVE  IndInv'
  BY <1>2, BeginStep, LockTimeoutStep, CrashStep, ActionSettlesStep
<1> QED
  BY <1>1, <1>2, CreateAssetStep, CreateRuleStep, SeedDemoStep, ResetStep, TickStep, StutterStep DEF Next

-----------------------------------------------------------------------------
(* The theorems *)

\* The inductive invariant holds in every reachable state: a claim has one owner
\* and a key has no result while somebody owns it.
THEOREM Invariance == Spec => []IndInv
BY InitIndInv, NextIndInv, PTL DEF Spec

\* Every variable of ingestion keeps its type, for any number of requests.
THEOREM TypeCorrect == Spec => []TypeOK
<1>1. IndInv => TypeOK
  BY DEF IndInv
<1> QED
  BY <1>1, Invariance, PTL

\* At most one request of an idempotency key is ever processed, on SQLite and on
\* PostgreSQL, whatever crashes, lock timeouts and waits happen in between.
THEOREM ExactlyOnce == Spec => []ExactlyOncePerKey
<1>1. IndInv => ExactlyOncePerKey
  BY DEF IndInv, EventInv, ExactlyOncePerKey
<1> QED
  BY <1>1, Invariance, PTL
=============================================================================
