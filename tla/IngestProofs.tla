---------------------------- MODULE IngestProofs ----------------------------
(***************************************************************************)
(* What a client of POST /events is told, on both databases: answers agree *)
(* with what is stored, PostgreSQL shows no claim without a result, and    *)
(* EventProcessor implements IdempotentIngest.                             *)
(***************************************************************************)
EXTENDS EventProcessorProofs

\* The result of a key describes committed rows, of a request with that key.
StoredInv ==
    \A k \in Keys : stored[k] # None =>
        /\ stored[k].event \in events
        /\ payload[stored[k].event].key = k
        /\ stored[k].incident # None => stored[k].incident \in incidents
        /\ stored[k].action => stored[k].event \in actions

\* A result that was loaded is still the one stored, or its event is gone for good:
\* the request that made it has ended and will not commit again.
LoadedInv ==
    \A r \in Requests : pc[r] = "replay" =>
        /\ pc[loaded[r].event] = "done"
        /\ loaded[r] = stored[payload[r].key] \/ loaded[r].event \notin events

\* A request is answered when it ends, not before.
ReplyInv == \A r \in Requests : pc[r] # "done" => reply[r] = None

\* A draft holds the rows of its own request, and only those it has come to.
DraftInv ==
    \A r \in Requests :
        /\ draft[r].incident # None => draft[r].incident.event = r
        /\ pc[r] \notin {"backlog", "commit", "done"} => draft[r].incident = None
        /\ pc[r] \notin {"commit", "done"} => ~draft[r].action

\* PostgreSQL shows a claim together with its result.
ClaimInv == Backend = "postgres" => \A k \in taken : stored[k] # None

AnswerInv == IndInv /\ StoredInv /\ LoadedInv /\ ReplyInv /\ DraftInv /\ ClaimInv

-----------------------------------------------------------------------------
(* What kinds of steps there are *)

Failures == {"not_found", "timeout", "locked", "missing"}

\* A step that no client can observe and that stores no result.
Silent ==
    /\ UNCHANGED <<payload, stored, hits, events, incidents, actions, audit, reply>>
    /\ Backend = "postgres" => UNCHANGED taken

\* The request ends with an error.
Fails(r, kind) ==
    /\ pc[r] \in Labels \ {"idle", "done"}
    /\ Fail(r, kind)
    /\ kind = "missing" => pc[r] = "replay" /\ EventMissing(r)

\* A step of a request is one of four kinds.
LEMMA RequestKinds ==
    ASSUME TypeOK, NEW r \in Requests,
           Begin(r) \/ Step(r) \/ LockTimeout(r) \/ Crash(r) \/ ActionSettles(r)
    PROVE  \/ Silent \/ Commit(r) \/ Replay(r)
           \/ \E kind \in Failures : Fails(r, kind)
<1>1. CASE Begin(r) \/ Lookup(r) \/ Poll(r)
  BY <1>1 DEF Silent, Begin, Lookup, Poll, tables, session
<1>2. CASE Claim(r)
  BY <1>2 DEF Silent, Claim, session
<1>3. CASE WaitTimesOut(r)
  <2>1. Fails(r, "timeout")
    BY <1>3 DEF Fails, WaitTimesOut, Labels
  <2> QED
    BY <2>1 DEF Failures
<1>4. CASE ReplayMissing(r)
  <2>1. Fails(r, "missing")
    BY <1>4 DEF Fails, ReplayMissing, Labels
  <2> QED
    BY <2>1 DEF Failures
<1>5. CASE ReadAsset(r)
  <2>1. CASE Fail(r, "not_found")
    <3>1. Fails(r, "not_found")
      BY <1>5, <2>1 DEF Fails, ReadAsset, Labels
    <3> QED
      BY <3>1 DEF Failures
  <2>2. CASE ~Fail(r, "not_found")
    BY <1>5, <2>2 DEF Silent, ReadAsset, tables
  <2> QED
    BY <2>1, <2>2
<1>6. CASE FlushEvent(r) \/ MatchRule(r) \/ CheckCooldown(r) \/ CreateIncident(r)
           \/ CheckBacklog(r)
  BY <1>6 DEF Silent, FlushEvent, MatchRule, CheckCooldown, CreateIncident, CheckBacklog,
              tables, session
<1>7. CASE LockTimeout(r)
  <2>1. Fails(r, "locked")
    BY <1>7 DEF Fails, LockTimeout, Labels
  <2> QED
    BY <2>1 DEF Failures
<1>8. CASE Crash(r) \/ ActionSettles(r)
  BY <1>8 DEF Silent, Crash, ActionSettles, tables, session
<1> QED
  BY <1>1, <1>2, <1>3, <1>4, <1>5, <1>6, <1>7, <1>8 DEF Step

\* A step of the whole system is one of these five kinds.
LEMMA StepKinds ==
    ASSUME TypeOK, [Next]_vars
    PROVE  \/ Silent \/ Reset
           \/ \E r \in Requests : Commit(r) \/ Replay(r) \/ \E kind \in Failures : Fails(r, kind)
<1>1. CASE \E r \in Requests : Begin(r) \/ Step(r) \/ LockTimeout(r) \/ Crash(r)
                               \/ ActionSettles(r)
  BY <1>1, RequestKinds
<1>2. CASE (\E a \in Assets : CreateAsset(a)) \/ (\E rl \in RuleSet : CreateRule(rl))
           \/ SeedDemo \/ Tick
  BY <1>2 DEF Silent, CreateAsset, CreateRule, SeedDemo, Tick, tables, session
<1>3. CASE UNCHANGED vars
  BY <1>3 DEF Silent, vars, tables, session
<1> QED
  BY <1>1, <1>2, <1>3 DEF Next

-----------------------------------------------------------------------------
(* The parts of the invariant that speak of what is stored *)

\* Only a commit stores a result, together with the rows it describes.
LEMMA NextStoredInv == AnswerInv /\ [Next]_vars => StoredInv'
<1> SUFFICES ASSUME AnswerInv, [Next]_vars PROVE StoredInv'
  OBVIOUS
<1> USE DEF AnswerInv
<1>1. CASE Silent
  BY <1>1 DEF StoredInv, Silent
<1>2. CASE Reset
  BY <1>2 DEF StoredInv, Reset
<1>3. ASSUME NEW r \in Requests, Replay(r) PROVE StoredInv'
  BY <1>3 DEF StoredInv, Replay, session
<1>4. ASSUME NEW r \in Requests, NEW kind \in Failures, Fails(r, kind) PROVE StoredInv'
  BY <1>4 DEF StoredInv, Fails, Fail, tables, session
<1>5. ASSUME NEW r \in Requests, Commit(r) PROVE StoredInv'
  <2> DEFINE k == payload[r].key
  <2>1. /\ UNCHANGED payload /\ events' = events \cup {r}
        /\ incidents \subseteq incidents' /\ actions \subseteq actions'
        /\ draft[r].incident # None => draft[r].incident \in incidents'
        /\ draft[r].action => r \in actions'
    BY <1>5 DEF Commit, session
  <2>2. stored' = stored \/ (k \in Keys /\ stored' = [stored EXCEPT ![k] = draft[r]])
    BY <1>5, PayloadFields DEF Commit, StoreResult, IndInv
  <2>3. draft[r].event = r
    BY DEF IndInv, SessionInv
  <2> QED
    BY <2>1, <2>2, <2>3 DEF IndInv, TypeOK, StoredInv
<1> QED
  BY <1>1, <1>2, <1>3, <1>4, <1>5, StepKinds DEF IndInv

\* On PostgreSQL only a commit shows a claim.
LEMMA NextClaimInv == AnswerInv /\ [Next]_vars => ClaimInv'
<1> SUFFICES ASSUME AnswerInv, [Next]_vars PROVE ClaimInv'
  OBVIOUS
<1> USE DEF AnswerInv
<1>1. CASE Silent
  BY <1>1 DEF ClaimInv, Silent
<1>2. CASE Reset
  BY <1>2 DEF ClaimInv, Reset
<1>3. ASSUME NEW r \in Requests, Replay(r) PROVE ClaimInv'
  BY <1>3 DEF ClaimInv, Replay
<1>4. ASSUME NEW r \in Requests, NEW kind \in Failures, Fails(r, kind) PROVE ClaimInv'
  BY <1>4 DEF ClaimInv, Fails, Fail, tables
<1>5. ASSUME NEW r \in Requests, Commit(r) PROVE ClaimInv'
  <2>1. draft[r] # None
    BY DistinctNone DEF IndInv, TypeOK
  <2> QED
    BY <1>5, <2>1, PayloadFields DEF ClaimInv, IndInv, TypeOK, Commit, StoreResult
<1> QED
  BY <1>1, <1>2, <1>3, <1>4, <1>5, StepKinds DEF IndInv

-----------------------------------------------------------------------------
(* The parts that speak of a request's own session *)

\* A replay works on a result, of a request.
LEMMA LoadedResult ==
    ASSUME IndInv, NEW r \in Requests, pc[r] = "replay"
    PROVE  loaded[r] \in Result /\ loaded[r].event \in Requests
<1>1. loaded[r] \in Result
  BY DEF IndInv, TypeOK, SessionInv
<1> QED
  BY <1>1, ResultFields

SessionParts == LoadedInv /\ ReplyInv /\ DraftInv

\* A step that writes no draft and loads no result.
LEMMA QuietSession ==
    ASSUME AnswerInv,
           UNCHANGED <<payload, stored, draft, loaded>>, events' \subseteq events,
           \A q \in Requests : /\ pc'[q] # pc[q] => pc'[q] # "replay"
                               /\ pc[q] = "done" => pc'[q] = "done"
                               /\ pc'[q] # "done" => reply'[q] = reply[q]
                               /\ pc[q] \in {"backlog", "commit"} => pc'[q] \in {pc[q], "done"}
                               /\ pc'[q] \in {"backlog", "commit"} => pc'[q] = pc[q]
    PROVE  SessionParts'
<1> USE DEF AnswerInv
<1>1. LoadedInv'
  BY LoadedResult DEF LoadedInv
<1>2. ReplyInv'
  BY DEF ReplyInv
<1>3. DraftInv'
  BY DEF DraftInv
<1> QED
  BY <1>1, <1>2, <1>3 DEF SessionParts

\* Every step keeps them; the lookup and the poll load what is stored, and a commit
\* can neither replace nor revive a result that somebody has loaded.
LEMMA NextSessionParts == AnswerInv /\ [Next]_vars => SessionParts'
<1> SUFFICES ASSUME AnswerInv, [Next]_vars PROVE SessionParts'
  OBVIOUS
<1> USE DEF AnswerInv
<1>1. ASSUME NEW r \in Requests, Begin(r) PROVE SessionParts'
  BY <1>1, QuietSession DEF IndInv, TypeOK, Begin, tables, session
<1>2. ASSUME NEW r \in Requests, Claim(r) PROVE SessionParts'
  BY <1>2, QuietSession DEF IndInv, TypeOK, Claim, session
<1>3. ASSUME NEW r \in Requests, WaitTimesOut(r) PROVE SessionParts'
  BY <1>3, QuietSession DEF IndInv, TypeOK, WaitTimesOut, Fail, Finish, tables, session
<1>4. ASSUME NEW r \in Requests, Replay(r) PROVE SessionParts'
  BY <1>4, QuietSession DEF IndInv, TypeOK, Replay, Finish, session
<1>5. ASSUME NEW r \in Requests, ReplayMissing(r) PROVE SessionParts'
  BY <1>5, QuietSession DEF IndInv, TypeOK, ReplayMissing, Fail, Finish, tables, session
<1>6. ASSUME NEW r \in Requests, ReadAsset(r) PROVE SessionParts'
  BY <1>6, QuietSession DEF IndInv, TypeOK, ReadAsset, Fail, Finish, tables, session
<1>7. ASSUME NEW r \in Requests, FlushEvent(r) PROVE SessionParts'
  BY <1>7, QuietSession DEF IndInv, TypeOK, FlushEvent, tables, session
<1>8. ASSUME NEW r \in Requests, LockTimeout(r) PROVE SessionParts'
  BY <1>8, QuietSession DEF IndInv, TypeOK, LockTimeout, Fail, Finish, tables, session
<1>9. ASSUME NEW r \in Requests, Crash(r) PROVE SessionParts'
  BY <1>9, QuietSession DEF IndInv, TypeOK, Crash, tables, session
<1>10. ASSUME NEW r \in Requests, ActionSettles(r) PROVE SessionParts'
  BY <1>10, QuietSession DEF IndInv, TypeOK, ActionSettles, session
<1>11. ASSUME NEW r \in Requests, Lookup(r) PROVE SessionParts'
  <2>1. pc'[r] = "replay" => /\ loaded'[r] = stored[payload[r].key]
                            /\ loaded'[r] \in Result /\ loaded'[r].event \in events
    BY <1>11, PayloadFields DEF IndInv, TypeOK, SessionInv, StoredInv, Lookup, LoadIfDone, Done
  <2>2. LoadedInv'
    BY <1>11, <2>1, LoadedResult DEF LoadedInv, IndInv, TypeOK, EventInv, Lookup, LoadIfDone, tables
  <2>3. ReplyInv' /\ DraftInv'
    BY <1>11 DEF ReplyInv, DraftInv, IndInv, TypeOK, Lookup, LoadIfDone
  <2> QED
    BY <2>2, <2>3 DEF SessionParts
<1>12. ASSUME NEW r \in Requests, Poll(r) PROVE SessionParts'
  <2>1. pc'[r] = "replay" => /\ loaded'[r] = stored[payload[r].key]
                            /\ loaded'[r] \in Result /\ loaded'[r].event \in events
    BY <1>12, PayloadFields DEF IndInv, TypeOK, SessionInv, StoredInv, Poll, LoadIfDone, Done
  <2>2. LoadedInv'
    BY <1>12, <2>1, LoadedResult DEF LoadedInv, IndInv, TypeOK, EventInv, Poll, LoadIfDone, tables
  <2>3. ReplyInv' /\ DraftInv'
    BY <1>12 DEF ReplyInv, DraftInv, IndInv, TypeOK, Poll, LoadIfDone
  <2> QED
    BY <2>2, <2>3 DEF SessionParts
<1>13. ASSUME NEW r \in Requests, MatchRule(r) PROVE SessionParts'
  <2>1. LoadedInv'
    BY <1>13, LoadedResult DEF LoadedInv, IndInv, TypeOK, MatchRule, Skip, tables
  <2>2. ReplyInv'
    BY <1>13 DEF ReplyInv, IndInv, TypeOK, MatchRule, Skip
  <2>3. DraftInv'
    <3>1. /\ pc[r] = "match"
          /\ \/ Skip(r, "no_matching_rule")
             \/ draft' = draft /\ pc' = [pc EXCEPT ![r] = "cooldown"]
      BY <1>13 DEF MatchRule
    <3>2. \A q \in Requests : /\ draft'[q].incident = draft[q].incident
                              /\ draft'[q].action = draft[q].action
      BY <3>1 DEF IndInv, TypeOK, Result, Skip
    <3>3. \A q \in Requests : pc'[q] # pc[q] => pc[q] = "match"
      BY <3>1 DEF IndInv, TypeOK, Skip
    <3> QED
      BY <3>2, <3>3 DEF DraftInv
  <2> QED
    BY <2>1, <2>2, <2>3 DEF SessionParts
<1>14. ASSUME NEW r \in Requests, CheckCooldown(r) PROVE SessionParts'
  <2>1. LoadedInv'
    BY <1>14, LoadedResult DEF LoadedInv, IndInv, TypeOK, CheckCooldown, Skip, tables
  <2>2. ReplyInv'
    BY <1>14 DEF ReplyInv, IndInv, TypeOK, CheckCooldown, Skip
  <2>3. DraftInv'
    BY <1>14 DEF DraftInv, IndInv, TypeOK, Result, CheckCooldown, Skip
  <2> QED
    BY <2>1, <2>2, <2>3 DEF SessionParts
<1>15. ASSUME NEW r \in Requests, CreateIncident(r) PROVE SessionParts'
  <2>1. LoadedInv'
    BY <1>15, LoadedResult DEF LoadedInv, IndInv, TypeOK, CreateIncident, tables
  <2>2. ReplyInv'
    BY <1>15 DEF ReplyInv, IndInv, TypeOK, CreateIncident
  <2>3. DraftInv'
    BY <1>15 DEF DraftInv, IndInv, TypeOK, Result, CreateIncident
  <2> QED
    BY <2>1, <2>2, <2>3 DEF SessionParts
<1>16. ASSUME NEW r \in Requests, CheckBacklog(r) PROVE SessionParts'
  <2>1. LoadedInv'
    BY <1>16, LoadedResult DEF LoadedInv, IndInv, TypeOK, CheckBacklog, tables
  <2>2. ReplyInv'
    BY <1>16 DEF ReplyInv, IndInv, TypeOK, CheckBacklog
  <2>3. DraftInv'
    BY <1>16 DEF DraftInv, IndInv, TypeOK, Result, CheckBacklog
  <2> QED
    BY <2>1, <2>2, <2>3 DEF SessionParts
<1>17. ASSUME NEW r \in Requests, Commit(r) PROVE SessionParts'
  <2>1. LoadedInv'
    <3> DEFINE k == payload[r].key
    <3>1. pc[r] = "commit" /\ (k # None => k \in Keys /\ stored[k] = None)
      BY <1>17, PayloadFields DEF IndInv, OwnerInv, Working, Commit
    <3>2. /\ UNCHANGED <<payload, loaded>> /\ events' = events \cup {r}
          /\ pc' = [pc EXCEPT ![r] = "done"]
      BY <1>17 DEF Commit, Finish, session
    <3>3. \A q \in Requests : pc[q] = "replay" =>
             loaded[q].event # r /\ loaded[q] # None /\ loaded[q].event \in Requests
      BY <3>1, LoadedResult, DistinctNone DEF LoadedInv
    <3>4. stored' = stored \/ (k # None /\ stored' = [stored EXCEPT ![k] = draft[r]])
      BY <1>17 DEF Commit, StoreResult
    <3>5. \A q \in Requests : pc[q] = "replay" => payload[q].key \in Keys
      BY PayloadFields DEF IndInv, SessionInv
    <3> QED
      BY <3>1, <3>2, <3>3, <3>4, <3>5 DEF LoadedInv, IndInv, TypeOK
  <2>2. ReplyInv' /\ DraftInv'
    BY <1>17 DEF ReplyInv, DraftInv, IndInv, TypeOK, Commit, Finish, session
  <2> QED
    BY <2>1, <2>2 DEF SessionParts
<1>18. CASE Reset
  BY <1>18, LoadedResult DEF SessionParts, LoadedInv, ReplyInv, DraftInv, Reset, session
<1>19. CASE (\E a \in Assets : CreateAsset(a)) \/ (\E rl \in RuleSet : CreateRule(rl))
            \/ SeedDemo \/ Tick \/ UNCHANGED vars
  BY <1>19, QuietSession DEF CreateAsset, CreateRule, SeedDemo, Tick, vars, tables, session
<1> QED
  BY <1>1, <1>2, <1>3, <1>4, <1>5, <1>6, <1>7, <1>8, <1>9, <1>10, <1>11, <1>12, <1>13, <1>14, <1>15, <1>16, <1>17, <1>18, <1>19 DEF Next, Step
-----------------------------------------------------------------------------
(* Invariance *)

\* Nothing is stored, loaded or answered at first.
LEMMA InitAnswerInv == Init => AnswerInv
<1> SUFFICES ASSUME Init PROVE AnswerInv
  OBVIOUS
<1>1. StoredInv /\ LoadedInv /\ ReplyInv /\ ClaimInv
  BY DEF Init, StoredInv, LoadedInv, ReplyInv, ClaimInv
<1>2. DraftInv
  BY DEF Init, DraftInv, EmptyResult
<1> QED
  BY <1>1, <1>2, InitIndInv DEF AnswerInv

\* Every step keeps the whole invariant.
LEMMA NextAnswerInv == AnswerInv /\ [Next]_vars => AnswerInv'
<1> SUFFICES ASSUME AnswerInv, [Next]_vars PROVE AnswerInv'
  OBVIOUS
<1>1. IndInv'
  BY NextIndInv DEF AnswerInv
<1>2. StoredInv' /\ ClaimInv'
  BY NextStoredInv, NextClaimInv
<1>3. LoadedInv' /\ ReplyInv' /\ DraftInv'
  BY NextSessionParts DEF SessionParts
<1> QED
  BY <1>1, <1>2, <1>3 DEF AnswerInv

\* In every reachable state a stored result describes committed rows and a loaded
\* one is current or dead.
THEOREM AnswerInvariance == Spec => []AnswerInv
BY InitAnswerInv, NextAnswerInv, PTL DEF Spec

\* On PostgreSQL a request that lost the race for its key never waits for a result
\* that is not there: _wait_for_idempotent_result ends at its first poll.
THEOREM WaitersServed == Spec => [](Backend = "postgres" => WaitersFindResult)
<1>1. AnswerInv => (Backend = "postgres" => WaitersFindResult)
  BY DEF AnswerInv, ClaimInv, WaitersFindResult, KeyTaken, Done
<1> QED
  BY <1>1, AnswerInvariance, PTL

-----------------------------------------------------------------------------
(* Answers *)

\* What ReplayConsistent says of one step.
ConsistentStep ==
    \A r \in Requests : reply'[r] # reply[r] =>
         LET k == payload[r].key
             res == reply'[r].result IN
         /\ reply'[r].kind \in {"ok", "replay"} =>
              /\ k # None => stored'[k] = res
              /\ res.event \in events'
              /\ res.incident # None => res.incident \in incidents'
              /\ res.action => res.event \in actions'
         /\ reply'[r].kind = "missing" => loaded[r] # stored[k]

\* A step answers at most one request, which is the one that takes it.
LEMMA OneReply ==
    ASSUME TypeOK, NEW r \in Requests, NEW kind, NEW res, Finish(r, kind, res)
    PROVE  /\ \A q \in Requests : reply'[q] # reply[q] => q = r
           /\ reply'[r] = [kind |-> kind, result |-> res]
BY DEF TypeOK, Finish

\* A replay whose event exists has loaded what is stored.
LEMMA ReplayIsStored ==
    ASSUME AnswerInv, NEW r \in Requests, Replay(r)
    PROVE  /\ payload[r].key \in Keys
           /\ loaded[r] = stored[payload[r].key]
           /\ loaded[r] # None
BY PayloadFields DEF AnswerInv, IndInv, SessionInv, LoadedInv, Replay, EventMissing

\* A step that answers a request answers it with what is stored.
LEMMA NextConsistent == AnswerInv /\ [Next]_vars => ConsistentStep
<1> SUFFICES ASSUME AnswerInv, [Next]_vars PROVE ConsistentStep
  OBVIOUS
<1> USE DEF AnswerInv, IndInv
<1>1. CASE Silent \/ Reset
  BY <1>1 DEF ConsistentStep, Silent, Reset
<1>2. ASSUME NEW r \in Requests, NEW kind \in Failures, Fails(r, kind)
      PROVE  ConsistentStep
  <2>1. /\ \A q \in Requests : reply'[q] # reply[q] => q = r
        /\ reply'[r] = [kind |-> kind, result |-> None]
    BY <1>2, OneReply DEF Fails, Fail
  <2>2. kind = "missing" => loaded[r] # stored[payload[r].key]
    BY <1>2, PayloadFields DEF Fails, EventMissing, SessionInv, StoredInv
  <2> QED
    BY <2>1, <2>2 DEF ConsistentStep, Failures
<1>3. ASSUME NEW r \in Requests, Replay(r) PROVE ConsistentStep
  <2>1. /\ \A q \in Requests : reply'[q] # reply[q] => q = r
        /\ reply'[r] = [kind |-> "replay", result |-> loaded[r]]
    BY <1>3, OneReply DEF Replay
  <2>2. UNCHANGED <<stored, events, incidents, actions>>
    BY <1>3 DEF Replay
  <2> QED
    BY <1>3, <2>1, <2>2, ReplayIsStored DEF ConsistentStep, StoredInv
<1>4. ASSUME NEW r \in Requests, Commit(r) PROVE ConsistentStep
  <2>1. /\ \A q \in Requests : reply'[q] # reply[q] => q = r
        /\ reply'[r] = [kind |-> "ok", result |-> draft[r]]
    BY <1>4, OneReply DEF Commit
  <2>2. payload[r].key # None => stored'[payload[r].key] = draft[r]
    BY <1>4, PayloadFields DEF TypeOK, Commit, StoreResult
  <2>3. /\ draft[r].event = r /\ r \in events'
        /\ draft[r].incident # None => draft[r].incident \in incidents'
        /\ draft[r].action => r \in actions'
    BY <1>4 DEF SessionInv, Commit
  <2> QED
    BY <2>1, <2>2, <2>3 DEF ConsistentStep
<1> QED
  BY <1>1, <1>2, <1>3, <1>4, StepKinds

\* Every answer that carries a result carries the one stored for its key, and that
\* result points to committed rows; the RuntimeError of a replay means that the record
\* is gone.  On both databases, for any number of requests.
THEOREM ConsistentReplay == Spec => ReplayConsistent
<1>1. AnswerInv /\ [Next]_vars => [ConsistentStep]_vars
  BY NextConsistent
<1> QED
  BY <1>1, AnswerInvariance, PTL DEF Spec, ReplayConsistent, ConsistentStep

-----------------------------------------------------------------------------
(* EventProcessor implements IdempotentIngest *)

key == [r \in Requests |-> payload[r].key]
opened == {i.event : i \in incidents}
answer == [r \in Requests |-> IF reply[r] = None THEN None ELSE reply[r].result]

\* A step that leaves what is committed and the answers alone is no step of the
\* abstract specification.
LEMMA SilentStutters ==
    ASSUME UNCHANGED <<payload, stored, events, incidents, actions>>, UNCHANGED answer
    PROVE  UNCHANGED Ingest!vars
<1>1. UNCHANGED key /\ UNCHANGED opened
  BY DEF key, opened
<1> QED
  BY <1>1 DEF Ingest!vars, key, opened, answer

\* An error answers nothing: its result is None, and there was no answer before.
LEMMA FailureStutters ==
    ASSUME AnswerInv, NEW r \in Requests, NEW kind \in Failures, Fails(r, kind)
    PROVE  UNCHANGED Ingest!vars
<1>1. reply' = [reply EXCEPT ![r] = [kind |-> kind, result |-> None]] /\ reply[r] = None
  BY DEF AnswerInv, ReplyInv, Fails, Fail, Finish
<1>2. UNCHANGED answer
  BY <1>1 DEF AnswerInv, IndInv, TypeOK, answer
<1>3. UNCHANGED <<payload, stored, events, incidents, actions>>
  BY DEF Fails, Fail, tables, session
<1> QED
  BY <1>2, <1>3, SilentStutters

\* An answer with a result becomes visible as such.
LEMMA AnswerGiven ==
    ASSUME AnswerInv, NEW r \in Requests, pc[r] # "done",
           NEW kind, NEW res, Finish(r, kind, res),
           [kind |-> kind, result |-> res] # None
    PROVE  answer[r] = None /\ answer' = [answer EXCEPT ![r] = res]
<1>1. reply' = [reply EXCEPT ![r] = [kind |-> kind, result |-> res]] /\ reply[r] = None
  BY DEF AnswerInv, ReplyInv, Finish
<1> QED
  BY <1>1 DEF AnswerInv, IndInv, TypeOK, answer

\* A replay repeats the outcome of its key.
LEMMA ReplayRepeats ==
    ASSUME AnswerInv, NEW r \in Requests, Replay(r)
    PROVE  Ingest!Repeat(r)
<1>1. pc[r] = "replay" /\ r \notin events
  BY DEF AnswerInv, IndInv, EventInv, Replay
<1>2. /\ payload[r].key \in Keys /\ payload[r].key # None
      /\ loaded[r] = stored[payload[r].key]
      /\ loaded[r] # None
  BY ReplayIsStored, DistinctNone
<1>3. answer[r] = None /\ answer' = [answer EXCEPT ![r] = loaded[r]]
  <2>1. [kind |-> "replay", result |-> loaded[r]] # None
    BY <1>1, LoadedResult, SuccessReply, DistinctNone DEF AnswerInv
  <2> QED
    BY <1>1, <2>1, AnswerGiven DEF Replay
<1>4. UNCHANGED <<key, stored, events, opened, actions>>
  BY DEF Replay, session, key, opened
<1>5. key[r] = payload[r].key
  BY DEF key
<1> QED
  BY <1>1, <1>2, <1>3, <1>4, <1>5 DEF Ingest!Repeat, key, opened, answer

\* A commit applies its request.
LEMMA CommitApplies ==
    ASSUME AnswerInv, NEW r \in Requests, Commit(r)
    PROVE  Ingest!Apply(r)
<1> DEFINE res == draft[r]
<1>1. pc[r] = "commit" /\ r \notin events
  BY DEF AnswerInv, IndInv, EventInv, Commit
<1>2. res \in Result /\ res.event = r
  BY DEF AnswerInv, IndInv, TypeOK, SessionInv
<1>3. answer[r] = None /\ answer' = [answer EXCEPT ![r] = res]
  <2>1. [kind |-> "ok", result |-> res] # None
    BY <1>2, SuccessReply, DistinctNone
  <2> QED
    BY <1>1, <2>1, AnswerGiven DEF Commit
<1>4. answer'[r] = res
  BY <1>3 DEF answer
<1>5. UNCHANGED key /\ key[r] = payload[r].key
  BY DEF Commit, session, key
<1>6. \/ key[r] = None /\ UNCHANGED stored
      \/ /\ key[r] # None
         /\ stored[key[r]] = None
         /\ stored' = [stored EXCEPT ![key[r]] = res]
  BY <1>1, <1>5 DEF AnswerInv, IndInv, OwnerInv, Working, Commit, StoreResult
<1>7. opened' = IF res.incident = None THEN opened ELSE opened \cup {r}
  <2>1. incidents' = incidents \cup ({res.incident} \ {None})
    BY DEF Commit
  <2>2. res.incident # None => res.incident.event = r
    BY DEF AnswerInv, DraftInv
  <2> HIDE DEF res
  <2> QED
    BY <2>1, <2>2 DEF opened
<1>8. /\ events' = events \cup {r}
      /\ actions' = IF res.action THEN actions \cup {r} ELSE actions
  BY DEF Commit
<1> HIDE DEF res
<1> QED
  BY <1>1, <1>2, <1>3, <1>4, <1>5, <1>6, <1>7, <1>8 DEF Ingest!Apply, key, opened, answer

\* A reset forgets, but answers stand.
LEMMA ResetForgets == Reset => Ingest!Forget
<1> SUFFICES ASSUME Reset PROVE Ingest!Forget
  OBVIOUS
<1>1. UNCHANGED key /\ UNCHANGED answer /\ opened' = {}
  BY DEF Reset, session, key, answer, opened
<1> QED
  BY <1>1 DEF Reset, Ingest!Forget, key, answer, opened

\* EventProcessor implements IdempotentIngest: a commit applies a request with all of
\* its effects at once, a replay repeats the stored result, a reset forgets, and
\* nothing else can be observed.
THEOREM Refinement == Spec => ImplementsIngest
<1>1. Init => Ingest!Init
  <2> SUFFICES ASSUME Init PROVE Ingest!Init
    OBVIOUS
  <2>1. TypeOK
    BY InitIndInv DEF IndInv
  <2>2. key \in [Requests -> Keys \cup {None}]
    BY <2>1, PayloadFields DEF key
  <2>3. answer = [r \in Requests |-> None] /\ opened = {}
    BY DEF Init, answer, opened
  <2> QED
    BY <2>2, <2>3 DEF Init, Ingest!Init, key, answer, opened
<1>2. AnswerInv /\ [Next]_vars => [Ingest!Next]_(Ingest!vars)
  <2> SUFFICES ASSUME AnswerInv, [Next]_vars PROVE [Ingest!Next]_(Ingest!vars)
    OBVIOUS
  <2>1. CASE Silent
    <3>1. UNCHANGED answer
      BY <2>1 DEF Silent, answer
    <3> QED
      BY <2>1, <3>1, SilentStutters DEF Silent
  <2>2. CASE Reset
    BY <2>2, ResetForgets DEF Ingest!Next
  <2>3. ASSUME NEW r \in Requests, Commit(r) \/ Replay(r) PROVE Ingest!Next
    BY <2>3, CommitApplies, ReplayRepeats DEF Ingest!Next
  <2> QED
    BY <2>1, <2>2, <2>3, FailureStutters, StepKinds DEF AnswerInv, IndInv
<1> QED
  BY <1>1, <1>2, AnswerInvariance, PTL DEF Spec, ImplementsIngest, Ingest!Spec
=============================================================================
