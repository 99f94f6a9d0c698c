-------------------------- MODULE IdempotentIngest --------------------------
(***************************************************************************)
(* What event ingestion promises, with no database, lock or retry in sight.*)
(* A request is applied at most once and answered with its own result, or  *)
(* it repeats the result that its key already has.  A request may also go  *)
(* unanswered for ever, and then it has left nothing behind.               *)
(***************************************************************************)
CONSTANTS Requests, Keys, None, Result

VARIABLES
    key,       \* the idempotency key of each request, None for no key
    outcome,   \* the result each key stands for, None until there is one
    applied,   \* requests whose effects are in the database
    opened,    \* those of them that opened an incident
    queued,    \* those of them that queued an action
    answer     \* the successful response to each request, None if there is none

vars == <<key, outcome, applied, opened, queued, answer>>

Init ==
    /\ key \in [Requests -> Keys \cup {None}]
    /\ outcome = [k \in Keys |-> None]
    /\ applied = {} /\ opened = {} /\ queued = {}
    /\ answer = [r \in Requests |-> None]

\* The request owns its operation: it gets some result of its own, and all of
\* the effects happen at once.
Apply(r) ==
    LET res == answer'[r] IN
    /\ r \notin applied /\ answer[r] = None
    /\ res \in Result /\ res.event = r
    /\ answer' = [answer EXCEPT ![r] = res]
    /\ \/ key[r] = None /\ UNCHANGED outcome
       \/ /\ key[r] # None
          /\ outcome[key[r]] = None
          /\ outcome' = [outcome EXCEPT ![key[r]] = res]
    /\ applied' = applied \cup {r}
    /\ opened' = IF res.incident = None THEN opened ELSE opened \cup {r}
    /\ queued' = IF res.action THEN queued \cup {r} ELSE queued
    /\ UNCHANGED key

\* The operation has been performed by another request with the key.
Repeat(r) ==
    /\ r \notin applied /\ answer[r] = None
    /\ key[r] # None
    /\ outcome[key[r]] # None
    /\ answer' = [answer EXCEPT ![r] = outcome[key[r]]]
    /\ UNCHANGED <<key, outcome, applied, opened, queued>>

\* Everything is forgotten, but answers that were given stand.
Forget ==
    /\ outcome' = [k \in Keys |-> None]
    /\ applied' = {} /\ opened' = {} /\ queued' = {}
    /\ UNCHANGED <<key, answer>>

Next == (\E r \in Requests : Apply(r) \/ Repeat(r)) \/ Forget

Spec == Init /\ [][Next]_vars
=============================================================================
