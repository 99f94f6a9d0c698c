-------------------------- MODULE MCEventProcessor --------------------------
(* Small instances of EventProcessor for TLC. *)
EXTENDS EventProcessor, TLC

CONSTANTS k1, pump

\* A critical rule with a cooldown of one minute and an action; a broad rule
\* below it that only opens an incident, without a cooldown.
critical == [category |-> "offline", minimum_severity |-> 5, cooldown |-> 1,
             action_type |-> "notify", enabled |-> TRUE]
broad == [category |-> "offline", minimum_severity |-> 1, cooldown |-> 0,
          action_type |-> "none", enabled |-> TRUE]

Body(key, category, severity) ==
    [key |-> key, asset |-> pump, category |-> category, severity |-> severity]

OneRule == {critical}
TwoRules == {critical, broad}

KeyedAndPlain == {Body(k1, "offline", 9), Body(None, "offline", 9)}
Keyed == {Body(k1, "offline", 9)}
Plain == {Body(None, "offline", 9), Body(None, "offline", 2)}

RequestSymmetry == Permutations(Requests)
=============================================================================
