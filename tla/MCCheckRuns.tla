---------------------------- MODULE MCCheckRuns ----------------------------
(* Small instances of CheckRuns for TLC; the .cfg files give the constants. *)
EXTENDS CheckRuns

CONSTANTS s1, s2, c1, c2

MCSessions == {s1, s2}
MCChecks == {c1, c2}

\* One request at a time about two checks, or two at a time about one.
MCTraffic == {[sessions |-> {s1}, checks |-> {c1, c2}],
              [sessions |-> {s1, s2}, checks |-> {c1}]}
=============================================================================
