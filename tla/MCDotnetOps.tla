---------------------------- MODULE MCDotnetOps ----------------------------
(* Small instances of DotnetOps for TLC. *)
EXTENDS DotnetOps, TLC

Body(category, severity, mode, hint) ==
    [asset |-> "gateway", category |-> category, severity |-> severity,
     mode |-> mode, hint |-> hint]

\* Two outages, a warning of the same category (below the action threshold), noise.
MixedBodies == {Body("latency", 120, "transient_then_success", None),
                Body("latency", 80, "permanent_failure", None),
                Body("latency", 60, "success", None),
                Body("noise", -5, "success", None)}

\* A mode the service does not know, resolved by the words of the message.
Outages == {Body("offline", 10, "transient_failure", "transient"),
            Body("critical", 10, "unknown", "permanent")}

RequestSymmetry == Permutations(Requests)
=============================================================================
