---------------------------- MODULE MCSpokeChecks ----------------------------
(* SpokeChecks over one resource of any kind, and over a policy.           *)
EXTENDS SpokeChecks

CONSTANT r    \* the resource

JustPolicies == {"policy"}

Node(anno, cordoned, ready) == [anno |-> anno, cordoned |-> cordoned, ready |-> ready]
SomeNodes == {Node("done", FALSE, "true"), Node("done", FALSE, "false"),
              Node("failed", TRUE, "true"), Node("done", FALSE, "unknown"), Node("none", TRUE, "true")}

Pool(updating, degraded) == [paused |-> FALSE, updating |-> updating, degraded |-> degraded]
SomePools == {Pool(u, d) : u, d \in BOOLEAN}
=============================================================================
