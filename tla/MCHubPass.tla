------------------------------ MODULE MCHubPass ------------------------------
(* HubPass over two resources of the same kind, and over two that share a  *)
(* pass.                                                                   *)
EXTENDS HubPass, TLC

CONSTANTS a, b,      \* resources
          n1, n2,    \* nodes
          main       \* the reconciler's goroutine

TwoItems == {a, b}

Both(kind) == [i \in TwoItems |-> kind]
Pairs      == {Both(kind) : kind \in Kinds}
NodeAndCsv == {(a :> "node") @@ (b :> "csv")}
PodAndHpe  == {(a :> "pod") @@ (b :> "hpe")}
Mixed      == Pairs \cup NodeAndCsv \cup PodAndHpe
Pools      == {Both("mcp")}

AThenB   == (a :> 1) @@ (b :> 2)
TwoLanes == {n1, n2, main}
Apart    == (a :> n1) @@ (b :> n2)
AInB     == (a :> TwoItems) @@ (b :> {b})   \* web and webapp

Node(anno, cordoned, ready) == [anno |-> anno, cordoned |-> cordoned, ready |-> ready]
SomeNodes == {Node("done", FALSE, "true"), Node("done", FALSE, "false"), Node("done", TRUE, "true"),
              Node("failed", TRUE, "true"), Node("updating", TRUE, "false"), Node("none", FALSE, "unknown")}

Pool(paused, updating, degraded) == [paused |-> paused, updating |-> updating, degraded |-> degraded]
SomePools == {Pool(FALSE, FALSE, FALSE), Pool(TRUE, FALSE, FALSE), Pool(FALSE, TRUE, FALSE),
              Pool(FALSE, FALSE, TRUE), Pool(FALSE, TRUE, TRUE)}
=============================================================================
