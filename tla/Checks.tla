-------------------------------- MODULE Checks --------------------------------
(***************************************************************************)
(* What one look at one resource does to its marker files.  The handlers   *)
(* of a spoke (internal/util) and the passes of a hub (internal/hubutil)   *)
(* share these verdicts; who looks, when, and at which copy of the         *)
(* resource is up to the modules that extend this one.                     *)
(*                                                                         *)
(* A marker is a pair of a name and a resource, m the set of markers that  *)
(* exist.  Mail is on; AlertMarker takes a SendEmail apart.                *)
(***************************************************************************)

(* The last two are only ever resolved (OnPolicyDelete).                   *)
MarkerNames == {"own", "mcp", "mcp-pause", "mcp-degraded", "mcp-issue", "sched", "ready",
                "child", "noncomplaint"}

Faulty(m, name, r)       == m \cup {<<name, r>>}
Recovered(m, name, r)    == m \ {<<name, r>>}
Verdict(m, name, r, bad) == IF bad THEN Faulty(m, name, r) ELSE Recovered(m, name, r)

MarkersOf(r) == {<<name, r>> : name \in MarkerNames}

----------------------------------------------------------------------------
(* Nodes: the machine config daemon's annotation (Working and Rebooting    *)
(* are updating, Degraded and Unreconcilable are failed, none is a node    *)
(* without it or with another value), spec and Ready.                      *)
NodeStatus == [anno     : {"done", "updating", "failed", "none"},
               cordoned : BOOLEAN,
               ready    : {"true", "false", "unknown"}]

(* The look at a node ends with its annotation.                            *)
InUpdate(s) == s.anno \in {"updating", "failed"}

Issue(m, n, s) ==
  CASE s.anno = "failed" -> Faulty(m, "mcp-issue", n)
    [] s.anno = "done"   -> Recovered(m, "mcp-issue", n)
    [] OTHER             -> m

(* Mutant: a node that is cordoned is not looked at any further, and not   *)
(* reported either.                                                        *)
OnNode_Cordoned(m, n, s) ==
  LET sched == Recovered(Issue(m, n, s), "sched", n)
  IN CASE InUpdate(s) -> Issue(m, n, s)
       [] ~ InUpdate(s) /\ (s.cordoned \/ s.ready = "unknown") -> sched
       [] OTHER       -> Verdict(sched, "ready", n, s.ready = "false")

(* Each condition hides the ones below it, and Unknown, which is what      *)
(* Ready becomes when a node is lost, is neither good nor bad.             *)
OnNode(m, n, s) ==
  LET sched == Verdict(Issue(m, n, s), "sched", n, s.cordoned)
  IN CASE InUpdate(s) -> Issue(m, n, s)
       [] ~ InUpdate(s) /\ (s.cordoned \/ s.ready = "unknown") -> sched
       [] OTHER       -> Verdict(sched, "ready", n, s.ready = "false")

NodeTrouble(s) == \/ s.anno = "failed"
                  \/ ~ InUpdate(s) /\ (s.cordoned \/ s.ready = "false")
NodeWell(s)    == s.anno = "done" /\ ~ s.cordoned /\ s.ready = "true"

----------------------------------------------------------------------------
(* Machine config pools, and what a look at their nodes may find: calm; a  *)
(* node whose annotation is not Done (rolling); all Done, but one cordoned *)
(* or not ready (affected); the nodes cannot be read (blind).              *)
PoolStatus == [paused : BOOLEAN, updating : BOOLEAN, degraded : BOOLEAN]
Nodes      == {"calm", "rolling", "affected", "blind"}

(* A pool that is really updating, or whose nodes cannot be read, ends the *)
(* look at it.                                                             *)
PoolStops(s, nodes) == s.updating /\ nodes \in {"rolling", "blind"}

(* Mutant: the early return comes before the mail.                         *)
Updating_Silent(m, p, s, nodes) ==
  CASE ~ s.updating        -> Recovered(m, "mcp", p)
    [] s.updating /\ nodes = "affected" -> Faulty(m, "mcp", p)
    [] OTHER               -> m

(* Mutant: the nodes are looked at, the pool's own condition is not.       *)
Updating_AnyPool(m, p, s, nodes) ==
  IF nodes \in {"rolling", "affected"} THEN Faulty(m, "mcp", p) ELSE Recovered(m, "mcp", p)

Updating(m, p, s, nodes) ==
  CASE ~ s.updating -> Recovered(m, "mcp", p)
    [] s.updating /\ nodes \in {"rolling", "affected"} -> Faulty(m, "mcp", p)
    [] OTHER        -> m

(* The conditions come in the order in which they last changed.            *)
PoolConditions(m, p, s, nodes, degradedFirst, degradedName) ==
  LET Degraded(x) == Verdict(x, degradedName, p, s.degraded)
      updating    == Updating(IF degradedFirst THEN Degraded(m) ELSE m, p, s, nodes)
  IN IF degradedFirst \/ PoolStops(s, nodes) THEN updating ELSE Degraded(updating)

----------------------------------------------------------------------------
(* Policies.  One that is non-compliant or disabled is reported while the  *)
(* last entry of its history is younger than six hours (violating), and    *)
(* then no more (old); child policies and ignored ones never.              *)
PolicyStatus == {"compliant", "violating", "old", "child", "ignored"}

OnPolicy(m, p, s) ==
  IF s \in {"old", "child", "ignored"} THEN m ELSE Verdict(m, "own", p, s = "violating")
=============================================================================
