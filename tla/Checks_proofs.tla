----------------------------- MODULE Checks_proofs -----------------------------
(* What the checks promise of any marker directory and any resource. *)
EXTENDS Checks, TLAPS

(* A verdict decides one marker, and deciding it twice is deciding it once. *)
LEMMA VerdictDecides ==
  ASSUME NEW m, NEW name, NEW r, NEW bad \in BOOLEAN
  PROVE  /\ <<name, r>> \in Verdict(m, name, r, bad) <=> bad
         /\ \A mk : mk # <<name, r>> => (mk \in Verdict(m, name, r, bad) <=> mk \in m)
  BY DEF Verdict, Faulty, Recovered

(* What Updating leaves of any other marker, and of the pool's own.        *)
LEMMA UpdatingDecides ==
  ASSUME NEW m, NEW p, NEW s \in PoolStatus, NEW nodes \in Nodes
  PROVE  /\ \A mk : mk # <<"mcp", p>> => (mk \in Updating(m, p, s, nodes) <=> mk \in m)
         /\ ~ s.updating => <<"mcp", p>> \notin Updating(m, p, s, nodes)
         /\ s.updating /\ nodes \in {"rolling", "affected"} => <<"mcp", p>> \in Updating(m, p, s, nodes)
         /\ s.updating /\ nodes \notin {"rolling", "affected"} => Updating(m, p, s, nodes) = m
  BY DEF Updating, Faulty, Recovered

(* Where each marker of a look at a pool comes from, when the alert of a   *)
(* degraded pool has a marker of its own.                                  *)
LEMMA SpokePoolDecides ==
  ASSUME NEW m, NEW p, NEW s \in PoolStatus, NEW nodes \in Nodes, NEW d \in BOOLEAN
  PROVE  LET M == PoolConditions(m, p, s, nodes, d, "mcp-degraded")
         IN /\ <<"mcp", p>> \in M <=> <<"mcp", p>> \in Updating(m, p, s, nodes)
            /\ <<"mcp-degraded", p>> \in M
                 <=> IF ~ d /\ PoolStops(s, nodes) THEN <<"mcp-degraded", p>> \in m ELSE s.degraded
            /\ \A mk : mk \notin {<<"mcp", p>>, <<"mcp-degraded", p>>} => (mk \in M <=> mk \in m)
<1> DEFINE D(x) == Verdict(x, "mcp-degraded", p, s.degraded)
           U(x) == Updating(x, p, s, nodes)
           M    == PoolConditions(m, p, s, nodes, d, "mcp-degraded")
<1>1. \A x : /\ <<"mcp-degraded", p>> \in D(x) <=> s.degraded
             /\ \A mk : mk # <<"mcp-degraded", p>> => (mk \in D(x) <=> mk \in x)
  BY VerdictDecides DEF PoolStatus
<1>2. \A x : \A mk : mk # <<"mcp", p>> => (mk \in U(x) <=> mk \in x)
  BY UpdatingDecides
<1>3. \A x : (<<"mcp", p>> \in x <=> <<"mcp", p>> \in m) => (<<"mcp", p>> \in U(x) <=> <<"mcp", p>> \in U(m))
  BY UpdatingDecides DEF PoolStatus
<1>4. M = IF d THEN U(D(m)) ELSE IF PoolStops(s, nodes) THEN U(m) ELSE D(U(m))
  BY DEF PoolConditions
<1>5. <<"mcp", p>> # <<"mcp-degraded", p>>
  OBVIOUS
<1> HIDE DEF D, U, M
<1>6. CASE d
  BY <1>1, <1>2, <1>3, <1>4, <1>5, <1>6 DEF U, M
<1>7. CASE ~ d /\ PoolStops(s, nodes)
  BY <1>1, <1>2, <1>3, <1>4, <1>5, <1>7 DEF U, M
<1>8. CASE ~ d /\ ~ PoolStops(s, nodes)
  BY <1>1, <1>2, <1>3, <1>4, <1>5, <1>8 DEF U, M
<1> QED BY <1>6, <1>7, <1>8

(* On a spoke it does not matter which of its conditions a pool changed    *)
(* last, unless the pool is really updating or its nodes cannot be read:   *)
(* then the look ends before Degraded when Updating comes first.           *)
THEOREM PoolOrderOnSpoke ==
  ASSUME NEW m, NEW p, NEW s \in PoolStatus, NEW nodes \in Nodes, ~ PoolStops(s, nodes)
  PROVE  PoolConditions(m, p, s, nodes, TRUE, "mcp-degraded") = PoolConditions(m, p, s, nodes, FALSE, "mcp-degraded")
<1> DEFINE A == PoolConditions(m, p, s, nodes, TRUE, "mcp-degraded")
           B == PoolConditions(m, p, s, nodes, FALSE, "mcp-degraded")
<1>1. /\ <<"mcp", p>> \in A <=> <<"mcp", p>> \in Updating(m, p, s, nodes)
      /\ <<"mcp-degraded", p>> \in A <=> s.degraded
      /\ \A mk : mk \notin {<<"mcp", p>>, <<"mcp-degraded", p>>} => (mk \in A <=> mk \in m)
  BY SpokePoolDecides
<1>2. /\ <<"mcp", p>> \in B <=> <<"mcp", p>> \in Updating(m, p, s, nodes)
      /\ <<"mcp-degraded", p>> \in B <=> s.degraded
      /\ \A mk : mk \notin {<<"mcp", p>>, <<"mcp-degraded", p>>} => (mk \in B <=> mk \in m)
  BY SpokePoolDecides
<1> HIDE DEF A, B
<1>3. \A mk : mk \in A <=> mk \in B
  BY <1>1, <1>2
<1>4. A = B
  BY <1>3
<1> QED BY <1>4 DEF A, B

(* On a hub both conditions share one marker.  Whatever the directory held *)
(* and whatever the nodes do, a pool that is degraded and not updating is  *)
(* alerted of and at once resolved again, when Updating changed last: the  *)
(* look ends without a marker, and status.healthy does not count the pool. *)
THEOREM DegradedHiddenOnHub ==
  ASSUME NEW m, NEW p, NEW s \in PoolStatus, NEW nodes \in Nodes, s.degraded, ~ s.updating
  PROVE  /\ <<"mcp", p>> \notin PoolConditions(m, p, s, nodes, TRUE, "mcp")
         /\ <<"mcp", p>> \in PoolConditions(m, p, s, nodes, FALSE, "mcp")
<1>1. PoolConditions(m, p, s, nodes, TRUE, "mcp") = Updating(Verdict(m, "mcp", p, s.degraded), p, s, nodes)
  BY DEF PoolConditions
<1>2. PoolConditions(m, p, s, nodes, FALSE, "mcp") = Verdict(Updating(m, p, s, nodes), "mcp", p, s.degraded)
  BY DEF PoolConditions, PoolStops
<1>3. <<"mcp", p>> \notin Updating(Verdict(m, "mcp", p, s.degraded), p, s, nodes)
  BY UpdatingDecides
<1>4. <<"mcp", p>> \in Verdict(Updating(m, p, s, nodes), "mcp", p, s.degraded)
  BY DEF Verdict, Faulty
<1> QED BY <1>1, <1>2, <1>3, <1>4

(* A node or a policy that is shown again with the status it was last      *)
(* looked at (a resync, a relist, an update of something else) changes no  *)
(* marker, and so sends no mail.                                           *)
THEOREM SecondLookIsIdle ==
  ASSUME NEW m, NEW r
  PROVE  /\ \A s \in NodeStatus : OnNode(OnNode(m, r, s), r, s) = OnNode(m, r, s)
         /\ \A s \in PolicyStatus : OnPolicy(OnPolicy(m, r, s), r, s) = OnPolicy(m, r, s)
<1>1. ASSUME NEW s \in NodeStatus PROVE OnNode(OnNode(m, r, s), r, s) = OnNode(m, r, s)
  <2>1. CASE s.anno = "updating"
    <3>1. \A x : OnNode(x, r, s) = x
      BY <2>1 DEF OnNode, InUpdate, Issue
    <3> QED BY <3>1
  <2>2. CASE s.anno = "failed"
    <3>1. \A x : OnNode(x, r, s) = x \cup {<<"mcp-issue", r>>}
      BY <2>2 DEF OnNode, InUpdate, Issue, Faulty
    <3> QED BY <3>1
  <2> DEFINE I == IF s.anno = "done" THEN {<<"mcp-issue", r>>} ELSE {}
  <2>3. CASE ~ InUpdate(s) /\ (s.cordoned \/ s.ready = "unknown")
    <3>1. \A x : OnNode(x, r, s) = Verdict(x \ I, "sched", r, s.cordoned)
      BY <2>3 DEF OnNode, InUpdate, Issue, Recovered, NodeStatus
    <3>2. <<"sched", r>> \notin I
      OBVIOUS
    <3> HIDE DEF I
    <3>3. CASE s.cordoned
      <4>1. \A x : OnNode(x, r, s) = (x \ I) \cup {<<"sched", r>>}
        BY <3>1, <3>3 DEF Verdict, Faulty
      <4>2. \A S, t, x : t \notin S => (((x \ S) \cup {t}) \ S) \cup {t} = (x \ S) \cup {t}
        OBVIOUS
      <4> QED BY <3>2, <4>1, <4>2
    <3>4. CASE ~ s.cordoned
      <4>1. \A x : OnNode(x, r, s) = (x \ I) \ {<<"sched", r>>}
        BY <3>1, <3>4 DEF Verdict, Recovered
      <4>2. \A S, t, x : (((x \ S) \ {t}) \ S) \ {t} = (x \ S) \ {t}
        OBVIOUS
      <4> QED BY <4>1, <4>2
    <3> QED BY <3>3, <3>4
  <2>4. CASE ~ InUpdate(s) /\ ~ s.cordoned /\ s.ready # "unknown"
    <3> DEFINE J == I \cup {<<"sched", r>>}
    <3>1. \A x : OnNode(x, r, s) = Verdict(x \ J, "ready", r, s.ready = "false")
      <4>1. \A x : OnNode(x, r, s) = Verdict(Recovered(Issue(x, r, s), "sched", r), "ready", r, s.ready = "false")
        BY <2>4 DEF OnNode, Verdict
      <4>2. \A x : Recovered(Issue(x, r, s), "sched", r) = x \ J
        BY <2>4 DEF InUpdate, Issue, Recovered, NodeStatus
      <4> QED BY <4>1, <4>2
    <3>2. <<"ready", r>> \notin J
      OBVIOUS
    <3> HIDE DEF J
    <3>3. CASE s.ready = "false"
      <4>1. \A x : OnNode(x, r, s) = (x \ J) \cup {<<"ready", r>>}
        BY <3>1, <3>3 DEF Verdict, Faulty
      <4>2. \A S, t, x : t \notin S => (((x \ S) \cup {t}) \ S) \cup {t} = (x \ S) \cup {t}
        OBVIOUS
      <4> QED BY <3>2, <4>1, <4>2
    <3>4. CASE s.ready # "false"
      <4>1. \A x : OnNode(x, r, s) = (x \ J) \ {<<"ready", r>>}
        BY <3>1, <3>4 DEF Verdict, Recovered
      <4>2. \A S, t, x : (((x \ S) \ {t}) \ S) \ {t} = (x \ S) \ {t}
        OBVIOUS
      <4> QED BY <4>1, <4>2
    <3> QED BY <3>3, <3>4
  <2> QED BY <2>1, <2>2, <2>3, <2>4 DEF InUpdate
<1>2. ASSUME NEW s \in PolicyStatus PROVE OnPolicy(OnPolicy(m, r, s), r, s) = OnPolicy(m, r, s)
  BY DEF OnPolicy, Verdict, Faulty, Recovered
<1> QED BY <1>1, <1>2
=============================================================================
