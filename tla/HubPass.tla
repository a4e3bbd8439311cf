------------------------------- MODULE HubPass -------------------------------
(***************************************************************************)
(* The pass of checks that Reconcile makes on a hub, kind after kind, over *)
(* lists that it reads as it comes to them, while the cluster moves on.    *)
(* An early return inside a check leaves the rest of its list unlooked at. *)
(* At the end status.healthy is read off the marker directory.  A panic of *)
(* the reconciler's own goroutine is recovered and ends the pass; one of   *)
(* any other ends the process, which may die any time, and its markers     *)
(* with it.                                                                *)
(***************************************************************************)
EXTENDS Checks, Naturals

CONSTANTS Items,         \* the resources of the hub
          KindChoices,   \* what kinds they may be, functions from Items to Kinds
          Rank,          \* Rank[i]: the place of i in the lists of its kind
          Lanes, Main,   \* the nodes that run pods; the goroutine of Reconcile
          LaneOf,        \* LaneOf[i]: the node of pod i
          Matches,       \* Matches[i]: pods whose markers' names contain the name
                         \*   and the namespace of pod i
          NodeStatuses, PoolStatuses   \* statuses of nodes and pools to consider

(* The kinds in the order of the pass.  CleanUpRunningPods is a second     *)
(* round over the pods.                                                    *)
Order == <<"mcp", "pod", "node", "policy", "co", "nncp", "catalog", "csv",
           "argo", "cluster", "issuer", "cleanup", "hpe">>
Last  == 13
Kinds == {Order[n] : n \in 1..Last} \ {"cleanup"}

ASSUME KindsAssumption   == KindChoices \subseteq [Items -> Kinds]
ASSUME RankAssumption    == Rank \in [Items -> Nat]
ASSUME LanesAssumption   == Main \in Lanes /\ LaneOf \in [Items -> Lanes]
ASSUME MatchesAssumption == Matches \in [Items -> SUBSET Items] /\ \A i \in Items : i \in Matches[i]
ASSUME StatusAssumption  == NodeStatuses \subseteq NodeStatus /\ PoolStatuses \subseteq PoolStatus

(* What the checks tell apart: a record of conditions, or a single one.  A *)
(* pod that recovers runs again after a restart, and has a last state or   *)
(* not.  A catalog source has no connection state, an issuer no condition, *)
(* and a backend no address, when it is none.                              *)
Single(names)  == [is : names]
Statuses(kind) ==
  CASE kind = "mcp"               -> PoolStatuses
    [] kind = "node"              -> NodeStatuses
    [] kind = "policy"            -> Single(PolicyStatus \cup {"terminating", "gone"})
    [] kind = "pod"               -> Single({"well", "failing", "recovering", "ignored", "terminating", "gone"})
    [] kind = "catalog"           -> Single({"well", "failing", "none", "terminating", "gone"})
    [] kind \in {"issuer", "hpe"} -> Single({"well", "failing", "none"})
    [] OTHER                      -> Single({"well", "failing", "terminating", "gone"})

AnyStatus == UNION {Statuses(kind) : kind \in Kinds}
None      == [is |-> "none"]
Gone      == [is |-> "gone"]

VARIABLES
  kindOf,    \* the kinds of the items, which never change
  status,    \* their statuses
  nodes,     \* what a look at the nodes finds, as in Checks
  pc,        \* idle; gate, look: at a kind; report; dead: no process
  stage,     \* the kind, an index of Order
  unlisted,  \* lanes whose list has yet to be read
  left,      \* items of this kind not looked at yet
  listed,    \* the statuses that were listed
  marked,    \* the markers
  healthy,   \* status.healthy
  steady,    \* history: items whose status has not changed during the pass
  cut        \* history: some list was not looked at to its end

cluster == <<kindOf, status, nodes>>
lists   == <<unlisted, left, listed>>
vars    == <<cluster, pc, stage, lists, marked, healthy, steady, cut>>

TypeOK ==
  /\ kindOf \in KindChoices
  /\ status \in [Items -> AnyStatus] /\ \A i \in Items : status[i] \in Statuses(kindOf[i])
  /\ nodes \in Nodes
  /\ pc \in {"idle", "gate", "look", "report", "dead"}
  /\ stage \in 0..Last + 1
  /\ pc \in {"gate", "look"} => stage \in 1..Last
  /\ pc = "report" => stage = Last + 1
  /\ pc \in {"idle", "dead"} => stage = 0
  /\ unlisted \subseteq Lanes /\ left \subseteq Items
  /\ pc # "look" => unlisted = {} /\ left = {}
  /\ listed \in [Items -> AnyStatus \cup {None}]
  /\ marked \subseteq (MarkerNames \X Items)
  /\ healthy \in BOOLEAN
  /\ steady \subseteq Items /\ cut \in BOOLEAN

(* What the documentation would call failing, for as far as the pass looks *)
(* at it: not a pool that is degraded (see DegradedPoolShows), nor a node  *)
(* that is lost, nor a policy that has been violated for six hours.        *)
Failing(kind, s) ==
  CASE kind = "mcp"    -> s.paused
    [] kind = "node"   -> NodeTrouble(s)
    [] kind = "policy" -> s.is = "violating"
    [] OTHER           -> s.is = "failing"

Well(kind, s) ==
  CASE kind = "mcp"    -> ~ s.paused /\ ~ s.updating /\ ~ s.degraded
    [] kind = "node"   -> NodeWell(s)
    [] kind = "policy" -> s.is = "compliant"
    [] OTHER           -> s.is = "well"

Init ==
  /\ kindOf \in KindChoices
  /\ status \in [Items -> AnyStatus] /\ \A i \in Items : status[i] \in Statuses(kindOf[i])
  /\ nodes = "calm"
  /\ pc = "idle" /\ stage = 0
  /\ unlisted = {} /\ left = {} /\ listed = [i \in Items |-> None]
  /\ marked = {} /\ healthy = FALSE
  /\ steady = {} /\ cut = FALSE

----------------------------------------------------------------------------
(* The cluster *)

Move(i, s) ==
  /\ status' = [status EXCEPT ![i] = s]
  /\ steady' = steady \ {i}
  /\ UNCHANGED <<kindOf, nodes, pc, stage, lists, marked, healthy, cut>>

NodesMove ==
  /\ nodes' \in Nodes \ {nodes}
  /\ UNCHANGED <<kindOf, status, pc, stage, lists, marked, healthy, steady, cut>>

----------------------------------------------------------------------------
(* From kind to kind *)

OfKind(kind) == {i \in Items : kindOf[i] = kind}
ItemsAt(n)   == OfKind(IF Order[n] = "cleanup" THEN "pod" ELSE Order[n])
Kind         == Order[stage]

(* Nothing happens at a kind of which there is nothing.                    *)
Busy(n)  == ItemsAt(n) # {}
Later(n) == {k \in n + 1..Last : Busy(k)}
GoOn     == LET next == IF Later(stage) = {} THEN Last + 1
                        ELSE CHOOSE k \in Later(stage) : \A j \in Later(stage) : k <= j
            IN stage' = next /\ pc' = IF next > Last THEN "report" ELSE "gate"

(* CheckMCPINProgress: a pool that says it is updating while a node of it  *)
(* is not Done, or pools that cannot be read.                              *)
CheckMCPINProgress ==
  \/ nodes = "blind"
  \/ nodes = "rolling" /\ (OfKind("mcp") = {} \/ \E p \in OfKind("mcp") : status[p].updating)

(* Otherwise Reconcile gives up, and status.healthy stays what it was.     *)
Begin ==
  /\ pc = "idle"
  /\ ~ CheckMCPINProgress
  /\ GoOn
  /\ steady' = Items /\ cut' = FALSE
  /\ UNCHANGED <<cluster, lists, marked, healthy>>

(* Four of the checks ask about the pools before they list anything.       *)
Gated == {"pod", "nncp", "catalog", "csv"}

Gate ==
  /\ pc = "gate"
  /\ IF Kind \in Gated /\ CheckMCPINProgress
     THEN GoOn /\ cut' = TRUE /\ UNCHANGED lists
     ELSE /\ pc' = "look"
          /\ left' = ItemsAt(stage)
          /\ unlisted' = IF Kind = "pod" THEN Lanes ELSE {Main}
          /\ UNCHANGED <<stage, listed, cut>>
  /\ UNCHANGED <<cluster, marked, healthy, steady>>

(* The pods are listed and looked at by a goroutine for each node, the     *)
(* markers of the cleanup by one each; everything else in a row.           *)
Lane(i)       == IF Kind = "pod" THEN LaneOf[i] ELSE Main
RestOfLane(l) == {i \in left : Lane(i) = l}

List(l) ==
  /\ pc = "look" /\ l \in unlisted
  /\ unlisted' = unlisted \ {l}
  /\ IF nodes = "blind"
     THEN left' = left \ RestOfLane(l) /\ cut' = TRUE /\ UNCHANGED listed
     ELSE /\ listed' = [i \in Items |-> IF i \in RestOfLane(l) THEN status[i] ELSE listed[i]]
          /\ left' = left \ {i \in RestOfLane(l) : status[i] = Gone}
          /\ UNCHANGED cut
  /\ UNCHANGED <<cluster, pc, stage, marked, healthy, steady>>

----------------------------------------------------------------------------
(* A look at one item, by the status that was listed *)

PoolPass(m, p, s, degradedFirst) ==
  CASE s.paused /\ nodes = "blind"   -> m
    [] s.paused /\ nodes = "rolling" -> Faulty(m, "mcp-pause", p)
    [] OTHER -> PoolConditions(Verdict(m, "mcp-pause", p, s.paused), p, s, nodes, degradedFirst, "mcp")

PoolPassStops(s) == PoolStops(s, nodes) \/ (s.paused /\ nodes \in {"rolling", "blind"})

(* The first node that is updating, failed or cordoned is the last one     *)
(* that is looked at.                                                      *)
NodePassStops(s) == InUpdate(s) \/ s.cordoned

(* A pod that terminates resolves every marker whose name contains its own.*)
PodPass(m, i, s) ==
  CASE s.is = "terminating"         -> m \ ({"own"} \X Matches[i])
    [] s.is \in {"well", "failing"} -> Verdict(m, "own", i, s.is = "failing")
    [] OTHER                        -> m

(* Pods of a node that is cordoned or not ready are left alone.            *)
PodPassStops(s) == s.is # "ignored" /\ nodes \in {"affected", "blind"}

(* Mutant: whatever the pod's status.                                      *)
CleanupPass_AnyPod(m, i, s) == Recovered(m, "own", i)

CleanupPass(m, i, s) == IF s.is = "well" THEN Recovered(m, "own", i) ELSE m

PolicyPass(m, p, s) == IF s.is = "terminating" THEN m ELSE OnPolicy(m, p, s.is)

(* Cluster operators ask about the pools again and again.                  *)
OperatorPassStops(s) == s.is = "terminating" \/ CheckMCPINProgress

CatalogPassStops(s) == s.is = "terminating" \/ nodes = "blind"

(* Managed clusters have a marker for each condition; an item is one.      *)
ListPassStops(s) == s.is = "terminating"

Stops(s) ==
  CASE Kind = "mcp"     -> PoolPassStops(s)
    [] Kind = "node"    -> NodePassStops(s)
    [] Kind = "pod"     -> PodPassStops(s)
    [] Kind = "co"      -> OperatorPassStops(s)
    [] Kind = "catalog" -> CatalogPassStops(s)
    [] Kind = "cleanup" -> FALSE
    [] OTHER            -> ListPassStops(s)

ListPass(m, i, s) == IF s.is \in {"well", "failing"} THEN Verdict(m, "own", i, s.is = "failing") ELSE m

Looked(m, i, s, degradedFirst) ==
  CASE Kind = "mcp"     -> PoolPass(m, i, s, degradedFirst)
    [] Kind = "node"    -> OnNode(m, i, s)
    [] Kind = "pod"     -> IF PodPassStops(s) THEN m ELSE PodPass(m, i, s)
    [] Kind = "policy"  -> PolicyPass(m, i, s)
    [] Kind = "cleanup" -> CleanupPass(m, i, s)
    [] Kind \in {"co", "catalog"} -> IF Stops(s) THEN m ELSE ListPass(m, i, s)
    [] OTHER            -> ListPass(m, i, s)

Forget(kept) == listed' = [i \in Items |-> IF i \in kept THEN listed[i] ELSE None]

(* The cleanup reads when the last restart was off the last state of a pod *)
(* that has a marker, a nil pointer if there is none; a catalog source's   *)
(* connection state is a pointer, too.                                     *)
CleanupMayPanic(i) == Kind = "cleanup" /\ listed[i].is = "recovering" /\ <<"own", i>> \in marked
CatalogPanics(i)   == Kind = "catalog" /\ listed[i] = None /\ ~ Stops(listed[i])

First(i) == /\ Lane(i) \notin unlisted
            /\ Kind # "cleanup" => \A j \in RestOfLane(Lane(i)) : Rank[i] <= Rank[j]

Look(i) ==
  /\ pc = "look" /\ i \in left /\ First(i)
  /\ ~ CatalogPanics(i)
  /\ \E degradedFirst \in BOOLEAN : marked' = Looked(marked, i, listed[i], degradedFirst)
  /\ left' = IF Stops(listed[i]) THEN left \ RestOfLane(Lane(i)) ELSE left \ {i}
  /\ cut' = (cut \/ Stops(listed[i]))
  /\ Forget(left')
  /\ UNCHANGED <<cluster, pc, stage, unlisted, healthy, steady>>

(* Mutant: the goroutines are not waited for.                              *)
Done_NoWait ==
  /\ pc = "look" /\ unlisted = {}
  /\ GoOn
  /\ UNCHANGED <<cluster, lists, marked, healthy, steady, cut>>

Done ==
  /\ pc = "look" /\ left = {} /\ unlisted = {}
  /\ GoOn
  /\ UNCHANGED <<cluster, lists, marked, healthy, steady, cut>>

(* Markers of backends are kept in another directory.                      *)
Counted == {mk \in marked : kindOf[mk[2]] # "hpe"}

Report ==
  /\ pc = "report"
  /\ healthy' = (Counted = {})
  /\ pc' = "idle" /\ stage' = 0 /\ steady' = {} /\ cut' = FALSE
  /\ UNCHANGED <<cluster, lists, marked>>

PassOver == /\ stage' = 0 /\ unlisted' = {} /\ left' = {} /\ Forget({})
            /\ steady' = {} /\ cut' = FALSE
            /\ UNCHANGED <<cluster, healthy>>

(* The reconciler goes on as it does after an error, without a report.     *)
CatalogPanic ==
  /\ pc = "look" /\ \E i \in left : First(i) /\ CatalogPanics(i)
  /\ PassOver /\ pc' = "idle" /\ UNCHANGED marked

(* The process dies: of a panic in a goroutine of its own, as the cleanup  *)
(* and the looks at the pods have them, of a new image, with its node.     *)
(* Markers are files of its container.                                     *)
Die == /\ pc # "dead" /\ pc' = "dead"
       /\ PassOver /\ marked' = {}

CleanupPanic ==
  /\ pc = "look" /\ \E i \in left : First(i) /\ CleanupMayPanic(i)
  /\ Die

Start == /\ pc = "dead" /\ pc' = "idle"
         /\ UNCHANGED <<cluster, stage, lists, marked, healthy, steady, cut>>

Pass == Begin \/ Gate \/ (\E l \in Lanes : List(l)) \/ (\E i \in Items : Look(i)) \/ Done \/ Report \/ CatalogPanic

Next == \/ Pass \/ NodesMove \/ CleanupPanic \/ Die \/ Start
        \/ \E i \in Items : \E s \in Statuses(kindOf[i]) \ {status[i]} : Move(i, s)

Spec == Init /\ [][Next]_vars

----------------------------------------------------------------------------
(* Properties *)

HasMarker(i) == \E mk \in marked : mk[2] = i

(* Pods whose name no other pod's name is part of, and everything else.    *)
Alone(i) == \A j \in Items : i \in Matches[j] => j = i

(* A pass that no closed gate, failed read or early return cut short tells *)
(* the truth, however the cluster moves under it: of what has not changed  *)
(* since it began, everything that fails has a marker when status.healthy  *)
(* is read off, and nothing that is well has one.                          *)
ReportIsRight ==
  pc = "report" /\ ~ cut =>
    \A i \in steady :
      /\ Failing(kindOf[i], status[i]) /\ Alone(i) => HasMarker(i)
      /\ Well(kindOf[i], status[i]) => ~ HasMarker(i)

(* What a cut pass cannot do, closed gates, failed reads, early returns    *)
(* and recovered panics notwithstanding: take back the alert of something  *)
(* that fails, unless it is working off a list from a better time.  The    *)
(* death of the process takes back all of them.                            *)
AlertStands ==
  [][\A i \in Items :
       pc' # "dead" /\ HasMarker(i) /\ ~ HasMarker(i)' /\ Alone(i) /\ Failing(kindOf[i], status[i])
         => listed[i] # None /\ ~ Failing(kindOf[i], listed[i])]_vars

(* Nor can it alert of something that is well, whatever it finds the nodes *)
(* doing, unless its list is from a worse time.                            *)
SilenceStands ==
  [][\A i \in Items :
       Well(kindOf[i], status[i]) /\ ~ HasMarker(i) /\ HasMarker(i)'
         => listed[i] # None /\ ~ Well(kindOf[i], listed[i])]_vars

(* "if set to true, all monitored resources in the target cluster are      *)
(* running fine": no pass reports healthy over a pool that is degraded     *)
(* and nothing else.  The code resolves the alert of a degraded pool with  *)
(* the pool's own Updating=False when that condition changed last.         *)
DegradedPoolShows ==
  pc = "report" /\ ~ cut /\ Counted = {} => \A i \in OfKind("mcp") \cap steady : ~ status[i].degraded
=============================================================================
