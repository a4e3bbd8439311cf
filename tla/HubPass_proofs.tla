---------------------------- MODULE HubPass_proofs ----------------------------
(* Theorems about the pass of a hub, for any resources, kinds and nodes. *)
EXTENDS HubPass, TLAPS

(* The places of the pass, one by one. *)
LEMMA Places ==
  /\ Order[1] = "mcp"  /\ Order[2] = "pod"  /\ Order[3] = "node" /\ Order[4] = "policy"
  /\ Order[5] = "co"   /\ Order[6] = "nncp" /\ Order[7] = "catalog" /\ Order[8] = "csv"
  /\ Order[9] = "argo" /\ Order[10] = "cluster" /\ Order[11] = "issuer"
  /\ Order[12] = "cleanup" /\ Order[13] = "hpe"
  BY DEF Order

(* The pods' place is the second, and the cleanup's the last but one. *)
LEMMA PlacesOfPods ==
  ASSUME NEW n \in 1..Last
  PROVE  (Order[n] = "pod" <=> n = 2) /\ (Order[n] = "cleanup" <=> n = 12)
<1>1. n \in {1, 2, 3, 4, 5, 6, 7, 8, 9, 10, 11, 12, 13}
  BY DEF Last
<1> QED BY <1>1, Places

(* A resource has a kind, and its kind a place. *)
LEMMA KindOfType ==
  ASSUME TypeOK, NEW i \in Items
  PROVE  /\ kindOf[i] \in Kinds /\ kindOf[i] # "cleanup"
         /\ Statuses(kindOf[i]) \subseteq AnyStatus
         /\ \E n \in 1..Last : Order[n] = kindOf[i]
<1>1. kindOf \in [Items -> Kinds]
  BY KindsAssumption DEF TypeOK
<1>2. kindOf[i] \in Kinds
  BY <1>1
<1> QED BY <1>2 DEF Kinds, AnyStatus

(* A set of places has a first one. *)
LEMMA FirstPlace ==
  ASSUME NEW S \in SUBSET (1..13), S # {}
  PROVE  \E k \in S : \A j \in S : k <= j
<1> SUFFICES ASSUME \A k \in S : \E j \in S : j < k PROVE FALSE
  OBVIOUS
<1>1. \A n \in S : n \in 1..13
  OBVIOUS
<1>2. \A n \in S : n # 1
  BY <1>1
<1>3. \A n \in S : n # 2 /\ n # 3
  BY <1>1, <1>2
<1>4. \A n \in S : n # 4 /\ n # 5
  BY <1>1, <1>2, <1>3
<1>5. \A n \in S : n # 6 /\ n # 7
  BY <1>1, <1>2, <1>3, <1>4
<1>6. \A n \in S : n # 8 /\ n # 9
  BY <1>1, <1>2, <1>3, <1>4, <1>5
<1>7. \A n \in S : n # 10 /\ n # 11
  BY <1>1, <1>2, <1>3, <1>4, <1>5, <1>6
<1>8. \A n \in S : n # 12 /\ n # 13
  BY <1>1, <1>2, <1>3, <1>4, <1>5, <1>6, <1>7
<1>9. PICK n \in S : TRUE
  OBVIOUS
<1>10. n \in {1, 2, 3, 4, 5, 6, 7, 8, 9, 10, 11, 12, 13}
  BY <1>1, <1>9
<1> QED BY <1>2, <1>3, <1>4, <1>5, <1>6, <1>7, <1>8, <1>9, <1>10

(* What comes later has a first. *)
LEMMA LaterFirst ==
  ASSUME NEW n \in 0..Last, Later(n) # {}
  PROVE  LET next == CHOOSE k \in Later(n) : \A j \in Later(n) : k <= j
         IN next \in Later(n) /\ \A j \in Later(n) : next <= j
<1>1. Later(n) \in SUBSET (1..13)
  BY DEF Later, Last
<1>2. \E k \in Later(n) : \A j \in Later(n) : k <= j
  BY <1>1, FirstPlace
<1> QED BY <1>2

(* The pass goes on to a later kind, or to the end, and passes over kinds  *)
(* of which there is nothing. *)
LEMMA GoOnStep ==
  ASSUME TypeOK, stage \in 0..Last, GoOn
  PROVE  /\ stage' \in stage + 1..Last + 1
         /\ pc' = IF stage' = Last + 1 THEN "report" ELSE "gate"
         /\ \A n \in 1..Last : stage < n /\ n < stage' => ~ Busy(n)
<1>1. CASE Later(stage) = {}
  <2>1. stage' = Last + 1 /\ pc' = "report"
    BY <1>1 DEF GoOn, Last
  <2>2. \A n \in 1..Last : stage < n => ~ Busy(n)
    BY <1>1 DEF Later, Last
  <2> QED BY <2>1, <2>2 DEF Last
<1>2. CASE Later(stage) # {}
  <2> DEFINE next == CHOOSE k \in Later(stage) : \A j \in Later(stage) : k <= j
  <2>1. next \in Later(stage) /\ \A j \in Later(stage) : next <= j
    BY <1>2, LaterFirst
  <2>2. stage' = next /\ pc' = IF next > Last THEN "report" ELSE "gate"
    BY <1>2 DEF GoOn
  <2> HIDE DEF next
  <2>3. next \in stage + 1..Last
    BY <2>1 DEF Later
  <2>4. \A n \in 1..Last : stage < n /\ n < next => ~ Busy(n)
    BY <2>1, <2>3 DEF Later, Last
  <2> QED BY <2>2, <2>3, <2>4 DEF Last
<1> QED BY <1>1, <1>2

(* The markers of a look stay markers of resources. *)
LEMMA LookedType ==
  ASSUME NEW m \in SUBSET (MarkerNames \X Items), NEW i \in Items, NEW s, NEW d \in BOOLEAN
  PROVE  Looked(m, i, s, d) \subseteq (MarkerNames \X Items)
<1>1. \A bad : \A x \in SUBSET (MarkerNames \X Items) : \A name \in MarkerNames :
         Verdict(x, name, i, bad) \subseteq (MarkerNames \X Items)
  BY DEF Verdict, Faulty, Recovered
<1>2. {"own", "mcp", "mcp-pause", "mcp-degraded", "mcp-issue", "sched", "ready"} \subseteq MarkerNames
  BY DEF MarkerNames
<1>3. ListPass(m, i, s) \subseteq (MarkerNames \X Items)
  BY <1>1, <1>2 DEF ListPass
<1>4. OnNode(m, i, s) \subseteq (MarkerNames \X Items)
  <2>1. Issue(m, i, s) \subseteq (MarkerNames \X Items)
    BY <1>2 DEF Issue, Faulty, Recovered
  <2> QED BY <2>1, <1>1, <1>2 DEF OnNode
<1>5. PoolPass(m, i, s, d) \subseteq (MarkerNames \X Items)
  <2>1. \A x \in SUBSET (MarkerNames \X Items) : Updating(x, i, s, nodes) \in SUBSET (MarkerNames \X Items)
    BY <1>2 DEF Updating, Faulty, Recovered
  <2>2. \A x \in SUBSET (MarkerNames \X Items) : Verdict(x, "mcp", i, s.degraded) \in SUBSET (MarkerNames \X Items)
    BY <1>1, <1>2
  <2>3. \A x \in SUBSET (MarkerNames \X Items) :
           PoolConditions(x, i, s, nodes, d, "mcp") \in SUBSET (MarkerNames \X Items)
    BY <2>1, <2>2 DEF PoolConditions
  <2>4. Verdict(m, "mcp-pause", i, s.paused) \in SUBSET (MarkerNames \X Items)
    BY <1>1, <1>2
  <2> QED BY <2>3, <2>4, <1>2 DEF PoolPass, Faulty
<1>6. PodPass(m, i, s) \subseteq (MarkerNames \X Items)
  BY <1>1, <1>2 DEF PodPass
<1>7. PolicyPass(m, i, s) \subseteq (MarkerNames \X Items)
  BY <1>1, <1>2 DEF PolicyPass, OnPolicy
<1>8. CleanupPass(m, i, s) \subseteq (MarkerNames \X Items)
  BY DEF CleanupPass, Recovered
<1> QED BY <1>3, <1>4, <1>5, <1>6, <1>7, <1>8 DEF Looked

(* A pass is over, or under way, with everything of its type. *)
LEMMA InitTypeOK == Init => TypeOK
<1> SUFFICES ASSUME Init PROVE TypeOK
  OBVIOUS
<1>1. pc = "idle" /\ stage = 0 /\ 0 \in 0..Last + 1
  BY DEF Init, Last
<1>2. listed \in [Items -> AnyStatus \cup {None}]
  BY DEF Init
<1>3. marked \subseteq (MarkerNames \X Items) /\ steady \subseteq Items
  BY DEF Init
<1> QED BY <1>1, <1>2, <1>3 DEF Init, TypeOK, Nodes

(* The steps of the cluster keep the types. *)
LEMMA ClusterTypes ==
  ASSUME TypeOK, NodesMove \/ \E i \in Items : \E s \in Statuses(kindOf[i]) \ {status[i]} : Move(i, s)
  PROVE  TypeOK'
<1>1. CASE NodesMove
  BY <1>1 DEF NodesMove, TypeOK, cluster, lists
<1>2. CASE \E i \in Items : \E s \in Statuses(kindOf[i]) \ {status[i]} : Move(i, s)
  <2>1. PICK i \in Items : \E s \in Statuses(kindOf[i]) \ {status[i]} : Move(i, s)
    BY <1>2
  <2>2. PICK s \in Statuses(kindOf[i]) : Move(i, s)
    BY <2>1
  <2>3. s \in AnyStatus
    BY KindOfType
  <2>4. status' \in [Items -> AnyStatus] /\ \A j \in Items : status'[j] \in Statuses(kindOf[j])
    BY <2>2, <2>3 DEF Move, TypeOK
  <2> QED BY <2>2, <2>4 DEF Move, TypeOK, lists
<1> QED BY <1>1, <1>2

(* A pass that is broken off leaves everything of its type. *)
LEMMA OverTypes ==
  ASSUME TypeOK, PassOver, pc' \in {"idle", "dead"}, marked' \subseteq (MarkerNames \X Items)
  PROVE  TypeOK'
<1>1. listed' \in [Items -> AnyStatus \cup {None}]
  BY DEF PassOver, Forget
<1>2. stage' = 0 /\ 0 \in 0..Last + 1
  BY DEF PassOver, Last
<1> QED BY <1>1, <1>2 DEF PassOver, TypeOK, cluster

(* The steps of the pass keep the types. *)
LEMMA PassTypes == ASSUME TypeOK, Pass PROVE TypeOK'
<1>1. CASE Begin
  <2>1. stage \in 0..Last /\ GoOn
    BY <1>1 DEF Begin, TypeOK, Last
  <2>2. stage' \in 1..Last + 1 /\ pc' = IF stage' = Last + 1 THEN "report" ELSE "gate"
    BY <2>1, GoOnStep DEF Last
  <2>3. stage' \in 0..Last + 1 /\ (stage' # Last + 1 => stage' \in 1..Last)
    BY <2>2 DEF Last
  <2> QED BY <1>1, <2>2, <2>3 DEF Begin, TypeOK, cluster, lists
<1>2. CASE Gate
  <2>1. stage \in 1..Last
    BY <1>2 DEF Gate, TypeOK
  <2>2. CASE Kind \in Gated /\ CheckMCPINProgress
    <3>1. GoOn /\ stage \in 0..Last
      BY <1>2, <2>1, <2>2 DEF Gate, Last
    <3>2. stage' \in stage + 1..Last + 1 /\ pc' = IF stage' = Last + 1 THEN "report" ELSE "gate"
      BY <3>1, GoOnStep
    <3>3. stage' \in 0..Last + 1 /\ (stage' # Last + 1 => stage' \in 1..Last)
      BY <2>1, <3>2 DEF Last
    <3> QED BY <1>2, <2>2, <3>2, <3>3 DEF Gate, TypeOK, cluster, lists
  <2>3. CASE ~ (Kind \in Gated /\ CheckMCPINProgress)
    <3>1. pc' = "look" /\ left' = ItemsAt(stage) /\ UNCHANGED <<stage, listed, cut>>
      BY <1>2, <2>3 DEF Gate
    <3>2. unlisted' \subseteq Lanes
      BY <1>2, <2>3, LanesAssumption DEF Gate
    <3>3. ItemsAt(stage) \subseteq Items
      BY DEF ItemsAt, OfKind
    <3> QED BY <1>2, <2>1, <3>1, <3>2, <3>3 DEF Gate, TypeOK, cluster
  <2> QED BY <2>2, <2>3
<1>3. ASSUME NEW l \in Lanes, List(l) PROVE TypeOK'
  <2>1. listed' \in [Items -> AnyStatus \cup {None}] /\ cut' \in BOOLEAN
    BY <1>3 DEF List, TypeOK
  <2>2. left' \subseteq Items /\ unlisted' \subseteq Lanes
    BY <1>3 DEF List, TypeOK
  <2> QED BY <1>3, <2>1, <2>2 DEF List, TypeOK, cluster
<1>4. ASSUME NEW i \in Items, Look(i) PROVE TypeOK'
  <2>1. marked' \subseteq (MarkerNames \X Items)
    BY <1>4, LookedType DEF Look, TypeOK
  <2>2. left' \subseteq Items
    BY <1>4 DEF Look, TypeOK
  <2>3. listed' \in [Items -> AnyStatus \cup {None}]
    BY <1>4 DEF Look, Forget, TypeOK
  <2>4. cut' \in BOOLEAN
    BY <1>4 DEF Look
  <2> QED BY <1>4, <2>1, <2>2, <2>3, <2>4 DEF Look, TypeOK, cluster
<1>5. CASE Done
  <2>1. stage \in 0..Last /\ GoOn
    BY <1>5 DEF Done, TypeOK, Last
  <2>2. stage' \in stage + 1..Last + 1 /\ pc' = IF stage' = Last + 1 THEN "report" ELSE "gate"
    BY <2>1, GoOnStep
  <2>3. stage' \in 0..Last + 1 /\ (stage' # Last + 1 => stage' \in 1..Last)
    BY <2>1, <2>2 DEF Last
  <2> QED BY <1>5, <2>2, <2>3 DEF Done, TypeOK, cluster, lists
<1>6. CASE Report
  <2>1. 0 \in 0..Last + 1
    BY DEF Last
  <2> QED BY <1>6, <2>1 DEF Report, TypeOK, cluster, lists
<1>7. CASE CatalogPanic
  BY <1>7, OverTypes DEF CatalogPanic, TypeOK
<1> QED BY <1>1, <1>2, <1>3, <1>4, <1>5, <1>6, <1>7 DEF Pass

(* The process dies and starts again with everything of its type.          *)
LEMMA ProcessTypes == ASSUME TypeOK, CleanupPanic \/ Die \/ Start PROVE TypeOK'
<1>1. CASE Die
  BY <1>1, OverTypes DEF Die
<1>2. CASE Start
  BY <1>2 DEF Start, TypeOK, cluster, lists
<1> QED BY <1>1, <1>2 DEF CleanupPanic

(* The types of the pass, for any resources and nodes.                     *)
THEOREM Typing == Spec => []TypeOK
<1>1. TypeOK /\ [Next]_vars => TypeOK'
  <2> SUFFICES ASSUME TypeOK, [Next]_vars PROVE TypeOK'
    OBVIOUS
  <2>1. CASE Next
    BY <2>1, ClusterTypes, PassTypes, ProcessTypes DEF Next
  <2>2. CASE UNCHANGED vars
    BY <2>2 DEF vars, cluster, lists, TypeOK
  <2> QED BY <2>1, <2>2
<1> QED BY <1>1, InitTypeOK, PTL DEF Spec

----------------------------------------------------------------------------
(* What the report rests on *)

NamesOf(kind) ==
  CASE kind = "mcp"  -> {"mcp", "mcp-pause"}
    [] kind = "node" -> {"mcp-issue", "sched", "ready"}
    [] OTHER         -> {"own"}

(* Markers are named after the kind.                                       *)
NamesInv == \A i \in Items : \A name \in MarkerNames :
              <<name, i>> \in marked => name \in NamesOf(kindOf[i])

(* What is left to look at is of this kind; a lane that has not been       *)
(* listed is left as a whole.                                              *)
LeftInv == pc = "look" =>
             /\ left \subseteq ItemsAt(stage)
             /\ \A i \in ItemsAt(stage) : Lane(i) \in unlisted => i \in left

(* What was listed of a steady item is still true.                         *)
ListedInv == pc = "look" =>
               \A i \in left \cap steady : Lane(i) \notin unlisted => listed[i] = status[i]

(* The look at i, in its kind's own place, is over.                        *)
LookedAt(i) ==
  \E n \in 1..Last :
    /\ Order[n] = kindOf[i]
    /\ n < stage \/ (n = stage /\ pc = "look" /\ Lane(i) \notin unlisted /\ i \notin left)

Right(i) ==
  /\ Failing(kindOf[i], status[i]) /\ Alone(i) => HasMarker(i)
  /\ Well(kindOf[i], status[i]) => ~ HasMarker(i)

LookedRight == ~ cut => \A i \in steady : LookedAt(i) => Right(i)

PassInv == NamesInv /\ LeftInv /\ ListedInv /\ LookedRight

(* A marker of i, one name at a time.                                      *)
LEMMA HasMarkerByName ==
  ASSUME TypeOK, TypeOK', NEW i \in Items
  PROVE  /\ HasMarker(i) <=> \E name \in MarkerNames : <<name, i>> \in marked
         /\ HasMarker(i)' <=> \E name \in MarkerNames : <<name, i>> \in marked'
<1>1. \A mk \in marked : mk[2] = i => mk[1] \in MarkerNames /\ mk = <<mk[1], i>>
  BY DEF TypeOK
<1>2. \A mk \in marked' : mk[2] = i => mk[1] \in MarkerNames /\ mk = <<mk[1], i>>
  BY DEF TypeOK
<1>3. \A name : <<name, i>>[2] = i
  OBVIOUS
<1> QED BY <1>1, <1>2, <1>3 DEF HasMarker

(* An item's place comes no later than the place the pass goes on to.      *)
LEMMA ItsPlace ==
  ASSUME TypeOK, NEW i \in Items, NEW n \in 1..Last, Order[n] = kindOf[i]
  PROVE  i \in ItemsAt(n) /\ Busy(n)
<1>1. kindOf[i] # "cleanup"
  BY KindOfType
<1> QED BY <1>1 DEF ItemsAt, OfKind, Busy

(* Of a kind that is looked at, i is.                                      *)
LEMMA KindHere ==
  ASSUME TypeOK, pc = "look", NEW i \in ItemsAt(stage)
  PROVE  kindOf[i] = IF Kind = "cleanup" THEN "pod" ELSE Kind
  BY DEF ItemsAt, OfKind, Kind

(* A look leaves markers of other items alone, save those whose names      *)
(* contain the name of a pod that terminates.                              *)
LEMMA LookedOthers ==
  ASSUME TypeOK, pc = "look", NEW i \in Items, NEW s, NEW d \in BOOLEAN,
         NEW j \in Items, j # i, NEW name \in MarkerNames
  PROVE  /\ <<name, j>> \in Looked(marked, i, s, d) => <<name, j>> \in marked
         /\ <<name, j>> \in marked /\ j \notin Matches[i] => <<name, j>> \in Looked(marked, i, s, d)
<1> DEFINE same(m) == <<name, j>> \in m <=> <<name, j>> \in marked
<1>1. \A x, n, bad : same(x) => same(Verdict(x, n, i, bad)) /\ same(Faulty(x, n, i)) /\ same(Recovered(x, n, i))
  BY DEF Verdict, Faulty, Recovered
<1>2. same(marked)
  OBVIOUS
<1>3. same(ListPass(marked, i, s)) /\ same(CleanupPass(marked, i, s)) /\ same(PolicyPass(marked, i, s))
  BY <1>1, <1>2 DEF ListPass, CleanupPass, PolicyPass, OnPolicy
<1>4. same(OnNode(marked, i, s))
  <2>1. same(Issue(marked, i, s))
    BY <1>1, <1>2 DEF Issue
  <2> HIDE DEF same
  <2> QED BY <2>1, <1>1, <1>2 DEF OnNode
<1>5. same(PoolPass(marked, i, s, d))
  <2> HIDE DEF same
  <2>1. \A x : same(x) => same(Updating(x, i, s, nodes))
    BY <1>1 DEF Updating
  <2>2. \A x : same(x) => same(PoolConditions(x, i, s, nodes, d, "mcp"))
    BY <1>1, <2>1 DEF PoolConditions
  <2> QED BY <1>1, <1>2, <2>2 DEF PoolPass
<1>6. /\ <<name, j>> \in PodPass(marked, i, s) => <<name, j>> \in marked
      /\ <<name, j>> \in marked /\ j \notin Matches[i] => <<name, j>> \in PodPass(marked, i, s)
  BY <1>1, <1>2 DEF PodPass
<1> QED BY <1>2, <1>3, <1>4, <1>5, <1>6 DEF Looked

(* A look at i gives it markers of its kind's names only.                  *)
LEMMA LookedNames ==
  ASSUME TypeOK, NamesInv, pc = "look", NEW i \in ItemsAt(stage), i \in Items, NEW s, NEW d \in BOOLEAN,
         NEW name \in MarkerNames, <<name, i>> \in Looked(marked, i, s, d)
  PROVE  name \in NamesOf(kindOf[i])
<1> DEFINE ok(m) == <<name, i>> \in m => name \in NamesOf(kindOf[i])
<1>1. \A x, n, bad : ok(x) /\ n \in NamesOf(kindOf[i]) =>
         ok(Verdict(x, n, i, bad)) /\ ok(Faulty(x, n, i)) /\ ok(Recovered(x, n, i))
  BY DEF Verdict, Faulty, Recovered
<1>2. \A x, n : ok(x) => ok(Recovered(x, n, i))
  BY DEF Recovered
<1>3. ok(marked)
  BY DEF NamesInv
<1>4. kindOf[i] = IF Kind = "cleanup" THEN "pod" ELSE Kind
  BY KindHere
<1>5. CASE Kind = "mcp"
  <2>1. "mcp" \in NamesOf(kindOf[i]) /\ "mcp-pause" \in NamesOf(kindOf[i])
    BY <1>4, <1>5 DEF NamesOf
  <2> HIDE DEF ok
  <2>2. \A x : ok(x) => ok(Updating(x, i, s, nodes))
    BY <1>1, <2>1 DEF Updating
  <2>3. \A x : ok(x) => ok(PoolConditions(x, i, s, nodes, d, "mcp"))
    BY <1>1, <2>1, <2>2 DEF PoolConditions
  <2>4. ok(PoolPass(marked, i, s, d))
    BY <1>1, <1>3, <2>1, <2>3 DEF PoolPass
  <2>5. Looked(marked, i, s, d) = PoolPass(marked, i, s, d)
    BY <1>5 DEF Looked
  <2> QED BY <2>4, <2>5 DEF ok
<1>6. CASE Kind = "node"
  <2>1. "mcp-issue" \in NamesOf(kindOf[i]) /\ "sched" \in NamesOf(kindOf[i]) /\ "ready" \in NamesOf(kindOf[i])
    BY <1>4, <1>6 DEF NamesOf
  <2> HIDE DEF ok
  <2>2. ok(Issue(marked, i, s))
    BY <1>1, <1>3, <2>1 DEF Issue
  <2>3. ok(OnNode(marked, i, s))
    BY <1>1, <2>1, <2>2 DEF OnNode
  <2>4. Looked(marked, i, s, d) = OnNode(marked, i, s)
    BY <1>6 DEF Looked
  <2> QED BY <2>3, <2>4 DEF ok
<1>7. CASE Kind # "mcp" /\ Kind # "node"
  <2>1. "own" \in NamesOf(kindOf[i])
    BY <1>4, <1>7 DEF NamesOf
  <2>2. ok(PodPass(marked, i, s))
    BY <1>1, <1>3, <2>1 DEF PodPass
  <2> HIDE DEF ok
  <2>3. ok(ListPass(marked, i, s)) /\ ok(CleanupPass(marked, i, s)) /\ ok(PolicyPass(marked, i, s))
    BY <1>1, <1>2, <1>3, <2>1 DEF ListPass, CleanupPass, PolicyPass, OnPolicy
  <2>4. ok(Looked(marked, i, s, d))
    BY <1>3, <1>7, <2>2, <2>3 DEF Looked
  <2> QED BY <2>4 DEF ok
<1> QED BY <1>5, <1>6, <1>7

(* A look at i that does not stop the list, by the status that i has, gets *)
(* i's markers right.                                                      *)
LEMMA LookedItself ==
  ASSUME TypeOK, NamesInv, pc = "look", NEW i \in ItemsAt(stage), i \in Items, Kind # "cleanup",
         NEW d \in BOOLEAN, ~ Stops(status[i])
  PROVE  LET M == Looked(marked, i, status[i], d)
         IN /\ Failing(kindOf[i], status[i]) => \E name \in MarkerNames : <<name, i>> \in M
            /\ Well(kindOf[i], status[i]) => \A name \in MarkerNames : <<name, i>> \notin M
<1> DEFINE s == status[i]
           M == Looked(marked, i, s, d)
<1>1. kindOf[i] = Kind
  BY KindHere
<1>2. \A name \in MarkerNames : <<name, i>> \in M => name \in NamesOf(Kind)
  BY <1>1, LookedNames
<1>3. {"own", "mcp", "mcp-pause", "mcp-degraded", "mcp-issue", "sched", "ready"} \subseteq MarkerNames
  BY DEF MarkerNames
<1>4. CASE Kind = "mcp"
  <2>1. M = PoolPass(marked, i, s, d)
    BY <1>4 DEF Looked
  <2>2. ~ PoolPassStops(s)
    BY <1>4 DEF Stops
  <2> DEFINE base == Verdict(marked, "mcp-pause", i, s.paused)
  <2>3. M = PoolConditions(base, i, s, nodes, d, "mcp")
    BY <2>1, <2>2 DEF PoolPass, PoolPassStops
  <2> HIDE DEF M
  <2>4. ASSUME s.paused PROVE <<"mcp-pause", i>> \in M
    <3>1. <<"mcp-pause", i>> \in base
      BY <2>4 DEF Verdict, Faulty
    <3> HIDE DEF base
    <3>2. \A x : <<"mcp-pause", i>> \in x => <<"mcp-pause", i>> \in Updating(x, i, s, nodes)
      BY DEF Updating, Faulty, Recovered
    <3>3. \A x : <<"mcp-pause", i>> \in x => <<"mcp-pause", i>> \in Verdict(x, "mcp", i, s.degraded)
      BY DEF Verdict, Faulty, Recovered
    <3> QED BY <3>1, <3>2, <3>3, <2>3 DEF PoolConditions
  <2>5. ASSUME ~ s.paused, ~ s.updating, ~ s.degraded PROVE <<"mcp-pause", i>> \notin M /\ <<"mcp", i>> \notin M
    <3>1. base = marked \ {<<"mcp-pause", i>>}
      BY <2>5 DEF Verdict, Recovered
    <3> HIDE DEF base
    <3>2. \A x : Updating(x, i, s, nodes) = x \ {<<"mcp", i>>}
      BY <2>5 DEF Updating, Recovered
    <3>3. \A x : Verdict(x, "mcp", i, s.degraded) = x \ {<<"mcp", i>>}
      BY <2>5 DEF Verdict, Recovered
    <3>4. ~ PoolStops(s, nodes)
      BY <2>5 DEF PoolStops
    <3>5. M = (base \ {<<"mcp", i>>}) \ {<<"mcp", i>>}
      BY <3>2, <3>3, <3>4, <2>3 DEF PoolConditions
    <3> QED BY <3>1, <3>5
  <2>6. Failing(kindOf[i], s) => s.paused
    BY <1>1, <1>4 DEF Failing
  <2>7. Well(kindOf[i], s) => ~ s.paused /\ ~ s.updating /\ ~ s.degraded
    BY <1>1, <1>4 DEF Well
  <2>8. NamesOf(Kind) = {"mcp", "mcp-pause"}
    BY <1>4 DEF NamesOf
  <2>9. Failing(kindOf[i], s) => \E name \in MarkerNames : <<name, i>> \in M
    BY <2>4, <2>6, <1>3
  <2>10. Well(kindOf[i], s) => \A name \in MarkerNames : <<name, i>> \notin M
    BY <2>5, <2>7, <2>8, <1>2
  <2> QED BY <2>9, <2>10 DEF M
<1>5. CASE Kind = "node"
  <2>1. M = OnNode(marked, i, s)
    BY <1>5 DEF Looked
  <2>2. ~ InUpdate(s) /\ ~ s.cordoned
    BY <1>5 DEF Stops, NodePassStops
  <2> DEFINE issue == Issue(marked, i, s)
  <2>3. M = IF s.ready = "unknown" THEN Recovered(issue, "sched", i)
            ELSE Verdict(Recovered(issue, "sched", i), "ready", i, s.ready = "false")
    BY <2>1, <2>2 DEF OnNode, Verdict
  <2> HIDE DEF M
  <2>4. ASSUME s.ready = "false" PROVE <<"ready", i>> \in M
    BY <2>3, <2>4 DEF Verdict, Faulty
  <2>5. ASSUME NodeWell(s) PROVE \A name \in NamesOf(Kind) : <<name, i>> \notin M
    <3>1. NamesOf(Kind) = {"mcp-issue", "sched", "ready"}
      BY <1>5 DEF NamesOf
    <3>2. M = ((marked \ {<<"mcp-issue", i>>}) \ {<<"sched", i>>}) \ {<<"ready", i>>}
      BY <2>3, <2>5 DEF NodeWell, Issue, Verdict, Recovered
    <3> QED BY <3>1, <3>2
  <2>6. Failing(kindOf[i], s) => s.ready = "false"
    BY <1>1, <1>5, <2>2 DEF Failing, NodeTrouble, InUpdate
  <2>7. Well(kindOf[i], s) => NodeWell(s)
    BY <1>1, <1>5 DEF Well
  <2>8. Failing(kindOf[i], s) => \E name \in MarkerNames : <<name, i>> \in M
    BY <2>4, <2>6, <1>3
  <2>9. Well(kindOf[i], s) => \A name \in MarkerNames : <<name, i>> \notin M
    BY <2>5, <2>7, <1>2
  <2> QED BY <2>8, <2>9 DEF M
<1>6. CASE Kind = "policy"
  <2>1. M = PolicyPass(marked, i, s)
    BY <1>6 DEF Looked
  <2> HIDE DEF M
  <2>2. s.is = "violating" => <<"own", i>> \in M
    BY <2>1 DEF PolicyPass, OnPolicy, Verdict, Faulty
  <2>3. s.is = "compliant" => <<"own", i>> \notin M
    BY <2>1 DEF PolicyPass, OnPolicy, Verdict, Recovered
  <2>4. NamesOf(Kind) = {"own"}
    BY <1>6 DEF NamesOf
  <2>5. (Failing(kindOf[i], s) => s.is = "violating") /\ (Well(kindOf[i], s) => s.is = "compliant")
    BY <1>1, <1>6 DEF Failing, Well
  <2>6. Failing(kindOf[i], s) => \E name \in MarkerNames : <<name, i>> \in M
    BY <2>2, <2>5, <1>3
  <2>7. Well(kindOf[i], s) => \A name \in MarkerNames : <<name, i>> \notin M
    BY <2>3, <2>4, <2>5, <1>2
  <2> QED BY <2>6, <2>7 DEF M
<1>7. CASE Kind \notin {"mcp", "node", "policy"}
  <2>1. s.is \in {"well", "failing"} => M = Verdict(marked, "own", i, s.is = "failing")
    BY <1>7 DEF Looked, Stops, PodPass, ListPass
  <2> HIDE DEF M
  <2>2. s.is = "failing" => <<"own", i>> \in M
    BY <2>1 DEF Verdict, Faulty
  <2>3. s.is = "well" => <<"own", i>> \notin M
    BY <2>1 DEF Verdict, Recovered
  <2>4. NamesOf(Kind) = {"own"}
    BY <1>7 DEF NamesOf
  <2>5. (Failing(kindOf[i], s) => s.is = "failing") /\ (Well(kindOf[i], s) => s.is = "well")
    BY <1>1, <1>7 DEF Failing, Well
  <2>6. Failing(kindOf[i], s) => \E name \in MarkerNames : <<name, i>> \in M
    BY <2>2, <2>5, <1>3
  <2>7. Well(kindOf[i], s) => \A name \in MarkerNames : <<name, i>> \notin M
    BY <2>3, <2>4, <2>5, <1>2
  <2> QED BY <2>6, <2>7 DEF M
<1> QED BY <1>4, <1>5, <1>6, <1>7

(* The cleanup leaves the markers of failing pods alone, and makes none.   *)
LEMMA CleanedItself ==
  ASSUME TypeOK, pc = "look", NEW i \in ItemsAt(stage), i \in Items, Kind = "cleanup", NEW d \in BOOLEAN
  PROVE  LET M == Looked(marked, i, status[i], d)
         IN /\ Failing(kindOf[i], status[i]) => \A name \in MarkerNames : <<name, i>> \in marked => <<name, i>> \in M
            /\ \A name \in MarkerNames : <<name, i>> \in M => <<name, i>> \in marked
<1> DEFINE M == Looked(marked, i, status[i], d)
<1>1. kindOf[i] = "pod"
  BY KindHere
<1>2. M = IF status[i].is = "well" THEN marked \ {<<"own", i>>} ELSE marked
  BY DEF Looked, CleanupPass, Recovered
<1>3. Failing(kindOf[i], status[i]) => status[i].is = "failing"
  BY <1>1 DEF Failing
<1> QED BY <1>2, <1>3

----------------------------------------------------------------------------
(* The invariant holds at first: nothing is marked, and no pass is on.     *)
LEMMA InitPassInv == Init => PassInv
  BY DEF Init, PassInv, NamesInv, LeftInv, ListedInv, LookedRight

(* The cluster moves on, and an item that moves is not steady.             *)
LEMMA ClusterPassInv ==
  ASSUME TypeOK, PassInv,
         NodesMove \/ \E i \in Items : \E s \in Statuses(kindOf[i]) \ {status[i]} : Move(i, s)
  PROVE  PassInv'
<1>1. kindOf' = kindOf /\ pc' = pc /\ stage' = stage /\ unlisted' = unlisted /\ left' = left
      /\ listed' = listed /\ marked' = marked /\ cut' = cut
  BY DEF NodesMove, Move, lists
<1>2. steady' \subseteq steady /\ \A i \in steady' : status'[i] = status[i]
  <2>1. CASE NodesMove
    BY <2>1 DEF NodesMove
  <2>2. ASSUME NEW i \in Items, NEW s, Move(i, s) PROVE steady' \subseteq steady /\ \A j \in steady' : status'[j] = status[j]
    BY <2>2 DEF Move, TypeOK
  <2> QED BY <2>1, <2>2
<1>3. NamesInv' /\ LeftInv'
  BY <1>1 DEF PassInv, NamesInv, LeftInv, ItemsAt, OfKind, Lane, Kind
<1>4. ListedInv'
  BY <1>1, <1>2 DEF PassInv, ListedInv, Lane, Kind
<1>5. \A i \in steady' : (LookedAt(i)' => LookedAt(i)) /\ (Right(i) => Right(i)')
  BY <1>1, <1>2 DEF LookedAt, Lane, Kind, Right, HasMarker
<1>6. LookedRight'
  BY <1>1, <1>2, <1>5 DEF PassInv, LookedRight
<1> QED BY <1>3, <1>4, <1>6 DEF PassInv

(* From kind to kind: what the pass leaves behind it has been looked at.   *)
LEMMA GoOnPassInv ==
  ASSUME TypeOK, PassInv, stage \in 0..Last, GoOn, UNCHANGED <<cluster, marked>>,
         (steady' = Items /\ stage = 0) \/ steady' = steady,
         cut' \/ (cut' = cut /\ pc = "look" /\ left = {} /\ unlisted = {}) \/ stage = 0
  PROVE  PassInv'
<1>1. /\ stage' \in stage + 1..Last + 1
      /\ pc' = IF stage' = Last + 1 THEN "report" ELSE "gate"
      /\ \A n \in 1..Last : stage < n /\ n < stage' => ~ Busy(n)
  BY GoOnStep
<1>2. pc' # "look"
  BY <1>1
<1>3. NamesInv'
  BY DEF PassInv, NamesInv, cluster
<1>4. LeftInv' /\ ListedInv'
  BY <1>2 DEF LeftInv, ListedInv
<1>5. ASSUME ~ cut', NEW i \in steady', LookedAt(i)' PROVE Right(i)'
  <2>1. PICK n \in 1..Last : Order[n] = kindOf[i] /\ n < stage'
    BY <1>2, <1>5 DEF LookedAt, cluster
  <2>2. i \in Items
    BY DEF TypeOK
  <2>3. Busy(n)
    BY <2>1, <2>2, ItsPlace
  <2>4. n <= stage
    BY <1>1, <2>1, <2>3 DEF Last
  <2>5. stage # 0
    BY <2>4 DEF Last
  <2>6. cut' = cut /\ pc = "look" /\ left = {} /\ unlisted = {} /\ steady' = steady
    BY <1>5, <2>5
  <2>7. LookedAt(i)
    BY <2>1, <2>4, <2>6 DEF LookedAt, Last
  <2>8. Right(i)
    BY <1>5, <2>6, <2>7 DEF PassInv, LookedRight
  <2> QED BY <2>8 DEF Right, HasMarker, Alone, cluster
<1>6. LookedRight'
  BY <1>5 DEF LookedRight
<1> QED BY <1>3, <1>4, <1>6 DEF PassInv

(* The gate of a kind opens, and everything of the kind is left.           *)
LEMMA GatePassInv == ASSUME TypeOK, PassInv, Gate PROVE PassInv'
<1>1. stage \in 1..Last
  BY DEF Gate, TypeOK
<1>2. CASE Kind \in Gated /\ CheckMCPINProgress
  <2>1. GoOn /\ cut' /\ UNCHANGED <<cluster, marked>> /\ steady' = steady
    BY <1>2 DEF Gate
  <2>2. stage \in 0..Last
    BY <1>1 DEF Last
  <2> QED BY <2>1, <2>2, GoOnPassInv
<1>3. CASE ~ (Kind \in Gated /\ CheckMCPINProgress)
  <2>1. pc = "gate" /\ pc' = "look" /\ left' = ItemsAt(stage)
        /\ UNCHANGED <<stage, listed, cut, cluster, marked, steady>>
        /\ unlisted' = IF Kind = "pod" THEN Lanes ELSE {Main}
    BY <1>3 DEF Gate
  <2>2. NamesInv'
    BY <2>1 DEF PassInv, NamesInv, cluster
  <2>3. ItemsAt(stage)' = ItemsAt(stage) /\ Kind' = Kind
    BY <2>1 DEF ItemsAt, OfKind, Kind, cluster
  <2>4. LeftInv'
    BY <2>1, <2>3 DEF LeftInv
  <2>5. \A i \in Items : Lane(i)' \in unlisted'
    BY <2>1, <2>3, LanesAssumption DEF Lane
  <2>6. ListedInv'
    BY <2>1, <2>5 DEF ListedInv, TypeOK
  <2>7. \A i \in steady : LookedAt(i)' => LookedAt(i)
    BY <2>1, <2>5 DEF LookedAt, cluster, TypeOK
  <2>8. \A i \in steady : Right(i) => Right(i)'
    BY <2>1 DEF Right, HasMarker, Alone, cluster
  <2>9. LookedRight'
    BY <2>1, <2>7, <2>8 DEF PassInv, LookedRight
  <2> QED BY <2>2, <2>4, <2>6, <2>9 DEF PassInv
<1> QED BY <1>2, <1>3

(* A lane is listed: what is gone from it is neither failing nor well.     *)
LEMMA ListPassInv == ASSUME TypeOK, PassInv, NEW l \in Lanes, List(l) PROVE PassInv'
<1>1. /\ pc = "look" /\ l \in unlisted /\ unlisted' = unlisted \ {l}
      /\ UNCHANGED <<cluster, pc, stage, marked, steady>>
  BY DEF List
<1>2. NamesInv'
  BY <1>1 DEF PassInv, NamesInv, cluster
<1>3. left' \subseteq left /\ \A i \in left : Lane(i) # l => i \in left'
  BY DEF List, RestOfLane
<1>4. ItemsAt(stage)' = ItemsAt(stage) /\ Kind' = Kind /\ \A i : Lane(i)' = Lane(i)
  BY <1>1 DEF ItemsAt, OfKind, Kind, Lane, cluster
<1>5. LeftInv'
  BY <1>1, <1>3, <1>4 DEF PassInv, LeftInv
<1>6. CASE nodes = "blind"
  <2>1. left' = left \ RestOfLane(l) /\ cut' /\ listed' = listed
    BY <1>6 DEF List
  <2>2. ListedInv'
    BY <1>1, <1>4, <2>1 DEF PassInv, ListedInv, RestOfLane, cluster
  <2>3. LookedRight'
    BY <2>1 DEF LookedRight
  <2> QED BY <1>2, <1>5, <2>2, <2>3 DEF PassInv
<1>7. CASE nodes # "blind"
  <2>1. /\ listed' = [i \in Items |-> IF i \in RestOfLane(l) THEN status[i] ELSE listed[i]]
        /\ left' = left \ {i \in RestOfLane(l) : status[i] = Gone}
        /\ cut' = cut
    BY <1>7 DEF List
  <2>2. ASSUME NEW i \in left' \cap steady', Lane(i)' \notin unlisted' PROVE listed'[i] = status'[i]
    <3>1. i \in left /\ i \in Items /\ i \in steady /\ status' = status
      BY <1>1, <1>3, <2>2 DEF TypeOK, cluster
    <3>2. CASE Lane(i) = l
      BY <2>1, <3>1, <3>2 DEF RestOfLane
    <3>3. CASE Lane(i) # l
      BY <1>1, <1>4, <2>1, <2>2, <3>1, <3>3 DEF PassInv, ListedInv, RestOfLane
    <3> QED BY <3>2, <3>3
  <2>3. ListedInv'
    BY <2>2 DEF ListedInv
  <2>4. ASSUME ~ cut', NEW i \in steady', LookedAt(i)' PROVE Right(i)'
    <3>1. i \in Items /\ i \in steady
      BY <1>1, <2>4 DEF TypeOK
    <3>2. CASE LookedAt(i)
      <4>1. Right(i)
        BY <2>1, <2>4, <3>1, <3>2 DEF PassInv, LookedRight
      <4> QED BY <1>1, <4>1 DEF Right, HasMarker, Alone, cluster
    <3>3. CASE ~ LookedAt(i)
      <4>1. PICK n \in 1..Last : Order[n] = kindOf[i] /\ n = stage /\ Lane(i)' \notin unlisted' /\ i \notin left'
        BY <1>1, <2>4, <3>3 DEF LookedAt, cluster
      <4>2. i \in ItemsAt(stage)
        BY <3>1, <4>1, ItsPlace
      <4>3. Lane(i) \in unlisted \/ i \in left
        BY <1>1, <3>3, <4>1 DEF LookedAt
      <4>4. i \in left
        BY <1>1, <4>2, <4>3 DEF PassInv, LeftInv
      <4>5. status[i] = Gone
        BY <2>1, <4>1, <4>4
      <4>6. ~ Failing(kindOf[i], status[i]) /\ ~ Well(kindOf[i], status[i])
        <5>1. status[i] \in Statuses(kindOf[i])
          BY <3>1 DEF TypeOK
        <5>2. kindOf[i] = "mcp" => status[i] \in PoolStatus
          BY <5>1, StatusAssumption DEF Statuses
        <5>3. kindOf[i] = "node" => status[i] \in NodeStatus
          BY <5>1, StatusAssumption DEF Statuses
        <5>4. Gone \notin PoolStatus /\ Gone \notin NodeStatus
          BY DEF Gone, PoolStatus, NodeStatus
        <5>5. kindOf[i] # "mcp" /\ kindOf[i] # "node" /\ status[i].is = "gone"
          BY <4>5, <5>2, <5>3, <5>4 DEF Gone
        <5> QED BY <5>5 DEF Failing, Well
      <4>7. Right(i)
        BY <4>6 DEF Right
      <4> QED BY <1>1, <4>7 DEF Right, HasMarker, Alone, cluster
    <3> QED BY <3>2, <3>3
  <2>5. LookedRight'
    BY <2>4 DEF LookedRight
  <2> QED BY <1>2, <1>5, <2>3, <2>5 DEF PassInv
<1> QED BY <1>6, <1>7

(* An item is looked at.                                                   *)
LEMMA LookPassInv == ASSUME TypeOK, PassInv, NEW i \in Items, Look(i) PROVE PassInv'
<1>0. TypeOK'
  BY PassTypes DEF Pass
<1>1. /\ pc = "look" /\ i \in left /\ Lane(i) \notin unlisted
      /\ UNCHANGED <<cluster, pc, stage, unlisted, steady>>
  BY DEF Look, First
<1>2. PICK d \in BOOLEAN : marked' = Looked(marked, i, listed[i], d)
  BY DEF Look
<1>3. i \in ItemsAt(stage) /\ stage \in 1..Last
  BY <1>1 DEF PassInv, LeftInv, TypeOK
<1>4. NamesInv'
  <2>1. SUFFICES ASSUME NEW j \in Items, NEW name \in MarkerNames, <<name, j>> \in marked'
                 PROVE  name \in NamesOf(kindOf[j])
    BY <1>1 DEF NamesInv, cluster
  <2>2. CASE j = i
    BY <1>1, <1>2, <1>3, <2>1, <2>2, LookedNames DEF PassInv
  <2>3. CASE j # i
    BY <1>1, <1>2, <2>1, <2>3, LookedOthers DEF PassInv, NamesInv
  <2> QED BY <2>2, <2>3
<1>5. ItemsAt(stage)' = ItemsAt(stage) /\ Kind' = Kind /\ \A j : Lane(j)' = Lane(j)
  BY <1>1 DEF ItemsAt, OfKind, Kind, Lane, cluster
<1>6. left' \subseteq left /\ \A j \in left : Lane(j) \in unlisted => j \in left'
  BY <1>1 DEF Look, RestOfLane
<1>7. LeftInv'
  BY <1>1, <1>5, <1>6 DEF PassInv, LeftInv
<1>8. ListedInv'
  <2>1. \A j \in left' : j \in Items /\ listed'[j] = listed[j]
    BY <1>6 DEF Look, Forget, TypeOK
  <2> QED BY <1>1, <1>5, <1>6, <2>1 DEF PassInv, ListedInv, cluster
<1>9. ASSUME ~ cut', NEW j \in steady', LookedAt(j)' PROVE Right(j)'
  <2>1. j \in Items /\ j \in steady /\ ~ cut /\ ~ Stops(listed[i]) /\ left' = left \ {i}
    BY <1>1, <1>9 DEF TypeOK, Look
  <2>2. LookedAt(j) => Right(j)
    BY <2>1 DEF PassInv, LookedRight
  <2>3. j # i => LookedAt(j)
    BY <1>1, <1>5, <1>9, <2>1 DEF LookedAt, cluster
  <2>4. kindOf' = kindOf /\ status' = status /\ (Alone(j)' <=> Alone(j))
    BY <1>1 DEF cluster, Alone
  <2>5. CASE j # i
    <3>1. Right(j)
      BY <2>2, <2>3, <2>5
    <3>2. \A name \in MarkerNames :
             /\ <<name, j>> \in marked' => <<name, j>> \in marked
             /\ <<name, j>> \in marked /\ Alone(j) => <<name, j>> \in marked'
      BY <1>1, <1>2, <2>1, <2>5, LookedOthers DEF Alone
    <3> QED BY <1>0, <2>1, <2>4, <3>1, <3>2, HasMarkerByName DEF Right
  <2>6. CASE j = i /\ Kind # "cleanup"
    <3>1. listed[i] = status[i]
      BY <1>1, <2>1, <2>6 DEF PassInv, ListedInv
    <3>2. /\ Failing(kindOf[i], status[i]) => \E name \in MarkerNames : <<name, i>> \in marked'
          /\ Well(kindOf[i], status[i]) => \A name \in MarkerNames : <<name, i>> \notin marked'
      BY <1>1, <1>2, <1>3, <2>1, <2>6, <3>1, LookedItself DEF PassInv
    <3> QED BY <1>0, <2>1, <2>4, <2>6, <3>2, HasMarkerByName DEF Right
  <2>7. CASE j = i /\ Kind = "cleanup"
    <3>1. listed[i] = status[i]
      BY <1>1, <2>1, <2>7 DEF PassInv, ListedInv
    <3>2. kindOf[i] = "pod" /\ stage = 12
      BY <1>1, <1>3, <2>7, KindHere, PlacesOfPods DEF Kind
    <3>3. LookedAt(i)
      <4>1. 2 \in 1..Last /\ Order[2] = "pod" /\ 2 < stage
        BY <3>2, Places DEF Last
      <4> QED BY <3>2, <4>1 DEF LookedAt
    <3>4. /\ Failing(kindOf[i], status[i]) => \A name \in MarkerNames : <<name, i>> \in marked => <<name, i>> \in marked'
          /\ \A name \in MarkerNames : <<name, i>> \in marked' => <<name, i>> \in marked
      BY <1>1, <1>2, <1>3, <2>7, <3>1, CleanedItself
    <3> QED BY <1>0, <2>1, <2>2, <2>4, <2>7, <3>3, <3>4, HasMarkerByName DEF Right
  <2> QED BY <2>5, <2>6, <2>7
<1>10. LookedRight'
  BY <1>9 DEF LookedRight
<1> QED BY <1>4, <1>7, <1>8, <1>10 DEF PassInv

(* A pass that is broken off owes nothing.                                 *)
LEMMA OverPassInv ==
  ASSUME TypeOK, PassInv, PassOver, pc' # "look", marked' \subseteq marked
  PROVE  PassInv'
<1>1. NamesInv'
  BY DEF PassInv, NamesInv, PassOver, cluster
<1>2. LookedRight'
  BY DEF LookedRight, PassOver
<1> QED BY <1>1, <1>2 DEF PassInv, LeftInv, ListedInv

(* The steps of the pass keep what the report rests on.                    *)
LEMMA PassKeepsInv == ASSUME TypeOK, PassInv, Pass PROVE PassInv'
<1>1. CASE Begin
  <2>1. stage = 0 /\ stage \in 0..Last /\ GoOn /\ UNCHANGED <<cluster, marked>> /\ steady' = Items
    BY <1>1 DEF Begin, TypeOK, Last
  <2> QED BY <2>1, GoOnPassInv
<1>2. CASE Gate
  BY <1>2, GatePassInv
<1>3. CASE \E l \in Lanes : List(l)
  BY <1>3, ListPassInv
<1>4. CASE \E i \in Items : Look(i)
  BY <1>4, LookPassInv
<1>5. CASE Done
  <2>1. /\ stage \in 0..Last /\ GoOn /\ UNCHANGED <<cluster, marked>> /\ steady' = steady
        /\ cut' = cut /\ pc = "look" /\ left = {} /\ unlisted = {}
    BY <1>5 DEF Done, TypeOK, Last
  <2> QED BY <2>1, GoOnPassInv
<1>6. CASE Report
  <2>1. pc' = "idle" /\ steady' = {} /\ kindOf' = kindOf /\ marked' = marked
    BY <1>6 DEF Report, cluster
  <2> QED BY <2>1 DEF PassInv, NamesInv, LeftInv, ListedInv, LookedRight
<1>7. CASE CatalogPanic
  BY <1>7, OverPassInv DEF CatalogPanic
<1> QED BY <1>1, <1>2, <1>3, <1>4, <1>5, <1>6, <1>7 DEF Pass

(* So do the end of the process and its start.                             *)
LEMMA ProcessPassInv == ASSUME TypeOK, PassInv, CleanupPanic \/ Die \/ Start PROVE PassInv'
<1>1. CASE Die
  BY <1>1, OverPassInv DEF Die
<1>2. CASE Start
  <2>1. UNCHANGED <<kindOf, status, marked, stage, steady, cut>> /\ pc' # "look" /\ pc # "look"
    BY <1>2 DEF Start, cluster
  <2>2. \A i : (LookedAt(i)' <=> LookedAt(i)) /\ (Right(i)' <=> Right(i))
    BY <2>1 DEF LookedAt, Right, HasMarker, Alone
  <2> QED BY <2>1, <2>2 DEF PassInv, NamesInv, LeftInv, ListedInv, LookedRight
<1> QED BY <1>1, <1>2 DEF CleanupPanic

(* At the report every place is behind the pass.                           *)
LEMMA PassInvReports == TypeOK /\ PassInv => ReportIsRight
<1> SUFFICES ASSUME TypeOK, PassInv, pc = "report", ~ cut, NEW i \in steady
             PROVE  /\ Failing(kindOf[i], status[i]) /\ Alone(i) => HasMarker(i)
                    /\ Well(kindOf[i], status[i]) => ~ HasMarker(i)
  BY DEF ReportIsRight
<1>1. stage = Last + 1 /\ i \in Items
  BY DEF TypeOK
<1>2. PICK n \in 1..Last : Order[n] = kindOf[i]
  BY <1>1, KindOfType
<1>3. LookedAt(i)
  BY <1>1, <1>2 DEF LookedAt, Last
<1> QED BY <1>3 DEF PassInv, LookedRight, Right

(* What the report rests on holds throughout.                              *)
LEMMA PassInvHolds == Spec => []PassInv
<1>1. TypeOK /\ PassInv /\ [Next]_vars => PassInv'
  <2> SUFFICES ASSUME TypeOK, PassInv, [Next]_vars PROVE PassInv'
    OBVIOUS
  <2>1. CASE Next
    BY <2>1, ClusterPassInv, PassKeepsInv, ProcessPassInv DEF Next
  <2>2. CASE UNCHANGED vars
    BY <2>2 DEF vars, cluster, lists, PassInv, NamesInv, LeftInv, ListedInv, LookedRight, LookedAt, Right,
         HasMarker, Alone, Lane, Kind, ItemsAt, OfKind
  <2> QED BY <2>1, <2>2
<1> QED BY <1>1, InitPassInv, Typing, PTL DEF Spec

(* A pass that nothing cut short reports what is so, for any resources of  *)
(* any kinds, however the cluster moves while it runs.                     *)
THEOREM ReportIsRightHolds == Spec => []ReportIsRight
  BY PassInvReports, PassInvHolds, Typing, PTL

(* What status.healthy says after such a pass.                             *)
HealthyIsEarned ==
  [][Report /\ ~ cut =>
       /\ healthy' => \A i \in steady : kindOf[i] # "hpe" /\ Alone(i) => ~ Failing(kindOf[i], status[i])
       /\ ~ healthy' => \E i \in Items : ~ (i \in steady /\ Well(kindOf[i], status[i]))]_vars

(* "Indicates if the target is free of failing resources": true means that *)
(* nothing that counts has been failing since the pass began, and false    *)
(* that something has not been well all along.                             *)
THEOREM HealthyIsEarnedHolds == Spec => HealthyIsEarned
<1>1. TypeOK /\ ReportIsRight
      => [Report /\ ~ cut =>
            /\ healthy' => \A i \in steady : kindOf[i] # "hpe" /\ Alone(i) => ~ Failing(kindOf[i], status[i])
            /\ ~ healthy' => \E i \in Items : ~ (i \in steady /\ Well(kindOf[i], status[i]))]_vars
  <2> SUFFICES ASSUME TypeOK, ReportIsRight, Report, ~ cut
               PROVE  /\ healthy' => \A i \in steady : kindOf[i] # "hpe" /\ Alone(i) => ~ Failing(kindOf[i], status[i])
                      /\ ~ healthy' => \E i \in Items : ~ (i \in steady /\ Well(kindOf[i], status[i]))
    OBVIOUS
  <2>1. \A i \in steady : /\ Failing(kindOf[i], status[i]) /\ Alone(i) => HasMarker(i)
                          /\ Well(kindOf[i], status[i]) => ~ HasMarker(i)
    BY DEF ReportIsRight, Report
  <2>2. healthy' <=> \A mk \in marked : kindOf[mk[2]] = "hpe"
    BY DEF Report, Counted
  <2>3. \A i \in Items : HasMarker(i) <=> \E mk \in marked : mk[2] = i
    BY DEF HasMarker
  <2>4. ASSUME healthy', NEW i \in steady, kindOf[i] # "hpe", Alone(i) PROVE ~ Failing(kindOf[i], status[i])
    <3>1. i \in Items
      BY <2>4 DEF TypeOK
    <3>2. ~ HasMarker(i)
      <4> SUFFICES ASSUME NEW mk \in marked, mk[2] = i PROVE FALSE
        BY <2>3, <3>1
      <4>1. kindOf[mk[2]] = "hpe"
        BY <2>2, <2>4
      <4> QED BY <4>1, <2>4
    <3> QED BY <2>1, <2>4, <3>2
  <2>5. ASSUME ~ healthy' PROVE \E i \in Items : ~ (i \in steady /\ Well(kindOf[i], status[i]))
    <3>1. PICK mk \in marked : TRUE
      BY <2>2, <2>5
    <3>2. mk[2] \in Items /\ HasMarker(mk[2])
      BY <2>3, <3>1 DEF TypeOK
    <3> QED BY <2>1, <3>2
  <2> QED BY <2>4, <2>5
<1> QED BY <1>1, Typing, ReportIsRightHolds, PTL DEF HealthyIsEarned

----------------------------------------------------------------------------
(* What a pass does when it is cut short, and when its lists are stale *)

(* What is about to be looked at was listed with a status of its kind.     *)
ListedTyped == pc = "look" =>
                 \A i \in left : Lane(i) \notin unlisted => listed[i] \in Statuses(kindOf[i])

(* Only resources that may have no condition at all can be listed as None. *)
LEMMA ListedNone ==
  ASSUME NEW kind \in Kinds, None \in Statuses(kind)
  PROVE  kind \in {"issuer", "hpe", "catalog"}
<1>1. kind = "mcp" => None \in PoolStatus
  BY StatusAssumption DEF Statuses
<1>2. kind = "node" => None \in NodeStatus
  BY StatusAssumption DEF Statuses
<1>3. None \notin PoolStatus /\ None \notin NodeStatus
  BY DEF None, PoolStatus, NodeStatus
<1>4. \A names : None \in Single(names) => "none" \in names
  BY DEF None, Single
<1>5. kind = "policy" => None \in Single(PolicyStatus \cup {"terminating", "gone"})
  BY DEF Statuses
<1>6. kind = "pod" => None \in Single({"well", "failing", "recovering", "ignored", "terminating", "gone"})
  BY DEF Statuses
<1>7. kind \notin {"mcp", "node", "policy", "pod", "issuer", "hpe", "catalog"}
      => None \in Single({"well", "failing", "terminating", "gone"})
  BY DEF Statuses
<1>8. "none" \notin PolicyStatus \cup {"terminating", "gone"}
  BY DEF PolicyStatus
<1> QED BY <1>1, <1>2, <1>3, <1>4, <1>5, <1>6, <1>7, <1>8

(* Lists stay typed, through every step.                                   *)
LEMMA ListedStaysTyped == TypeOK /\ PassInv /\ ListedTyped /\ [Next]_vars => ListedTyped'
<1> SUFFICES ASSUME TypeOK, PassInv, ListedTyped, [Next]_vars, pc' = "look",
                    NEW i \in left', Lane(i)' \notin unlisted'
             PROVE  listed'[i] \in Statuses(kindOf'[i])
  BY DEF ListedTyped
<1>1. CASE NodesMove \/ UNCHANGED vars \/ \E j \in Items : \E s \in Statuses(kindOf[j]) \ {status[j]} : Move(j, s)
  BY <1>1 DEF NodesMove, Move, vars, lists, cluster, ListedTyped, Lane, Kind
<1>2. CASE Begin \/ Done
  <2>1. stage \in 0..Last /\ GoOn
    BY <1>2 DEF Begin, Done, TypeOK, Last
  <2>2. pc' = IF stage' = Last + 1 THEN "report" ELSE "gate"
    BY <2>1, GoOnStep
  <2> QED BY <2>2
<1>3. CASE Gate
  <2>1. stage \in 1..Last
    BY <1>3 DEF Gate, TypeOK
  <2>2. CASE Kind \in Gated /\ CheckMCPINProgress
    <3>1. pc' = IF stage' = Last + 1 THEN "report" ELSE "gate"
      BY <1>3, <2>1, <2>2, GoOnStep DEF Gate, Last
    <3> QED BY <3>1
  <2>3. CASE ~ (Kind \in Gated /\ CheckMCPINProgress)
    <3>1. /\ stage' = stage /\ left' = ItemsAt(stage)
          /\ unlisted' = IF Kind = "pod" THEN Lanes ELSE {Main}
      BY <1>3, <2>3 DEF Gate
    <3>2. i \in Items
      BY <3>1 DEF ItemsAt, OfKind
    <3> QED BY <3>1, <3>2, LanesAssumption DEF Lane, Kind
  <2> QED BY <2>2, <2>3
<1>4. ASSUME NEW l \in Lanes, List(l) PROVE listed'[i] \in Statuses(kindOf'[i])
  <2>1. /\ pc = "look" /\ unlisted' = unlisted \ {l} /\ kindOf' = kindOf /\ Lane(i)' = Lane(i)
        /\ left' \subseteq left
    BY <1>4 DEF List, cluster, Lane, Kind
  <2>2. i \in left /\ i \in Items /\ status[i] \in Statuses(kindOf[i])
    BY <2>1 DEF TypeOK
  <2>3. CASE nodes = "blind"
    BY <1>4, <2>1, <2>2, <2>3 DEF List, ListedTyped, RestOfLane
  <2>4. CASE nodes # "blind"
    BY <1>4, <2>1, <2>2, <2>4 DEF List, ListedTyped, RestOfLane
  <2> QED BY <2>3, <2>4
<1>5. ASSUME NEW j \in Items, Look(j) PROVE listed'[i] \in Statuses(kindOf'[i])
  <2>1. /\ pc = "look" /\ unlisted' = unlisted /\ kindOf' = kindOf /\ Lane(i)' = Lane(i)
        /\ left' \subseteq left
    BY <1>5 DEF Look, cluster, Lane, Kind
  <2>2. i \in left /\ i \in Items
    BY <2>1 DEF TypeOK
  <2>3. listed'[i] = listed[i]
    BY <1>5, <2>2 DEF Look, Forget
  <2> QED BY <2>1, <2>2, <2>3 DEF ListedTyped
<1>6. CASE Report \/ CatalogPanic \/ Die \/ Start
  BY <1>6 DEF Report, CatalogPanic, Die, Start
<1> QED BY <1>1, <1>2, <1>3, <1>4, <1>5, <1>6 DEF Next, Pass, CleanupPanic

(* A look that sees i failing does not leave it without a marker that it   *)
(* had, wherever in the checks the look ends.                              *)
LEMMA SeenFailing ==
  ASSUME TypeOK, pc = "look", NEW i \in ItemsAt(stage), i \in Items, NEW d \in BOOLEAN, NEW s,
         Failing(kindOf[i], s), NEW name \in MarkerNames, <<name, i>> \in marked, NamesInv
  PROVE  \E n \in MarkerNames : <<n, i>> \in Looked(marked, i, s, d)
<1> DEFINE M == Looked(marked, i, s, d)
<1>0. SUFFICES \E n \in MarkerNames : <<n, i>> \in M
  OBVIOUS
<1>1. kindOf[i] = IF Kind = "cleanup" THEN "pod" ELSE Kind
  BY KindHere
<1>2. {"own", "mcp", "mcp-pause", "mcp-degraded", "mcp-issue", "sched", "ready"} \subseteq MarkerNames
  BY DEF MarkerNames
<1>3. CASE Kind = "mcp"
  <2>1. M = PoolPass(marked, i, s, d)
    BY <1>3 DEF Looked
  <2>2. s.paused
    BY <1>1, <1>3 DEF Failing
  <2> HIDE DEF M
  <2>3. CASE nodes = "blind"
    BY <2>1, <2>2, <2>3 DEF PoolPass
  <2>4. CASE nodes = "rolling"
    <3>1. M = Faulty(marked, "mcp-pause", i)
      BY <2>1, <2>2, <2>4 DEF PoolPass
    <3> QED BY <3>1, <1>2 DEF Faulty
  <2>5. CASE nodes # "blind" /\ nodes # "rolling"
    <3> DEFINE base == Verdict(marked, "mcp-pause", i, s.paused)
    <3>1. M = PoolConditions(base, i, s, nodes, d, "mcp")
      BY <2>1, <2>5 DEF PoolPass
    <3>2. <<"mcp-pause", i>> \in base
      BY <2>2 DEF Verdict, Faulty
    <3> HIDE DEF base
    <3>3. \A x : <<"mcp-pause", i>> \in x => <<"mcp-pause", i>> \in Updating(x, i, s, nodes)
      BY DEF Updating, Faulty, Recovered
    <3>4. \A x : <<"mcp-pause", i>> \in x => <<"mcp-pause", i>> \in Verdict(x, "mcp", i, s.degraded)
      BY DEF Verdict, Faulty, Recovered
    <3>5. <<"mcp-pause", i>> \in M
      BY <3>1, <3>2, <3>3, <3>4 DEF PoolConditions
    <3> QED BY <3>5, <1>2
  <2> QED BY <2>3, <2>4, <2>5 DEF M
<1>4. CASE Kind = "node"
  <2>1. M = OnNode(marked, i, s)
    BY <1>4 DEF Looked
  <2>2. NodeTrouble(s)
    BY <1>1, <1>4 DEF Failing
  <2> HIDE DEF M
  <2>3. CASE s.anno = "failed"
    <3>1. M = Faulty(marked, "mcp-issue", i)
      BY <2>1, <2>3 DEF OnNode, InUpdate, Issue
    <3> QED BY <3>1, <1>2 DEF Faulty
  <2>4. CASE ~ InUpdate(s) /\ s.cordoned
    <3>1. M = Faulty(Issue(marked, i, s), "sched", i)
      BY <2>1, <2>4 DEF OnNode, Verdict
    <3> QED BY <3>1, <1>2 DEF Faulty
  <2>5. CASE ~ InUpdate(s) /\ ~ s.cordoned /\ s.ready = "false"
    <3>1. M = Faulty(Recovered(Issue(marked, i, s), "sched", i), "ready", i)
      BY <2>1, <2>5 DEF OnNode, Verdict
    <3> QED BY <3>1, <1>2 DEF Faulty
  <2> QED BY <2>2, <2>3, <2>4, <2>5 DEF NodeTrouble, M
<1>5. CASE Kind \notin {"mcp", "node"}
  <2>1. name = "own"
    BY <1>1, <1>5 DEF NamesInv, NamesOf
  <2>2. s.is = IF Kind = "policy" THEN "violating" ELSE "failing"
    BY <1>1, <1>5 DEF Failing
  <2>3. M = marked \/ M = Faulty(marked, "own", i)
    BY <1>5, <2>2 DEF Looked, PodPass, PolicyPass, OnPolicy, CleanupPass, ListPass, Verdict
  <2> QED BY <2>1, <2>3 DEF Faulty
<1> QED BY <1>3, <1>4, <1>5

(* A look that sees i well does not mark it.                               *)
LEMMA SeenWell ==
  ASSUME TypeOK, pc = "look", NEW i \in ItemsAt(stage), i \in Items, NEW d \in BOOLEAN, NEW s,
         Well(kindOf[i], s), NEW name \in MarkerNames, <<name, i>> \notin marked
  PROVE  <<name, i>> \notin Looked(marked, i, s, d)
<1> DEFINE M == Looked(marked, i, s, d)
           out(m) == <<name, i>> \notin m
<1>1. kindOf[i] = IF Kind = "cleanup" THEN "pod" ELSE Kind
  BY KindHere
<1>2. \A x, n : out(x) => out(Recovered(x, n, i)) /\ out(Verdict(x, n, i, FALSE))
  BY DEF Recovered, Verdict
<1>3. out(marked)
  OBVIOUS
<1> HIDE DEF out
<1>4. CASE Kind = "mcp"
  <2>1. ~ s.paused /\ ~ s.updating /\ ~ s.degraded
    BY <1>1, <1>4 DEF Well
  <2>2. out(Verdict(marked, "mcp-pause", i, s.paused))
    BY <1>2, <1>3, <2>1 DEF Verdict
  <2>3. \A x : out(x) => out(Updating(x, i, s, nodes))
    BY <1>2, <2>1 DEF Updating
  <2>4. \A x : out(x) => out(Verdict(x, "mcp", i, s.degraded))
    BY <1>2, <2>1 DEF Verdict
  <2>5. out(PoolConditions(Verdict(marked, "mcp-pause", i, s.paused), i, s, nodes, d, "mcp"))
    BY <2>2, <2>3, <2>4 DEF PoolConditions
  <2>6. out(PoolPass(marked, i, s, d))
    BY <2>1, <2>5 DEF PoolPass
  <2> QED BY <1>4, <2>6 DEF Looked, out
<1>5. CASE Kind = "node"
  <2>1. s.anno = "done" /\ ~ s.cordoned /\ s.ready = "true"
    BY <1>1, <1>5 DEF Well, NodeWell
  <2>2. OnNode(marked, i, s) = Recovered(Recovered(Recovered(marked, "mcp-issue", i), "sched", i), "ready", i)
    BY <2>1 DEF OnNode, InUpdate, Issue, Verdict
  <2> QED BY <1>2, <1>3, <1>5, <2>2 DEF Looked, out
<1>6. CASE Kind \notin {"mcp", "node"}
  <2>1. s.is = IF Kind = "policy" THEN "compliant" ELSE "well"
    BY <1>1, <1>6 DEF Well
  <2>2. M = marked \/ M = Recovered(marked, "own", i)
    BY <1>6, <2>1 DEF Looked, PodPass, PolicyPass, OnPolicy, CleanupPass, ListPass, Verdict
  <2> QED BY <1>2, <1>3, <2>2 DEF out
<1> QED BY <1>4, <1>5, <1>6

(* A look at a resource without conditions changes nothing.                *)
LEMMA SeenNone ==
  ASSUME TypeOK, ListedTyped, PassInv, NEW i \in Items, Look(i), listed[i] = None
  PROVE  marked' = marked
<1>1. pc = "look" /\ i \in left /\ Lane(i) \notin unlisted /\ i \in ItemsAt(stage)
  BY DEF Look, First, PassInv, LeftInv
<1>2. kindOf[i] \in Kinds /\ None \in Statuses(kindOf[i])
  BY <1>1, KindOfType DEF ListedTyped
<1>3. kindOf[i] \in {"issuer", "hpe", "catalog"}
  BY <1>2, ListedNone
<1>4. Kind \in {"issuer", "hpe", "catalog"}
  BY <1>1, <1>3, KindHere
<1>5. None.is = "none"
  BY DEF None
<1>6. Kind = "catalog" => Stops(None)
  BY DEF Look, CatalogPanics
<1> QED BY <1>4, <1>5, <1>6 DEF Look, Looked, ListPass

(* Markers change in looks only, while the process lives.                  *)
LEMMA OnlyLooks ==
  ASSUME Next, marked' # marked, pc' # "dead"
  PROVE  \E i \in Items : Look(i)
  BY DEF Next, Pass, Begin, Gate, List, Done, Report, CatalogPanic, CleanupPanic, Die, Start, NodesMove, Move

(* The lists of a pass are typed, always.                                  *)
LEMMA ListedTypedHolds == Spec => []ListedTyped
<1>1. Init => ListedTyped
  BY DEF Init, ListedTyped
<1> QED BY <1>1, ListedStaysTyped, PassInvHolds, Typing, PTL DEF Spec

(* However often passes are cut short, and whatever the cluster does, an   *)
(* alert of something that fails is taken back on a stale list only, or    *)
(* with the process.                                                       *)
THEOREM AlertStandsHolds == Spec => AlertStands
<1>1. /\ TypeOK /\ TypeOK' /\ PassInv /\ ListedTyped /\ [Next]_vars
      => [\A i \in Items :
            pc' # "dead" /\ HasMarker(i) /\ ~ HasMarker(i)' /\ Alone(i) /\ Failing(kindOf[i], status[i])
              => listed[i] # None /\ ~ Failing(kindOf[i], listed[i])]_vars
  <2> SUFFICES ASSUME TypeOK, TypeOK', PassInv, ListedTyped, Next, NEW i \in Items,
                      pc' # "dead", HasMarker(i), ~ HasMarker(i)', Alone(i)
               PROVE  listed[i] # None /\ ~ Failing(kindOf[i], listed[i])
    OBVIOUS
  <2>1. PICK name \in MarkerNames : <<name, i>> \in marked
    BY HasMarkerByName
  <2>2. \A n \in MarkerNames : <<n, i>> \notin marked'
    BY HasMarkerByName
  <2>3. PICK j \in Items : Look(j)
    BY <2>1, <2>2, OnlyLooks
  <2>4. PICK d \in BOOLEAN : marked' = Looked(marked, j, listed[j], d)
    BY <2>3 DEF Look
  <2>5. pc = "look" /\ j \in ItemsAt(stage)
    BY <2>3 DEF Look, PassInv, LeftInv
  <2>6. j = i
    BY <2>1, <2>2, <2>4, <2>5, LookedOthers DEF Alone
  <2>7. listed[i] # None
    BY <2>1, <2>2, <2>3, <2>6, SeenNone
  <2>8. ~ Failing(kindOf[i], listed[i])
    BY <2>1, <2>2, <2>4, <2>5, <2>6, SeenFailing DEF PassInv
  <2> QED BY <2>7, <2>8
<1> QED BY <1>1, Typing, PassInvHolds, ListedTypedHolds, PTL DEF Spec, AlertStands

(* And nothing that is well is ever marked, but on a stale list.           *)
THEOREM SilenceStandsHolds == Spec => SilenceStands
<1>1. /\ TypeOK /\ TypeOK' /\ PassInv /\ ListedTyped /\ [Next]_vars
      => [\A i \in Items :
            Well(kindOf[i], status[i]) /\ ~ HasMarker(i) /\ HasMarker(i)'
              => listed[i] # None /\ ~ Well(kindOf[i], listed[i])]_vars
  <2> SUFFICES ASSUME TypeOK, TypeOK', PassInv, ListedTyped, Next, NEW i \in Items,
                      ~ HasMarker(i), HasMarker(i)'
               PROVE  listed[i] # None /\ ~ Well(kindOf[i], listed[i])
    OBVIOUS
  <2>1. PICK name \in MarkerNames : <<name, i>> \in marked'
    BY HasMarkerByName
  <2>2. <<name, i>> \notin marked
    BY HasMarkerByName
  <2>3. PICK j \in Items : Look(j)
    <3>1. marked' # {}
      BY <2>1
    <3>2. pc' # "dead"
      BY <2>1, <2>2, <3>1 DEF Next, Pass, Begin, Gate, List, Look, Done, Report, GoOn, CatalogPanic, CleanupPanic,
            Die, Start, NodesMove, Move
    <3> QED BY <2>1, <2>2, <3>2, OnlyLooks
  <2>4. PICK d \in BOOLEAN : marked' = Looked(marked, j, listed[j], d)
    BY <2>3 DEF Look
  <2>5. pc = "look" /\ j \in ItemsAt(stage)
    BY <2>3 DEF Look, PassInv, LeftInv
  <2>6. j = i
    BY <2>1, <2>2, <2>4, <2>5, LookedOthers
  <2>7. listed[i] # None
    BY <2>1, <2>2, <2>3, <2>6, SeenNone
  <2>8. ~ Well(kindOf[i], listed[i])
    BY <2>1, <2>2, <2>4, <2>5, <2>6, SeenWell
  <2> QED BY <2>7, <2>8
<1> QED BY <1>1, Typing, PassInvHolds, ListedTypedHolds, PTL DEF Spec, SilenceStands
=============================================================================
