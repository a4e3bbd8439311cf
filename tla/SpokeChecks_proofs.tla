-------------------------- MODULE SpokeChecks_proofs --------------------------
(* Theorems about the checks of a spoke, for any resource and inbox bound. *)
EXTENDS SpokeChecks, SequenceTheorems, TLAPS

(* A node in trouble has the marker of its trouble after a look at it, and *)
(* a node that is well has none, whatever markers there were.              *)
THEOREM OnNodeAnswers ==
  ASSUME NEW m, NEW n, NEW s \in NodeStatus
  PROVE  /\ NodeTrouble(s) => <<IF s.anno = "failed" THEN "mcp-issue" ELSE IF s.cordoned THEN "sched" ELSE "ready", n>>
                                \in OnNode(m, n, s)
         /\ NodeWell(s) => \A name \in {"mcp-issue", "sched", "ready"} : <<name, n>> \notin OnNode(m, n, s)
<1>1. ASSUME s.anno = "failed" PROVE <<"mcp-issue", n>> \in OnNode(m, n, s)
  BY <1>1 DEF OnNode, InUpdate, Issue, Faulty
<1>2. ASSUME ~ InUpdate(s), s.cordoned PROVE <<"sched", n>> \in OnNode(m, n, s)
  BY <1>2 DEF OnNode, Verdict, Faulty
<1>3. ASSUME ~ InUpdate(s), ~ s.cordoned, s.ready = "false" PROVE <<"ready", n>> \in OnNode(m, n, s)
  BY <1>3 DEF OnNode, Verdict, Faulty
<1>4. ASSUME NodeWell(s) PROVE OnNode(m, n, s) = ((m \ {<<"mcp-issue", n>>}) \ {<<"sched", n>>}) \ {<<"ready", n>>}
  BY <1>4 DEF NodeWell, OnNode, InUpdate, Issue, Verdict, Recovered
<1> QED BY <1>1, <1>2, <1>3, <1>4 DEF NodeTrouble, InUpdate

(* Statuses of a kind, and the status of an old policy, are statuses.      *)
LEMMA StatusTypes ==
  /\ TypeOK => kind \in SpokeKinds /\ Statuses(kind) \subseteq AnyStatus
  /\ Old \in Statuses("policy") /\ Old \in AnyStatus
<1>1. "policy" \in SpokeKinds /\ WatchedKinds \subseteq SpokeKinds
  BY KindsAssumption DEF SpokeKinds
<1>2. Old \in Statuses("policy")
  BY DEF Old, Statuses, Single, PolicyStatus, ProbedKinds
<1> QED BY <1>1, <1>2 DEF AnyStatus, TypeOK

(* Notifications of each sort are told apart.                              *)
LEMMA NotesApart ==
  /\ Deletion # Tombstone /\ Nothing # Tombstone /\ Nothing # Deletion
  /\ \A s : Update(s) # Tombstone /\ Update(s) # Nothing
  BY DEF Deletion, Tombstone, Nothing, Update

(* Telling keeps the inbox an inbox.                                       *)
LEMMA TellType ==
  ASSUME TypeOK, NEW note \in Notes \cup {Nothing}, Tell(note)
  PROVE  inbox' \in Seq(Notes) /\ Len(inbox') <= MaxInbox
<1>1. inbox \in Seq(Notes) /\ Len(inbox) <= MaxInbox /\ MaxInbox \in Nat
  BY InboxAssumption DEF TypeOK
<1>2. CASE inbox' = inbox
  BY <1>1, <1>2
<1>3. CASE note \in Notes /\ Len(inbox) < MaxInbox /\ inbox' = Append(inbox, note)
  <2>1. inbox' \in Seq(Notes) /\ Len(inbox') = Len(inbox) + 1
    BY <1>1, <1>3, AppendProperties
  <2>2. Len(inbox) \in Nat
    BY <1>1, LenProperties
  <2> QED BY <1>1, <1>3, <2>1, <2>2
<1> QED BY <1>2, <1>3 DEF Tell

(* What the watch makes of a status keeps the informer's types.            *)
LEMMA SeenType ==
  ASSUME TypeOK, NEW s \in Statuses(kind) \cup {Gone}, Seen(s)
  PROVE  /\ store' \in {"unlisted", "absent", "present"}
         /\ watching' = watching /\ missed' \in BOOLEAN
         /\ (watching' \/ missed' => store' # "unlisted") /\ (watching' => ~ missed')
         /\ watching' /\ s # Gone => store' = "present"
         /\ store' # "unlisted" => up
         /\ inbox' \in Seq(Notes) /\ Len(inbox') <= MaxInbox
<1>1. CASE watching
  <2> DEFINE note == IF store = "absent" THEN Nothing ELSE IF s = Gone THEN Deletion ELSE Update(s)
  <2>1. /\ store' = (IF s = Gone THEN "absent" ELSE "present")
        /\ Tell(note) /\ UNCHANGED <<watching, missed>>
    BY <1>1 DEF Seen
  <2>2. note \in Notes \cup {Nothing}
    BY StatusTypes DEF Notes
  <2> HIDE DEF note
  <2>3. inbox' \in Seq(Notes) /\ Len(inbox') <= MaxInbox
    BY <2>1, <2>2, TellType
  <2>4. up
    BY <1>1 DEF TypeOK
  <2> QED BY <1>1, <2>1, <2>3, <2>4 DEF TypeOK
<1>2. CASE ~ watching
  BY <1>2 DEF Seen, TypeOK
<1> QED BY <1>1, <1>2

(* The markers stay markers of the resource.                               *)
LEMMA JudgedType ==
  ASSUME NEW m \in SUBSET (MarkerNames \X {Resource}), NEW s, NEW d \in BOOLEAN
  PROVE  Judged(m, s, d) \subseteq (MarkerNames \X {Resource})
<1> DEFINE ok(x) == x \subseteq (MarkerNames \X {Resource})
<1>1. \A x, n, bad : ok(x) /\ n \in MarkerNames =>
         ok(Verdict(x, n, Resource, bad)) /\ ok(Faulty(x, n, Resource)) /\ ok(Recovered(x, n, Resource))
  BY DEF Verdict, Faulty, Recovered
<1>2. {"own", "mcp", "mcp-degraded", "mcp-issue", "sched", "ready"} \subseteq MarkerNames
  BY DEF MarkerNames
<1>3. ok(m) /\ ok(OnPolicyDelete(m))
  BY DEF OnPolicyDelete
<1> HIDE DEF ok
<1>4. ok(OnListedUpdate(m, s)) /\ ok(OnTunedProfileUpdate(m, s)) /\ ok(OnPolicyUpdate(m, s))
  BY <1>1, <1>2, <1>3 DEF OnListedUpdate, OnTunedProfileUpdate, OnPolicyUpdate, OnPolicy
<1>5. ok(OnNode(m, Resource, s))
  <2>1. ok(Issue(m, Resource, s))
    BY <1>1, <1>2, <1>3 DEF Issue
  <2> QED BY <2>1, <1>1, <1>2 DEF OnNode
<1>6. ok(OnMCPUpdate(m, s, d))
  <2>1. \A x : ok(x) => ok(Updating(x, Resource, s, nodes)) /\ ok(Verdict(x, "mcp-degraded", Resource, s.degraded))
    BY <1>1, <1>2 DEF Updating
  <2> QED BY <2>1, <1>3 DEF OnMCPUpdate, PoolConditions
<1> QED BY <1>3, <1>4, <1>5, <1>6 DEF Judged, ok

(* A fresh process has heard of nothing.                                   *)
LEMMA InitTypeOK == Init => TypeOK
<1> SUFFICES ASSUME Init PROVE TypeOK
  OBVIOUS
<1>1. inbox \in Seq(Notes) /\ Len(inbox) <= MaxInbox
  BY InboxAssumption, EmptySeq DEF Init
<1>2. hand \in [Generations -> Notes \cup {Nothing}] /\ \A g \in Generations : hand[g] # Tombstone
  BY NotesApart DEF Init
<1> QED BY <1>1, <1>2 DEF Init, TypeOK, Nodes

(* Six hours make an old status of a violating one, wherever it is.        *)
LEMMA AgeType == ASSUME TypeOK, Age PROVE TypeOK'
<1>1. \A note \in Notes : Aged(note) \in Notes
  BY StatusTypes DEF Aged, Notes
<1>2. Aged(Nothing) = Nothing /\ \A note : note # Tombstone => Aged(note) # Tombstone
  BY NotesApart DEF Aged
<1>3. inbox \in Seq(Notes)
  BY DEF TypeOK
<1>4. inbox' = [n \in 1..Len(inbox) |-> Aged(inbox[n])]
  BY <1>3, LenProperties DEF Age
<1>5. \A n \in 1..Len(inbox) : Aged(inbox[n]) \in Notes
  BY <1>1, <1>3, ElementOfSeq
<1>6. inbox' \in Seq(Notes) /\ Len(inbox') = Len(inbox)
  <2>1. Len(inbox) \in Nat /\ inbox' \in [1..Len(inbox) -> Notes]
    BY <1>3, <1>4, <1>5, LenProperties
  <2> QED BY <2>1, IsASeq, LenProperties
<1>7. hand' \in [Generations -> Notes \cup {Nothing}] /\ \A g \in Generations : hand'[g] # Tombstone
  BY <1>1, <1>2 DEF Age, TypeOK
<1>8. obj' \in Statuses(kind)' \cup {Gone} /\ obj # Gone
  BY StatusTypes DEF Age, Violating, Gone
<1> QED BY <1>6, <1>7, <1>8 DEF Age, TypeOK, informer

(* A notification that is taken was waiting, and is no tombstone.          *)
LEMMA TakeType == ASSUME TypeOK, Take PROVE TypeOK'
<1>1. inbox \in Seq(Notes) /\ inbox # <<>>
  BY DEF Take, TypeOK
<1>2. Head(inbox) \in Notes /\ Tail(inbox) \in Seq(Notes) /\ Len(Tail(inbox)) = Len(inbox) - 1 /\ Len(inbox) \in Nat
  BY <1>1, HeadTailProperties, LenProperties
<1>3. inbox' \in Seq(Notes) /\ Len(inbox') <= MaxInbox
  BY <1>2, InboxAssumption DEF Take, TypeOK
<1>4. hand' \in [Generations -> Notes \cup {Nothing}] /\ \A g \in Generations : hand'[g] # Tombstone
  BY <1>2 DEF Take, TypeOK
<1> QED BY <1>3, <1>4 DEF Take, TypeOK, cluster, informer

(* The informer's own steps.                                               *)
LEMMA InformerTypes == ASSUME TypeOK, List \/ WatchBreaks \/ Relist PROVE TypeOK'
<1>1. CASE List
  <2>1. ~ missed
    BY <1>1 DEF List, TypeOK
  <2> QED BY <1>1, <2>1 DEF List, TypeOK, cluster
<1>2. CASE WatchBreaks
  BY <1>2 DEF WatchBreaks, TypeOK, cluster
<1>3. CASE Relist
  <2> DEFINE note == IF store = "absent" \/ ~ missed THEN Nothing ELSE IF obj = Gone THEN Tombstone ELSE Update(obj)
  <2>1. note \in Notes \cup {Nothing}
    BY StatusTypes DEF Notes, TypeOK
  <2>2. Tell(note)
    BY <1>3 DEF Relist
  <2> HIDE DEF note
  <2>3. inbox' \in Seq(Notes) /\ Len(inbox') <= MaxInbox
    BY <2>1, <2>2, TellType
  <2> QED BY <1>3, <2>3 DEF Relist, TypeOK, cluster
<1> QED BY <1>1, <1>2, <1>3

(* A new informer, or a new process, has heard of nothing.                 *)
LEMMA AfreshTypes == ASSUME TypeOK, Die \/ Rebuild \/ Start PROVE TypeOK'
<1>1. <<>> \in Seq(Notes) /\ Len(<<>>) <= MaxInbox
  BY InboxAssumption, EmptySeq
<1>2. CASE Die
  <2>1. hand' \in [Generations -> Notes \cup {Nothing}] /\ \A g \in Generations : hand'[g] # Tombstone
    BY <1>2, NotesApart DEF Die
  <2> QED BY <1>1, <1>2, <2>1 DEF Die, Unlisted, TypeOK, cluster
<1>3. CASE Rebuild
  <2>1. hand["open"] \in Notes \cup {Nothing} /\ hand["open"] # Tombstone
    BY DEF TypeOK, Generations
  <2>2. hand' \in [Generations -> Notes \cup {Nothing}] /\ \A g \in Generations : hand'[g] # Tombstone
    BY <1>3, <2>1, NotesApart DEF Rebuild
  <2> QED BY <1>1, <1>3, <2>2 DEF Rebuild, Unlisted, TypeOK, cluster
<1>4. CASE Start
  BY <1>4 DEF Start, TypeOK, cluster, informer
<1> QED BY <1>2, <1>3, <1>4

(* What a probe may make of the markers.                                   *)
LEMMA ProbedVerdict ==
  ASSUME Probe
  PROVE  marked' = marked \/ \E bad \in BOOLEAN : marked' = Verdict(marked, "own", Resource, bad)
  BY DEF Probe, Probed

(* The checks of a spoke keep their types: a watch that is up knows of the *)
(* resource, and no tombstone is ever in hand.                             *)
THEOREM Typing == Spec => []TypeOK
<1>1. TypeOK /\ [Next]_vars => TypeOK'
  <2> SUFFICES ASSUME TypeOK, [Next]_vars PROVE TypeOK'
    OBVIOUS
  <2>1. ASSUME NEW s \in Statuses(kind) \cup {Gone}, Move(s) PROVE TypeOK'
    <3>1. Seen(s) /\ obj' = s /\ UNCHANGED <<kind, nodes, hand, marked, up>>
      BY <2>1 DEF Move
    <3> QED BY <3>1, SeenType DEF TypeOK
  <2>2. CASE Retell
    <3>1. Seen(obj) /\ obj # Gone /\ UNCHANGED <<cluster, hand, marked, up>> /\ obj \in Statuses(kind) \cup {Gone}
      BY <2>2 DEF Retell, TypeOK
    <3> QED BY <3>1, SeenType DEF TypeOK, cluster
  <2>3. CASE NodesMove
    BY <2>3 DEF NodesMove, TypeOK, informer
  <2>4. ASSUME NEW g \in Generations, Judge(g) PROVE TypeOK'
    <3>1. marked' \subseteq (MarkerNames \X {Resource})
      BY <2>4, JudgedType DEF Judge, TypeOK
    <3>2. hand' \in [Generations -> Notes \cup {Nothing}] /\ \A h \in Generations : hand'[h] # Tombstone
      BY <2>4, NotesApart DEF Judge, TypeOK
    <3> QED BY <2>4, <3>1, <3>2 DEF Judge, TypeOK, cluster, informer
  <2>6. CASE Probe
    <3>1. marked' \subseteq (MarkerNames \X {Resource})
      BY <2>6, ProbedVerdict DEF Verdict, Faulty, Recovered, MarkerNames, TypeOK
    <3> QED BY <2>6, <3>1 DEF Probe, TypeOK, cluster, informer
  <2>5. CASE UNCHANGED vars
    BY <2>5 DEF vars, cluster, informer, TypeOK
  <2> QED BY <2>1, <2>2, <2>3, <2>4, <2>5, <2>6, AgeType, TakeType, InformerTypes, AfreshTypes DEF Next, Panic
<1> QED BY <1>1, InitTypeOK, PTL DEF Spec

----------------------------------------------------------------------------
(* Verdicts on the resource's kind, whatever markers there were *)

(* The marker names that checks of a kind write.                           *)
NamesOf(k) == CASE k = "node" -> {"mcp-issue", "sched", "ready"}
                [] k = "mcp"  -> {"mcp", "mcp-degraded"}
                [] OTHER      -> {"own"}

KindMarkers == marked \subseteq {<<name, Resource>> : name \in NamesOf(kind)}

(* No look writes a marker of another kind's.                              *)
LEMMA JudgedNames ==
  ASSUME TypeOK, KindMarkers, NEW s, NEW d \in BOOLEAN
  PROVE  Judged(marked, s, d) \subseteq {<<name, Resource>> : name \in NamesOf(kind)}
<1> DEFINE ok(x) == x \subseteq {<<name, Resource>> : name \in NamesOf(kind)}
<1>1. \A x, n, bad : ok(x) /\ n \in NamesOf(kind) =>
         ok(Verdict(x, n, Resource, bad)) /\ ok(Faulty(x, n, Resource)) /\ ok(Recovered(x, n, Resource))
  BY DEF Verdict, Faulty, Recovered
<1>2. ok(marked) /\ ok(OnPolicyDelete(marked))
  BY DEF KindMarkers, OnPolicyDelete
<1> HIDE DEF ok
<1>3. CASE kind = "node"
  <2>1. ok(Issue(marked, Resource, s))
    BY <1>1, <1>2, <1>3 DEF Issue, NamesOf
  <2>2. ok(OnNode(marked, Resource, s))
    BY <2>1, <1>1, <1>3 DEF OnNode, NamesOf
  <2> QED BY <2>2, <1>2, <1>3 DEF Judged, ok
<1>4. CASE kind = "mcp"
  <2>1. \A x : ok(x) => ok(Updating(x, Resource, s, nodes)) /\ ok(Verdict(x, "mcp-degraded", Resource, s.degraded))
    BY <1>1, <1>4 DEF Updating, NamesOf
  <2>2. ok(OnMCPUpdate(marked, s, d))
    BY <2>1, <1>2 DEF OnMCPUpdate, PoolConditions
  <2> QED BY <2>2, <1>2, <1>4 DEF Judged, ok
<1>5. CASE kind \notin {"node", "mcp"}
  <2>1. "own" \in NamesOf(kind)
    BY <1>5 DEF NamesOf
  <2>2. ok(OnListedUpdate(marked, s)) /\ ok(OnTunedProfileUpdate(marked, s)) /\ ok(OnPolicyUpdate(marked, s))
    BY <1>1, <1>2, <2>1 DEF OnListedUpdate, OnTunedProfileUpdate, OnPolicyUpdate, OnPolicy
  <2> QED BY <2>2, <1>2, <1>5 DEF Judged, ok
<1> QED BY <1>3, <1>4, <1>5

(* A resource only ever has markers of its kind.                           *)
LEMMA KindMarkersHold == Spec => []KindMarkers
<1>1. Init => KindMarkers
  BY DEF Init, KindMarkers
<1>2. TypeOK /\ KindMarkers /\ [Next]_vars => KindMarkers'
  <2> SUFFICES ASSUME TypeOK, KindMarkers, [Next]_vars PROVE KindMarkers'
    OBVIOUS
  <2>1. ASSUME kind' = kind, marked' \subseteq marked PROVE KindMarkers'
    BY <2>1 DEF KindMarkers
  <2>2. ASSUME NEW g \in Generations, Judge(g) PROVE KindMarkers'
    BY <2>2, JudgedNames DEF Judge, KindMarkers, cluster
  <2>3. CASE Probe
    <3>1. "own" \in NamesOf(kind)
      BY <2>3 DEF Probe, NamesOf, ProbedKinds
    <3> QED BY <2>3, <3>1, ProbedVerdict DEF Probe, KindMarkers, Verdict, Faulty, Recovered, cluster
  <2>4. CASE \E s \in Statuses(kind) \cup {Gone} : Move(s)
    BY <2>1, <2>4 DEF Move
  <2>5. CASE Retell \/ Age \/ NodesMove
    BY <2>1, <2>5 DEF Retell, Age, NodesMove, cluster
  <2>6. CASE List \/ WatchBreaks \/ Relist \/ Take \/ Die \/ Start \/ Rebuild
    BY <2>1, <2>6 DEF List, WatchBreaks, Relist, Take, Die, Start, Rebuild, cluster
  <2>7. CASE UNCHANGED vars
    BY <2>1, <2>7 DEF vars, cluster
  <2> QED BY <2>2, <2>3, <2>4, <2>5, <2>6, <2>7 DEF Next, Panic
<1> QED BY <1>1, <1>2, Typing, PTL DEF Spec

----------------------------------------------------------------------------
(* One look settles the matter, and nothing undoes it *)

(* What Answered says, of markers m.                                       *)
AnsweredBy(m) == /\ Broken => <<TroubleName, Resource>> \in m
                 /\ Fine => m = {}

(* A look at the status as it is gives the right markers while the nodes   *)
(* are calm, and keeps them right when they are not.                       *)
LEMMA JudgedAnswers ==
  ASSUME TypeOK, KindMarkers, obj # Gone, NEW d \in BOOLEAN, nodes = "calm" \/ Answered
  PROVE  AnsweredBy(Judged(marked, obj, d))
<1> DEFINE m == Judged(marked, obj, d)
<1>1. CASE kind = "node"
  <2>1. obj \in NodeStatus
    BY <1>1, StatusAssumption DEF TypeOK, Statuses, ProbedKinds
  <2>2. m = OnNode(marked, Resource, obj)
    BY <1>1 DEF Judged
  <2>3. NodeTrouble(obj) => <<TroubleName, Resource>> \in m
    BY <1>1, <2>1, <2>2, OnNodeAnswers DEF TroubleName
  <2>4. NodeWell(obj) => m = {}
    BY <1>1, <2>1, <2>2, OnNodeAnswers, JudgedNames DEF NamesOf
  <2> QED BY <1>1, <2>3, <2>4 DEF AnsweredBy, Broken, Fine
<1>2. CASE kind = "mcp"
  <2>1. obj \in PoolStatus
    BY <1>2, StatusAssumption DEF TypeOK, Statuses, ProbedKinds
  <2>2. m = PoolConditions(marked, Resource, obj, nodes, d, "mcp-degraded")
    BY <1>2 DEF Judged, OnMCPUpdate
  <2>3. ASSUME obj.degraded PROVE <<"mcp-degraded", Resource>> \in m
    <3>1. CASE PoolStops(obj, nodes)
      <4>1. <<"mcp-degraded", Resource>> \in marked
        BY <1>2, <2>3, <3>1 DEF PoolStops, Answered, Broken, TroubleName
      <4> QED BY <2>2, <2>3, <3>1, <4>1 DEF PoolConditions, Updating, Verdict, Faulty, Recovered, PoolStops
    <3>2. CASE ~ PoolStops(obj, nodes)
      BY <2>2, <2>3, <3>2 DEF PoolConditions, Updating, Verdict, Faulty, Recovered
    <3> QED BY <3>1, <3>2
  <2>4. ASSUME ~ obj.updating, ~ obj.degraded PROVE m = {}
    <3>1. <<"mcp", Resource>> \notin m /\ <<"mcp-degraded", Resource>> \notin m
      BY <2>2, <2>4 DEF PoolConditions, Updating, PoolStops, Verdict, Recovered
    <3> QED BY <1>2, <3>1, JudgedNames DEF NamesOf
  <2> QED BY <1>2, <2>3, <2>4 DEF AnsweredBy, Broken, Fine, TroubleName
<1>3. CASE kind = "policy"
  <2>1. m = OnPolicyUpdate(marked, obj)
    BY <1>3 DEF Judged
  <2>2. obj.is = "violating" => <<"own", Resource>> \in m
    BY <2>1 DEF OnPolicyUpdate, OnPolicy, Verdict, Faulty
  <2>3. obj.is = "compliant" => <<"own", Resource>> \notin m
    BY <2>1 DEF OnPolicyUpdate, OnPolicy, Verdict, Recovered
  <2> QED BY <1>3, <2>2, <2>3, JudgedNames DEF AnsweredBy, Broken, Fine, TroubleName, NamesOf
<1>4. CASE kind \notin {"node", "mcp", "policy"}
  <2>1. m = OnListedUpdate(marked, obj) \/ m = OnTunedProfileUpdate(marked, obj)
    BY <1>4 DEF Judged
  <2>2. obj.is = "failing" => <<"own", Resource>> \in m
    BY <2>1 DEF OnListedUpdate, OnTunedProfileUpdate, Verdict, Faulty
  <2>3. obj.is = "well" => <<"own", Resource>> \notin m
    BY <2>1 DEF OnListedUpdate, OnTunedProfileUpdate, Verdict, Recovered
  <2> QED BY <1>4, <2>2, <2>3, JudgedNames DEF AnsweredBy, Broken, Fine, TroubleName, NamesOf
<1> QED BY <1>1, <1>2, <1>3, <1>4

(* A probe gives the right markers.                                        *)
LEMMA ProbeAnswers == ASSUME TypeOK, KindMarkers, obj # Gone, Probe PROVE AnsweredBy(marked')
<1>1. kind \notin {"node", "mcp", "policy"} /\ obj \in Single({"well", "failing", "none"})
  BY DEF Probe, ProbedKinds, TypeOK, Statuses
<1>2. marked \subseteq {<<"own", Resource>>}
  BY <1>1 DEF KindMarkers, NamesOf
<1>3. obj.is \in {"well", "failing"} => marked' = Verdict(marked, "own", Resource, obj.is = "failing")
  <2>1. obj.is \in {"well", "failing"} => obj \in Single({"well", "failing"})
    BY <1>1 DEF Single
  <2>2. obj \in Single({"well", "failing"}) => Probed(marked) = {Verdict(marked, "own", Resource, obj.is = "failing")}
    BY DEF Probed, Single, None
  <2> QED BY <2>1, <2>2 DEF Probe
<1>4. /\ obj.is = "failing" => <<"own", Resource>> \in marked'
      /\ obj.is = "well" => marked' = {}
  BY <1>2, <1>3 DEF Verdict, Faulty, Recovered
<1> QED BY <1>1, <1>4 DEF AnsweredBy, Broken, Fine, TroubleName

(* Markers that answer the resource, and a resource that does not change.  *)
LEMMA AnsweredNext == ASSUME kind' = kind, obj' = obj, AnsweredBy(marked') PROVE Answered'
  BY DEF Answered, AnsweredBy, Broken, Fine, TroubleName

(* What is told of a resource that does not change is what is so.          *)
LEMMA TellCurrent ==
  ASSUME TypeOK, Current, NEW note \in {Nothing, Update(obj)}, Tell(note)
  PROVE  inbox' \in Seq({Update(obj)})
<1>1. inbox \in Seq({Update(obj)})
  BY DEF Current
<1>2. CASE inbox' = inbox
  BY <1>1, <1>2
<1>3. CASE note # Nothing /\ inbox' = Append(inbox, note)
  BY <1>1, <1>3, AppendProperties
<1> QED BY <1>2, <1>3 DEF Tell

(* All that is known stays true while the resource does not change and the *)
(* process lives.                                                          *)
LEMMA CurrentStays == ASSUME TypeOK, Current, obj' = obj, ~ Die, [Next]_vars PROVE Current'
<1> DEFINE known == {Nothing, Update(obj)}
<1>1. obj # Gone /\ inbox \in Seq({Update(obj)}) /\ hand \in [Generations -> known]
  BY DEF Current
<1>2. ASSUME inbox' \in Seq({Update(obj)}), hand' \in [Generations -> known] PROVE Current'
  BY <1>1, <1>2 DEF Current, Update
<1>3. inbox # <<>> => Head(inbox) = Update(obj) /\ Tail(inbox) \in Seq({Update(obj)})
  BY <1>1, HeadTailProperties
<1>4. ~ Panic
  BY DEF Panic
<1>5. ASSUME UNCHANGED <<inbox, hand>> PROVE Current'
  BY <1>1, <1>2, <1>5
<1>6. ASSUME Seen(obj), UNCHANGED hand PROVE Current'
  <2>1. CASE watching
    BY <1>1, <1>2, <1>6, <2>1, TellCurrent DEF Seen
  <2>2. CASE ~ watching
    BY <1>5, <1>6, <2>2 DEF Seen
  <2> QED BY <2>1, <2>2
<1>7. CASE Retell
  BY <1>4, <1>6, <1>7 DEF Retell
<1>8. CASE Relist
  <2>1. Tell(IF store = "absent" \/ ~ missed THEN Nothing ELSE Update(obj)) /\ UNCHANGED hand
    BY <1>1, <1>8 DEF Relist
  <2> QED BY <1>1, <1>2, <1>4, <2>1, TellCurrent
<1>9. CASE Take
  BY <1>1, <1>2, <1>3, <1>4, <1>9 DEF Take
<1>10. CASE Rebuild
  <2>1. <<>> \in Seq({Update(obj)})
    BY EmptySeq
  <2>2. hand' \in [Generations -> known]
    BY <1>1, <1>10 DEF Rebuild, Generations
  <2> QED BY <1>2, <1>4, <1>10, <2>1, <2>2 DEF Rebuild
<1>11. ASSUME NEW g \in Generations, Judge(g) PROVE Current'
  BY <1>1, <1>2, <1>11 DEF Judge
<1>12. ~ Age /\ \A s : ~ Move(s)
  BY DEF Age, Move, Violating, Old
<1>13. CASE NodesMove \/ List \/ WatchBreaks \/ Probe \/ Start \/ UNCHANGED vars
  BY <1>4, <1>5, <1>13 DEF NodesMove, List, WatchBreaks, Probe, Start, vars
<1> QED BY <1>4, <1>7, <1>8, <1>9, <1>10, <1>11, <1>12, <1>13 DEF Next

(* One look at the current status, or one probe, while the nodes are calm, *)
(* gets the markers right, whatever markers of its kind there were.        *)
THEOREM LookSettlesHolds == Spec => LookSettles
<1>1. TypeOK /\ KindMarkers /\ [Next]_vars =>
        [Current /\ nodes = "calm" /\ (Probe \/ \E g \in Generations : Judge(g)) => Settled']_vars
  <2> SUFFICES ASSUME TypeOK, KindMarkers, [Next]_vars, Current, nodes = "calm",
                      Probe \/ \E g \in Generations : Judge(g)
               PROVE  Settled'
    BY DEF vars
  <2>1. kind' = kind /\ obj' = obj /\ obj # Gone /\ ~ Die
    BY DEF Probe, Judge, Die, cluster, Current
  <2>2. CASE Probe
    BY <2>1, <2>2, ProbeAnswers, CurrentStays, AnsweredNext DEF Settled
  <2>3. ASSUME NEW g \in Generations, Judge(g) PROVE Settled'
    <3>1. hand[g].status = obj
      BY <2>3 DEF Judge, Current, Update
    <3>2. AnsweredBy(marked')
      BY <2>1, <2>3, <3>1, JudgedAnswers DEF Judge
    <3> QED BY <2>1, <3>2, CurrentStays, AnsweredNext DEF Settled
  <2> QED BY <2>2, <2>3
<1> QED BY <1>1, Typing, KindMarkersHold, PTL DEF Spec, LookSettles

(* From then on the markers stay right until the resource changes or the   *)
(* process dies: not a rebuild, a lost watch, a dropped notification or a  *)
(* look in the middle of a pool update spoils them.                        *)
THEOREM SettledStaysHolds == Spec => SettledStays
<1>1. TypeOK /\ KindMarkers /\ [Next]_vars => [Settled /\ obj' = obj /\ up' => Settled']_vars
  <2> SUFFICES ASSUME TypeOK, KindMarkers, [Next]_vars, Settled, obj' = obj, up' PROVE Settled'
    BY DEF vars
  <2>1. Current' /\ ~ Die /\ ~ Panic /\ obj # Gone /\ Answered
    BY CurrentStays DEF Settled, Current, Die, Panic
  <2>2. ASSUME kind' = kind, marked' = marked PROVE Settled'
    BY <2>1, <2>2, AnsweredNext DEF Settled, Answered, AnsweredBy
  <2>3. CASE Probe
    BY <2>1, <2>3, ProbeAnswers, AnsweredNext DEF Settled, Probe, cluster
  <2>4. ASSUME NEW g \in Generations, Judge(g) PROVE Settled'
    <3>1. hand[g].status = obj
      BY <2>4 DEF Judge, Settled, Current, Update
    <3>2. AnsweredBy(marked')
      BY <2>1, <2>4, <3>1, JudgedAnswers DEF Judge
    <3> QED BY <2>1, <2>4, <3>2, AnsweredNext DEF Settled, Judge, cluster
  <2>5. CASE \E s \in Statuses(kind) \cup {Gone} : Move(s)
    BY <2>2, <2>5 DEF Move
  <2>6. CASE Retell \/ Age \/ NodesMove
    BY <2>2, <2>6 DEF Retell, Age, NodesMove, cluster
  <2>7. CASE List \/ WatchBreaks \/ Relist \/ Take \/ Rebuild \/ Start
    BY <2>2, <2>7 DEF List, WatchBreaks, Relist, Take, Rebuild, Start, cluster
  <2>8. CASE UNCHANGED vars
    BY <2>2, <2>8 DEF vars, cluster
  <2> QED BY <2>1, <2>3, <2>4, <2>5, <2>6, <2>7, <2>8 DEF Next
<1> QED BY <1>1, Typing, KindMarkersHold, PTL DEF Spec, SettledStays

(* An announced update stays announced until the pool says it is over or   *)
(* the process dies: neither calm nodes, nor blind ones, nor a rebuild     *)
(* takes it back.                                                          *)
THEOREM AnnouncedStaysHolds == Spec => AnnouncedStays
<1>1. TypeOK /\ [Next]_vars => [Announced /\ obj' = obj /\ up' => Announced']_vars
  <2> SUFFICES ASSUME TypeOK, [Next]_vars, Announced, obj' = obj, up' PROVE Announced'
    BY DEF vars
  <2>0. ~ Die /\ ~ Panic
    BY DEF Die, Panic
  <2>1. Current /\ Current' /\ ~ Die /\ ~ Panic /\ kind = "mcp" /\ obj.updating /\ <<"mcp", Resource>> \in marked
    BY <2>0, CurrentStays DEF Announced
  <2>2. ASSUME kind' = kind, <<"mcp", Resource>> \in marked' PROVE Announced'
    BY <2>1, <2>2 DEF Announced
  <2>3. CASE Probe
    BY <2>1, <2>3 DEF Probe, ProbedKinds
  <2>4. ASSUME NEW g \in Generations, Judge(g) PROVE Announced'
    <3>1. hand[g].status = obj /\ obj # Gone
      BY <2>1, <2>4 DEF Judge, Current, Update
    <3>2. PICK d \in BOOLEAN : marked' = PoolConditions(marked, Resource, obj, nodes, d, "mcp-degraded")
      BY <2>1, <2>4, <3>1 DEF Judge, Judged, OnMCPUpdate
    <3>3. <<"mcp", Resource>> \in marked'
      BY <2>1, <3>2 DEF PoolConditions, Updating, Verdict, Faulty, Recovered
    <3> QED BY <2>2, <2>4, <3>3 DEF Judge, cluster
  <2>5. CASE \E s \in Statuses(kind) \cup {Gone} : Move(s)
    BY <2>1, <2>2, <2>5 DEF Move
  <2>6. CASE Retell \/ Age \/ NodesMove
    BY <2>1, <2>2, <2>6 DEF Retell, Age, NodesMove, cluster
  <2>7. CASE List \/ WatchBreaks \/ Relist \/ Take \/ Rebuild \/ Start
    BY <2>1, <2>2, <2>7 DEF List, WatchBreaks, Relist, Take, Rebuild, Start, cluster
  <2>8. CASE UNCHANGED vars
    BY <2>1, <2>2, <2>8 DEF vars, cluster
  <2> QED BY <2>1, <2>3, <2>4, <2>5, <2>6, <2>7, <2>8 DEF Next
<1> QED BY <1>1, Typing, PTL DEF Spec, AnnouncedStays

----------------------------------------------------------------------------
(* No false alarms *)

(* Statuses that no check should alert on, and notes of them.              *)
Untroubled(s) == CASE kind = "node"   -> ~ NodeTrouble(s)
                   [] kind = "mcp"    -> ~ s.degraded /\ ~ s.updating
                   [] kind = "policy" -> s.is # "violating"
                   [] OTHER           -> s.is # "failing"
HarmlessNotes == {Update(s) : s \in {t \in Statuses(kind) : Untroubled(t)}} \cup {Deletion, Tombstone}

(* Nothing is marked, and nothing is known that could lead to a marker.    *)
Innocence == /\ marked = {}
             /\ inbox \in Seq(HarmlessNotes)
             /\ hand \in [Generations -> HarmlessNotes \cup {Nothing}]

(* No verdict on a harmless status makes a marker.                         *)
LEMMA HarmlessVerdict ==
  ASSUME NEW s, s = Gone \/ (s \in Statuses(kind) /\ Untroubled(s)), NEW d \in BOOLEAN, kind \in WatchedKinds
  PROVE  Judged({}, s, d) = {}
<1>1. CASE s = Gone
  BY <1>1 DEF Judged, OnPolicyDelete
<1>2. CASE s # Gone /\ kind = "node"
  <2>1. s \in NodeStatus /\ ~ NodeTrouble(s)
    BY <1>2, StatusAssumption DEF Statuses, ProbedKinds, Untroubled
  <2> QED BY <1>2, <2>1 DEF Judged, OnNode, InUpdate, Issue, NodeTrouble, Verdict, Recovered, NodeStatus
<1>3. CASE s # Gone /\ kind = "mcp"
  <2>1. ~ s.degraded /\ ~ s.updating
    BY <1>3 DEF Untroubled
  <2> QED BY <1>3, <2>1 DEF Judged, OnMCPUpdate, PoolConditions, PoolStops, Updating, Verdict, Recovered
<1>4. CASE s # Gone /\ kind = "policy"
  <2>1. s.is # "violating"
    BY <1>4 DEF Untroubled
  <2> QED BY <1>4, <2>1 DEF Judged, OnPolicyUpdate, OnPolicy, Verdict, Recovered
<1>5. CASE s # Gone /\ kind \notin {"node", "mcp", "policy"}
  <2>1. s.is # "failing"
    BY <1>1, <1>5 DEF Untroubled
  <2> QED BY <1>5, <2>1 DEF Judged, OnListedUpdate, OnTunedProfileUpdate, Verdict, Recovered
<1> QED BY <1>1, <1>2, <1>3, <1>4, <1>5

(* Without trouble, the status is harmless.                                *)
LEMMA UntroubledStatus == ASSUME TypeOK, ~ Troubled, obj # Gone PROVE Update(obj) \in HarmlessNotes
<1>1. obj \in Statuses(kind)
  BY DEF TypeOK
<1>2. Untroubled(obj)
  BY DEF Troubled, Broken, Untroubled
<1> QED BY <1>1, <1>2 DEF HarmlessNotes

(* Telling of something harmless does no harm.                             *)
LEMMA TellHarmless ==
  ASSUME Innocence, NEW note \in HarmlessNotes \cup {Nothing}, Tell(note)
  PROVE  inbox' \in Seq(HarmlessNotes)
<1>1. inbox \in Seq(HarmlessNotes)
  BY DEF Innocence
<1>2. CASE inbox' = inbox
  BY <1>1, <1>2
<1>3. CASE note # Nothing /\ inbox' = Append(inbox, note)
  BY <1>1, <1>3, AppendProperties
<1> QED BY <1>2, <1>3 DEF Tell

(* Innocence is lost only to trouble.                                      *)
LEMMA InnocenceStays ==
  ASSUME TypeOK, TypeOK', Innocence, ~ Troubled, ~ Troubled', [Next]_vars
  PROVE  Innocence'
<1>1. marked = {} /\ inbox \in Seq(HarmlessNotes) /\ hand \in [Generations -> HarmlessNotes \cup {Nothing}]
  BY DEF Innocence
<1>2. ASSUME kind' = kind, marked' = {}, inbox' \in Seq(HarmlessNotes),
             hand' \in [Generations -> HarmlessNotes \cup {Nothing}]
      PROVE  Innocence'
  BY <1>2 DEF Innocence, HarmlessNotes, Untroubled
<1>3. inbox # <<>> => Head(inbox) \in HarmlessNotes /\ Tail(inbox) \in Seq(HarmlessNotes)
  BY <1>1, HeadTailProperties
<1>4. <<>> \in Seq(HarmlessNotes)
  BY EmptySeq
<1>5. Deletion \in HarmlessNotes /\ Tombstone \in HarmlessNotes
  BY DEF HarmlessNotes
<1>6. ASSUME NEW s, s = Gone \/ Update(s) \in HarmlessNotes, Seen(s), UNCHANGED <<kind, hand, marked>>
      PROVE  Innocence'
  <2>1. CASE watching
    <3>1. Tell(IF store = "absent" THEN Nothing ELSE IF s = Gone THEN Deletion ELSE Update(s))
      BY <1>6, <2>1 DEF Seen
    <3> QED BY <1>1, <1>2, <1>5, <1>6, <3>1, TellHarmless
  <2>2. CASE ~ watching
    BY <1>1, <1>2, <1>6, <2>2 DEF Seen
  <2> QED BY <2>1, <2>2
<1>7. ASSUME NEW s \in Statuses(kind) \cup {Gone}, Move(s) PROVE Innocence'
  <2>1. obj' = s /\ UNCHANGED <<kind, hand, marked>> /\ Seen(s)
    BY <1>7 DEF Move
  <2>2. s # Gone => Untroubled(s) /\ s \in Statuses(kind)
    BY <2>1 DEF Troubled, Broken, Untroubled
  <2>3. s # Gone => Update(s) \in HarmlessNotes
    BY <2>2 DEF HarmlessNotes
  <2> QED BY <1>6, <2>1, <2>3
<1>8. CASE Retell
  BY <1>6, <1>8, UntroubledStatus DEF Retell, cluster
<1>9. ~ Age
  BY DEF Age, Violating, Gone, Troubled, Broken
<1>10. CASE Relist
  <2>1. Tell(IF store = "absent" \/ ~ missed THEN Nothing ELSE IF obj = Gone THEN Tombstone ELSE Update(obj))
    BY <1>10 DEF Relist
  <2>2. UNCHANGED <<kind, hand, marked>>
    BY <1>10 DEF Relist, cluster
  <2> QED BY <1>1, <1>2, <1>5, <2>1, <2>2, UntroubledStatus, TellHarmless
<1>11. CASE Take
  BY <1>1, <1>2, <1>3, <1>11 DEF Take, cluster
<1>12. CASE Die \/ Rebuild
  <2>1. hand' \in [Generations -> HarmlessNotes \cup {Nothing}]
    BY <1>1, <1>12 DEF Die, Rebuild, Generations
  <2> QED BY <1>1, <1>2, <1>4, <1>12, <2>1 DEF Die, Rebuild, cluster
<1>13. ASSUME NEW g \in Generations, Judge(g) PROVE Innocence'
  <2>1. hand[g] \in HarmlessNotes
    BY <1>1, <1>13 DEF Judge
  <2>2. hand[g].status = Gone \/ (hand[g].status \in Statuses(kind) /\ Untroubled(hand[g].status))
    BY <2>1 DEF HarmlessNotes, Update, Deletion, Tombstone
  <2>3. marked' = {}
    BY <1>1, <1>13, <2>2, HarmlessVerdict DEF Judge, TypeOK
  <2> QED BY <1>1, <1>2, <1>13, <2>3 DEF Judge, cluster
<1>14. CASE Probe
  <2>1. obj \in Single({"well", "failing"}) => obj # Gone /\ obj.is # "failing"
    BY <1>14 DEF Probe, ProbedKinds, Single, Gone, Troubled, Broken
  <2>2. ~ (kind = "lif" /\ obj = None)
    BY DEF Troubled
  <2>3. marked' = {}
    BY <1>1, <1>14, <2>1, <2>2 DEF Probe, Probed, Verdict, Recovered
  <2> QED BY <1>1, <1>2, <1>14, <2>3 DEF Probe, cluster
<1>15. CASE NodesMove \/ List \/ WatchBreaks \/ Start \/ UNCHANGED vars
  BY <1>1, <1>2, <1>15 DEF NodesMove, List, WatchBreaks, Start, vars, cluster
<1> QED BY <1>7, <1>8, <1>9, <1>10, <1>11, <1>12, <1>13, <1>14, <1>15 DEF Next, Panic

(* A resource that is never in trouble, nor without the address it is to   *)
(* be probed at, never gets a marker, whatever the                         *)
(* nodes do meanwhile and however its news are lost, repeated or late.     *)
THEOREM NoFalseAlarmHolds == Spec => NoFalseAlarm
<1>1. Init => Innocence
  BY EmptySeq DEF Init, Innocence
<1>2. TypeOK /\ TypeOK' /\ Innocence /\ ~ Troubled /\ ~ Troubled' /\ [Next]_vars => Innocence'
  BY InnocenceStays
<1>3. Innocence => marked = {}
  BY DEF Innocence
<1> QED BY <1>1, <1>2, <1>3, Typing, PTL DEF Spec, NoFalseAlarm
=============================================================================
