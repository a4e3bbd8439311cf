------------------------------ MODULE SpokeChecks ------------------------------
(***************************************************************************)
(* How a spoke learns of one resource, of any kind but pods, and what its  *)
(* handlers make of it.  An informer lists, watches, loses its watch and   *)
(* lists again; its handler takes one notification at a time, looks its    *)
(* gates up, and then judges.  The reconciler replaces the informer every  *)
(* few minutes; the closed one may still finish the notification it has in *)
(* hand, while those it had queued are lost.  Two kinds are not watched:   *)
(* the reconciler probes them whenever it has replaced the informers.  The *)
(* process may die any time, and its markers with it.                      *)
(***************************************************************************)
EXTENDS Checks, Naturals, Sequences

CONSTANTS Resource,        \* the resource
          WatchedKinds,    \* the kinds it may be of
          NodeStatuses,    \* statuses of nodes and of pools to consider
          PoolStatuses,
          MaxInbox         \* bound on the notifications that wait

ProbedKinds == {"lif", "evnfm"}
SpokeKinds  == {"node", "mcp", "policy", "co", "nncp", "catalog", "csv", "tuned", "trident"} \cup ProbedKinds

ASSUME KindsAssumption  == WatchedKinds \subseteq SpokeKinds
ASSUME StatusAssumption == NodeStatuses \subseteq NodeStatus /\ PoolStatuses \subseteq PoolStatus
ASSUME InboxAssumption  == MaxInbox \in Nat

(* A tuned profile is masked when a condition that is fine follows one     *)
(* that is not; a catalog source has no connection state, and a probed     *)
(* resource no address, when it is none.                                   *)
Single(names)  == [is : names]
Statuses(k) ==
  CASE k = "node"   -> NodeStatuses
    [] k = "mcp"    -> PoolStatuses
    [] k = "policy" -> Single(PolicyStatus \cup {"terminating"})
    [] k = "tuned"  -> Single({"well", "failing", "masked", "terminating"})
    [] k = "catalog"     -> Single({"well", "failing", "none", "terminating"})
    [] k \in ProbedKinds -> Single({"well", "failing", "none"})
    [] OTHER        -> Single({"well", "failing", "terminating"})

Gone == [is |-> "gone"]
None == [is |-> "none"]

(* Notifications: additions are handled by nobody, deletions only for      *)
(* policies; one that the watch missed and a list revealed is a tombstone. *)
AnyStatus == UNION {Statuses(k) : k \in SpokeKinds}
Update(s) == [event |-> "update", status |-> s]
Deletion  == [event |-> "deletion", status |-> Gone]
Tombstone == [event |-> "tombstone", status |-> Gone]
Nothing   == [event |-> "none", status |-> Gone]
Notes     == {Update(s) : s \in AnyStatus} \cup {Deletion, Tombstone}

Generations == {"open", "closed"}

VARIABLES
  kind,      \* the kind of the resource, which never changes
  obj,       \* its status in the API server, or Gone
  nodes,     \* what a look at the nodes finds, as in Checks; or that one is lost
  store,     \* the informer: has listed nothing yet, or has the resource or not
  watching,  \* its watch is up
  missed,    \* something happened while it was not
  inbox,     \* notifications that wait for the handler
  hand,      \* the notification in hand, of the open and of a closed informer
  marked,    \* the markers
  up         \* the process runs

cluster  == <<kind, obj, nodes>>
informer == <<store, watching, missed>>
vars     == <<cluster, informer, inbox, hand, marked, up>>

TypeOK ==
  /\ kind \in WatchedKinds
  /\ obj \in Statuses(kind) \cup {Gone}
  /\ nodes \in Nodes \cup {"lost"}
  /\ store \in {"unlisted", "absent", "present"}
  /\ watching \in BOOLEAN /\ missed \in BOOLEAN
  /\ up \in BOOLEAN /\ (store # "unlisted" => up)
  /\ watching \/ missed => store # "unlisted"
  /\ watching => ~ missed
  /\ watching /\ obj # Gone => store = "present"
  /\ inbox \in Seq(Notes) /\ Len(inbox) <= MaxInbox
  /\ hand \in [Generations -> Notes \cup {Nothing}]
  /\ \A g \in Generations : hand[g] # Tombstone
  /\ marked \subseteq (MarkerNames \X {Resource})

Init ==
  /\ kind \in WatchedKinds
  /\ obj \in Statuses(kind) \cup {Gone}
  /\ nodes = "calm"
  /\ store = "unlisted" /\ watching = FALSE /\ missed = FALSE
  /\ inbox = <<>> /\ hand = [g \in Generations |-> Nothing]
  /\ marked = {} /\ up = TRUE

----------------------------------------------------------------------------
(* The cluster and the informer's view of it *)

Tell(note) == IF note = Nothing \/ (note # Update(note.status) /\ kind # "policy")
              THEN UNCHANGED inbox
              ELSE Len(inbox) < MaxInbox /\ inbox' = Append(inbox, note)

(* What the watch makes of a new status s of the resource.                 *)
Seen(s) ==
  IF watching
  THEN /\ store' = IF s = Gone THEN "absent" ELSE "present"
       /\ Tell(IF store = "absent" THEN Nothing ELSE IF s = Gone THEN Deletion ELSE Update(s))
       /\ UNCHANGED <<watching, missed>>
  ELSE missed' = (store # "unlisted") /\ UNCHANGED <<store, watching, inbox>>

Move(s) ==
  /\ s # obj /\ obj' = s
  /\ Seen(s)
  /\ UNCHANGED <<kind, nodes, hand, marked, up>>

(* A heartbeat, a timestamp, another field: the status is told once more.  *)
Retell ==
  /\ obj # Gone
  /\ Seen(obj)
  /\ UNCHANGED <<cluster, hand, marked, up>>

(* Six hours pass, and nobody is told.                                     *)
Violating  == [is |-> "violating"]
Old        == [is |-> "old"]
Aged(note) == IF note = Update(Violating) THEN Update(Old) ELSE note

Age ==
  /\ kind = "policy" /\ obj = Violating /\ obj' = Old
  /\ inbox' = [n \in DOMAIN inbox |-> Aged(inbox[n])]
  /\ hand'  = [g \in Generations |-> Aged(hand[g])]
  /\ UNCHANGED <<kind, nodes, informer, marked, up>>

(* Nodes matter to the handlers that look at them, and to no other.        *)
NodesMove ==
  /\ kind \in {"mcp", "co", "nncp", "catalog", "csv"}
  /\ nodes' \in (Nodes \cup {"lost"}) \ {nodes}
  /\ UNCHANGED <<kind, obj, informer, inbox, hand, marked, up>>

List ==
  /\ up /\ store = "unlisted" /\ kind \notin ProbedKinds
  /\ store' = IF obj = Gone THEN "absent" ELSE "present"
  /\ watching' = TRUE
  /\ UNCHANGED <<cluster, missed, inbox, hand, marked, up>>

WatchBreaks ==
  /\ watching /\ watching' = FALSE
  /\ UNCHANGED <<cluster, store, missed, inbox, hand, marked, up>>

Relist ==
  /\ store # "unlisted" /\ ~ watching /\ watching' = TRUE /\ missed' = FALSE
  /\ store' = IF obj = Gone THEN "absent" ELSE "present"
  /\ Tell(IF store = "absent" \/ ~ missed THEN Nothing ELSE IF obj = Gone THEN Tombstone ELSE Update(obj))
  /\ UNCHANGED <<cluster, hand, marked, up>>

----------------------------------------------------------------------------
(* The handlers *)

CheckMCPINProgress == nodes \in {"rolling", "blind"}
AllNodeReadiness   == nodes \in {"affected", "lost", "blind"}

(* CSVs also ask for child policies, which they never find (PodAlerts).    *)
GatesOpen ==
  /\ kind \in {"co", "nncp", "catalog", "csv"} => ~ CheckMCPINProgress
  /\ kind = "co" => ~ AllNodeReadiness

(* Mutant: a pool that recovers resolves another pool marker.              *)
OnMCPUpdate_WrongFile(m, s, degradedFirst) ==
  LET d == IF s.degraded THEN Faulty(m, "mcp-degraded", Resource) ELSE Recovered(m, "mcp", Resource)
  IN IF degradedFirst \/ ~ PoolStops(s, nodes) THEN Updating(d, Resource, s, nodes)
     ELSE Updating(m, Resource, s, nodes)

(* The handlers of a spoke never look at a pause.                          *)
OnMCPUpdate(m, s, degradedFirst) ==
  PoolConditions(m, Resource, s, nodes, degradedFirst, "mcp-degraded")

OnPolicyUpdate(m, s) == IF s.is = "terminating" THEN m ELSE OnPolicy(m, Resource, s.is)

OnPolicyDelete(m) == m \ {<<"child", Resource>>, <<"noncomplaint", Resource>>}

(* Operators, NNCPs, catalog sources, CSVs and Trident backends.           *)
OnListedUpdate(m, s) ==
  IF s.is = "terminating" THEN m ELSE Verdict(m, "own", Resource, s.is = "failing")

(* The conditions share a marker, and the last one has the last word.      *)
OnTunedProfileUpdate(m, s) ==
  IF s.is = "terminating" THEN m ELSE Verdict(m, "own", Resource, s.is = "failing")

Judged(m, s, degradedFirst) ==
  CASE s = Gone                          -> OnPolicyDelete(m)
    [] s # Gone /\ kind = "node"         -> OnNode(m, Resource, s)
    [] s # Gone /\ kind = "mcp"          -> OnMCPUpdate(m, s, degradedFirst)
    [] s # Gone /\ kind = "policy"       -> OnPolicyUpdate(m, s)
    [] s # Gone /\ kind = "tuned"        -> OnTunedProfileUpdate(m, s)
    [] OTHER                             -> OnListedUpdate(m, s)

(* What is told behind a closed gate is dropped.                           *)
Take ==
  /\ hand["open"] = Nothing /\ inbox # <<>> /\ Head(inbox) # Tombstone
  /\ inbox' = Tail(inbox)
  /\ hand' = IF GatesOpen THEN [hand EXCEPT !["open"] = Head(inbox)] ELSE hand
  /\ UNCHANGED <<cluster, informer, marked, up>>

(* A tombstone is no unstructured object, and a connection state that a    *)
(* catalog source does not have is a nil pointer: either way a panic.      *)
Fatal(note) == note = Tombstone \/ (kind = "catalog" /\ note = Update(None))

Judge(g) ==
  /\ hand[g] # Nothing /\ ~ Fatal(hand[g])
  /\ \E degradedFirst \in BOOLEAN : marked' = Judged(marked, hand[g].status, degradedFirst)
  /\ hand' = [hand EXCEPT ![g] = Nothing]
  /\ UNCHANGED <<cluster, informer, inbox, up>>

(* The management LIFs of Trident backends, and EVNFM, answer or do not.   *)
(* A backend without an address is probed at that of the backend before    *)
(* it, or at none, which fails; EVNFM without one is not.                  *)
Probed(m) ==
  CASE obj \in Single({"well", "failing"}) -> {Verdict(m, "own", Resource, obj.is = "failing")}
    [] kind = "lif" /\ obj = None -> {Verdict(m, "own", Resource, bad) : bad \in BOOLEAN}
    [] OTHER -> {m}

Probe ==
  /\ up /\ kind \in ProbedKinds
  /\ marked' \in Probed(marked)
  /\ UNCHANGED <<cluster, informer, inbox, hand, up>>

Unlisted == store' = "unlisted" /\ watching' = FALSE /\ missed' = FALSE

(* The process dies, of a panic in any of its handlers and goroutines, a   *)
(* new image or its node, and its markers with it.                         *)
Die ==
  /\ up /\ up' = FALSE
  /\ Unlisted /\ inbox' = <<>> /\ hand' = [g \in Generations |-> Nothing]
  /\ marked' = {}
  /\ UNCHANGED cluster

Panic ==
  /\ \/ hand["open"] = Nothing /\ inbox # <<>> /\ Head(inbox) = Tombstone
     \/ \E g \in Generations : Fatal(hand[g])
  /\ Die

Start ==
  /\ ~ up /\ up' = TRUE
  /\ UNCHANGED <<cluster, informer, inbox, hand, marked>>

(* Mutant: the new informer takes the old one's watch for its own.         *)
Rebuild_KeepWatch ==
  /\ up /\ hand["closed"] = Nothing
  /\ store' = "unlisted" /\ UNCHANGED <<watching, missed>> /\ inbox' = <<>>
  /\ hand' = [g \in Generations |-> IF g = "closed" THEN hand["open"] ELSE Nothing]
  /\ UNCHANGED <<cluster, marked, up>>

(* Mutant: the rebuild starts over from an empty directory.                *)
Rebuild_CleanSlate ==
  /\ up /\ hand["closed"] = Nothing
  /\ Unlisted /\ inbox' = <<>>
  /\ hand' = [g \in Generations |-> IF g = "closed" THEN hand["open"] ELSE Nothing]
  /\ marked' = {}
  /\ UNCHANGED <<cluster, up>>

(* The bound: a handler is done within the lifetime of the next informer.  *)
Rebuild ==
  /\ up /\ hand["closed"] = Nothing
  /\ Unlisted /\ inbox' = <<>>
  /\ hand' = [g \in Generations |-> IF g = "closed" THEN hand["open"] ELSE Nothing]
  /\ UNCHANGED <<cluster, marked, up>>

Next ==
  \/ \E s \in Statuses(kind) \cup {Gone} : Move(s)
  \/ Retell \/ Age \/ NodesMove
  \/ List \/ WatchBreaks \/ Relist \/ Take \/ Rebuild \/ Probe \/ Panic \/ Die \/ Start
  \/ \E g \in Generations : Judge(g)

Spec == Init /\ [][Next]_vars

(* Informers list, handlers run, probes come with every rebuild, and a     *)
(* process that died is started again.                                     *)
Fairness ==
  /\ WF_vars(List) /\ WF_vars(Relist) /\ WF_vars(Take) /\ WF_vars(Panic)
  /\ WF_vars(Probe) /\ WF_vars(Start)
  /\ \A g \in Generations : WF_vars(Judge(g))

FairSpec == Spec /\ Fairness

----------------------------------------------------------------------------
(* Properties *)

TroubleName ==
  CASE kind = "node" -> IF obj.anno = "failed" THEN "mcp-issue" ELSE IF obj.cordoned THEN "sched" ELSE "ready"
    [] kind = "mcp"  -> "mcp-degraded"
    [] OTHER         -> "own"

Broken ==
  /\ obj # Gone
  /\ CASE kind = "node"   -> NodeTrouble(obj)
       [] kind = "mcp"    -> obj.degraded
       [] kind = "policy" -> obj.is = "violating"
       [] OTHER           -> obj.is = "failing"

Fine ==
  /\ obj # Gone
  /\ CASE kind = "node"   -> NodeWell(obj)
       [] kind = "mcp"    -> ~ obj.updating /\ ~ obj.degraded
       [] kind = "policy" -> obj.is = "compliant"
       [] OTHER           -> obj.is = "well"

(* The status comes to rest, and nodes with their heartbeats, or whatever  *)
(* else changes the resource, have it told again and again, unless it is   *)
(* probed: what is told only once may fall into a gap, or behind a gate.   *)
ComesToRest == <>[][obj' = obj]_vars
ToldAgain   == [] (kind \in ProbedKinds) \/ []<><<Take /\ Head(inbox) = Update(obj)>>_vars

(* Whatever rebuilds, broken watches, dropped notifications and verdicts   *)
(* of closed informers do, a resource that stays broken, while the nodes   *)
(* are calm in the end, has the marker of its trouble for good, unless the *)
(* process dies again and again.                                           *)
BrokenIsAlerted ==
  ComesToRest /\ ToldAgain /\ <>[] (up /\ Broken /\ nodes = "calm") =>
    <>[] (Broken /\ <<TroubleName, Resource>> \in marked)

(* And one that stays fine has no marker in the end, not even from the     *)
(* verdict of a closed informer on what it was before.                     *)
FineIsResolved ==
  ComesToRest /\ ToldAgain /\ <>[] (Fine /\ nodes = "calm") => <>[] (marked = {})

(* A pool update that silences the other checks, and does not end, has     *)
(* been announced, after a restart once more.                              *)
UpdatesForEver == kind = "mcp" /\ obj # Gone /\ obj.updating /\ nodes = "rolling"
SilenceIsAnnounced ==
  ComesToRest /\ ToldAgain /\ <>[] (up /\ UpdatesForEver) => <>[] (<<"mcp", Resource>> \in marked)

(* What is known of the resource, in hand or waiting, is what is so.       *)
Current ==
  /\ obj # Gone
  /\ inbox \in Seq({Update(obj)})
  /\ hand \in [Generations -> {Nothing, Update(obj)}]

Answered == /\ Broken => <<TroubleName, Resource>> \in marked
            /\ Fine => marked = {}

Settled == Current /\ Answered

(* One look at the current status, or one probe, while the nodes are calm, *)
(* is enough to get the markers right, whatever they were before ...       *)
LookSettles ==
  [][Current /\ nodes = "calm" /\ (Probe \/ \E g \in Generations : Judge(g)) => Settled']_vars

(* ... and nothing undoes that but a change of the resource, or the death  *)
(* of the process, which takes all markers along: not a rebuild nor a lost *)
(* watch, and no look in the middle of a pool update.  The safety half of  *)
(* BrokenIsAlerted and FineIsResolved.                                     *)
SettledStays == [][Settled /\ obj' = obj /\ up' => Settled']_vars

(* An update that has been announced stays so until the pool says that it  *)
(* is over or the process dies, whatever its nodes look like in between.   *)
(* The safety half of SilenceIsAnnounced.                                  *)
Announced      == kind = "mcp" /\ Current /\ obj.updating /\ <<"mcp", Resource>> \in marked
AnnouncedStays == [][Announced /\ obj' = obj /\ up' => Announced']_vars

(* A resource that has never been in trouble has never had a marker.  A    *)
(* pool update counts, and so does a backend without an address: the code  *)
(* takes it for one that is unreachable.                                   *)
Troubled     == Broken \/ (kind = "mcp" /\ obj # Gone /\ obj.updating) \/ (kind = "lif" /\ obj = None)
NoFalseAlarm == [](~ Troubled) => [](marked = {})

(* "Root policy %s which was previously non-compliant/disabled is now      *)
(* deleted": a deletion that is handled leaves no marker of the policy.    *)
DeletedPolicyResolved ==
  [][\A g \in Generations : hand[g] = Deletion /\ hand'[g] = Nothing => <<"own", Resource>> \notin marked']_vars
=============================================================================
