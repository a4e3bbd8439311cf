----------------------------- MODULE PodAlerts -----------------------------
(***************************************************************************)
(* From a container's status to its marker: util.PodCheck and the three    *)
(* places that drive it on a spoke cluster, the pod informer's OnPodUpdate *)
(* and OnPodDelete and the hourly CleanUpRunningPods, against what kubelet *)
(* and users do to the pods meanwhile.  A handler looks its gates up, one  *)
(* API call after the other, before it judges the notification in its      *)
(* hand; an informer that is closed meanwhile still judges that one.  Mail *)
(* is on; one SendEmail is one step (AlertMarker takes it apart).          *)
(***************************************************************************)
EXTENDS Naturals, Sequences, Functions

CONSTANTS Pods, Conts,   \* pods; their containers
          PodOf,         \* PodOf[c]: the pod of container c
          InitConts,     \* the init containers among them
          Ignored,       \* pods that spec.ignoredResources lists
          Matches,       \* Matches[p]: containers whose marker's name contains
                         \*   the name and the namespace of p
          Gates,         \* what handlers may find when they look around, and
          Ends,          \*   how containers may end: the instance's share
          MaxInbox       \* bound on the informer's undelivered notifications

ContsOf(p) == {c \in Conts : PodOf[c] = p}

ASSUME PodOfAssumption   == PodOf \in [Conts -> Pods]
ASSUME SetsAssumption    == InitConts \subseteq Conts /\ Ignored \subseteq Pods
ASSUME MatchesAssumption == /\ Matches \in [Pods -> SUBSET Conts]
                            /\ \A p \in Pods : ContsOf(p) \subseteq Matches[p]
ASSUME GatesAssumption   == Gates \subseteq {"open", "pools", "node", "cgu"} /\ "open" \in Gates
ASSUME EndsAssumption    == Ends \subseteq {"exit0", "error"}
ASSUME InboxAssumption   == MaxInbox \in Nat \ {0}

(* A container status: its state, whether restartCount is positive, and    *)
(* the exit of lastState (none when kubelet has no record of it).          *)
Status == [state     : {"creating", "imagepull", "crashloop", "running", "exit0", "error"},
           restarted : BOOLEAN,
           last      : {"none", "zero", "error"}]
New == [state |-> "creating", restarted |-> FALSE, last |-> "none"]

VARIABLES
  phase,    \* pods: alive, terminating or gone
  status,   \* the containers' statuses
  gate,     \* what a handler finds when it looks around: open; pools (one in
            \*   progress, or they cannot be read); node (not ready or cordoned);
            \*   cgu (a CGU is updating the pods' namespaces)
  inbox,    \* the notifications the informer has yet to hand out
  hand,     \* the notification in hand, of the open and of a closed informer
  marked,   \* the containers whose marker exists
  sweep,    \* CleanUpRunningPods: where it stands, and the statuses it listed,
            \*   once it works on the files those of the files left to do
  up        \* the process runs

cluster  == <<phase, status, gate>>
informer == <<inbox, hand>>
vars     == <<cluster, informer, marked, sweep, up>>

Update(p, st)  == [kind |-> "update", pod |-> p, status |-> Restrict(st, ContsOf(p))]
Leaving(p, k)  == [kind |-> k, pod |-> p]
Updates  == UNION {[kind : {"update"}, pod : {p}, status : [ContsOf(p) -> Status]] : p \in Pods}
Leavings == [kind : {"terminating", "delete"}, pod : Pods]
Notices  == Updates \cup Leavings
Nothing == [kind |-> "none"]
Generations == {"open", "closed"}
Sweeps  == [pc : {"idle", "listed", "files"}, list : UNION {[cs -> Status] : cs \in SUBSET Conts}]
NoSweep == [pc |-> "idle", list |-> Restrict(status, {})]

TypeOK ==
  /\ phase \in [Pods -> {"alive", "terminating", "gone"}]
  /\ status \in [Conts -> Status]
  /\ gate \in Gates
  /\ inbox \in Seq(Notices) /\ Len(inbox) <= MaxInbox
  /\ hand \in [Generations -> Notices \cup {Nothing}]
  /\ \A g \in Generations : hand[g].kind # "terminating"
  /\ marked \subseteq Conts /\ sweep \in Sweeps /\ up \in BOOLEAN

Init == /\ phase  = [p \in Pods |-> "alive"]
        /\ status = [c \in Conts |-> New]
        /\ gate = "open"
        /\ inbox = <<>> /\ hand = [g \in Generations |-> Nothing]
        /\ marked = {} /\ sweep = NoSweep /\ up = TRUE

----------------------------------------------------------------------------
(* Pods, as kubelet and users move them *)

(* While the process is down nobody is told.                               *)
Notify(n) == \/ /\ up /\ Len(inbox) < MaxInbox
                /\ inbox' = Append(inbox, n)
             \/ ~ up /\ UNCHANGED inbox

Exited(s) == s.state \in {"exit0", "error"}
Exit(s)   == IF s.state = "error" THEN "error" ELSE "zero"

(* A container's next statuses: pull, start, exit, back off, start again,  *)
(* and the loss of the record of the last exit.                            *)
Moves(s) ==
  {t \in Status :
     \/ /\ s.state = "creating" /\ t = [s EXCEPT !.state = "imagepull"]
     \/ /\ s.state \in {"creating", "imagepull"}
        /\ t = [s EXCEPT !.state = "running", !.restarted = @ \/ s.last # "none"]
     \/ /\ s.state = "running"
        /\ t \in {[s EXCEPT !.state = e] : e \in Ends}
     \/ /\ Exited(s)
        /\ \/ t = [state |-> "running", restarted |-> TRUE, last |-> Exit(s)]
           \/ t \in {[s EXCEPT !.state = w, !.last = Exit(s)] : w \in {"crashloop", "imagepull"}}
     \/ /\ s.state = "crashloop" /\ t = [s EXCEPT !.state = "running", !.restarted = TRUE]
     \/ /\ s.state = "running" /\ s.restarted /\ t = [s EXCEPT !.last = "none"]}

Kubelet(c) ==
  /\ phase[PodOf[c]] = "alive"
  /\ \E t \in Moves(status[c]) : status' = [status EXCEPT ![c] = t]
  /\ Notify(Update(PodOf[c], status'))
  /\ UNCHANGED <<phase, gate, hand, marked, sweep, up>>

Broken(s) == s.state \in {"imagepull", "crashloop", "error"}

(* The pod's status moves, the container's does not: volumes and addresses *)
(* of a new one, back-off and new pulls of a broken one.                   *)
Retry(c) ==
  /\ phase[PodOf[c]] = "alive" /\ (Broken(status[c]) \/ status[c].state = "creating")
  /\ Notify(Update(PodOf[c], status))
  /\ UNCHANGED <<cluster, hand, marked, sweep, up>>

Terminate(p) ==
  /\ phase[p] = "alive"
  /\ phase' = [phase EXCEPT ![p] = "terminating"]
  /\ Notify(Leaving(p, "terminating"))
  /\ UNCHANGED <<status, gate, hand, marked, sweep, up>>

Delete(p) ==
  /\ phase[p] = "terminating"
  /\ phase' = [phase EXCEPT ![p] = "gone"]
  /\ Notify(Leaving(p, "delete"))
  /\ UNCHANGED <<status, gate, hand, marked, sweep, up>>

(* A new pod of the same name.  No handler is registered for additions. *)
Create(p) ==
  /\ phase[p] = "gone"
  /\ phase' = [phase EXCEPT ![p] = "alive"]
  /\ status' = [c \in Conts |-> IF c \in ContsOf(p) THEN New ELSE status[c]]
  /\ UNCHANGED <<gate, informer, marked, sweep, up>>

Cluster ==
  /\ gate' \in Gates \ {gate}
  /\ UNCHANGED <<phase, status, informer, marked, sweep, up>>

----------------------------------------------------------------------------
(* PodCheck *)

(* Mutant: the time is formatted as the parser expects it, and it is past. *)
PodLastRestartTimerUp_Parses(s) == s.last = "error"

(* The time is formatted by Time.String and parsed as RFC 3339: it never   *)
(* parses, so the half hour is never up.                                   *)
PodLastRestartTimerUp(s) == FALSE

Well(s)   == s.state \in {"running", "exit0"}
Stable(s) == s.restarted /\ s.last = "error" /\ PodLastRestartTimerUp(s)

(* Mutant: back to running is recovered, restarts or not. *)
FirstHalf_Eager(s) ==
  CASE s.state = "error" -> "faulty"
    [] Well(s)           -> "recovered"
    [] OTHER             -> "none"

FirstHalf(s) ==
  CASE s.state = "error"                        -> "faulty"
    [] Well(s) /\ (~ s.restarted \/ Stable(s))  -> "recovered"
    [] OTHER                                    -> "none"

(* Mutant: a container that ran before is not expected to pull again.      *)
SecondHalf_NoPull(s, init, pvTrouble) ==
  CASE s.state = "crashloop"  -> IF init /\ ~ pvTrouble THEN "none" ELSE "faulty"
    [] s.state = "imagepull" /\ ~ s.restarted /\ s.last = "none" -> "faulty"
    [] ~ s.restarted /\ s.state = "running" -> "recovered"
    [] OTHER                  -> "none"

(* Mutant: any reason to wait is one to alert. *)
SecondHalf_Waiting(s, init, pvTrouble) ==
  CASE s.state \in {"creating", "imagepull", "crashloop"} -> "faulty"
    [] ~ s.restarted /\ s.state = "running" -> "recovered"
    [] OTHER -> "none"

(* A container in CrashLoopBackOff is looked up among spec.containers for  *)
(* the wording of the alert: an init container is not found there and gets *)
(* none, unless the pod's volumes are in trouble.                          *)
SecondHalf(s, init, pvTrouble) ==
  CASE s.state = "crashloop"  -> IF init /\ ~ pvTrouble THEN "none" ELSE "faulty"
    [] s.state = "imagepull"  -> "faulty"
    [] s.state = "creating"   -> "none"
    [] \/ Stable(s)
       \/ s.restarted /\ s.last # "error" /\ s.state = "exit0"
       \/ ~ s.restarted /\ s.state = "running" -> "recovered"
    [] OTHER                  -> "none"

(* Mutant: the resolution is mailed, the marker stays. *)
SendEmail_KeepFile(m, c, verdict) == IF verdict = "faulty" THEN m \cup {c} ELSE m

SendEmail(m, c, verdict) ==
  CASE verdict = "faulty"    -> m \cup {c}
    [] verdict = "recovered" -> m \ {c}
    [] OTHER                 -> m

PodCheck(m, c, s, pvTrouble) ==
  SendEmail(SendEmail(m, c, FirstHalf(s)), c, SecondHalf(s, c \in InitConts, pvTrouble))

----------------------------------------------------------------------------
(* The pod informer's handlers *)

(* Collects the namespaces that the child policies affect, and returns nil. *)
GetChildPolicyObjectNamespace == {}

IsChildPolicyNamespace(p) == p \in GetChildPolicyObjectNamespace

IgnoredPod(p) == p \in Ignored

(* A pool whose nodes are being updated, or pools that cannot be read:     *)
(* either way the handlers return.                                         *)
CheckMCPINProgress == gate = "pools"

CheckSingleNodeReadiness == gate = "node"

(* Mutant: a pod on its way out is judged as well.                         *)
Passes_Terminating(n) ==
  /\ ~ CheckMCPINProgress
  /\ n.kind # "delete" => /\ ~ IgnoredPod(n.pod)
                          /\ ~ CheckSingleNodeReadiness /\ ~ IsChildPolicyNamespace(n.pod)

(* A pod that terminates is on its way out; a deletion only asks for pools. *)
Passes(n) ==
  /\ ~ CheckMCPINProgress
  /\ n.kind # "delete" => /\ n.kind # "terminating" /\ ~ IgnoredPod(n.pod)
                          /\ ~ CheckSingleNodeReadiness /\ ~ IsChildPolicyNamespace(n.pod)

(* The handler takes the next notification when it is done with the last.  *)
(* What is told behind a closed gate is dropped.                           *)
Take ==
  /\ hand["open"] = Nothing /\ inbox # <<>>
  /\ inbox' = Tail(inbox)
  /\ hand' = [hand EXCEPT !["open"] = IF Passes(Head(inbox)) THEN Head(inbox) ELSE Nothing]
  /\ UNCHANGED <<cluster, marked, sweep, up>>

(* Volumes attached to another node, or whose attachments cannot be read:  *)
(* either answer is possible.                                              *)
PvHasDifferentNode == BOOLEAN

Done(g) == hand' = [hand EXCEPT ![g] = Nothing]

(* The object is the notification's, whatever the pod is by now. *)
OnPodUpdate(g) ==
  /\ hand[g].kind = "update"
  /\ \E pvTrouble \in PvHasDifferentNode :
       marked' = {c \in Conts : IF PodOf[c] = hand[g].pod
                                THEN c \in PodCheck(marked, c, hand[g].status[c], pvTrouble)
                                ELSE c \in marked}
  /\ Done(g)
  /\ UNCHANGED <<cluster, inbox, sweep, up>>

(* Resolves whatever marker's name contains the pod's name and namespace.  *)
OnPodDelete(g) ==
  /\ hand[g].kind = "delete"
  /\ marked' = marked \ Matches[hand[g].pod]
  /\ Done(g)
  /\ UNCHANGED <<cluster, inbox, sweep, up>>

(* Reconcile replaces the informers: what they had not handed out is lost, *)
(* the handler finishes what it has in hand, and the new ones begin with   *)
(* additions.  The bound: a handler is done within the lifetime of the     *)
(* next informer.                                                          *)
Rebuild ==
  /\ up /\ hand["closed"] = Nothing
  /\ inbox' = <<>>
  /\ hand' = [g \in Generations |-> IF g = "closed" THEN hand["open"] ELSE Nothing]
  /\ UNCHANGED <<cluster, marked, sweep, up>>

----------------------------------------------------------------------------
(* CleanUpRunningPods *)

Listed == {c \in Conts \ InitConts : phase[PodOf[c]] # "gone"}

SweepList ==
  /\ up /\ sweep.pc = "idle"
  /\ sweep' = [pc |-> "listed", list |-> Restrict(status, Listed)]
  /\ UNCHANGED <<cluster, informer, marked, up>>

(* The pods were listed, now the files are; each file gets a goroutine,    *)
(* which looks for the container it is named after.                        *)
SweepFiles ==
  /\ sweep.pc = "listed"
  /\ sweep' = [pc |-> "files", list |-> Restrict(sweep.list, marked \cap DOMAIN sweep.list)]
  /\ UNCHANGED <<cluster, informer, marked, up>>

Sweepable(s) == Well(s) /\ (~ s.restarted \/ PodLastRestartTimerUp(s))

(* A restarted container without a record of its last exit is a nil        *)
(* pointer, in a goroutine that nothing recovers.                          *)
Panics(s) == Well(s) /\ s.restarted /\ s.last = "none"

SweepFile(c) ==
  /\ sweep.pc = "files" /\ c \in DOMAIN sweep.list
  /\ ~ Panics(sweep.list[c])
  /\ sweep' = [sweep EXCEPT !.list = Restrict(@, DOMAIN @ \ {c})]
  /\ marked' = IF Sweepable(sweep.list[c]) THEN SendEmail(marked, c, "recovered") ELSE marked
  /\ UNCHANGED <<cluster, informer, up>>

SweepEnd ==
  /\ sweep.pc = "files" /\ DOMAIN sweep.list = {}
  /\ sweep' = NoSweep
  /\ UNCHANGED <<cluster, informer, marked, up>>

(* The process dies: a panic elsewhere, a new image, its node restarts.    *)
(* Markers are files of its container.                                     *)
Die ==
  /\ up /\ up' = FALSE
  /\ inbox' = <<>> /\ hand' = [g \in Generations |-> Nothing]
  /\ marked' = {} /\ sweep' = NoSweep
  /\ UNCHANGED cluster

SweepPanic == sweep.pc = "files" /\ (\E c \in DOMAIN sweep.list : Panics(sweep.list[c])) /\ Die

(* New informers begin with additions. *)
Start ==
  /\ ~ up /\ up' = TRUE
  /\ UNCHANGED <<cluster, informer, marked, sweep>>

Handle(g) == OnPodUpdate(g) \/ OnPodDelete(g)
Sweep     == SweepList \/ SweepFiles \/ SweepEnd \/ SweepPanic \/ \E c \in Conts : SweepFile(c)

Next == \/ \E c \in Conts : Kubelet(c) \/ Retry(c)
        \/ \E p \in Pods : Terminate(p) \/ Delete(p) \/ Create(p)
        \/ Cluster \/ Take \/ Rebuild \/ Sweep \/ Die \/ Start
        \/ \E g \in Generations : Handle(g)

Spec == Init /\ [][Next]_vars

(* Notifications are handed out within milliseconds and informers replaced *)
(* every three minutes: no kind of notification is lost every time, and a  *)
(* handler that has one in hand ends.  A sweep comes every hour and ends;  *)
(* broken containers keep being retried, at times when no notification     *)
(* waits or is in hand.                                                    *)
TakesBroken(c) == Take /\ Head(inbox).kind = "update" /\ c \in ContsOf(Head(inbox).pod) /\ Broken(Head(inbox).status[c])

FairSpec == /\ Spec
            /\ SF_vars(Take) /\ WF_vars(Sweep) /\ WF_vars(Start)
            /\ \A g \in Generations : WF_vars(Handle(g))
            /\ \A c \in Conts : /\ SF_vars(Retry(c) /\ Broken(status[c]) /\ inbox = <<>> /\ hand["open"] = Nothing)
                                /\ SF_vars(TakesBroken(c))

----------------------------------------------------------------------------
(* Properties *)

(* One look at a container never both alerts and resolves.  PodCheck's two *)
(* halves do not exclude each other by their conditions: once the half     *)
(* hour of PodLastRestartTimerUp can be up, they contradict each other on  *)
(* a container that fails again long after its last failure.               *)
OneVerdict ==
  \A c \in Conts : ~ (FirstHalf(status[c]) = "faulty" /\ SecondHalf(status[c], FALSE, FALSE) = "recovered")

Observed(c)    == phase[PodOf[c]] = "alive" /\ gate = "open"
Recovering(s)  == s.state = "running" /\ s.restarted /\ s.last = "error"
AppConts       == {c \in Conts \ InitConts : PodOf[c] \notin Ignored}

(* A container that fails for good, or again and again with short spells   *)
(* of running, ends up with its alert standing once the process stays up:  *)
(* no stale sweep, lost notification, late verdict of a closed informer or *)
(* spell of running resolves it for good.                                  *)
FailureStaysAlerted ==
  \A c \in AppConts :
    /\ <>[](up /\ Observed(c) /\ (Broken(status[c]) \/ Recovering(status[c])))
    /\ []<>Broken(status[c])
    => <>[](c \in marked)

(* All that is known of the container, by its status, by notifications     *)
(* that wait or are in hand and by the list of a cleanup, is that it       *)
(* fails, or did before it was started again.                              *)
Sick(s)        == Broken(s) \/ Recovering(s)
SickNews(n, c) == /\ n.kind = "update" /\ n.pod = PodOf[c] => Sick(n.status[c])
                  /\ n.kind = "delete" => c \notin Matches[n.pod]
KnownSick(c) ==
  /\ Sick(status[c])
  /\ \A i \in DOMAIN inbox : SickNews(inbox[i], c)
  /\ \A g \in Generations : SickNews(hand[g], c)
  /\ c \in DOMAIN sweep.list => Sick(sweep.list[c])

Standing(c) == KnownSick(c) /\ c \in marked

(* Once one look, of an open or a closed informer, has found it broken,    *)
(* its alert stands ...                                                    *)
FoundBroken(c, g) == OnPodUpdate(g) /\ c \in ContsOf(hand[g].pod) /\ Broken(hand[g].status[c])
LookAlerts ==
  [][\A c \in AppConts, g \in Generations : KnownSick(c) /\ FoundBroken(c, g) => Standing(c)']_vars

(* ... until it leaves these states, or a pod whose name its marker's      *)
(* matches is deleted, or the process dies: no other look, sweep, rebuild  *)
(* or gate resolves the alert.  An older verdict that is still in some     *)
(* hand can; KnownSick says that there is none, and that none comes up.    *)
(* The safety half of FailureStaysAlerted.                                 *)
AlertStands ==
  [][\A c \in AppConts :
       /\ Standing(c) /\ Sick(status'[c]) /\ up'
       /\ \A p \in Pods : c \in Matches[p] /\ phase'[p] = "gone" => phase[p] = "gone"
       => Standing(c)']_vars

(* A container that has never been broken has never had a marker.          *)
NoFalseAlarm == \A c \in Conts : [](~ Broken(status[c])) => [](c \notin marked)

(* A container that came up without a restart, such as after a failed      *)
(* image pull, is resolved in the end, even when the notification of it    *)
(* was lost or fell into a closed gate, and whether the process stays up.  *)
FirstStartResolved ==
  \A c \in AppConts :
    <>[](phase[PodOf[c]] = "alive" /\ status[c].state = "running" /\ ~ status[c].restarted) => <>[](c \notin marked)

(* "the pod that was previously running/completed and went into issues     *)
(* (due to image pull for example) and becomes running/completed" is       *)
(* resolved.  The code does not do that for one that runs again.           *)
RunningAgainResolved ==
  \A c \in AppConts :
    <>[](up /\ Observed(c) /\ status[c].state = "running") => <>[](c \notin marked)

(* "no pod update alerts will be sent until CGU is compliant".  The code   *)
(* finds no namespace affected and sends them.                             *)
QuietDuringCGU == [][gate = "cgu" => marked' \subseteq marked]_vars
=============================================================================
