-------------------------- MODULE PodAlerts_proofs --------------------------
(* Theorems about the pod checks, for any number of pods and containers. *)
EXTENDS PodAlerts, SequenceTheorems, TLAPS

Assumptions == PodOfAssumption /\ MatchesAssumption /\ GatesAssumption /\ InboxAssumption

(* The assumptions on the constants, in one name. *)
LEMMA Assumed == Assumptions
  BY PodOfAssumption, MatchesAssumption, GatesAssumption, InboxAssumption DEF Assumptions

(* A new container's status is well formed. *)
LEMMA NewType == New \in Status
  BY DEF New, Status

(* A part of a list of statuses is a list of statuses. *)
LEMMA ListType ==
  ASSUME NEW pc \in {"idle", "listed", "files"}, NEW cs \in SUBSET Conts, NEW st, NEW S \in SUBSET cs,
         \A c \in cs : st[c] \in Status
  PROVE  /\ [pc |-> pc, list |-> Restrict(st, S)] \in Sweeps
         /\ DOMAIN Restrict(st, S) = S
<1> DEFINE part == Restrict(st, S)
<1>1. part \in [S -> Status] /\ DOMAIN part = S
  BY DEF Restrict
<1>2. [S -> Status] \in {[ds -> Status] : ds \in SUBSET Conts}
  <2>1. S \in SUBSET Conts
    OBVIOUS
  <2> QED BY <2>1
<1>3. part \in UNION {[ds -> Status] : ds \in SUBSET Conts}
  BY <1>1, <1>2
<1>4. part = Restrict(st, S)
  OBVIOUS
<1> HIDE DEF part
<1>5. [pc |-> pc, list |-> part] \in Sweeps
  BY <1>3 DEF Sweeps
<1> QED BY <1>1, <1>4, <1>5

(* What a cleanup holds are statuses. *)
LEMMA HeldType ==
  ASSUME TypeOK
  PROVE  DOMAIN sweep.list \in SUBSET Conts /\ \A c \in DOMAIN sweep.list : sweep.list[c] \in Status
  BY DEF TypeOK, Sweeps

(* No cleanup is one that holds nothing. *)
LEMMA NoSweepType == NoSweep \in Sweeps /\ DOMAIN NoSweep.list = {}
<1> DEFINE part == Restrict(status, {})
<1>1. part \in [{} -> Status] /\ DOMAIN part = {}
  BY DEF Restrict
<1>2. part \in UNION {[cs -> Status] : cs \in SUBSET Conts}
  <2>1. {} \in SUBSET Conts
    OBVIOUS
  <2>2. [{} -> Status] \in {[cs -> Status] : cs \in SUBSET Conts}
    BY <2>1
  <2> QED BY <1>1, <2>2
<1>3. NoSweep = [pc |-> "idle", list |-> part]
  BY DEF NoSweep
<1> HIDE DEF part
<1> QED BY <1>1, <1>2, <1>3 DEF Sweeps

(* The cluster and the process start well formed. *)
LEMMA InitTypeOK == Init => TypeOK
<1> SUFFICES ASSUME Init PROVE TypeOK
  OBVIOUS
<1>1. inbox \in Seq(Notices) /\ Len(inbox) <= MaxInbox
  BY Assumed, EmptySeq DEF Init, Assumptions
<1>2. gate \in Gates /\ hand \in [Generations -> Notices \cup {Nothing}]
  BY Assumed DEF Init, Assumptions, GatesAssumption
<1>3. \A g \in Generations : hand[g].kind # "terminating"
  BY DEF Init, Nothing
<1> QED BY <1>1, <1>2, <1>3, NoSweepType, NewType DEF Init, TypeOK

(* What is told of a pod are notices. *)
LEMMA NoticeType ==
  ASSUME NEW p \in Pods
  PROVE  /\ \A st \in [Conts -> Status] : Update(p, st) \in Notices
         /\ Leaving(p, "terminating") \in Notices /\ Leaving(p, "delete") \in Notices
<1>1. ASSUME NEW st \in [Conts -> Status] PROVE Update(p, st) \in Notices
  <2>1. Restrict(st, ContsOf(p)) \in [ContsOf(p) -> Status]
    BY DEF Restrict, ContsOf
  <2>2. Update(p, st) \in [kind : {"update"}, pod : {p}, status : [ContsOf(p) -> Status]]
    BY <2>1 DEF Update
  <2> DEFINE updates(q) == [kind : {"update"}, pod : {q}, status : [ContsOf(q) -> Status]]
  <2>3. Update(p, st) \in updates(p)
    BY <2>2
  <2> HIDE DEF updates
  <2>4. Update(p, st) \in UNION {updates(q) : q \in Pods}
    BY <2>3
  <2> QED BY <2>4 DEF Notices, Updates, updates
<1>2. ASSUME NEW k \in {"terminating", "delete"} PROVE Leaving(p, k) \in Notices
  <2>1. Leaving(p, k) \in [kind : {"terminating", "delete"}, pod : Pods]
    BY DEF Leaving
  <2> QED BY <2>1 DEF Notices, Leavings
<1> QED BY <1>1, <1>2

(* The queue holds notices, within its bound, after one more was told. *)
LEMMA NotifyType ==
  ASSUME TypeOK, NEW n \in Notices, Notify(n)
  PROVE  inbox' \in Seq(Notices) /\ Len(inbox') <= MaxInbox
<1>1. inbox \in Seq(Notices) /\ Len(inbox) <= MaxInbox
  BY DEF TypeOK
<1>2. CASE up /\ Len(inbox) < MaxInbox /\ inbox' = Append(inbox, n)
  <2>1. inbox' \in Seq(Notices) /\ Len(inbox') = Len(inbox) + 1
    BY <1>1, <1>2, AppendProperties
  <2>2. Len(inbox) \in Nat /\ MaxInbox \in Nat
    BY <1>1, Assumed, LenProperties DEF Assumptions, InboxAssumption
  <2> QED BY <1>2, <2>1, <2>2
<1> QED BY <1>1, <1>2 DEF Notify

(* What kubelet, users and the cluster do keeps the types. *)
LEMMA EnvironmentTypeOK ==
  ASSUME TypeOK,
         \/ \E c \in Conts : Kubelet(c) \/ Retry(c)
         \/ \E p \in Pods : Terminate(p) \/ Delete(p) \/ Create(p)
         \/ Cluster
  PROVE  TypeOK'
<1>1. \A c \in Conts : PodOf[c] \in Pods
  BY Assumed DEF Assumptions, PodOfAssumption
<1>2. ASSUME NEW c \in Conts, Kubelet(c) PROVE TypeOK'
  <2>1. status' \in [Conts -> Status]
    <3>1. PICK t \in Status : status' = [status EXCEPT ![c] = t]
      <4>1. Moves(status[c]) \subseteq Status
        BY DEF Moves
      <4> QED BY <1>2, <4>1 DEF Kubelet
    <3> QED BY <3>1 DEF TypeOK
  <2>2. inbox' \in Seq(Notices) /\ Len(inbox') <= MaxInbox
    BY <1>1, <1>2, <2>1, NotifyType, NoticeType DEF Kubelet
  <2> QED BY <1>2, <2>1, <2>2 DEF Kubelet, TypeOK
<1>3. ASSUME NEW c \in Conts, Retry(c) PROVE TypeOK'
  <2>1. Update(PodOf[c], status) \in Notices
    BY <1>1, NoticeType DEF TypeOK
  <2>2. inbox' \in Seq(Notices) /\ Len(inbox') <= MaxInbox
    BY <1>3, <2>1, NotifyType DEF Retry
  <2> QED BY <1>3, <2>2 DEF Retry, cluster, TypeOK
<1>4. ASSUME NEW p \in Pods, Terminate(p) \/ Delete(p) PROVE TypeOK'
  <2>1. inbox' \in Seq(Notices) /\ Len(inbox') <= MaxInbox
    BY <1>4, NotifyType, NoticeType DEF Terminate, Delete
  <2> QED BY <1>4, <2>1 DEF Terminate, Delete, TypeOK
<1>5. ASSUME NEW p \in Pods, Create(p) PROVE TypeOK'
  <2>1. status' \in [Conts -> Status]
    BY <1>5, NewType DEF Create, TypeOK
  <2> QED BY <1>5, <2>1 DEF Create, informer, TypeOK
<1>6. CASE Cluster
  BY <1>6 DEF Cluster, informer, TypeOK
<1> QED BY <1>2, <1>3, <1>4, <1>5, <1>6

(* A verdict makes or removes the marker it is about. *)
LEMMA SendEmailType ==
  ASSUME NEW m \in SUBSET Conts, NEW c \in Conts, NEW v
  PROVE  SendEmail(m, c, v) \in SUBSET Conts
  BY DEF SendEmail

(* What is handed out is a notice, and what stays queued are notices. *)
LEMMA TakeTypeOK == ASSUME TypeOK, Take PROVE TypeOK'
<1>1. inbox \in Seq(Notices) /\ inbox # <<>> /\ Len(inbox) <= MaxInbox
  BY DEF TypeOK, Take
<1>2. inbox' \in Seq(Notices) /\ Len(inbox') = Len(inbox) - 1 /\ Head(inbox) \in Notices
  BY <1>1, HeadTailProperties DEF Take
<1>3. Len(inbox) \in Nat /\ MaxInbox \in Nat
  BY <1>1, Assumed, LenProperties DEF Assumptions, InboxAssumption
<1>4. Passes(Head(inbox)) => Head(inbox).kind # "terminating"
  BY DEF Passes
<1>5. hand' \in [Generations -> Notices \cup {Nothing}] /\ Nothing.kind # "terminating"
  BY <1>2 DEF Take, TypeOK, Generations, Nothing
<1>6. \A g \in Generations : hand'[g].kind # "terminating"
  BY <1>4, <1>5 DEF Take, TypeOK, Generations
<1> QED BY <1>1, <1>2, <1>3, <1>5, <1>6 DEF Take, cluster, TypeOK

(* The handlers and the rebuild keep the types. *)
LEMMA HandleTypeOK ==
  ASSUME TypeOK, Rebuild \/ \E g \in Generations : Handle(g)
  PROVE  TypeOK'
<1>1. Nothing.kind # "terminating"
  BY DEF Nothing
<1>2. ASSUME NEW g \in Generations, Handle(g) PROVE TypeOK'
  <2>1. /\ hand' \in [Generations -> Notices \cup {Nothing}]
        /\ \A h \in Generations : hand'[h].kind # "terminating"
    BY <1>1, <1>2 DEF Handle, OnPodUpdate, OnPodDelete, Done, TypeOK
  <2>2. marked' \subseteq Conts
    BY <1>2 DEF Handle, OnPodUpdate, OnPodDelete, TypeOK
  <2> QED BY <1>2, <2>1, <2>2 DEF Handle, OnPodUpdate, OnPodDelete, cluster, TypeOK
<1>3. CASE Rebuild
  <2>1. inbox' \in Seq(Notices) /\ Len(inbox') <= MaxInbox
    BY <1>3, Assumed, EmptySeq DEF Rebuild, Assumptions, InboxAssumption
  <2>2. /\ hand' \in [Generations -> Notices \cup {Nothing}]
        /\ \A h \in Generations : hand'[h].kind # "terminating"
    BY <1>1, <1>3 DEF Rebuild, TypeOK, Generations
  <2> QED BY <1>3, <2>1, <2>2 DEF Rebuild, cluster, TypeOK
<1> QED BY <1>2, <1>3

(* A new process has nothing in its hands. *)
LEMMA RestartTypeOK == ASSUME TypeOK, Die \/ Start PROVE TypeOK'
<1>1. CASE Die
  <2>1. inbox' \in Seq(Notices) /\ Len(inbox') <= MaxInbox
    BY <1>1, Assumed, EmptySeq DEF Die, Assumptions, InboxAssumption
  <2>2. /\ hand' \in [Generations -> Notices \cup {Nothing}]
        /\ \A h \in Generations : hand'[h].kind # "terminating"
    BY <1>1 DEF Die, Nothing
  <2> QED BY <1>1, <2>1, <2>2, NoSweepType DEF Die, cluster, TypeOK
<1>2. CASE Start
  BY <1>2 DEF Start, cluster, informer, TypeOK
<1> QED BY <1>1, <1>2

(* The cleanup only ever holds statuses that it has listed. *)
LEMMA SweepTypeOK ==
  ASSUME TypeOK, Sweep
  PROVE  TypeOK'
<1>1. CASE SweepList
  <2>1. Listed \in SUBSET Conts /\ \A c \in Conts : status[c] \in Status
    BY DEF Listed, TypeOK
  <2>2. sweep' \in Sweeps
    BY <1>1, <2>1, ListType DEF SweepList
  <2> QED BY <1>1, <2>2 DEF SweepList, cluster, informer, TypeOK
<1>2. CASE SweepFiles
  <2>1. sweep' \in Sweeps
    BY <1>2, HeldType, ListType DEF SweepFiles
  <2> QED BY <1>2, <2>1 DEF SweepFiles, cluster, informer, TypeOK
<1>3. CASE SweepEnd
  BY <1>3, NoSweepType DEF SweepEnd, cluster, informer, TypeOK
<1>4. CASE SweepPanic
  BY <1>4, RestartTypeOK DEF SweepPanic
<1>5. ASSUME NEW c \in Conts, SweepFile(c) PROVE TypeOK'
  <2>1. marked' \subseteq Conts
    BY <1>5, SendEmailType DEF SweepFile, TypeOK
  <2>2. sweep' = [pc |-> "files", list |-> Restrict(sweep.list, DOMAIN sweep.list \ {c})]
    BY <1>5 DEF SweepFile, TypeOK, Sweeps
  <2>3. sweep' \in Sweeps
    BY <2>2, HeldType, ListType
  <2> QED BY <1>5, <2>1, <2>3 DEF SweepFile, cluster, informer, TypeOK
<1> QED BY <1>1, <1>2, <1>3, <1>4, <1>5 DEF Sweep

(* Every step keeps the types. *)
LEMMA NextTypeOK == TypeOK /\ [Next]_vars => TypeOK'
<1> SUFFICES ASSUME TypeOK, [Next]_vars PROVE TypeOK'
  OBVIOUS
<1>1. CASE UNCHANGED vars
  BY <1>1 DEF vars, cluster, informer, TypeOK
<1> QED BY <1>1, EnvironmentTypeOK, TakeTypeOK, HandleTypeOK, RestartTypeOK, SweepTypeOK DEF Next

(* The pods, notifications and markers stay in their types; in particular  *)
(* no handler ever has a pod on its way out in hand.                       *)
THEOREM Typing == Spec => []TypeOK
  BY InitTypeOK, NextTypeOK, PTL DEF Spec

----------------------------------------------------------------------------
(* As long as the half hour is never up, the two halves of PodCheck do not *)
(* contradict each other on any container status whatever.                 *)
LEMMA HalvesAgree ==
  ASSUME NEW s \in Status, NEW init \in BOOLEAN, NEW pvTrouble \in BOOLEAN,
         FirstHalf(s) = "faulty"
  PROVE  SecondHalf(s, init, pvTrouble) # "recovered"
<1>1. s.state = "error"
  BY DEF FirstHalf
<1> QED BY <1>1 DEF SecondHalf, Stable, PodLastRestartTimerUp

(* So no look at a container both alerts and resolves. *)
THEOREM OneVerdictHolds == Spec => []OneVerdict
<1>1. TypeOK => OneVerdict
  BY HalvesAgree DEF TypeOK, OneVerdict
<1> QED BY <1>1, Typing, PTL

----------------------------------------------------------------------------
(* What one look at one container may do *)

(* A look at a sick container resolves nothing.                            *)
LEMMA PodCheckKeeps ==
  ASSUME NEW m, NEW c \in m, NEW s, Sick(s), NEW pvTrouble
  PROVE  c \in PodCheck(m, c, s, pvTrouble)
<1>1. CASE s.state \in {"imagepull", "crashloop", "error"}
  <2>1. FirstHalf(s) # "recovered"
    BY <1>1 DEF FirstHalf, Well
  <2>2. SecondHalf(s, c \in InitConts, pvTrouble) # "recovered"
    BY <1>1 DEF SecondHalf, Stable, PodLastRestartTimerUp
  <2> QED BY <2>1, <2>2 DEF PodCheck, SendEmail
<1>2. CASE s.state = "running" /\ s.restarted
  <2>1. FirstHalf(s) # "recovered"
    BY <1>2 DEF FirstHalf, Stable, PodLastRestartTimerUp
  <2>2. SecondHalf(s, c \in InitConts, pvTrouble) # "recovered"
    BY <1>2 DEF SecondHalf, Stable, PodLastRestartTimerUp
  <2> QED BY <2>1, <2>2 DEF PodCheck, SendEmail
<1> QED BY <1>1, <1>2 DEF Sick, Broken, Recovering

(* A look at a broken container alerts, unless it is an init container.    *)
LEMMA PodCheckAlerts ==
  ASSUME NEW m, NEW c, c \notin InitConts, NEW s, Broken(s), NEW pvTrouble
  PROVE  c \in PodCheck(m, c, s, pvTrouble)
<1>1. CASE s.state = "error"
  <2>1. FirstHalf(s) = "faulty"
    BY <1>1 DEF FirstHalf, Well
  <2>2. SecondHalf(s, c \in InitConts, pvTrouble) # "recovered"
    BY <1>1 DEF SecondHalf, Stable, PodLastRestartTimerUp
  <2> QED BY <2>1, <2>2 DEF PodCheck, SendEmail
<1>2. CASE s.state \in {"imagepull", "crashloop"}
  <2>1. SecondHalf(s, c \in InitConts, pvTrouble) = "faulty"
    BY <1>2 DEF SecondHalf, Stable, PodLastRestartTimerUp
  <2> QED BY <2>1 DEF PodCheck, SendEmail
<1> QED BY <1>1, <1>2 DEF Broken

(* A look at a container that is not broken alerts nobody.                 *)
LEMMA PodCheckQuiet ==
  ASSUME NEW m, NEW c, c \notin m, NEW s, ~ Broken(s), NEW pvTrouble
  PROVE  c \notin PodCheck(m, c, s, pvTrouble)
<1>1. FirstHalf(s) # "faulty"
  BY DEF FirstHalf, Broken
<1>2. SecondHalf(s, c \in InitConts, pvTrouble) # "faulty"
  BY DEF SecondHalf, Broken
<1> QED BY <1>1, <1>2 DEF PodCheck, SendEmail

(* No cleanup resolves a container that was sick when it was listed.       *)
LEMMA SickNotSwept == ASSUME NEW s, Sick(s) PROVE ~ Sweepable(s)
  BY DEF Sick, Broken, Recovering, Sweepable, Well, PodLastRestartTimerUp

(* The queue holds members of a set after one more of them was told.       *)
LEMMA NotifyIn ==
  ASSUME NEW S, inbox \in Seq(S), NEW n \in S, Notify(n)
  PROVE  inbox' \in Seq(S)
  BY AppendProperties DEF Notify

(* The notification that is handed out is one of those that waited.        *)
LEMMA TakeIn ==
  ASSUME NEW S, inbox \in Seq(S), Take
  PROVE  Head(inbox) \in S /\ inbox' \in Seq(S)
  BY HeadTailProperties DEF Take

(* Who waits is who is in the queue.                                       *)
LEMMA InboxIn ==
  ASSUME TypeOK, NEW S
  PROVE  inbox \in Seq(S) <=> \A i \in DOMAIN inbox : inbox[i] \in S
<1>1. inbox \in Seq(Notices)
  BY DEF TypeOK
<1>2. DOMAIN inbox = 1..Len(inbox) /\ Len(inbox) \in Nat
  BY <1>1, LenProperties
<1>3. inbox \in Seq(S) => \A i \in DOMAIN inbox : inbox[i] \in S
  BY <1>2, ElementOfSeq
<1>4. ASSUME \A i \in DOMAIN inbox : inbox[i] \in S PROVE inbox \in Seq(S)
  <2>1. inbox = [i \in 1..Len(inbox) |-> inbox[i]]
    BY <1>1, <1>2, LenProperties
  <2>2. inbox \in [1..Len(inbox) -> S]
    BY <1>2, <1>4, <2>1
  <2> QED BY <1>2, <2>1, <2>2, IsASeq
<1> QED BY <1>3, <1>4

----------------------------------------------------------------------------
(* Alerts that stand *)

(* Notifications that are no news of a container's recovery or deletion.   *)
SickNotices(c) == {n \in Notices \cup {Nothing} : SickNews(n, c)}

(* KnownSick, by the sets that the parts of the state are in.              *)
LEMMA KnownSickIn ==
  ASSUME TypeOK, NEW c \in Conts
  PROVE  KnownSick(c) <=> /\ Sick(status[c]) /\ inbox \in Seq(SickNotices(c))
                          /\ \A g \in Generations : hand[g] \in SickNotices(c)
                          /\ c \in DOMAIN sweep.list => Sick(sweep.list[c])
<1>1. \A i \in DOMAIN inbox : inbox[i] \in Notices
  BY InboxIn DEF TypeOK
<1>2. inbox \in Seq(SickNotices(c)) <=> \A i \in DOMAIN inbox : inbox[i] \in SickNotices(c)
  BY InboxIn
<1>3. \A g \in Generations : hand[g] \in Notices \cup {Nothing}
  BY DEF TypeOK
<1> QED BY <1>1, <1>2, <1>3 DEF KnownSick, SickNotices

(* An empty hand holds no news.                                            *)
LEMMA NoNews == ASSUME NEW c PROVE Nothing \in SickNotices(c) /\ <<>> \in Seq(SickNotices(c))
  BY EmptySeq DEF Nothing, SickNotices, SickNews

(* The steps that tell nothing.                                            *)
Tacit == \/ Take \/ Rebuild \/ Die \/ Start \/ Sweep \/ Cluster \/ UNCHANGED vars
         \/ \E g \in Generations : Handle(g)
         \/ \E p \in Pods : Create(p)

(* A step that tells nothing brings no news into queue or hands.           *)
LEMMA HandsKeep ==
  ASSUME TypeOK, NEW S, Nothing \in S, inbox \in Seq(S), \A g \in Generations : hand[g] \in S,
         Tacit
  PROVE  inbox' \in Seq(S) /\ \A g \in Generations : hand'[g] \in S
<1>1. <<>> \in Seq(S)
  BY EmptySeq
<1>2. CASE Take
  <2>1. Head(inbox) \in S /\ inbox' \in Seq(S)
    BY <1>2, TakeIn
  <2> QED BY <1>2, <2>1 DEF Take, TypeOK
<1>3. CASE Rebuild
  BY <1>1, <1>3 DEF Rebuild, Generations
<1>4. ASSUME Die PROVE inbox' \in Seq(S) /\ \A g \in Generations : hand'[g] \in S
  BY <1>1, <1>4 DEF Die
<1>5. CASE Start \/ Cluster \/ (\E p \in Pods : Create(p)) \/ UNCHANGED vars
  BY <1>5 DEF Start, Cluster, Create, vars, informer
<1>6. CASE Sweep
  BY <1>4, <1>6 DEF Sweep, SweepList, SweepFiles, SweepEnd, SweepPanic, SweepFile, informer
<1>7. CASE \E g \in Generations : Handle(g)
  BY <1>7 DEF Handle, OnPodUpdate, OnPodDelete, Done, TypeOK
<1> QED BY <1>2, <1>3, <1>4, <1>5, <1>6, <1>7 DEF Tacit

(* What a cleanup holds of a container is its status when it was listed.   *)
LEMMA ListKeeps ==
  ASSUME TypeOK, [Next]_vars, NEW c \in Conts, c \in DOMAIN sweep'.list
  PROVE  sweep'.list[c] = status[c] \/ (c \in DOMAIN sweep.list /\ sweep'.list[c] = sweep.list[c])
<1>1. CASE SweepList
  BY <1>1 DEF SweepList, Restrict
<1>2. CASE SweepFiles
  BY <1>2 DEF SweepFiles, Restrict
<1>3. ASSUME NEW x \in Conts, SweepFile(x)
      PROVE  sweep'.list[c] = status[c] \/ (c \in DOMAIN sweep.list /\ sweep'.list[c] = sweep.list[c])
  <2>1. sweep'.list = Restrict(sweep.list, DOMAIN sweep.list \ {x})
    BY <1>3 DEF SweepFile, TypeOK, Sweeps
  <2> QED BY <2>1 DEF Restrict
<1>4. CASE SweepEnd \/ Die \/ SweepPanic
  BY <1>4, NoSweepType DEF SweepEnd, Die, SweepPanic
<1>5. CASE UNCHANGED sweep
  BY <1>5
<1> QED BY <1>1, <1>2, <1>3, <1>4, <1>5
        DEF Next, vars, Kubelet, Retry, Terminate, Delete, Create, Cluster, Take, Rebuild, Start, Sweep,
            Handle, OnPodUpdate, OnPodDelete

(* What is known of a sick container stays news of a sick container.       *)
LEMMA KnownSickStays ==
  ASSUME TypeOK, TypeOK', NEW c \in Conts, KnownSick(c), Sick(status'[c]), [Next]_vars,
         \A p \in Pods : c \in Matches[p] /\ phase'[p] = "gone" => phase[p] = "gone"
  PROVE  KnownSick(c)'
<1>1. /\ Sick(status[c]) /\ inbox \in Seq(SickNotices(c)) /\ (c \in DOMAIN sweep.list => Sick(sweep.list[c]))
      /\ \A g \in Generations : hand[g] \in SickNotices(c)
  BY KnownSickIn
<1>2. ASSUME inbox' \in Seq(SickNotices(c)), \A g \in Generations : hand'[g] \in SickNotices(c)
      PROVE  KnownSick(c)'
  <2>1. \A i \in DOMAIN inbox' : inbox'[i] \in SickNotices(c)
    BY <1>2, LenProperties, ElementOfSeq
  <2>2. c \in DOMAIN sweep'.list => Sick(sweep'.list[c])
    BY <1>1, ListKeeps
  <2> QED BY <1>2, <2>1, <2>2 DEF KnownSick, SickNotices
<1>3. \A x \in Conts : PodOf[x] \in Pods /\ x \in ContsOf(PodOf[x])
  BY Assumed DEF Assumptions, PodOfAssumption, ContsOf
<1>4. ASSUME NEW n \in Notices, Notify(n), SickNews(n, c), UNCHANGED hand PROVE KnownSick(c)'
  <2>1. n \in SickNotices(c)
    BY <1>4 DEF SickNotices
  <2> QED BY <1>1, <1>2, <1>4, <2>1, NotifyIn
<1>5. ASSUME NEW x \in Conts, Kubelet(x) \/ Retry(x) PROVE KnownSick(c)'
  <2>1. status' \in [Conts -> Status] /\ Notify(Update(PodOf[x], status')) /\ UNCHANGED hand
    BY <1>5 DEF Kubelet, Retry, cluster, TypeOK
  <2>2. SickNews(Update(PodOf[x], status'), c)
    BY <1>3 DEF SickNews, Update, Restrict
  <2> QED BY <1>3, <1>4, <2>1, <2>2, NoticeType
<1>6. ASSUME NEW p \in Pods, Terminate(p) \/ Delete(p) PROVE KnownSick(c)'
  <2>1. CASE Terminate(p)
    <3>1. SickNews(Leaving(p, "terminating"), c)
      BY DEF SickNews, Leaving
    <3> QED BY <1>4, <2>1, <3>1, NoticeType DEF Terminate
  <2>2. CASE Delete(p)
    <3>1. c \notin Matches[p]
      BY <2>2 DEF Delete, TypeOK
    <3>2. SickNews(Leaving(p, "delete"), c)
      BY <3>1 DEF SickNews, Leaving
    <3> QED BY <1>4, <2>2, <3>2, NoticeType DEF Delete
  <2> QED BY <1>6, <2>1, <2>2
<1>7. CASE Tacit
  BY <1>1, <1>2, <1>7, NoNews, HandsKeep
<1> QED BY <1>5, <1>6, <1>7 DEF Next, Tacit

(* A look at a broken container raises its alert, whatever the gates are   *)
(* by then and whether its informer is still open.                         *)
THEOREM LookAlertsHolds == Spec => LookAlerts
<1> DEFINE Looked(c, g) == KnownSick(c) /\ FoundBroken(c, g)
<1>1. TypeOK /\ TypeOK' /\ [Next]_vars
      => [\A c \in AppConts, g \in Generations : Looked(c, g) => Standing(c)']_vars
  <2> SUFFICES ASSUME TypeOK, TypeOK', [Next]_vars, NEW c \in AppConts, NEW g \in Generations, Looked(c, g)
               PROVE  Standing(c)'
    BY DEF vars
  <2>1. c \in Conts /\ c \notin InitConts /\ PodOf[c] = hand[g].pod
    BY DEF AppConts, FoundBroken, ContsOf
  <2>2. OnPodUpdate(g) /\ Broken(hand[g].status[c]) /\ UNCHANGED <<phase, status>>
    BY DEF FoundBroken, OnPodUpdate, cluster
  <2>3. KnownSick(c)'
    <3>1. Sick(status'[c])
      BY <2>2 DEF KnownSick
    <3> QED BY <2>1, <2>2, <3>1, KnownSickStays
  <2>4. c \in marked'
    BY <2>1, <2>2, PodCheckAlerts DEF OnPodUpdate
  <2> QED BY <2>3, <2>4 DEF Standing
<1> QED BY <1>1, Typing, PTL DEF Spec, LookAlerts

(* And the alert stands: through crash loops, spells of running, cleanups  *)
(* by stale lists, rebuilds, verdicts of closed informers, closed gates    *)
(* and deletions of other pods.                                            *)
THEOREM AlertStandsHolds == Spec => AlertStands
<1> DEFINE Undisturbed(c) ==
      /\ Standing(c) /\ Sick(status'[c]) /\ up'
      /\ \A p \in Pods : c \in Matches[p] /\ phase'[p] = "gone" => phase[p] = "gone"
<1>1. TypeOK /\ TypeOK' /\ [Next]_vars => [\A c \in AppConts : Undisturbed(c) => Standing(c)']_vars
  <2> SUFFICES ASSUME TypeOK, TypeOK', [Next]_vars, NEW c \in AppConts, Undisturbed(c) PROVE Standing(c)'
    BY DEF vars
  <2>1. c \in Conts /\ c \in marked /\ KnownSick(c)
    BY DEF AppConts, Standing
  <2>2. /\ \A g \in Generations : hand[g] \in SickNotices(c)
        /\ c \in DOMAIN sweep.list => Sick(sweep.list[c])
    BY <2>1, KnownSickIn
  <2>3. KnownSick(c)'
    BY <2>1, KnownSickStays
  <2>4. ASSUME c \in marked' PROVE Standing(c)'
    BY <2>3, <2>4 DEF Standing
  <2>5. ASSUME NEW g \in Generations, OnPodUpdate(g) PROVE Standing(c)'
    <3>1. PodOf[c] = hand[g].pod => Sick(hand[g].status[c])
      BY <2>2, <2>5 DEF OnPodUpdate, SickNotices, SickNews
    <3>2. c \in marked'
      BY <2>1, <2>5, <3>1, PodCheckKeeps DEF OnPodUpdate
    <3> QED BY <2>4, <3>2
  <2>6. ASSUME NEW g \in Generations, OnPodDelete(g) PROVE Standing(c)'
    <3>1. c \notin Matches[hand[g].pod]
      BY <2>2, <2>6 DEF OnPodDelete, SickNotices, SickNews
    <3> QED BY <2>1, <2>4, <2>6, <3>1 DEF OnPodDelete
  <2>7. ASSUME NEW x \in Conts, SweepFile(x) PROVE Standing(c)'
    <3>1. x = c => ~ Sweepable(sweep.list[x])
      BY <2>2, <2>7, SickNotSwept DEF SweepFile
    <3> QED BY <2>1, <2>4, <2>7, <3>1 DEF SweepFile, SendEmail
  <2>8. ~ Die /\ ~ SweepPanic
    BY DEF Die, SweepPanic
  <2>9. CASE UNCHANGED marked
    BY <2>1, <2>4, <2>9
  <2> QED BY <2>5, <2>6, <2>7, <2>8, <2>9
          DEF Next, vars, Kubelet, Retry, Terminate, Delete, Create, Cluster, Take, Rebuild, Start, Sweep,
              SweepList, SweepFiles, SweepEnd, Handle
<1> QED BY <1>1, Typing, PTL DEF Spec, AlertStands

----------------------------------------------------------------------------
(* No false alarms *)

(* Notifications that do not call a container broken.                      *)
QuietNews(n, c)  == n.kind = "update" /\ n.pod = PodOf[c] => ~ Broken(n.status[c])
QuietNotices(c)  == {n \in Notices \cup {Nothing} : QuietNews(n, c)}

(* Neither marked nor about to be.                                         *)
Innocent(c) == /\ c \notin marked /\ inbox \in Seq(QuietNotices(c))
               /\ \A g \in Generations : hand[g] \in QuietNotices(c)

(* A container loses its innocence only by breaking.  With a marker gone   *)
(* for whatever reason, this is also the safety half of FirstStartResolved.*)
LEMMA InnocenceStays ==
  ASSUME TypeOK, TypeOK', NEW c \in Conts, Innocent(c), ~ Broken(status'[c]), [Next]_vars
  PROVE  Innocent(c)'
<1>1. /\ c \notin marked /\ inbox \in Seq(QuietNotices(c))
      /\ \A g \in Generations : hand[g] \in QuietNotices(c)
  BY DEF Innocent
<1>2. \A x \in Conts : PodOf[x] \in Pods /\ x \in ContsOf(PodOf[x])
  BY Assumed DEF Assumptions, PodOfAssumption, ContsOf
<1>3. Nothing \in QuietNotices(c)
  BY DEF Nothing, QuietNotices, QuietNews
<1>4. ASSUME inbox' \in Seq(QuietNotices(c)), \A g \in Generations : hand'[g] \in QuietNotices(c),
             c \notin marked'
      PROVE  Innocent(c)'
  BY <1>4 DEF Innocent, QuietNotices, QuietNews
<1>5. ASSUME NEW n \in Notices, Notify(n), QuietNews(n, c), UNCHANGED <<hand, marked>> PROVE Innocent(c)'
  <2>1. n \in QuietNotices(c)
    BY <1>5 DEF QuietNotices
  <2> QED BY <1>1, <1>4, <1>5, <2>1, NotifyIn
<1>6. ASSUME NEW x \in Conts, Kubelet(x) \/ Retry(x) PROVE Innocent(c)'
  <2>1. status' \in [Conts -> Status] /\ Notify(Update(PodOf[x], status')) /\ UNCHANGED <<hand, marked>>
    BY <1>6 DEF Kubelet, Retry, cluster, TypeOK
  <2>2. QuietNews(Update(PodOf[x], status'), c)
    BY <1>2 DEF QuietNews, Update, Restrict
  <2> QED BY <1>2, <1>5, <2>1, <2>2, NoticeType
<1>7. ASSUME NEW p \in Pods, Terminate(p) \/ Delete(p) PROVE Innocent(c)'
  <2>1. \E k \in {"terminating", "delete"} :
          Leaving(p, k) \in Notices /\ Notify(Leaving(p, k)) /\ QuietNews(Leaving(p, k), c)
    BY <1>7, NoticeType DEF Terminate, Delete, QuietNews, Leaving
  <2> QED BY <1>5, <1>7, <2>1 DEF Terminate, Delete
<1>8. CASE Tacit
  <2>1. inbox' \in Seq(QuietNotices(c)) /\ \A g \in Generations : hand'[g] \in QuietNotices(c)
    BY <1>1, <1>3, <1>8, HandsKeep
  <2>2. ASSUME NEW g \in Generations, OnPodUpdate(g) PROVE c \notin marked'
    <3>1. PodOf[c] = hand[g].pod => ~ Broken(hand[g].status[c])
      BY <1>1, <2>2 DEF OnPodUpdate, QuietNotices, QuietNews
    <3> QED BY <1>1, <2>2, <3>1, PodCheckQuiet DEF OnPodUpdate
  <2>3. CASE marked' \subseteq marked
    BY <1>1, <1>4, <2>1, <2>3
  <2>4. CASE \E g \in Generations : OnPodUpdate(g)
    BY <1>4, <2>1, <2>2, <2>4
  <2> QED BY <1>8, <2>3, <2>4
          DEF Tacit, Take, Rebuild, Die, Start, Sweep, SweepList, SweepFiles, SweepEnd, SweepPanic, SweepFile, SendEmail,
              Handle, OnPodDelete, Cluster, Create, vars
<1> QED BY <1>6, <1>7, <1>8 DEF Next, Tacit

(* A container that has never been broken has never had a marker, for any  *)
(* pods that share names, and whatever is lost, late or swept.             *)
THEOREM NoFalseAlarmHolds == Spec => NoFalseAlarm
<1> SUFFICES ASSUME NEW c \in Conts PROVE Spec => ([](~ Broken(status[c])) => [](c \notin marked))
  BY DEF NoFalseAlarm
<1> DEFINE quiet == ~ Broken(status[c])
<1>1. Init => Innocent(c)
  BY EmptySeq DEF Init, Innocent, Nothing, QuietNotices, QuietNews
<1>2. TypeOK /\ TypeOK' /\ Innocent(c) /\ quiet' /\ [Next]_vars => Innocent(c)'
  BY InnocenceStays
<1>3. Innocent(c) => c \notin marked
  BY DEF Innocent
<1> QED BY <1>1, <1>2, <1>3, Typing, PTL DEF Spec
=============================================================================
