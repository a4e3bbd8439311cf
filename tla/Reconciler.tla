----------------------------- MODULE Reconciler -----------------------------
(***************************************************************************)
(* OcpHealthCheckReconciler: the custom resources in the API server, the   *)
(* controller's cache of them, the work queue, Reconcile, and what it      *)
(* leaves running: generations of informers, each with the spec that its   *)
(* event handlers captured, and the marker files behind status.healthy.    *)
(*                                                                         *)
(* Whether a check alerts, resolves or says nothing is left open here: it  *)
(* goes by a status that may be old by then, or by none (PodAlerts,        *)
(* SpokeChecks and HubPass say by which).  What counts here is when a      *)
(* check runs, with which spec, and what becomes of the markers.           *)
(***************************************************************************)
EXTENDS Naturals

CONSTANTS CRs, Absent,     \* OcpHealthCheck names; a CR that does not exist
          Specs,           \* the specs users write, a set of records as Spec below
          Gens, NoGen,     \* slots for informer generations; none
          Resources,       \* what the checks look at
          Counted,         \* resources with their marker in files/ocphealth
          Probed,          \* resources Reconcile itself looks at on every (re)build
          Flaky,           \* TRUE: API calls may fail, and a hub pass may break off
          MaxEdits,        \* bound on user edits
          MaxRestarts      \* bound on restarts of the process

(* A spec, as far as Reconcile tells specs apart.  "muted" is a            *)
(* suspendEmailAlert that is absent or true; "invalid" one that is false   *)
(* without an address or relay host.                                       *)
SpecType == [suspend : BOOLEAN, mail : {"on", "muted", "invalid"}, hub : BOOLEAN]
Object   == [spec : Specs, ready : {"nil", "Unknown", "False", "True"}, healthy : BOOLEAN]
Objects  == Object \cup {Absent}

ASSUME SpecsAssumption  == Specs \subseteq SpecType
ASSUME AbsentAssumption == Absent \notin Object /\ Absent \notin CRs
ASSUME GensAssumption   == NoGen \notin Gens
ASSUME ResourcesAssumption == Counted \subseteq Resources /\ Probed \subseteq Resources
ASSUME BoundsAssumption == Flaky \in BOOLEAN /\ MaxEdits \in Nat /\ MaxRestarts \in Nat

VARIABLES
  api,       \* the CRs in the API server
  cache,     \* the manager's cached copies
  fresh,     \* whether the cached copy is the API server's latest
  queue,     \* CRs to reconcile, due now or after a backoff
  task,      \* the one Reconcile under way: its cr, the object it read, whether
             \*   that is still the latest, and whether the result asks for more;
             \*   "probe" goes by the backends, "pass" counts the markers after
             \*   its looks, "clean" resolves those of pods before it counts
  gen,       \* generations of informers: free, open or closed (stopChan), and mail
  factory,   \* r.factory: the generation the reconciler knows of
  timer,     \* r.InformerTimer: nil, recent or past (3 minutes)
  cleaner,   \* r.podCleaner: nil, recent or past (1 hour)
  marked,    \* the resources whose marker exists
  edits, restarts

ctlVars == <<cache, queue, task>>
infVars == <<gen, factory, timer, cleaner>>
envVars == <<edits, restarts>>
vars    == <<api, fresh, ctlVars, infVars, marked, envVars>>

Idle == [pc |-> "idle", cr |-> Absent, obj |-> Absent, latest |-> FALSE, requeue |-> FALSE]
Free == [state |-> "free", mail |-> "muted"]

TypeOK ==
  /\ api \in [CRs -> Objects] /\ cache \in [CRs -> Objects]
  /\ fresh \in [CRs -> BOOLEAN] /\ queue \subseteq CRs
  /\ \/ task = Idle
     \/ task \in [pc : {"run", "probe", "pass", "clean", "update"}, cr : CRs, obj : Object,
                  latest : BOOLEAN, requeue : BOOLEAN]
  /\ gen \in [Gens -> [state : {"free", "open", "closed"}, mail : {"on", "muted"}]]
  /\ factory \in Gens \cup {NoGen}
  /\ timer \in {"nil", "recent", "past"} /\ cleaner \in {"nil", "recent", "past"}
  /\ marked \subseteq Resources
  /\ edits \in 0..MaxEdits /\ restarts \in 0..MaxRestarts

(* The manager starts with an empty cache, no informer and no marker. *)
NewProcess(ca, q, t, g, fa, ti, cl, m) ==
  /\ ca = [c \in CRs |-> Absent] /\ q = {} /\ t = Idle
  /\ g = [x \in Gens |-> Free] /\ fa = NoGen /\ ti = "nil" /\ cl = "nil"
  /\ m = {}

Init == /\ NewProcess(cache, queue, task, gen, factory, timer, cleaner, marked)
        /\ api = [c \in CRs |-> Absent]
        /\ fresh = [c \in CRs |-> TRUE]
        /\ edits = 0 /\ restarts = 0

----------------------------------------------------------------------------
(* Users, the API server and the controller's cache *)

(* A new version of c: what was read of it before is no longer the latest. *)
Store(c, o) == /\ api' = [api EXCEPT ![c] = o]
               /\ fresh' = [fresh EXCEPT ![c] = FALSE]

Outdate(c) == task' = [task EXCEPT !.latest = @ /\ task.cr # c]

UserEdit(c) ==
  /\ edits < MaxEdits
  /\ edits' = edits + 1
  /\ \/ /\ api[c] = Absent
        /\ \E s \in Specs : Store(c, [spec |-> s, ready |-> "nil", healthy |-> FALSE])
     \/ /\ api[c] # Absent
        /\ \E s \in Specs \ {api[c].spec} : Store(c, [api[c] EXCEPT !.spec = s])
     \/ /\ api[c] # Absent
        /\ Store(c, Absent)
  /\ Outdate(c)
  /\ UNCHANGED <<cache, queue, infVars, marked, restarts>>

(* Mutant: a predicate that lets only changes of the spec through. *)
Sync_SpecOnly(c) ==
  /\ ~ fresh[c]
  /\ cache' = [cache EXCEPT ![c] = api[c]]
  /\ fresh' = [fresh EXCEPT ![c] = TRUE]
  /\ queue' = IF cache[c] # Absent /\ api[c] # Absent /\ cache[c].spec = api[c].spec
              THEN queue ELSE queue \cup {c}
  /\ UNCHANGED <<api, task, infVars, marked, envVars>>

(* The watch delivers: every event enqueues, status changes included. *)
Sync(c) ==
  /\ ~ fresh[c]
  /\ cache' = [cache EXCEPT ![c] = api[c]]
  /\ fresh' = [fresh EXCEPT ![c] = TRUE]
  /\ queue' = queue \cup {c}
  /\ UNCHANGED <<api, task, infVars, marked, envVars>>

----------------------------------------------------------------------------
(* Reconcile, up to the point where it commits to a result *)

FailReconcile(c) == queue' = queue \cup {c} /\ task' = Idle

(* Get answers from the cache, and one that is not found is left alone. *)
Fetch(c) ==
  /\ task.pc = "idle"
  /\ c \in queue
  /\ queue' = queue \ {c}
  /\ task' = IF cache[c] = Absent THEN Idle
             ELSE [pc |-> "run", cr |-> c, obj |-> cache[c], latest |-> fresh[c], requeue |-> FALSE]
  /\ UNCHANGED <<api, cache, fresh, infVars, marked, envVars>>

CRSpec == task.obj.spec

(* Suspended: nothing at all, not even to the informers that are running. *)
Suspended ==
  /\ task.pc = "run" /\ CRSpec.suspend
  /\ task' = Idle
  /\ UNCHANGED <<api, cache, fresh, queue, infVars, marked, envVars>>

(* No valid address: an error, before the status update is deferred. *)
InvalidMail ==
  /\ task.pc = "run" /\ ~ CRSpec.suspend /\ CRSpec.mail = "invalid"
  /\ FailReconcile(task.cr)
  /\ UNCHANGED <<api, cache, fresh, infVars, marked, envVars>>

Running == task.pc = "run" /\ ~ CRSpec.suspend /\ CRSpec.mail # "invalid"
Seen    == Running /\ task.obj.ready # "nil"

(* Go on at pc with the condition reported so far; "update" is the deferred *)
(* status update.                                                          *)
Go(pc, obj, requeue) == task' = [task EXCEPT !.pc = pc, !.obj = obj, !.requeue = requeue]
Report(obj, requeue) == Go("update", obj, requeue)
Ready(status)        == [task.obj EXCEPT !.ready = status]

(* Returns no requeue: the event of its own status update brings it back. *)
FirstSeen ==
  /\ Running /\ task.obj.ready = "nil"
  /\ Report(Ready("Unknown"), FALSE)
  /\ UNCHANGED <<api, cache, fresh, queue, infVars, marked, envVars>>

(* In-cluster config or a client cannot be made, or, on a hub, the machine *)
(* config pools cannot be read or are in progress.                         *)
GiveUp ==
  /\ Seen /\ Flaky
  /\ Report(Ready("False"), TRUE)
  /\ UNCHANGED <<api, cache, fresh, queue, infVars, marked, envVars>>

(* A hub pass begins; the informers of an earlier spec stay. *)
HubPass ==
  /\ Seen /\ CRSpec.hub
  /\ Go("clean", task.obj, TRUE)
  /\ UNCHANGED <<api, cache, fresh, queue, infVars, marked, envVars>>

(* Mutants: the handlers capture a spec that is not filled in, or one that *)
(* mails by default.                                                       *)
Opened_Empty   == [state |-> "open", mail |-> "muted"]
Opened_Mailing == [state |-> "open", mail |-> "on"]

Opened == [state |-> "open", mail |-> CRSpec.mail]

(* Mutant: a new start takes the cluster for well. *)
Build_Healthy(g) ==
  /\ Seen /\ ~ CRSpec.hub
  /\ factory = NoGen /\ gen[g] = Free
  /\ gen' = [gen EXCEPT ![g] = Opened]
  /\ factory' = g /\ timer' = "recent" /\ cleaner' = "recent"
  /\ Go("probe", [Ready("True") EXCEPT !.healthy = TRUE], TRUE)
  /\ UNCHANGED <<api, cache, fresh, queue, marked, envVars>>

Build(g) ==
  /\ Seen /\ ~ CRSpec.hub
  /\ factory = NoGen /\ gen[g] = Free
  /\ gen' = [gen EXCEPT ![g] = Opened]
  /\ factory' = g /\ timer' = "recent" /\ cleaner' = "recent"
  /\ Go("probe", Ready("True"), TRUE)
  /\ UNCHANGED <<api, cache, fresh, queue, marked, envVars>>

(* Mutant: the old informers are not told to stop. *)
Rebuild_NoClose(g) ==
  /\ Seen /\ ~ CRSpec.hub
  /\ factory # NoGen /\ timer = "past" /\ gen[g] = Free
  /\ gen' = [gen EXCEPT ![g] = Opened]
  /\ factory' = g /\ timer' = "recent"
  /\ Go(IF cleaner = "past" THEN "clean" ELSE "pass", Ready("True"), TRUE)
  /\ UNCHANGED <<api, cache, fresh, queue, cleaner, marked, envVars>>

(* After three minutes; whether an hour has passed as well is decided now. *)
Rebuild(g) ==
  /\ Seen /\ ~ CRSpec.hub
  /\ factory # NoGen /\ timer = "past" /\ gen[g] = Free
  /\ gen' = [gen EXCEPT ![factory].state = "closed", ![g] = Opened]
  /\ factory' = g /\ timer' = "recent"
  /\ Go(IF cleaner = "past" THEN "clean" ELSE "pass", Ready("True"), TRUE)
  /\ UNCHANGED <<api, cache, fresh, queue, cleaner, marked, envVars>>

(* Mutant: nothing to do now, so no requeue is asked for. *)
Keep_NoRequeue ==
  /\ Seen /\ ~ CRSpec.hub
  /\ factory # NoGen /\ timer = "recent"
  /\ Report(task.obj, FALSE)
  /\ UNCHANGED <<api, cache, fresh, queue, infVars, marked, envVars>>

(* The informers are young: only a requeue, and an update of the status    *)
(* that was read.                                                          *)
Keep ==
  /\ Seen /\ ~ CRSpec.hub
  /\ factory # NoGen /\ timer = "recent"
  /\ Report(task.obj, TRUE)
  /\ UNCHANGED <<api, cache, fresh, queue, infVars, marked, envVars>>

----------------------------------------------------------------------------
(* The looks of Reconcile itself, and the count *)

(* SendEmail about r with whatever verdict, nothing when mail is suspended. *)
Verdict(r, mail) == marked' \in (IF mail = "on" THEN {marked, marked \cup {r}, marked \ {r}} ELSE {marked})

(* A hub pass looks at anything, any number of times; a (re)build at the   *)
(* Trident and EVNFM backends, and, an hour after the last time, at the    *)
(* markers of pods, which it can only resolve.                             *)
Looked    == IF CRSpec.hub THEN Resources ELSE Probed
Resolved  == IF task.pc = "clean" THEN Counted ELSE {}

Look(r) ==
  /\ task.pc \in {"probe", "pass", "clean"}
  /\ \/ r \in Looked /\ Verdict(r, CRSpec.mail)
     \/ r \in Resolved /\ CRSpec.mail = "on" /\ marked' = marked \ {r}
  /\ UNCHANGED <<api, fresh, ctlVars, infVars, envVars>>

Probes ==
  /\ task.pc = "probe"
  /\ Report(task.obj, TRUE)
  /\ UNCHANGED <<api, cache, fresh, queue, infVars, marked, envVars>>

(* Mutants: one of the two assignments is missing; the files of the probed *)
(* backends count as well.                                                 *)
Count_NeverBad ==
  /\ task.pc \in {"pass", "clean"}
  /\ cleaner' = IF task.pc = "clean" /\ ~ CRSpec.hub THEN "recent" ELSE cleaner
  /\ Report([Ready("True") EXCEPT !.healthy = (@ \/ marked \cap Counted = {})], TRUE)
  /\ UNCHANGED <<api, cache, fresh, queue, gen, factory, timer, marked, envVars>>

Count_NeverGood ==
  /\ task.pc \in {"pass", "clean"}
  /\ cleaner' = IF task.pc = "clean" /\ ~ CRSpec.hub THEN "recent" ELSE cleaner
  /\ Report([Ready("True") EXCEPT !.healthy = (@ /\ marked \cap Counted = {})], TRUE)
  /\ UNCHANGED <<api, cache, fresh, queue, gen, factory, timer, marked, envVars>>

Count_Every ==
  /\ task.pc \in {"pass", "clean"}
  /\ cleaner' = IF task.pc = "clean" /\ ~ CRSpec.hub THEN "recent" ELSE cleaner
  /\ Report([Ready("True") EXCEPT !.healthy = (marked = {})], TRUE)
  /\ UNCHANGED <<api, cache, fresh, queue, gen, factory, timer, marked, envVars>>

(* The pass ends with the number of files in files/ocphealth. *)
Count ==
  /\ task.pc \in {"pass", "clean"}
  /\ cleaner' = IF task.pc = "clean" /\ ~ CRSpec.hub THEN "recent" ELSE cleaner
  /\ Report([Ready("True") EXCEPT !.healthy = (marked \cap Counted = {})], TRUE)
  /\ UNCHANGED <<api, cache, fresh, queue, gen, factory, timer, marked, envVars>>

(* A nil pointer in one of the hub's looks: the deferred update writes the *)
(* status as it was read, and the panic, recovered by the controller, asks *)
(* for another try.                                                        *)
BreakOff ==
  /\ Flaky
  /\ task.pc = "clean" /\ CRSpec.hub
  /\ Report(task.obj, TRUE)
  /\ UNCHANGED <<api, cache, fresh, queue, infVars, marked, envVars>>

----------------------------------------------------------------------------
(* The deferred status update *)

(* Only the status is written.  An update that changes nothing makes no    *)
(* new version and no event.                                               *)
Updated(c) ==
  LET o == [task.obj EXCEPT !.spec = api[c].spec] IN
  /\ IF api[c] = o THEN UNCHANGED <<api, fresh>> ELSE Store(c, o)
  /\ queue' = IF task.requeue THEN queue \cup {c} ELSE queue
  /\ task' = Idle

(* Mutant: the status is written whatever version it was computed from. *)
Update_LastWriterWins ==
  /\ task.pc = "update"
  /\ api[task.cr] # Absent
  /\ Updated(task.cr)
  /\ UNCHANGED <<cache, infVars, marked, envVars>>

(* The API server takes it only over the version that was read. *)
Update ==
  /\ task.pc = "update"
  /\ task.latest
  /\ Updated(task.cr)
  /\ UNCHANGED <<cache, infVars, marked, envVars>>

(* Mutant: the reconcile fails and its work item is not marked done. *)
UpdateFails_NotDone ==
  /\ task.pc = "update"
  /\ ~ task.latest \/ Flaky
  /\ queue' = queue \cup {task.cr}
  /\ task' = [task EXCEPT !.pc = "idle"]
  /\ UNCHANGED <<api, cache, fresh, infVars, marked, envVars>>

(* A conflict, a CR that is gone or an API error fails the reconcile. *)
UpdateFails ==
  /\ task.pc = "update"
  /\ ~ task.latest \/ Flaky
  /\ FailReconcile(task.cr)
  /\ UNCHANGED <<api, cache, fresh, infVars, marked, envVars>>

----------------------------------------------------------------------------
(* Informers and time *)

(* A handler of a generation ends a check: open, or closed with its last   *)
(* notifications still in flight.  It goes by the spec that was captured.  *)
Handle(g, r) ==
  /\ gen[g].state # "free"
  /\ Verdict(r, gen[g].mail)
  /\ UNCHANGED <<api, fresh, ctlVars, infVars, envVars>>

(* A closed generation's goroutines end. *)
Drain(g) ==
  /\ gen[g].state = "closed"
  /\ gen' = [gen EXCEPT ![g] = Free]
  /\ UNCHANGED <<api, fresh, ctlVars, factory, timer, cleaner, marked, envVars>>

ThreeMinutes ==
  /\ timer = "recent" /\ timer' = "past"
  /\ UNCHANGED <<api, fresh, ctlVars, gen, factory, cleaner, marked, envVars>>

OneHour ==
  /\ cleaner = "recent" /\ cleaner' = "past"
  /\ UNCHANGED <<api, fresh, ctlVars, gen, factory, timer, marked, envVars>>

(* The container is replaced, by its kubelet or after a panic in a         *)
(* goroutine of its own.  The new manager lists what exists.               *)
Restart ==
  /\ restarts < MaxRestarts
  /\ restarts' = restarts + 1
  /\ NewProcess(cache', queue', task', gen', factory', timer', cleaner', marked')
  /\ fresh' = [c \in CRs |-> api[c] = Absent]
  /\ UNCHANGED <<api, edits>>

Reconcile == \/ Suspended \/ InvalidMail \/ FirstSeen \/ GiveUp \/ HubPass \/ Keep
             \/ \E g \in Gens : Build(g) \/ Rebuild(g)

Environment == \/ \E c \in CRs : UserEdit(c)
               \/ \E g \in Gens, r \in Resources : Handle(g, r)
               \/ Restart

Next == \/ \E c \in CRs : Sync(c) \/ Fetch(c)
        \/ Reconcile \/ Update \/ UpdateFails
        \/ \E r \in Resources : Look(r)
        \/ Probes \/ Count \/ BreakOff
        \/ \E g \in Gens : Drain(g)
        \/ ThreeMinutes \/ OneHour
        \/ Environment

Spec == Init /\ [][Next]_vars

(* The watch delivers, workers run, time passes, goroutines end.  Strong   *)
(* fairness where a transient failure competes with success: the queue is  *)
(* served in turn, and failures neither go on for ever nor single out the  *)
(* passes that have good news.                                             *)
GoodNews == Update /\ task.obj.ready = "True"

Fairness ==
  /\ \A c \in CRs : WF_vars(Sync(c)) /\ SF_vars(Fetch(c))
  /\ WF_vars(Reconcile) /\ SF_vars(HubPass) /\ SF_vars(\E g \in Gens : Build(g) \/ Rebuild(g))
  /\ WF_vars(Probes) /\ SF_vars(Count)
  /\ WF_vars(UpdateFails) /\ SF_vars(Update) /\ SF_vars(GoodNews)
  /\ \A g \in Gens : WF_vars(Drain(g))
  /\ WF_vars(ThreeMinutes) /\ WF_vars(OneHour)

FairSpec == Spec /\ Fairness

----------------------------------------------------------------------------
(* Properties *)

OpenGens == {g \in Gens : gen[g].state = "open"}
LiveGens == {g \in Gens : gen[g].state # "free"}

(* The reconciler knows every generation whose stop channel is open: none  *)
(* runs on with a spec nobody can take back, and the timers that Reconcile *)
(* dereferences exist.                                                     *)
FactoryDiscipline ==
  /\ OpenGens = {factory} \ {NoGen}
  /\ factory # NoGen => timer # "nil" /\ cleaner # "nil"

(* Between its reconciles a CR that is to be worked on is queued, being    *)
(* worked on, or about to be delivered by the watch; "First Seen", which   *)
(* asks for no requeue, lives on the event of its own update.              *)
NothingForgotten ==
  \A c \in CRs :
    (api[c] # Absent /\ ~ api[c].spec.suspend) => c \in queue \/ task.cr = c \/ ~ fresh[c]

(* A status is only ever recorded for the spec it was computed from: a     *)
(* user's edit between the read and the update makes the update fail, and  *)
(* the status of a suspended or misconfigured CR is left alone.            *)
Workable(s) == ~ s.suspend /\ s.mail # "invalid"

StatusIsCurrent ==
  [][\A c \in CRs :
       (api[c] # Absent /\ api'[c] # Absent /\ api'[c].spec = api[c].spec /\ api'[c] # api[c])
         => task.cr = c /\ task.obj.spec = api[c].spec /\ Workable(api[c].spec)]_vars

(* Why NothingForgotten and StatusIsCurrent hold: what a reconcile under   *)
(* way, the cache and the queue know of the API server.  Inductive.        *)
ReadInv ==
  /\ \A c \in CRs : fresh[c] => cache[c] = api[c]
  /\ task.pc # "idle" /\ task.latest =>
       /\ api[task.cr] # Absent
       /\ task.obj.spec = api[task.cr].spec
       /\ task.pc = "run" => task.obj = api[task.cr]
  /\ task.pc # "idle" /\ ~ task.latest => ~ fresh[task.cr] \/ task.cr \in queue
  /\ task.pc \notin {"idle", "run"} => Workable(task.obj.spec)
  /\ task.pc \notin {"idle", "run"} /\ ~ task.requeue =>
       /\ task.obj.ready = "Unknown"
       /\ task.latest => api[task.cr].ready = "nil"
  /\ NothingForgotten

Steady(c, s) == <>[](api[c] # Absent /\ api[c].spec = s)
Working      == {s \in Specs : Workable(s)}

(* A spec that stays reaches the informers: in the end every event handler *)
(* that still runs has captured it.  A hub leaves them as they are.        *)
SpecTakesEffect ==
  \A c \in CRs, s \in Working :
    ~ s.hub /\ Steady(c, s) => <>[](factory # NoGen /\ \A g \in LiveGens : gen[g].mail = s.mail)

(* ... and the CR says so, again and again. *)
ReadyInTheEnd ==
  \A c \in CRs, s \in Working : Steady(c, s) => []<>(api[c] # Absent /\ api[c].ready = "True")

(* Nothing that runs, is under way or is cached wants mail other than M.   *)
Asks(o, M)   == o # Absent /\ Workable(o.spec) => o.spec.mail = M
EveryAsks(M) == \A c \in CRs : Asks(api[c], M)
InEffect(M) ==
  /\ EveryAsks(M)
  /\ \A c \in CRs : Asks(cache[c], M)
  /\ Asks(task.obj, M)
  /\ \A g \in LiveGens : gen[g].mail = M

(* A setting that is in effect stays so until a user asks for another: no  *)
(* stale cache, reconcile under way, rebuild or restart brings an older    *)
(* one back.  The safety half of SpecTakesEffect, for any number of CRs.   *)
SpecStays == [][\A M \in {"on", "muted"} : InEffect(M) /\ EveryAsks(M)' => InEffect(M)']_vars

(* "suspendEmailAlert": as long as no CR that is worked on has ever asked  *)
(* for mail, nothing is alerted.                                           *)
MutedIsSilent == []EveryAsks("muted") => [](marked = {})

(* status.healthy "Indicates if the target is free of failing resources":  *)
(* with a spec that stays, a counted marker that stays turns it false in   *)
(* the end, by the next rebuild or hub pass, whatever CR, spec and status  *)
(* came before, and whatever the checks say of other resources, ...        *)
FailuresShow ==
  \A c \in CRs, s \in Working, r \in Counted :
    Steady(c, s) /\ <>[](r \in marked) => <>[](api[c] # Absent /\ ~ api[c].healthy)

(* ... and when no counted marker is left for good it turns true.          *)
RecoveryShows ==
  \A c \in CRs, s \in Working :
    Steady(c, s) /\ <>[](marked \cap Counted = {}) => <>[](api[c] # Absent /\ api[c].healthy)

(* A marker that status.healthy accounts for, and the reconcile under way  *)
(* as well, if its update can succeed.                                     *)
Shown(c, r) ==
  /\ r \in marked \cap Counted
  /\ api[c] # Absent /\ ~ api[c].healthy
  /\ task.cr = c /\ task.latest => ~ task.obj.healthy

(* It does so until that marker is gone: not an edit of the spec, a muted  *)
(* pass, a pass cut short, a status computed from an older copy or another *)
(* CR turns the CR healthy.  The safety half of FailuresShow ...           *)
FailureStaysShown ==
  [][\A c \in CRs, r \in Counted :
       Shown(c, r) /\ r \in marked' /\ api'[c] # Absent => Shown(c, r)']_vars

(* ... and this is the one of RecoveryShows: no reconcile that counted     *)
(* before the directory was empty has its say after it.                    *)
AllWell(c) ==
  /\ marked \cap Counted = {}
  /\ api[c] # Absent /\ api[c].healthy
  /\ task.cr = c /\ task.latest => task.obj.healthy

RecoveryStaysShown ==
  [][\A c \in CRs : AllWell(c) /\ (marked \cap Counted = {})' /\ api'[c] # Absent => AllWell(c)']_vars

(* "Set suspend to true to disable controller run": once everything is     *)
(* suspended, nothing is left watching.  The code does not do that.        *)
SuspendStopsChecks ==
  <>[](\A c \in CRs : api[c] # Absent /\ api[c].spec.suspend) => <>[](OpenGens = {})
=============================================================================
