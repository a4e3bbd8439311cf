-------------------------- MODULE Reconciler_proofs --------------------------
(* Theorems about Reconcile, for any number of custom resources, specs,     *)
(* informer generations and resources.                                      *)
EXTENDS Reconciler, TLAPS

Assumptions == /\ SpecsAssumption /\ AbsentAssumption /\ GensAssumption
               /\ ResourcesAssumption /\ BoundsAssumption

(* The assumptions on the constants, in one name. *)
LEMMA Assumed == Assumptions
  BY SpecsAssumption, AbsentAssumption, GensAssumption, ResourcesAssumption, BoundsAssumption DEF Assumptions

(* A new manager is well formed. *)
LEMMA InitTypeOK == Init => TypeOK
  BY Assumed DEF Init, NewProcess, TypeOK, Objects, Free, Assumptions

(* The task of a reconcile under way. *)
Pcs   == {"run", "probe", "pass", "clean", "update"}
Tasks == [pc : Pcs, cr : CRs, obj : Object, latest : BOOLEAN, requeue : BOOLEAN]

LEMMA TaskType ==
  ASSUME TypeOK, task.pc # "idle"
  PROVE  task.cr \in CRs /\ task.obj \in Object /\ task.obj # Absent /\ task \in Tasks
  BY Assumed DEF TypeOK, Idle, Assumptions, AbsentAssumption, Tasks, Pcs

(* A CR that is worked on asks for mail or for none. *)
LEMMA MailType ==
  ASSUME TypeOK, task.pc # "idle", Workable(CRSpec)
  PROVE  CRSpec.mail \in {"on", "muted"}
  BY TaskType, Assumed DEF Workable, CRSpec, Object, Assumptions, SpecsAssumption, SpecType

(* The steps of a reconcile that is not over: it goes on at some pc, with  *)
(* the spec it read, and of health it says what it read or what it counts. *)
Onward(o, r) ==
  /\ \E pc \in Pcs \ {"run"} : Go(pc, o, r)
  /\ o.spec = task.obj.spec
  /\ r \/ (task.pc = "run" /\ task.obj.ready = "nil" /\ o.ready = "Unknown")
  /\ o.healthy = task.obj.healthy \/ o.healthy = (marked \cap Counted = {})

GoesOn ==
  /\ task.pc # "idle" /\ Workable(CRSpec)
  /\ UNCHANGED <<api, cache, fresh, queue>>
  /\ \E o \in Object, r \in BOOLEAN : Onward(o, r)

LEMMA OnwardTask ==
  ASSUME TypeOK, task.pc # "idle", NEW o \in Object, NEW r \in BOOLEAN, Onward(o, r)
  PROVE  /\ task' \in Tasks
         /\ task'.pc \in Pcs \ {"run"} /\ task'.cr = task.cr /\ task'.obj = o
         /\ task'.latest = task.latest /\ task'.requeue = r
<1>1. PICK pc \in Pcs \ {"run"} : Go(pc, o, r)
  BY DEF Onward
<1> QED BY <1>1, TaskType DEF Go, Tasks

(* Setting the condition or status.healthy leaves an object. *)
LEMMA ReadyType ==
  ASSUME TypeOK, task.pc # "idle", NEW s \in {"nil", "Unknown", "False", "True"}, NEW h \in BOOLEAN
  PROVE  /\ Ready(s) \in Object
         /\ Ready(s).spec = task.obj.spec /\ Ready(s).ready = s /\ Ready(s).healthy = task.obj.healthy
         /\ [Ready(s) EXCEPT !.healthy = h] \in Object
         /\ [Ready(s) EXCEPT !.healthy = h].spec = task.obj.spec
         /\ [Ready(s) EXCEPT !.healthy = h].healthy = h
<1>1. task.obj \in Object /\ Ready(s) \in Object
  BY TaskType DEF Ready, Object
<1> QED BY <1>1 DEF Ready, Object

(* Every branch of Reconcile that does not end it, and what follows. *)
LEMMA StepGoesOn ==
  ASSUME TypeOK, ReadInv,
         \/ FirstSeen \/ GiveUp \/ HubPass \/ Keep \/ Probes \/ Count \/ BreakOff
         \/ \E g \in Gens : Build(g) \/ Rebuild(g)
  PROVE  GoesOn
<1> DEFINE h == (marked \cap Counted = {})
           Counts == [Ready("True") EXCEPT !.healthy = h]
<1>1. task.pc # "idle" /\ Workable(CRSpec)
  BY DEF FirstSeen, GiveUp, HubPass, Keep, Probes, Count, BreakOff, Build, Rebuild, Seen, Running, ReadInv,
         Workable, CRSpec
<1>2. UNCHANGED <<api, cache, fresh, queue>>
  BY DEF FirstSeen, GiveUp, HubPass, Keep, Probes, Count, BreakOff, Build, Rebuild
<1>3. h \in BOOLEAN
  OBVIOUS
<1>4. /\ task.obj \in Object /\ Counts \in Object /\ Counts.spec = task.obj.spec /\ Counts.healthy = h
      /\ \A s \in {"Unknown", "False", "True"} :
           /\ Ready(s) \in Object /\ Ready(s).spec = task.obj.spec
           /\ Ready(s).ready = s /\ Ready(s).healthy = task.obj.healthy
  <2> HIDE DEF h
  <2> QED BY <1>1, <1>3, ReadyType, TaskType
<1>5. ASSUME FirstSeen PROVE Onward(Ready("Unknown"), FALSE)
  BY <1>4, <1>5 DEF FirstSeen, Running, Report, Onward, Pcs
<1>6. ASSUME GiveUp PROVE Onward(Ready("False"), TRUE)
  BY <1>4, <1>6 DEF GiveUp, Report, Onward, Pcs
<1>7. ASSUME HubPass \/ Keep \/ Probes \/ BreakOff PROVE Onward(task.obj, TRUE)
  BY <1>7 DEF HubPass, Keep, Probes, BreakOff, Report, Onward, Pcs
<1>8. ASSUME NEW g \in Gens, Build(g) \/ Rebuild(g) PROVE Onward(Ready("True"), TRUE)
  <2>1. \E pc \in Pcs \ {"run"} : Go(pc, Ready("True"), TRUE)
    BY <1>8 DEF Build, Rebuild, Pcs
  <2> QED BY <1>4, <2>1 DEF Onward
<1>9. ASSUME Count PROVE Onward(Counts, TRUE)
  BY <1>4, <1>9 DEF Count, Report, Onward, Pcs
<1> HIDE DEF Counts
<1>10. \E o \in Object, r \in BOOLEAN : Onward(o, r)
  BY <1>4, <1>5, <1>6, <1>7, <1>8, <1>9
<1> QED BY <1>1, <1>2, <1>10 DEF GoesOn

(* What every step is, as far as the API server and the task go.           *)
LEMMA Steps ==
  ASSUME TypeOK, ReadInv, [Next]_vars
  PROVE  \/ \E c \in CRs : Sync(c) \/ Fetch(c) \/ UserEdit(c)
         \/ Suspended \/ InvalidMail \/ Update \/ UpdateFails \/ Restart
         \/ GoesOn
         \/ UNCHANGED <<api, fresh, ctlVars>>
<1>1. ASSUME \/ \E r \in Resources : Look(r) \/ \E g \in Gens : Handle(g, r)
             \/ \E g \in Gens : Drain(g)
             \/ ThreeMinutes \/ OneHour \/ UNCHANGED vars
      PROVE  UNCHANGED <<api, fresh, ctlVars>>
  BY <1>1 DEF Look, Handle, Drain, ThreeMinutes, OneHour, vars
<1> QED BY <1>1, StepGoesOn DEF Next, Reconcile, Environment

----------------------------------------------------------------------------
(* Types *)

(* A check keeps the markers within the resources. *)
LEMMA MarkedType ==
  ASSUME TypeOK, [Next]_vars
  PROVE  marked' \subseteq Resources
<1>1. ASSUME NEW r \in Resources, Look(r) \/ \E g \in Gens : Handle(g, r) PROVE marked' \subseteq Resources
  BY <1>1 DEF Look, Handle, Verdict, TypeOK
<1>2. \/ UNCHANGED marked \/ marked' = {}
      \/ \E r \in Resources : Look(r) \/ \E g \in Gens : Handle(g, r)
  BY DEF Next, Reconcile, Environment, Sync, Fetch, Suspended, InvalidMail, FirstSeen, GiveUp, HubPass, Build,
         Rebuild, Keep, Probes, Count, BreakOff, Update, UpdateFails, UserEdit, Drain, ThreeMinutes, OneHour,
         Restart, NewProcess, vars
<1> QED BY <1>1, <1>2 DEF TypeOK

(* The generations and the timers. *)
InfType ==
  /\ gen \in [Gens -> [state : {"free", "open", "closed"}, mail : {"on", "muted"}]]
  /\ factory \in Gens \cup {NoGen}
  /\ timer \in {"nil", "recent", "past"} /\ cleaner \in {"nil", "recent", "past"}

LEMMA InfTypeKept ==
  ASSUME TypeOK, [Next]_vars
  PROVE  InfType'
<1> USE DEF InfType
<1>1. ASSUME NEW g \in Gens, Build(g) \/ Rebuild(g) PROVE InfType'
  <2>1. Opened \in [state : {"open"}, mail : {"on", "muted"}]
    BY <1>1, MailType DEF Build, Rebuild, Seen, Running, Opened, Workable
  <2>2. Opened \in [state : {"free", "open", "closed"}, mail : {"on", "muted"}]
    BY <2>1
  <2>3. CASE Build(g)
    BY <2>2, <2>3 DEF Build, TypeOK
  <2>4. CASE Rebuild(g)
    <3>1. [gen[factory] EXCEPT !.state = "closed"] \in [state : {"free", "open", "closed"}, mail : {"on", "muted"}]
      BY <2>4 DEF Rebuild, TypeOK
    <3>2. gen' = [gen EXCEPT ![factory] = [gen[factory] EXCEPT !.state = "closed"], ![g] = Opened]
      BY <2>4 DEF Rebuild
    <3> QED BY <2>2, <2>4, <3>1, <3>2 DEF Rebuild, TypeOK
  <2> QED BY <1>1, <2>3, <2>4
<1>2. ASSUME NEW g \in Gens, Drain(g) PROVE InfType'
  BY <1>2 DEF Drain, TypeOK, Free
<1>3. CASE Count \/ ThreeMinutes \/ OneHour
  BY <1>3 DEF Count, ThreeMinutes, OneHour, TypeOK
<1>4. CASE Restart
  BY <1>4, Assumed DEF Restart, NewProcess, Free, Assumptions
<1>5. CASE UNCHANGED infVars
  BY <1>5 DEF infVars, TypeOK
<1>6. \/ UNCHANGED infVars
      \/ \E g \in Gens : Build(g) \/ Rebuild(g) \/ Drain(g)
      \/ Count \/ ThreeMinutes \/ OneHour \/ Restart
  BY DEF Next, Reconcile, Environment, Sync, Fetch, Suspended, InvalidMail, FirstSeen, GiveUp, HubPass, Keep,
         Look, Probes, BreakOff, Update, UpdateFails, UserEdit, Handle, infVars, vars, envVars
<1> QED BY <1>1, <1>2, <1>3, <1>4, <1>5, <1>6

(* The bounds. *)
LEMMA BoundsKept ==
  ASSUME TypeOK, [Next]_vars
  PROVE  edits' \in 0..MaxEdits /\ restarts' \in 0..MaxRestarts
<1>1. ASSUME NEW c \in CRs, UserEdit(c) PROVE edits' \in 0..MaxEdits /\ restarts' = restarts
  BY <1>1, Assumed DEF UserEdit, TypeOK, Assumptions, BoundsAssumption
<1>2. ASSUME Restart PROVE restarts' \in 0..MaxRestarts /\ edits' = edits
  BY <1>2, Assumed DEF Restart, TypeOK, Assumptions, BoundsAssumption
<1>3. UNCHANGED envVars \/ Restart \/ \E c \in CRs : UserEdit(c)
  BY DEF Next, Reconcile, Environment, Sync, Fetch, Suspended, InvalidMail, FirstSeen, GiveUp, HubPass, Build,
         Rebuild, Keep, Look, Probes, Count, BreakOff, Update, UpdateFails, Handle, Drain, ThreeMinutes, OneHour,
         vars
<1> QED BY <1>1, <1>2, <1>3 DEF envVars, TypeOK

(* The CRs, the cache, the queue and the task. *)
CtlType ==
  /\ api \in [CRs -> Objects] /\ cache \in [CRs -> Objects]
  /\ fresh \in [CRs -> BOOLEAN] /\ queue \subseteq CRs
  /\ task = Idle \/ task \in Tasks

LEMMA CtlTypeOK == TypeOK => CtlType
  BY DEF TypeOK, CtlType, Tasks, Pcs

(* A user's edit makes an object or none, and touches only the task's flag. *)
LEMMA UserEditTypeOK ==
  ASSUME TypeOK, NEW c \in CRs, UserEdit(c)
  PROVE  CtlType'
<1> USE Assumed DEF Assumptions
<1>1. PICK o \in Objects : Store(c, o)
  <2>1. ASSUME NEW s \in Specs
        PROVE  [spec |-> s, ready |-> "nil", healthy |-> FALSE] \in Objects
    BY DEF Object, Objects
  <2>2. ASSUME api[c] # Absent, NEW s \in Specs
        PROVE  [api[c] EXCEPT !.spec = s] \in Objects
    <3>1. api[c] \in Object
      BY <2>2 DEF TypeOK, Objects
    <3> QED BY <3>1 DEF Object, Objects
  <2>3. Absent \in Objects
    BY DEF Objects
  <2> HIDE DEF Assumptions
  <2> QED BY <2>1, <2>2, <2>3 DEF UserEdit
<1>2. task' = Idle \/ task' \in Tasks
  <2>1. CASE task = Idle
    BY <2>1 DEF UserEdit, Outdate, Idle
  <2>2. CASE task # Idle
    BY <2>2, CtlTypeOK DEF UserEdit, Outdate, CtlType, Tasks
  <2> QED BY <2>1, <2>2
<1> QED BY <1>1, <1>2 DEF UserEdit, Store, TypeOK, CtlType

(* The deferred update stores an object. *)
LEMMA UpdateTypeOK ==
  ASSUME TypeOK, ReadInv, Update
  PROVE  CtlType'
<1> USE Assumed DEF Assumptions
<1>1. task.cr \in CRs /\ task.obj \in Object /\ api[task.cr] \in Object
  BY DEF Update, TypeOK, Idle, ReadInv, Objects
<1>2. [task.obj EXCEPT !.spec = api[task.cr].spec] \in Objects
  BY <1>1 DEF Object, Objects
<1>3. api' \in [CRs -> Objects] /\ fresh' \in [CRs -> BOOLEAN]
  <2> DEFINE o == [task.obj EXCEPT !.spec = api[task.cr].spec]
  <2>1. IF api[task.cr] = o THEN UNCHANGED <<api, fresh>> ELSE Store(task.cr, o)
    BY DEF Update, Updated
  <2>2. o \in Objects /\ task.cr \in CRs
    BY <1>1, <1>2
  <2> HIDE DEF o
  <2>3. api \in [CRs -> Objects] /\ fresh \in [CRs -> BOOLEAN]
    BY DEF TypeOK
  <2>4. CASE UNCHANGED <<api, fresh>>
    BY <2>3, <2>4
  <2>5. CASE Store(task.cr, o)
    <3> DEFINE c == task.cr
    <3>1. api' = [api EXCEPT ![c] = o] /\ fresh' = [fresh EXCEPT ![c] = FALSE] /\ c \in CRs
      BY <2>2, <2>5 DEF Store
    <3> HIDE DEF c
    <3> QED BY <2>2, <2>3, <3>1
  <2> QED BY <2>1, <2>4, <2>5
<1>4. queue' \subseteq CRs /\ task' = Idle
  BY <1>1 DEF Update, Updated, TypeOK
<1> QED BY <1>3, <1>4 DEF Update, TypeOK, CtlType

(* Every step keeps the types. *)
LEMMA NextTypeOK == TypeOK /\ ReadInv /\ [Next]_vars => TypeOK'
<1> SUFFICES ASSUME TypeOK, ReadInv, [Next]_vars PROVE TypeOK'
  OBVIOUS
<1>1. CtlType
  BY CtlTypeOK
<1>2. ASSUME NEW c \in CRs, Sync(c) PROVE CtlType'
  BY <1>1, <1>2 DEF Sync, CtlType
<1>3. ASSUME NEW c \in CRs, Fetch(c) PROVE CtlType'
  <2>1. ASSUME cache[c] = Absent PROVE CtlType'
    BY <1>1, <1>3, <2>1 DEF Fetch, CtlType
  <2>2. ASSUME cache[c] # Absent PROVE CtlType'
    <3>1. cache[c] \in Object /\ fresh[c] \in BOOLEAN
      BY <1>1, <2>2 DEF CtlType, Objects
    <3>2. task' \in Tasks
      BY <1>3, <2>2, <3>1 DEF Fetch, Tasks, Pcs
    <3> QED BY <1>1, <1>3, <3>2 DEF Fetch, CtlType
  <2> QED BY <2>1, <2>2
<1>4. ASSUME NEW c \in CRs, UserEdit(c) PROVE CtlType'
  BY <1>4, UserEditTypeOK
<1>5. ASSUME Suspended PROVE CtlType'
  BY <1>1, <1>5 DEF Suspended, CtlType
<1>6. ASSUME InvalidMail \/ UpdateFails PROVE CtlType'
  <2>1. task.cr \in CRs
    BY <1>6, TaskType DEF InvalidMail, UpdateFails
  <2> QED BY <1>1, <1>6, <2>1 DEF InvalidMail, UpdateFails, FailReconcile, CtlType
<1>7. ASSUME Update PROVE CtlType'
  BY <1>7, UpdateTypeOK
<1>8. ASSUME Restart PROVE CtlType'
  BY <1>1, <1>8 DEF Restart, NewProcess, Objects, CtlType
<1>9. ASSUME GoesOn PROVE CtlType'
  <2>1. task' \in Tasks
    BY <1>9, OnwardTask DEF GoesOn
  <2> QED BY <1>1, <1>9, <2>1 DEF GoesOn, CtlType
<1>10. ASSUME UNCHANGED <<api, fresh, ctlVars>> PROVE CtlType'
  BY <1>1, <1>10 DEF ctlVars, CtlType
<1>11. CtlType'
  BY <1>2, <1>3, <1>4, <1>5, <1>6, <1>7, <1>8, <1>9, <1>10, Steps
<1> QED BY <1>11, MarkedType, InfTypeKept, BoundsKept DEF InfType, TypeOK, CtlType, Tasks, Pcs

----------------------------------------------------------------------------
(* The reconciler knows the one generation that is open. *)

(* Only Build, Rebuild, Drain and Restart touch the generations. *)
LEMMA NextFactory == TypeOK /\ FactoryDiscipline /\ [Next]_vars => FactoryDiscipline'
<1> SUFFICES ASSUME TypeOK, FactoryDiscipline, [Next]_vars PROVE FactoryDiscipline'
  OBVIOUS
<1> USE Assumed DEF Assumptions, FactoryDiscipline, OpenGens
<1>1. CASE UNCHANGED infVars
  BY <1>1 DEF infVars
<1>2. ASSUME NEW g \in Gens, Build(g) PROVE FactoryDiscipline'
  BY <1>2 DEF Build, Opened, TypeOK, GensAssumption
<1>3. ASSUME NEW g \in Gens, Rebuild(g) PROVE FactoryDiscipline'
  BY <1>3 DEF Rebuild, Opened, TypeOK, Free, GensAssumption
<1>4. ASSUME NEW g \in Gens, Drain(g) PROVE FactoryDiscipline'
  BY <1>4 DEF Drain, Free, TypeOK
<1>5. CASE Count \/ ThreeMinutes \/ OneHour
  BY <1>5 DEF Count, ThreeMinutes, OneHour
<1>6. CASE Restart
  BY <1>6 DEF Restart, NewProcess, Free
<1>7. \/ UNCHANGED infVars
      \/ \E g \in Gens : Build(g) \/ Rebuild(g) \/ Drain(g)
      \/ Count \/ ThreeMinutes \/ OneHour \/ Restart
  BY DEF Next, Reconcile, Environment, Sync, Fetch, Suspended, InvalidMail, FirstSeen, GiveUp, HubPass, Keep,
         Look, Probes, BreakOff, Update, UpdateFails, UserEdit, Handle, infVars, vars, envVars
<1> QED BY <1>1, <1>2, <1>3, <1>4, <1>5, <1>6, <1>7

----------------------------------------------------------------------------
(* What a reconcile, the cache and the queue know of the API server. *)

(* An edit leaves nothing that claims to know the latest version. *)
LEMMA UserEditReadInv ==
  ASSUME TypeOK, ReadInv, NEW c \in CRs, UserEdit(c)
  PROVE  ReadInv'
<1>1. PICK o : Store(c, o)
  BY DEF UserEdit
<1>2. /\ task'.pc = task.pc /\ task'.cr = task.cr /\ task'.obj = task.obj /\ task'.requeue = task.requeue
      /\ task'.latest = (task.latest /\ task.cr # c)
  BY DEF UserEdit, Outdate, TypeOK, Idle
<1>3. queue' = queue /\ cache' = cache
  BY DEF UserEdit
<1>4. /\ ~ fresh'[c]
      /\ \A x \in CRs \ {c} : api'[x] = api[x] /\ fresh'[x] = fresh[x]
  BY <1>1 DEF Store, TypeOK
<1>5. task.pc # "idle" => task.cr \in CRs
  BY DEF TypeOK, Idle
<1>6. NothingForgotten'
  BY <1>2, <1>3, <1>4 DEF ReadInv, NothingForgotten
<1> QED BY <1>2, <1>3, <1>4, <1>5, <1>6 DEF ReadInv

(* An update that asks for no requeue changes the status, so the watch     *)
(* has something to deliver.                                               *)
LEMMA UpdateReadInv ==
  ASSUME TypeOK, ReadInv, Update
  PROVE  ReadInv'
<1> DEFINE o == [task.obj EXCEPT !.spec = api[task.cr].spec]
<1>1. PICK c \in CRs : task.cr = c
  BY DEF Update, TypeOK, Idle
<1>2. IF api[c] = o THEN UNCHANGED <<api, fresh>> ELSE Store(c, o)
  BY <1>1 DEF Update, Updated
<1>3. (o.ready = task.obj.ready /\ task.obj.ready # "nil") \/ task.requeue
  BY DEF Update, ReadInv, TypeOK, Idle, Object
<1>4. task' = Idle /\ cache' = cache /\ queue' = IF task.requeue THEN queue \cup {c} ELSE queue
  BY <1>1 DEF Update, Updated
<1>5. ~ task.requeue => Store(c, o)
  <2>1. ~ task.requeue => o.ready = "Unknown" /\ api[c].ready = "nil"
    BY <1>1, <1>3 DEF Update, ReadInv
  <2> HIDE DEF o
  <2> QED BY <1>2, <2>1
<1> HIDE DEF o
<1>6. CASE UNCHANGED <<api, fresh>> /\ task.requeue
  BY <1>1, <1>4, <1>6 DEF ReadInv, NothingForgotten, Idle
<1>7. CASE Store(c, o)
  BY <1>1, <1>4, <1>7 DEF ReadInv, NothingForgotten, Idle, Store, TypeOK
<1> QED BY <1>2, <1>5, <1>6, <1>7

(* Every step keeps what a reconcile, the cache and the queue know. *)
LEMMA NextReadInv == TypeOK /\ ReadInv /\ [Next]_vars => ReadInv'
<1> SUFFICES ASSUME TypeOK, ReadInv, [Next]_vars PROVE ReadInv'
  OBVIOUS
<1>1. ASSUME NEW c \in CRs, Sync(c) PROVE ReadInv'
  BY <1>1 DEF Sync, ReadInv, NothingForgotten, TypeOK
<1>2. ASSUME NEW c \in CRs, Fetch(c) PROVE ReadInv'
  BY <1>2, Assumed DEF Fetch, ReadInv, NothingForgotten, TypeOK, Idle, Assumptions
<1>3. CASE Suspended
  BY <1>3 DEF Suspended, Idle, CRSpec, ReadInv, NothingForgotten
<1>4. CASE InvalidMail \/ UpdateFails
  BY <1>4 DEF InvalidMail, UpdateFails, FailReconcile, ReadInv, NothingForgotten, Idle
<1>5. CASE Update
  BY <1>5, UpdateReadInv
<1>6. ASSUME NEW c \in CRs, UserEdit(c) PROVE ReadInv'
  BY <1>6, UserEditReadInv
<1>7. CASE Restart
  BY <1>7 DEF Restart, NewProcess, ReadInv, NothingForgotten, Idle
<1>8. CASE UNCHANGED <<api, fresh, ctlVars>>
  BY <1>8 DEF ctlVars, ReadInv, NothingForgotten
<1>9. CASE GoesOn
  <2>1. PICK o \in Object, r \in BOOLEAN : Onward(o, r)
    BY <1>9 DEF GoesOn
  <2>2. /\ task'.pc \in Pcs \ {"run"} /\ task'.cr = task.cr /\ task'.obj = o
        /\ task'.latest = task.latest /\ task'.requeue = r
    BY <1>9, <2>1, OnwardTask DEF GoesOn
  <2>3. task.pc # "idle" /\ Workable(CRSpec) /\ UNCHANGED <<api, cache, fresh, queue>>
    BY <1>9 DEF GoesOn
  <2>4. o.spec = task.obj.spec /\ (r \/ (task.pc = "run" /\ task.obj.ready = "nil" /\ o.ready = "Unknown"))
    BY <2>1 DEF Onward
  <2> QED BY <2>2, <2>3, <2>4 DEF ReadInv, NothingForgotten, CRSpec, Pcs
<1> QED BY <1>1, <1>2, <1>3, <1>4, <1>5, <1>6, <1>7, <1>8, <1>9, Steps

----------------------------------------------------------------------------
(* The theorems *)

(* The inductive invariant. *)
LEMMA Invariance == Spec => [](TypeOK /\ ReadInv)
<1>1. Init => ReadInv
  BY DEF Init, NewProcess, ReadInv, NothingForgotten, Idle
<1> QED BY <1>1, InitTypeOK, NextTypeOK, NextReadInv, PTL DEF Spec

(* Reconcile, the cache and the queue stay within their types. *)
THEOREM Typing == Spec => []TypeOK
  BY Invariance, PTL

(* No generation of informers escapes the reconciler: whatever is open is  *)
(* r.factory, and the timers Reconcile dereferences are set.               *)
THEOREM FactoryDisciplineHolds == Spec => []FactoryDiscipline
<1>1. Init => FactoryDiscipline
  BY Assumed DEF Init, NewProcess, FactoryDiscipline, OpenGens, Free
<1> QED BY <1>1, Typing, NextFactory, PTL DEF Spec

(* No CR that is to be worked on is dropped by the queue, a stale cache, a *)
(* failed update or the "First Seen" pass that asks for no requeue.        *)
THEOREM NothingForgottenHolds == Spec => []NothingForgotten
<1>1. ReadInv => NothingForgotten
  BY DEF ReadInv
<1> QED BY <1>1, Invariance, PTL

(* A status that is recorded was computed from the spec the CR has now. *)
THEOREM StatusIsCurrentHolds == Spec => StatusIsCurrent
<1> DEFINE A == \A c \in CRs :
       (api[c] # Absent /\ api'[c] # Absent /\ api'[c].spec = api[c].spec /\ api'[c] # api[c])
         => task.cr = c /\ task.obj.spec = api[c].spec /\ Workable(api[c].spec)
<1>1. TypeOK /\ ReadInv /\ [Next]_vars => [A]_vars
  <2> SUFFICES ASSUME TypeOK, ReadInv, Next PROVE A
    OBVIOUS
  <2>1. CASE UNCHANGED api
    BY <2>1
  <2>2. CASE Update
    <3>1. PICK c \in CRs : task.cr = c
      BY <2>2 DEF Update, TypeOK, Idle
    <3>2. \A x \in CRs \ {c} : api'[x] = api[x]
      BY <2>2, <3>1 DEF Update, Updated, Store, TypeOK
    <3>3. task.obj.spec = api[c].spec /\ Workable(api[c].spec)
      BY <2>2, <3>1 DEF Update, ReadInv
    <3> QED BY <3>1, <3>2, <3>3
  <2>3. ASSUME NEW c \in CRs, UserEdit(c) PROVE A
    <3>1. \A x \in CRs \ {c} : api'[x] = api[x]
      BY <2>3 DEF UserEdit, Store, TypeOK
    <3>2. api[c] = Absent \/ api'[c] = Absent \/ api'[c].spec # api[c].spec
      BY <2>3 DEF UserEdit, Store, TypeOK, Objects, Object
    <3> QED BY <3>1, <3>2
  <2>4. UNCHANGED api \/ Update \/ \E c \in CRs : UserEdit(c)
    BY Steps DEF Sync, Fetch, Suspended, InvalidMail, UpdateFails, Restart, GoesOn
  <2> QED BY <2>1, <2>2, <2>3, <2>4
<1> QED BY <1>1, Invariance, PTL DEF Spec, StatusIsCurrent

----------------------------------------------------------------------------
(* What is in effect *)

(* Reconcile hands its handlers the setting that is in effect.             *)
LEMMA GensInEffect ==
  ASSUME TypeOK, FactoryDiscipline, NEW M, InEffect(M), [Next]_vars
  PROVE  \A g \in LiveGens' : gen'[g].mail = M
<1> DEFINE P == \A g \in LiveGens' : gen'[g].mail = M
<1>1. ASSUME NEW g \in Gens, Build(g) \/ Rebuild(g) PROVE Opened.mail = M
  BY <1>1, TaskType DEF Build, Rebuild, Seen, Running, Opened, CRSpec, InEffect, Asks, Workable
<1>2. ASSUME NEW g \in Gens, Build(g) PROVE P
  <2>1. gen'[g].mail = M /\ \A x \in Gens \ {g} : gen'[x] = gen[x]
    BY <1>1, <1>2 DEF Build, TypeOK
  <2> QED BY <2>1 DEF LiveGens, InEffect
<1>3. ASSUME NEW g \in Gens, Rebuild(g) PROVE P
  <2>1. factory \in LiveGens /\ factory # g
    BY <1>3 DEF Rebuild, FactoryDiscipline, OpenGens, LiveGens, TypeOK, Free
  <2>2. gen' = [gen EXCEPT ![factory] = [gen[factory] EXCEPT !.state = "closed"], ![g] = Opened]
    BY <1>3 DEF Rebuild
  <2>3. gen'[g].mail = M /\ \A x \in Gens \ {g, factory} : gen'[x] = gen[x]
    BY <1>1, <1>3, <2>2 DEF TypeOK
  <2>4. gen'[factory].mail = gen[factory].mail
    BY <2>1, <2>2 DEF LiveGens, TypeOK
  <2> QED BY <2>1, <2>3, <2>4 DEF LiveGens, InEffect
<1>4. ASSUME NEW g \in Gens, Drain(g) PROVE P
  BY <1>4 DEF Drain, LiveGens, Free, TypeOK, InEffect
<1>5. CASE Restart
  BY <1>5 DEF Restart, NewProcess, LiveGens, Free
<1>6. CASE UNCHANGED gen
  BY <1>6 DEF LiveGens, InEffect
<1>7. UNCHANGED gen \/ Restart \/ \E g \in Gens : Build(g) \/ Rebuild(g) \/ Drain(g)
  BY DEF Next, Reconcile, Environment, Sync, Fetch, Suspended, InvalidMail, FirstSeen, GiveUp, HubPass, Keep,
         Look, Probes, Count, BreakOff, Update, UpdateFails, UserEdit, Handle, ThreeMinutes, OneHour, infVars,
         vars, envVars
<1> QED BY <1>2, <1>3, <1>4, <1>5, <1>6, <1>7

(* Only a user can put another setting into effect.                        *)
LEMMA NextInEffect ==
  ASSUME TypeOK, ReadInv, FactoryDiscipline, NEW M, InEffect(M), EveryAsks(M)', [Next]_vars
  PROVE  InEffect(M)'
<1>1. ASSUME NEW c \in CRs, Sync(c) PROVE (\A x \in CRs : Asks(cache[x], M))' /\ Asks(task.obj, M)'
  <2>1. \A x \in CRs : cache'[x] = IF x = c THEN api[x] ELSE cache[x]
    BY <1>1 DEF Sync, TypeOK
  <2> QED BY <1>1, <2>1 DEF Sync, InEffect, EveryAsks, Asks
<1>2. ASSUME NEW c \in CRs, Fetch(c) PROVE (\A x \in CRs : Asks(cache[x], M))' /\ Asks(task.obj, M)'
  <2>1. task'.obj \in {Absent, cache[c]}
    BY <1>2 DEF Fetch, Idle
  <2> QED BY <1>2, <2>1 DEF Fetch, InEffect, Asks
<1>3. ASSUME NEW c \in CRs, UserEdit(c) PROVE (\A x \in CRs : Asks(cache[x], M))' /\ Asks(task.obj, M)'
  <2>1. task'.obj = task.obj
    BY <1>3 DEF UserEdit, Outdate, TypeOK, Idle
  <2> QED BY <1>3, <2>1 DEF UserEdit, InEffect, Asks
<1>4. ASSUME Suspended \/ InvalidMail \/ Update \/ UpdateFails
      PROVE  (\A x \in CRs : Asks(cache[x], M))' /\ Asks(task.obj, M)'
  <2>1. task'.obj = Absent /\ UNCHANGED cache
    BY <1>4 DEF Suspended, InvalidMail, Update, Updated, UpdateFails, FailReconcile, Idle
  <2> QED BY <2>1 DEF InEffect, Asks
<1>5. ASSUME GoesOn PROVE (\A x \in CRs : Asks(cache[x], M))' /\ Asks(task.obj, M)'
  <2>1. task'.obj.spec = task.obj.spec /\ task.obj # Absent /\ cache' = cache
    BY <1>5, OnwardTask, TaskType DEF GoesOn, Onward
  <2> QED BY <2>1 DEF InEffect, Asks
<1>6. ASSUME Restart PROVE (\A x \in CRs : Asks(cache[x], M))' /\ Asks(task.obj, M)'
  BY <1>6 DEF Restart, NewProcess, Asks, Idle
<1>7. ASSUME UNCHANGED <<api, fresh, ctlVars>> PROVE (\A x \in CRs : Asks(cache[x], M))' /\ Asks(task.obj, M)'
  BY <1>7 DEF ctlVars, InEffect, Asks
<1>8. (\A x \in CRs : Asks(cache[x], M))' /\ Asks(task.obj, M)'
  BY <1>1, <1>2, <1>3, <1>4, <1>5, <1>6, <1>7, Steps
<1> QED BY <1>8, GensInEffect DEF InEffect

(* A setting that runs everywhere runs until a user asks for another, for  *)
(* any number of CRs that agree on it.                                     *)
THEOREM SpecStaysHolds == Spec => SpecStays
<1>1. TypeOK /\ ReadInv /\ FactoryDiscipline /\ [Next]_vars =>
        [\A M \in {"on", "muted"} : InEffect(M) /\ EveryAsks(M)' => InEffect(M)']_vars
  BY NextInEffect
<1> QED BY <1>1, Invariance, FactoryDisciplineHolds, PTL DEF Spec, SpecStays

(* While no CR ever asks for mail there is no marker, whatever the checks  *)
(* find: no generation or pass has another setting than the CRs have.      *)
THEOREM MutedIsSilentHolds == Spec => MutedIsSilent
<1> DEFINE Silent == InEffect("muted") /\ marked = {}
<1>1. Init /\ EveryAsks("muted") => Silent
  BY DEF Init, NewProcess, InEffect, Asks, LiveGens, Free, Idle
<1>2. TypeOK /\ ReadInv /\ FactoryDiscipline /\ Silent /\ EveryAsks("muted")' /\ [Next]_vars => Silent'
  <2> SUFFICES ASSUME TypeOK, ReadInv, FactoryDiscipline, Silent, EveryAsks("muted")', [Next]_vars
               PROVE  marked' = {}
    BY NextInEffect
  <2>1. ASSUME NEW r \in Resources, Look(r) PROVE marked' = {}
    <3>1. CRSpec.mail = "muted"
      BY <2>1, TaskType DEF Look, CRSpec, InEffect, Asks, ReadInv
    <3> QED BY <2>1, <3>1 DEF Look, Verdict
  <2>2. ASSUME NEW g \in Gens, NEW r \in Resources, Handle(g, r) PROVE marked' = {}
    BY <2>2 DEF Handle, Verdict, InEffect, LiveGens
  <2>3. \/ UNCHANGED marked \/ marked' = {}
        \/ \E r \in Resources : Look(r) \/ \E g \in Gens : Handle(g, r)
    BY DEF Next, Reconcile, Environment, Sync, Fetch, Suspended, InvalidMail, FirstSeen, GiveUp, HubPass, Build,
           Rebuild, Keep, Probes, Count, BreakOff, Update, UpdateFails, UserEdit, Drain, ThreeMinutes, OneHour,
           Restart, NewProcess, vars
  <2> QED BY <2>1, <2>2, <2>3
<1>3. Silent => marked = {}
  OBVIOUS
<1> HIDE DEF Silent
<1> QED BY <1>1, <1>2, <1>3, Invariance, FactoryDisciplineHolds, PTL DEF Spec, MutedIsSilent

----------------------------------------------------------------------------
(* What status.healthy shows *)

(* Only an update over the version it read writes status.healthy.          *)
LEMMA HealthyWritten ==
  ASSUME TypeOK, ReadInv, [Next]_vars, NEW c \in CRs, api[c] # Absent, api'[c] # Absent
  PROVE  \/ api'[c].healthy = api[c].healthy
         \/ task.cr = c /\ task.latest /\ api'[c].healthy = task.obj.healthy
<1>1. CASE Update
  <2>1. PICK x \in CRs : task.cr = x /\ task.latest
    BY <1>1 DEF Update, TypeOK, Idle
  <2>2. api' = api \/ api' = [api EXCEPT ![x] = [task.obj EXCEPT !.spec = api[x].spec]]
    BY <1>1, <2>1 DEF Update, Updated, Store
  <2>3. [task.obj EXCEPT !.spec = api[x].spec].healthy = task.obj.healthy
    BY <1>1, TaskType DEF Update, Object
  <2> QED BY <2>1, <2>2, <2>3 DEF TypeOK
<1>2. ASSUME NEW x \in CRs, UserEdit(x) PROVE api'[c].healthy = api[c].healthy
  <2>1. CASE x # c
    BY <1>2, <2>1 DEF UserEdit, Store, TypeOK
  <2>2. CASE x = c
    <3>1. PICK s \in Specs : api' = [api EXCEPT ![c] = [api[c] EXCEPT !.spec = s]]
      BY <1>2, <2>2 DEF UserEdit, Store, TypeOK
    <3>2. api[c] \in Object
      BY DEF TypeOK, Objects
    <3> QED BY <3>1, <3>2 DEF TypeOK, Object
  <2> QED BY <2>1, <2>2
<1>3. UNCHANGED api \/ Update \/ \E x \in CRs : UserEdit(x)
  BY Steps DEF Sync, Fetch, Suspended, InvalidMail, UpdateFails, Restart, GoesOn
<1> QED BY <1>1, <1>2, <1>3

(* What a reconcile whose update can succeed has to say of health.         *)
LEMMA TaskHealthy ==
  ASSUME TypeOK, ReadInv, [Next]_vars, NEW c \in CRs, task'.cr = c, task'.latest
  PROVE  \/ task'.obj.healthy = api[c].healthy /\ api' = api
         \/ /\ task.cr = c /\ task.latest
            /\ \/ task'.obj.healthy = task.obj.healthy
               \/ task'.obj.healthy = (marked \cap Counted = {})
<1> DEFINE P == \/ task'.obj.healthy = api[c].healthy /\ api' = api
                \/ /\ task.cr = c /\ task.latest
                   /\ \/ task'.obj.healthy = task.obj.healthy
                      \/ task'.obj.healthy = (marked \cap Counted = {})
<1>1. task' # Idle
  BY DEF Idle
<1>2. ASSUME NEW x \in CRs, Fetch(x) PROVE P
  BY <1>1, <1>2 DEF Fetch, ReadInv
<1>3. ASSUME GoesOn PROVE P
  <2>1. PICK o \in Object, r \in BOOLEAN : Onward(o, r)
    BY <1>3 DEF GoesOn
  <2>2. task'.cr = task.cr /\ task'.obj = o /\ task'.latest = task.latest
    BY <1>3, <2>1, OnwardTask DEF GoesOn
  <2>3. o.healthy = task.obj.healthy \/ o.healthy = (marked \cap Counted = {})
    BY <2>1 DEF Onward
  <2> QED BY <2>2, <2>3
<1>4. ASSUME UNCHANGED task PROVE P
  BY <1>4
<1>5. ASSUME NEW x \in CRs, UserEdit(x) PROVE P
  <2>1. task'.obj = task.obj /\ task'.cr = task.cr /\ (task'.latest => task.latest)
    BY <1>5 DEF UserEdit, Outdate, TypeOK, Idle
  <2>2. task.cr = c /\ task.latest /\ task'.obj.healthy = task.obj.healthy
    BY <2>1
  <2> QED BY <2>2
<1> HIDE DEF P
<1>6. UNCHANGED task \/ GoesOn \/ task' = Idle \/ \E x \in CRs : Fetch(x) \/ UserEdit(x)
  BY Steps DEF Sync, Suspended, InvalidMail, Update, Updated, UpdateFails, FailReconcile, Restart, NewProcess, ctlVars
<1>7. P
  BY <1>1, <1>2, <1>3, <1>4, <1>5, <1>6
<1> QED BY <1>7 DEF P

(* A marker that status.healthy accounts for is accounted for as long as   *)
(* it is there, whatever edits, stale copies, conflicts and other CRs do.  *)
THEOREM FailureStaysShownHolds == Spec => FailureStaysShown
<1> DEFINE Keeps(c, r) == Shown(c, r) /\ r \in marked' /\ api'[c] # Absent
<1>1. TypeOK /\ ReadInv /\ [Next]_vars => [\A c \in CRs, r \in Counted : Keeps(c, r) => Shown(c, r)']_vars
  <2> SUFFICES ASSUME TypeOK, ReadInv, [Next]_vars, NEW c \in CRs, NEW r \in Counted, Keeps(c, r)
               PROVE  Shown(c, r)'
    BY DEF vars
  <2>1. ~ (marked \cap Counted = {}) /\ r \in marked' \cap Counted
    BY DEF Shown
  <2>2. api[c] # Absent /\ api'[c] # Absent /\ ~ api[c].healthy /\ (task.cr = c /\ task.latest => ~ task.obj.healthy)
    BY DEF Shown
  <2>3. ~ api'[c].healthy
    BY <2>2, HealthyWritten
  <2>4. ASSUME task'.cr = c, task'.latest PROVE ~ task'.obj.healthy
    BY <2>1, <2>2, <2>4, TaskHealthy
  <2> QED BY <2>1, <2>2, <2>3, <2>4 DEF Shown
<1> QED BY <1>1, Invariance, PTL DEF Spec, FailureStaysShown

(* And a CR that is shown healthy while no counted marker is there stays   *)
(* so: no older count is written after it.                                 *)
THEOREM RecoveryStaysShownHolds == Spec => RecoveryStaysShown
<1> DEFINE Well(c) == AllWell(c) /\ (marked \cap Counted = {})' /\ api'[c] # Absent
<1>1. TypeOK /\ ReadInv /\ [Next]_vars => [\A c \in CRs : Well(c) => AllWell(c)']_vars
  <2> SUFFICES ASSUME TypeOK, ReadInv, [Next]_vars, NEW c \in CRs, Well(c) PROVE AllWell(c)'
    BY DEF vars
  <2>1. marked \cap Counted = {} /\ marked' \cap Counted = {}
    BY DEF AllWell
  <2>2. api[c] # Absent /\ api'[c] # Absent /\ api[c].healthy /\ (task.cr = c /\ task.latest => task.obj.healthy)
    BY DEF AllWell
  <2>3. api'[c].healthy
    BY <2>2, HealthyWritten
  <2>4. ASSUME task'.cr = c, task'.latest PROVE task'.obj.healthy
    BY <2>1, <2>2, <2>4, TaskHealthy
  <2> QED BY <2>1, <2>2, <2>3, <2>4 DEF AllWell
<1> QED BY <1>1, Invariance, PTL DEF Spec, RecoveryStaysShown
=============================================================================
