# A TLA+ development of ocphealthcheckinf

`ocphealthcheckinf` is a Kubernetes operator that watches an OpenShift cluster
and mails alerts. A custom resource `OcpHealthCheck` (a CR, below) switches the
checks on; for every failing resource the operator writes a *marker file* and
mails an alert, and when the resource recovers it mails a resolution and removes
the file. This directory holds TLA+ models of the operator, their model-checking
runs and machine-checked proofs about them. Paths below are relative to the
repository; `util.go` is `internal/util/util.go`, the *controller* is
`internal/controller/ocphealthcheck_controller.go`.

## The system

| Part | State | Operations | Talks to |
|---|---|---|---|
| Alert markers and mail (`util.go:208-284,410-421`) | files named after a resource, empty or `sent` | `SendEmail`, `SendEmailAlert`, `SendEmailRecoveredAlert` | called by every check; sendmail |
| Reconciler (controller) | `factory`, `stopChan`, `InformerTimer`, `podCleaner`, a mutex | `Reconcile` with its deferred status update, `SetupWithManager` | API server through the manager's cache; opens informers; reads the marker directory |
| Ready condition (`util.go:141-187`, `api/v1`) | `status.conditions`, `status.healthy` | `GetReadyCondition`, `SetReadyCondition` | written by the reconciler only |
| Pod checks (`util.go:815-973,1131-1204`) | none of their own | `OnPodUpdate`, `OnPodDelete`, `PodCheck`, `CleanUpRunningPods` | pod informer, marker files, nodes, pools, policies |
| Nodes and pools (`util.go:312-369,691-812`) | none | `OnNodeUpdate`, `OnMCPUpdate`, `CheckMCPINProgress` | informers, marker files; gates of the other checks |
| Policies (`util.go:559-688`) | none | `OnPolicyUpdate`, `OnPolicyDelete`, `IsChildPolicyNamespace` | informers, marker files; a gate of pod and CSV checks |
| Operators and backends (`util.go:423-552,1011-1129`) | none | one check per kind | informers or probes, marker files; nodes and pools as gates |
| Informers (controller, `:315-399,422-490`) | what they listed, their queues | list, watch, list again, hand out | opened and closed by the reconciler; call the checks |
| Hub pass (`internal/hubutil`, controller `:266-307`) | none | the same checks, as one pass over lists, and a few more | called by `Reconcile` on a hub; ends in `status.healthy` |
| Manager start (`cmd/main.go`) | the files directory | `CreateDirs` | starts the controller |

The pieces meet in three places. The reconciler *opens* a generation of informers
whose event handlers capture the spec of that moment; the handlers and the
reconciler share the *marker files*, without any lock; and the reconciler turns
the marker directory into `status.healthy`, which it writes into the API server,
whose watch wakes the reconciler again.

What is hard here:

* goroutines of several informer generations, of the hourly cleanup and of a hub
  pass work on the same marker files at once (`util.go:225-281`);
* a call may fail between its steps, and the process may die at any step, with
  all markers (the deployment mounts no volume). controller-runtime recovers a
  panic of `Reconcile` itself; one in a handler of an informer or in a goroutine
  of its own (a tombstone at `util.go:372`, a catalog source without a connection
  state at `util.go:519`, a restarted container without a last state at
  `util.go:881`) is such a death;
* the spec, the cached object and the cluster's state are all read before they
  are used, sometimes minutes before; a hub pass judges lists that are old by then;
* rebuilding the informers every three minutes loses the notifications in the gap,
  while a handler of the closed informer may still finish;
* a closed gate (a pool update, a cordoned node) drops what it is told, and an
  early return leaves the rest of a list unlooked at, silently;
* everything the reconciler does later depends on it being queued again.

`PROJECT.json` lists each of these hazards at its line, with the properties that
would notice.

## The modules

`AlertLedger` is the abstract specification of the alerting: conditions, the
verdict in progress and the last mail. Alerts and resolutions of a condition
alternate, a verdict that adds nothing is suppressed, a verdict may be lost when
calls may fail, and a restart forgets.

`AlertMarker` is `SendEmail`, `SendEmailAlert` and `SendEmailRecoveredAlert` one
system call at a time. `step[p]` is the place of goroutine `p` in the call;
`AlertStat`, `AlertRead`, `Truncate`, `Open`, `Write`, `AlertMail` follow
`util.go:224-263`, `RecoverStat`, `RecoverRead`, `RecoverMail`, `Remove` follow
`util.go:265-284`. `os.WriteFile` is two steps, since it empties the file before
it writes. A goroutine that has a file open when another removes it writes into
the removed file (`orphan`). `Faults` is the set of calls that may fail. The
second `writeFile` of `SendEmailAlert` (after the truncate) is the same code as
the first one, and shares its steps.

`Reconciler` is the controller with its surroundings: the CRs in the API server,
the manager's cache of them, the work queue, the reconcile in progress (`task`),
the informer generations, timers, and the marker directory (`marked`). The ways
through `Reconcile` begin with `Suspended`, `InvalidMail`, `FirstSeen`, `GiveUp`,
`HubPass`, `Build`, `Rebuild` or `Keep`. The looks that `Reconcile` makes itself are
steps of their own (`Look`), between the start of a pass and the count of the
directory (`Probes` where the code does not count, `Count` where it does, `BreakOff`
where a panic is recovered), and handlers of any generation may run in between; the
deferred `Status().Update` is one more step (`Update`, `UpdateFails`) because the CR
may change before it. A generation is opened by `Build` or `Rebuild`, closed by the
next `Rebuild`, and may still hand out events until its goroutines end (`Drain`).

What a check finds is *not* decided here: `Handle` and `Look` may alert, resolve or
say nothing, for any resource and at any time, when the spec they go by mails. A
check judges an object that was queued or listed earlier, often gives no verdict,
and on a hub may undo what it has just done; the other modules say when. So what
this module says of `status.healthy` is relative to the markers, and holds whatever
the checks do.

`PodAlerts` is the way from a container's status to its marker. Kubelet moves
statuses and notifies the informer. A handler takes a notification (`Take`), which
is when its gates are looked up (`gate`: open, a pool in progress, a node that is
not ready, a CGU), and judges the notification's object later (`OnPodUpdate`,
`OnPodDelete`): meanwhile the reconciler may close the informer (`Rebuild`), and the
verdict of the closed one (`hand["closed"]`) comes after those of the next.
`CleanUpRunningPods` is several steps (`SweepList`, `SweepFiles`, `SweepFile`,
`SweepEnd`), as it lists pods first, then files, and handles each file in its own
goroutine; `SweepPanic` is its nil dereference, and `Die` any other death of the
process, after which `Start` begins without markers. `PodCheck` is the operator of
the same name, in the two halves the code has.

`Checks` holds the verdicts that the handlers of a spoke and the passes of a hub
share: what one look at a node (`OnNode`), at the conditions of a pool
(`PoolConditions`) or at a policy (`OnPolicy`) does to the set of markers. It has
no state. A pool's conditions come in the order in which they last changed, so
that order is an argument.

`SpokeChecks` is one resource of any kind but pods on its way to its markers: what
the informer has listed (`store`), whether its watch is up, what the watch missed,
the notifications that wait (`inbox`) and those in hand, of the open informer and
of the one before it (`hand`). `List`, `WatchBreaks` and `Relist` are client-go as
the controller uses it: a list delivers additions, which no handler takes, and an
object that vanished while the watch was down is delivered as a tombstone, on
which `ConvertUnStructureToStructured` panics; a catalog source without a connection
state is a nil pointer for its handler (`Panic`). Either way, or for a reason outside
this module, the process dies with its markers (`Die`) and is started again
(`Start`). `Take` looks the gates up
and drops or takes a notification, `Judge` applies the handler. `Rebuild` is the
reconciler's. `Probe` is the two kinds that no informer watches: Trident LIFs and
EVNFM. A Trident backend without an address is probed at the address of the backend
that came before it, or at none, which fails; `Probed` has either verdict.

`HubPass` is the pass over thirteen kinds, in the order of `Reconcile`: for each
kind a gate where there is one (`Gate`), a list (`List`, one per node for pods,
whose goroutines are the `Lanes`), and a look at each item (`Look`), with the
early returns that leave the rest of a list (`Stops`). `Report` reads
`status.healthy` off the markers that are in the counted directory. The cluster
moves between any two of these steps. `steady` and `cut` are history variables:
what has not changed since the pass began, and whether anything cut it short.
A catalog source without a connection state ends the pass (`CatalogPanic`, recovered);
a recovering pod without a last state that has a marker may end the process in the
cleanup (`CleanupPanic`), and so may anything else (`Die`).

**How they fit together.** `AlertMarker` says that a `SendEmail` puts its verdict in
the file; `PodAlerts`, `SpokeChecks` and `HubPass` say which verdicts a resource
gets, and so which markers there are; `Reconciler` says when the handlers run, with
which spec, and what `status.healthy` makes of the markers there are, for any verdicts
at all, theirs among them. The composition is by these interfaces, and not a
checked refinement.

`AlertMarker_proofs`, `Reconciler_proofs`, `PodAlerts_proofs`, `Checks_proofs`,
`SpokeChecks_proofs` and `HubPass_proofs` hold the theorems. The modules `MC...` give the constants
values.

A definition whose name ends in `_` and a word, such as `Write_IgnoreError`, is a
*mutant*: the definition with a plausible mistake. Each property below is violated
when its mutant replaces the definition, so the property does say something about
the code.

## The runs

| Run | Bounds | What it shows |
|---|---|---|
| `marker_serial` | 3 files, 2 goroutines, of which one serves two files; every call but remove may fail; 1 restart | `SettledAgreement`: between calls the file reads `sent` exactly when the last mail was an alert. `LedgerSafe`, `Ledger`: `AlertLedger` is implemented, its liveness included |
| `marker_live` | 3 goroutines on 1 file, no faults, 1 restart | `MarkerTruth`: a `sent` marker never hides that the last mail was a resolution, save for the step or two until it does not. `UnfinishedHasWriter`: none is left half written. `PersistentFaultAlerted` and `PersistentRecoveryClears`: races cost duplicates at worst, the end is right |
| `reconciler_safety` | 2 CRs, every kind of spec, 2 generations, a counted and a probed resource with arbitrary verdicts, 2 edits, conflicts, API errors and passes that break off, 1 restart | `FactoryDiscipline` (no leaked generation), `NothingForgotten` (no CR leaves the queue for good), `StatusIsCurrent` (no status for another spec). `FailureStaysShown`, `RecoveryStaysShown`: a `status.healthy` that agrees with the marker directory is not turned by a stale copy, a muted or broken-off pass, markers that do not count or another CR |
| `reconciler_live` | 1 CR that mails, is muted or is a hub, 1 counted resource, 2 generations, 2 edits, conflicts, 1 restart | `SpecTakesEffect`, `ReadyInTheEnd`; `FailuresShow`, `RecoveryShows`: `status.healthy` follows a marker that stays and a directory that stays empty. `SpecStays`: a setting in effect is not lost to a stale cache, a rebuild or a restart. `MutedIsSilent`: nobody who never asked for mail gets any |
| `pods_live` | 1 pod, 1 container, 1 notification that waits and 2 in hand; gates: open, a pool in progress; exits: errors | `OneVerdict`; `FailureStaysAlerted`; `FirstStartResolved`. `LookAlerts`: one look at a failure is enough. `AlertStands`: while nothing else is known of the container, only the end of the failure, a deletion or the death of the process resolves it. `NoFalseAlarm`: what was never broken never had a marker |
| `spoke_live` | 1 resource of each of 11 kinds, 1 waiting notification and 2 in hand | `BrokenIsAlerted` and `FineIsResolved`: what comes to rest, and is told of again, gets its markers right whatever rebuilds, broken watches, tombstones, gates and late verdicts did. `SilenceIsAnnounced`: a pool update that silences the other checks for ever has its own marker. `LookSettles`: one look at the current status is enough. `SettledStays`: only the resource itself or the death of the process unsettles its markers. `AnnouncedStays`: the marker of a pool update stays while the update and the process last. `NoFalseAlarm`: what was never in trouble never had a marker; a backend without an address counts as trouble |
| `hub_pass` | 2 resources, both of one kind, for each of the 12 kinds, and mixed pairs; 2 nodes with pods; one pod's name part of the other's | `ReportIsRight`: at the end of a pass that nothing cut short, everything steady that fails has a marker and nothing steady that is well has one. `AlertStands`, `SilenceStands`: even a pass that was cut short resolves nothing that fails and alerts of nothing that is well, unless it works off a list from another time; the death of the process takes all markers |

Five more runs show a disagreement between the code and what it says of itself;
each checks one property and is expected to find it violated. The findings in
`PROJECT.json` quote the lines.

| Run | Property | What happens |
|---|---|---|
| `suspend` | `SuspendStopsChecks` | the informers outlive the suspension |
| `running_again` | `RunningAgainResolved` | the half hour since the last restart is never up, because the time does not parse |
| `cgu` | `QuietDuringCGU` | the namespaces a CGU affects are collected and dropped |
| `hub_pool` | `DegradedPoolShows` | a hub's pool resolves the alert of its own degradation with `Updating=False`, and `healthy` is true |
| `deleted_policy` | `DeletedPolicyResolved` | the deletion of a root policy resolves a marker no check ever writes, and the real one stays |

Some behaviours met on the way have no run of their own, because they are the
same mistake elsewhere or because nothing in the code promises otherwise. They
are hazards in `PROJECT.json`, and premises of the properties above:

* a muted CR makes no markers and reports `healthy` whatever fails, and markers of
  Trident LIFs and the HPE backend are outside the directory that is counted;
* a CR that becomes a hub leaves the informers of its spoke days behind, as a
  suspended one does;
* a pod deleted behind a closed gate, or between two informers, keeps its marker;
* what failed before an informer listed it is alerted only once it changes again
  (`ToldAgain`), since additions have no handler;
* a lost node (`Ready=Unknown`) is not reported, while it silences the cluster
  operators as an affected node;
* a tuned profile whose healthy condition comes last is masked: each look alerts
  and resolves it;
* a Trident backend without an address gets the verdict of the address before it, or
  is reported as unreachable;
* an alert goes with the process: it is mailed again once something tells of the
  resource again, and a resolution of the old one is never mailed;
* a policy violated for six hours is no longer looked at, and keeps its marker.

**Why the bounds are enough.** A marker's content is one of three, and two
goroutines already give every ordered pair of steps; the third one shows that a
race of two is not repaired, or made worse, by another. Markers of different files
share nothing, so the serial run has three only to let one goroutine go from one
file to another. Two CRs are needed for one to rebuild the other's informers.
Two generations are one open and one that is still draining; a rebuild that would
need a third waits for it. Two edits give a
CR that is created and then changed under a reconcile; one restart gives a
process that finds CRs with an old status. A second container would share
nothing with the first except the notification. In `pods_live` one notification that
waits and one in the hand of each informer are three different statuses, and the list
of a cleanup a fourth, none of which need be the current one. Its handlers find the
gates open or a pool in progress: the other two reasons to drop a notification have
the same effect there, and `cgu` and `running_again` use them. Its containers exit
with errors only; one that ends with 0 is judged like one that runs, unless it was
restarted, and `cgu` and `running_again` have that exit. In `spoke_live` one that waits
(`MaxInbox`) and one in the hand of each informer are three different statuses
at once, none of which need be the current one. In `hub_pass` two items are one
that is looked at and one that an early return leaves out, or a pod that is
matched by another's name; checks of different kinds meet only in what they find
of the nodes, which every pair has, and in what `Report` counts, for which there
are the mixed pairs (a node and a CSV, a pod and the HPE backend). `NodeStatuses` and
`PoolStatuses` are cut to those that the branches of `OnNode` and `PoolConditions` tell apart. `edits` and `restarts` are
the only counters, bounded by `MaxEdits` and `MaxRestarts`.

`CHECK_DEADLOCK FALSE` appears in the runs of `Reconciler`: with every CR
suspended or deleted, the edits used up and nothing to watch, the system really is
at rest. **Symmetry** (of CRs and of generations) is used in `reconciler_safety`
only, which has no liveness property.

## Fairness

* `AlertMarker!FairSpec`: a goroutine inside a call goes on (weak fairness of
  `Advance`). Nothing makes a check run; the liveness properties assume verdicts
  that keep coming.
* `Reconciler!Fairness`: the watch delivers, workers run, time passes, goroutines
  of a closed generation end, a pass gets to its count: weak fairness. The work queue
  serves each CR in turn (`Fetch`, strong). Failures do not go on for ever, because
  the controller retries with back-off for as long as there are any: strong fairness
  of `Build` or `Rebuild`, of `HubPass`, of `Count`, of `Update`, and of an `Update`
  that reports success. Nothing makes a check run or decides its verdict.
* `PodAlerts!FairSpec`: notifications are handed out within milliseconds and
  informers are replaced every three minutes, so neither notifications in general
  (`Take`) nor those of broken containers (`TakesBroken`) are lost every time, and
  what is in hand is judged (`Handle`); the hourly sweep goes on; a process that died
  is started; a broken container keeps changing its pod's status, as back-off,
  restarts and repeated pulls do (`Retry`), at times when no other notification of it
  is on its way.
* `SpokeChecks!FairSpec`: informers list and list again, handlers run, probes are
  made, a process that died is started: weak fairness. That a resource is told of again is no fairness but the
  premise `ToldAgain` of each property, since the code does not see to it: nodes
  have heartbeats, other kinds may or may not change again.
* `HubPass` has safety properties only, and needs none.

## What is proved

`tlapm` checks every theorem from the definitions and the named assumptions on the
constants, for any number of files, goroutines, CRs, specs, generations, resources,
pods, edits and restarts.

* `AlertMarker_proofs!Typing`, and then three invariants on top of it.
  `MarkerTruthHolds` assumes that removing a file does not fail, and nothing of
  the other calls; the invariant is inductive given the types, since a step that
  ends one of its disjuncts makes another true. `UnfinishedHasWriterHolds` assumes
  that no call fails.
  `SettledAgreementHolds` assumes that each file has one goroutine (`Serial`).
  It is not inductive: it speaks of files without a call. `SerialInv` adds what
  each step knows of its file (between the stat and the read the agreement still
  holds, after the truncate the file is not `sent`, after the mail of a resolution
  it still is), and that is inductive.
* `LedgerRefined`: under the same assumption `AlertMarker` implements
  `AlertLedger`'s safety part. The mapping makes the verdict of a call *pending*
  until the step that mails or gives up; every other step is a stutter.
* `Reconciler_proofs!Typing`, `NothingForgottenHolds` and `StatusIsCurrentHolds`
  rest on the inductive invariant `TypeOK /\ ReadInv`. `ReadInv` says what the
  cache and the reconcile in progress know of the API server: a fresh cache
  entry equals the stored object, a reconcile that read the latest version still
  agrees with it, one that did not has a watch event or a queue entry to come, and
  an update without a requeue is the first status the CR gets. The last part is
  what "First Seen" lives on.
* `FactoryDisciplineHolds` is inductive given the types.
* `PodAlerts_proofs!Typing`, which includes that no handler has a pod on its way out
  in hand, and `OneVerdictHolds`, from a lemma about `PodCheck`'s halves on every
  container status. The lemma rests on `PodLastRestartTimerUp` being false: were its
  time layout corrected, a container that fails again long after its last failure
  would be alerted and resolved in one call.
* `HubPass_proofs!Typing` and `ReportIsRightHolds`, for any resources, kinds, nodes
  and name clashes. `ReportIsRight` speaks of the end of a pass; `PassInv` says it
  of every moment, in four parts: markers have the names that checks of their
  kind write (`NamesInv`); what is left to look at is of the kind at hand
  (`LeftInv`); what was listed of a steady item is its status (`ListedInv`); and a
  steady item that an uncut pass has got past, of whatever kind, has its markers
  right (`LookedRight`). The last part survives the later kinds because
  a check writes markers of its own items only, or of pods that `Matches` names;
  and it survives the cleanup because that looks at steady pods that are well.
  `HealthyIsEarnedHolds` draws from it what such a pass says in `status.healthy`,
  with the HPE backend's marker left out of the count as in the code.
* `SpokeChecks_proofs!Typing`, which includes that an informer whose watch is up
  has the resource if there is one, that one that missed something has listed
  before, and that none has listed while there is no process. `OnNodeAnswers`: a look
  at a node in trouble leaves the marker of that
  trouble and a look at a well node leaves none, for every node status and
  whatever markers there were. `BrokenIsAlerted` and `FineIsResolved` come down to
  it for nodes.

**The safety half of liveness.** The liveness properties say that something is
reached and kept in the end. That it is *reached* needs fairness; that it is *kept*
does not, and is proved. Each is an action property of the form: if this holds and
its cause has not gone away, it holds after the next step.

* `LookSettlesHolds` and `SettledStaysHolds` (`SpokeChecks_proofs`) are what
  `BrokenIsAlerted` and `FineIsResolved` rest on. A state is `Settled` if the
  resource's markers are right and everything that waits or is in hand is its
  current status (`Current`). A look at a node, pool, policy or any other kind makes
  it so (`JudgedAnswers`, `ProbeAnswers`), and every action keeps it
  (`CurrentStays`, `AnsweredNext`). Both use `KindMarkers`, that the only markers are
  those which the checks of the resource's kind can make. A pool's look in the middle
  of its update is why `Answered` says nothing of a pool that is neither broken nor
  fine. `AnnouncedStaysHolds` is the same for `SilenceIsAnnounced`: once the update
  that silences the other checks has its marker, no look at the pool takes it back.
* `LookAlertsHolds` and `AlertStandsHolds` (`PodAlerts_proofs`) are those of
  `FailureStaysAlerted`. `KnownSick` is inductive as long as the container fails or
  runs after a failure: whatever notification or sweep entry is made copies a status
  that is sick. The excluded steps are the ways in which the code really does lose an
  alert: the deletion of a pod whose name is matched, and the death of the process.
  An older verdict that is still in some hand is a third one. `KnownSick` says that
  there is none, for the open and the closed informer alike, and the theorem that none
  comes up.
* `SpecStaysHolds`, `FailureStaysShownHolds` and `RecoveryStaysShownHolds`
  (`Reconciler_proofs`) are those of `SpecTakesEffect`, `FailuresShow` and
  `RecoveryShows`. `InEffect` speaks of all places that hold a copy of the spec: the
  API server, the cache, the reconcile under way and every generation that is not
  free. The two about `status.healthy` are about the marker directory, for arbitrary
  verdicts of the checks. They need `ReadInv`: a reconcile whose copy is not
  the latest one cannot write, so only one that is the latest has to agree.
* `MutedIsSilentHolds` and the two theorems `NoFalseAlarmHolds` have the form
  `[]P => []Q`; under `[]P` the conclusion follows from an invariant about everything
  on its way: nothing waits, is listed or is in hand that could give an alert.
* `HubPass_proofs!AlertStandsHolds` and `SilenceStandsHolds` are about passes that
  were cut short, by a recovered panic too, of which `ReportIsRight` says nothing. They
  rest on `PassInv` and on
  `ListedTyped`, that what is about to be looked at was listed with a status of its
  kind; the lemmas `SeenFailing` and `SeenWell` go through every kind and every early
  return.

**What lets the models be put together.** `CallDecidesHolds`: with serial calls and
no failing system call, `SendEmailAlert` returns with the file reading `sent` and an
alert as the last mail, `SendEmailRecoveredAlert` with no file and no open alert; and
`CallMindsItsOwnHolds`: a call touches no file but its own. So the modules of the
checks may take a `SendEmail` for one step that adds a marker or removes it. With
overlapping calls that is not so, which is what `marker_live` is for. `CallDecides`
is not in a run: the serial run is about failing calls, with which it does not hold.

**The operators.** `Checks_proofs` says of the verdicts, for every marker directory:
`PoolOrderOnSpoke`, that the order of a pool's conditions makes no difference on a
spoke unless the look ends early; `DegradedHiddenOnHub`, that on a hub it does, which
is why `hub_pool` finds what it finds; `SecondLookIsIdle`, that a second look at the
same status of a node or policy changes nothing.

Only model-checked: that something happens in the end, since fairness and ENABLED
are beyond this prover. These are `PersistentFaultAlerted`,
`PersistentRecoveryClears`, `SpecTakesEffect`, `ReadyInTheEnd`, `FailuresShow`,
`RecoveryShows`, `FailureStaysAlerted`, `FirstStartResolved`, `BrokenIsAlerted`,
`FineIsResolved`, `SilenceIsAnnounced` and the liveness of `Ledger`. Every other
property of a passing run is a theorem. No module has a RECURSIVE operator or needs
an induction over data.

## What is left out

* The text of mails, host names, the sendmail command and its outcome. A mail that
  sendmail refuses counts as sent, as it does for the program.
* Clock time. Three minutes, one hour, half an hour and six hours are flags or
  steps that may happen; the rate limiter's back-off is just "later".
* `checkInterval`, which nothing reads, and `cluster`, which is text.
* Resources of one name and different kinds, which share `.<name>.txt`.
* A pool without a node selector, which the check of a pool takes for granted, and
  other fields the API server always fills in.
* What a failing `os.ReadDir` of the marker directory does to `status.healthy`.
* A node that is being deleted, which both versions of the check skip.
* Code that nothing calls: `OnPodAdd`, `OnPolicyAdd`, `OnOSIPSetUpdate`, the
  spoke's `OnManagedClusterUpdate`, the hub's `OnTunedProfileUpdate`, and the part
  of the spoke's `OnMCPUpdate` that is for hubs.
* A managed cluster has a marker for each condition; in `HubPass` an item is one
  condition.
* Leader election, certificates, metrics and generated code.

## Not modelled yet

What would add most to the models:

1. A refinement that shows the steps of `HubPass`, `PodAlerts` and `SpokeChecks` to be
   `Look` and `Handle` steps of `Reconciler`.
2. A composition of `Reconciler` and `AlertMarker`, with the calls of several
   generations taken apart, so that `status.healthy` meets half-written markers.
3. `PodAlerts` with two pods whose names match and an init container.
4. `SpokeChecks` with two resources that share a marker.

## How to run

`tlc -config MCReconciler_safety.cfg MCReconciler` for a run, `tlapm
Reconciler_proofs.tla` for a proof module. The longest runs take two to three minutes.
