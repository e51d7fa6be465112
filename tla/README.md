# Verification of the chainplane operator

chainplane is a Kubernetes operator that runs blockchain nodes. A user
describes a node as a `ChainInstance`; the operator keeps a StatefulSet with
one pod (`x-0`), its Services and its configuration, watches the node's health
and block height, upgrades its image, restarts it when it stays unhealthy, and
can replace its pod blue/green when Prometheus metrics say so.

This directory holds TLA+ modules of the operator, TLC configurations
that check them on small instances, and proofs that TLAPS checks for every
value of the constants. `PROJECT.json` lists components, runs, mutants, the
map from definitions to source lines, findings, hazards and theorems.

## Inventory

| Component | State it keeps | Operations | Talks to |
|---|---|---|---|
| ChainInstanceReconciler (`internal/controller/blockchainnode_controller.go`, `reconcile_*.go`) | child resources, status, tracking annotations on the ChainInstance | one cycle every reconcile interval: ConfigMap, RPC secret, StatefulSet, Services, PodMonitor, upgrade, status | API server, the node's RPC, a public chain tip |
| Image upgrade (`upgrade.go`) | `last-image`, `last-client`, `previous-image` on the StatefulSet, condition `Upgrading` | start a rolling restart, verify it, roll back on CrashLoopBackOff | StatefulSet controller, through template and status |
| Status, stall detection, auto-restart (`reconcile_health.go`) | `degraded-since`, `sync-stall-since`, `last-sync-block`, `status.phase` | probe, verdict, restart, patch | the chain adapter, the pod |
| NodeHealthReconciler (`nodehealth_controller.go`) | none of its own | evaluate triggers, advance a replacement | ReplacementManager, through annotations |
| ReplacementManager (`internal/health/replacement.go`) | four `replacement-*` annotations, the pod `x-0-replacement` | start, monitor, complete, roll back | TrafficManager, pods |
| LabelBasedTrafficManager (`internal/health/traffic.go`) | the `ready` label of pods | drain, switch, validate | Services, through their selectors |
| Trigger evaluation (`internal/health/evaluator.go`, `trigger.go`, `metric.go`) | none | CheckAll over Prometheus queries | Prometheus |
| Chain tip (`chain_tip.go`) | a cached HTTP client | fetch the public height | public RPCs |
| ChainVersionCatalogReconciler, registry clients, version order (`internal/registry`) | catalogue status | list tags with paging, pick the newest | image registries |
| Snapshot bootstrap (`internal/snapshot`, `reconcile_snapshot.go`) and the start scripts of the adapters | files on the node's volume | download, verify, unpack, in an init container or before the node | the volume |
| Admission webhook (`api/v1alpha2/chaininstance_webhook.go`) | none | default, validate | API server |
| Chain adapters (`internal/adapters`, about 110 chains in a few protocol families) | none | render command, args and config; interpret health RPCs | the node's RPC |
| Dashboard, metrics, command-line tools | views only | read | API server |

What is hard here is not the data but the writers. Two reconcilers, the
kubelet, the StatefulSet controller, the garbage collector and the user write
the same few objects; every multi-step workflow keeps its progress in
annotations, between API calls that may fail, be refused for a conflict, or be
the last thing the operator does before it stops; reads come from a cache; and
timeouts are timestamps in annotations, looked at when a reconcile happens to
come by. `PROJECT.json` lists these hazards at their lines.

What makes each modelled component correct:

* replacement: the old pod is not removed before the new one takes over, an
  interrupted replacement leaves nothing that a later reconcile does not know
  of, and every phase is left again;
* upgrade: a started upgrade is watched until its outcome is known, it is
  closed only when the new pod is ready, a crash loop is rolled back, and not
  to the crashing image;
* status: a pod is restarted only for a full timeout of uninterrupted
  degradation, a stall is called only at a height the node really stood at, and
  neither a degradation nor a frozen height goes unnoticed;
* main loop, webhook, children and adapters: nothing runs without an image, the
  user's Secret is never overwritten, every probe and scrape goes to a port that
  something in the pod opens and no two containers open the same one, and the
  children, the pod and the status settle on the spec;
* bootstrap: whichever of the faults that its script withstands interrupts it,
  the node never starts on an unfinished or wrong file, synced data is kept, and
  the node starts in the end;
* health checks and chain tip: synced, degraded, stalled and lagging mean what
  they say although the node moves on between the calls of a check and each call
  may fail;
* triggers: a crash loop is one of this window, and a pod that stays above a
  threshold is noticed.

## Modules

| Module | Models | Used by |
|---|---|---|
| `Replacement` | NodeHealthReconciler, ReplacementManager, LabelBasedTrafficManager | runs `Replacement*` |
| `ReplacementProofs` | its theorems | TLAPS |
| `Upgrade`, `MCUpgrade` | ensureStatefulSet's image and reconcileUpgrade; `MCUpgrade` gives the adapters' default images | runs `Upgrade*` |
| `UpgradeProofs` | its theorems | TLAPS |
| `NodeStatus` | refreshStatus, detectHeightStall, restartIfDegradedTooLong, clearDegradedTracking | runs `NodeStatus*` |
| `NodeStatusProofs` | its theorems | TLAPS |
| `Adapters`, `EvmAdapters`, `NativeAdapters` | what each of about 110 adapters contributes to a pod, as records | `Provisioning` |
| `Provisioning`, `MCProvisioning` | main loop, child resources, webhook, and the pod that results | run `Provisioning` |
| `ProvisioningProofs` | its theorems, and the lemmas about each adapter | TLAPS |
| `BootScripts` | the start and restore scripts, as instruction sequences | `Bootstrap` |
| `Bootstrap`, `MCBootstrap` | a pod that runs such a script under faults; implements `Volume` | runs `Bootstrap`, `BootstrapCosmos` |
| `Volume` | abstract specification of a bootstrap | `Bootstrap` |
| `BootstrapProofs` | its theorems, with one invariant per script | TLAPS |
| `HealthChecks` | every adapter's HealthCheck, as operators over answers | `HealthMonitor` |
| `HealthMonitor`, `MCHealthMonitor` | a node, its network, its checks, the chain tip and refreshStatus's verdict | runs `HealthMonitor`, `ForeignTip` |
| `HealthMonitorProofs` | its theorems, and the lemmas about each health check | TLAPS |
| `Triggers`, `MCTriggers` | CheckAll and the five triggers over Prometheus samples | run `Triggers` |
| `TriggersProofs` | its theorems | TLAPS |

The modules meet at interfaces that the others leave open. `Provisioning` runs
the main loop up to a health check that either answers or does not;
`HealthMonitor` says what each adapter's check answers, for a verdict that is
recorded at once; `NodeStatus` records verdicts of probes that may say anything,
one API call at a time; `Upgrade` is the upgrade step of the main loop;
`Replacement` starts when a trigger fires, at any time, which includes what
`Triggers` makes fire.

Each module has a constant `Scenarios`, a set of sets of disturbances (together
with the chain, script or metric they disturb, where there are several), and a
variable for the one that was picked: every behaviour picks one scenario at the start and meets
only its disturbances. One run so covers several, from everything at once to
reliable calls with operator stops only, and a property that the code keeps
only without some disturbance says so in its statement, as a condition on
`faults`. Definitions marked "Slip" are plausible mistakes in the definition
below them. They are used by no specification; the mutants of `PROJECT.json`
put each in the place of the original and expect the property to fail.

### Replacement

One ChainInstance, its pod `old` (x-0) and its replacement pod `new`. `api` is
the ChainInstance at the API server, `cache` the manager's copy, `node` the
annotations in the handler's memory, `pc` the handler's next API call. One
reconcile of an object runs at a time, so one handler suffices, but it is cut
at every API call: `StartReplacement` is MarkDraining, CordonOldPod,
DrainOldPod, MarkCreating, SpawnReplacementPod, MarkVerifying;
`CompleteReplacement` and `RollbackReplacement` are cut the same way. With
`error`, a call may fail without effect, or take effect and report a failure.
With `stale`, the cache lags. `Merged` is the patch that `mergeAnnotations`
really sends: the difference to the cached object, without a resource version.
`borrowed` is a history variable: the last `SpawnReplacementPod` found a pod of
that name being deleted and went on with it.

Abstractions: pod reads are current (only the ChainInstance's cache lags);
timestamps are recent or expired; a trigger may fire on x-0 at any time, and on
the replacement pod with `unhealthy`; `ready=false` at spawn is part of the
new pod; PVC cleanup, which no caller enables, and ValidateTraffic, whose
result is logged, are left out. Leader election makes the operator a single
process, so a crash is a stop followed by a new process with a fresh cache.

### Upgrade

`spec` is what the user wrote, `node` what the reconcile read, `cond` the
reason of the Upgrading condition, `sts` the template image and the three
annotations, `status` the StatefulSet's status, `pod` x-0. With `client` the
user may change spec.client as well as spec.image. A reconcile is cut
at its writes. Image identifiers are tagged: an image, or the string that
`resolveImageForUpgrade` makes up from chain and client. With `lag` the
StatefulSet's status may describe an older template. `pending` is a history
variable: an upgrade was recorded and its outcome is not known yet.

Abstractions: one replica, so that `hasCrashLoop`, which lists the pods of the
app label, has x-0 to look at; the reconcile's cached reads are current; the phase
Degraded that rollback writes is left out because refreshStatus recomputes it
in the same reconcile loop; an image either crashes or works; a rolling update
waits for a pod that is not ready.

### NodeStatus

A cycle reads the object (`node`), probes the node (`probe`), updates the
tracking annotations, decides a phase, restarts the pod or clears the
degradation, and patches the status. `current` says that nobody has written
the object since the cycle read it: persistAnnotations is a full update and is
refused otherwise, the status patch is refused only after the cycle's own
update. `earned` and `stood` are history variables for the two
"not too early" properties. Abstractions: timestamps are unset, recent or
expired; block lag is a flag of the probe; the ETA arithmetic is reduced to
whether a snapshot is persisted; the height of the chain does not fall.

### Adapters and Provisioning

An adapter is a record: declared ports, ports opened by arguments, environment,
configuration file and by default, the file and whether the node reads it,
probes, the target of the health check, credentials, NodePort. Chains of one
family share a constructor as they share a base type in the code (`utxo`,
`opGethArgs`, `Evm`...). Ports keep their names, since a Service is refused when
two of them are the same port. Only TCP ports are kept; resources, volumes, genesis
URLs and version policies are data that no decision here depends on.

`Provisioning` follows one ChainInstance. `pc` is the next ensure function; each
is one action that may end the reconcile, `seen` is the spec the reconcile read,
`creds` the credentials it read. ConfigMap, StatefulSet, Service and PodMonitor
are what the last write made of them; a pod keeps the template, configuration
and key it started with. The user edits spec and Secret, deletes children, and
bypasses the webhook (`nowebhook`) between any two steps; a create may find that
the Secret exists by now.

Abstractions: the content of a Secret is a number; a rendered configuration is
its file, network and credentials; the health check succeeds when it reaches the
port that the node answers on, with its credentials; the upgrade step and the
annotations of refreshStatus are in other modules.

### BootScripts, Bootstrap and Volume

An instruction tests, downloads, verifies, unpacks, generates, copies, edits,
moves or removes a named file. A file is absent, unfinished, generated by a tool,
wrong, good, or written to by the node. What the node has written is `young` as
long as a script that judges a database by its size or its marks takes it for
nothing (the restore below 1 MiB per directory, stellar 1 MiB, TON 1 GiB, Sui
without CURRENT), and `live` after that; a node stopped early leaves either. An
archive extracted over young data is an `overlay`. Slow instructions have a
beginning and an end, with the file unfinished between them; a kill or a broken
download leaves it so. A source may have no archive (`Maybe`). An error in an init container starts it over, one in the
main container starts only that one. `Volume` is the promise: pieces are
provided one by one and not lost again, the node runs only when nothing is
missing, and it runs in the end; the mapping takes the durable files of a script
that are not good yet as the missing ones.

### HealthChecks and HealthMonitor

A check is a sequence of answers, one per call that matters, each with the
node's stage, height and network tip at the moment of the answer; between two
answers the node and the network move. A call is refused, or the time runs out
before the headers come (`timeout`) or while the body is read (`torn`): callRPC
makes the same of both, the adapters that make their own requests often do not.
What is inferred and not said by the node is part of an answer as well: how far
ahead the peers are that a TRON node syncs from, and whether a worker of TRON or
Lotus is at work; neither is tied to the stage of the node. For TON, Cardano and
XRP "synced" is what the adapter tolerates (5 blocks, 0.5 % of the slots, the
age of the ledger). A dial that is not answered within 5 s has another error
text ("i/o timeout") and counts as refused. The adapter's operator turns the sequence
into an error, syncing or synced with a block and an exemption, as the Go
function does. `refreshStatus` then compares the block with the annotation
`last-sync-block`, counts the checks for which it stood, asks the public tip and
sets the phase. `Beat` stands for the block numbers that some adapters make from
the clock. Left out: peers, progress, ETA; the JSON of the public sources.

### Triggers

`history` holds the samples of one metric over the window: the value of each
series, and whether Prometheus has it. A check evaluates the five triggers in
turn, each in one step, with time passing in between; the instant value may be
of the step before, because the window of the second query is fixed only after
the first was answered. Retries are modelled by their outcome. PromQL, the
thresholds and their defaults are reduced to above or not above; restarts are
counted.

## Runs

### Replacement

| Run | Scenarios | Checks |
|---|---|---|
| `ReplacementHandover` | crash, restart; the same with timeout, unhealthy, flap; all but status; all but stale; also without errors; also without timeouts | the type invariant; `RemoveAfterSwitch` in all of them; `AnnotationsCoherent` and `PhaseGraph` without stale; `LeftoversTracked` (with no phase set, x-0 is not cordoned and no unswitched replacement pod runs) without stale and error; `HandoverKeepsAPod` without stale, but for a pod that was taken over while it was being deleted; `VerifyingEnds` in the first; `RollbackResumes` in the first two |
| `ReplacementStuck` | none | violates `TransientPhasesAdvance`: a failed clone leaves Creating for ever, with no disturbance at all |

The instance is exact in its constants: one ChainInstance and its two pods are
the whole system, because replacements of different objects share nothing. The
state is finite without bounds; only timestamps are abstracted.

### Upgrade

| Run | Instance | Checks |
|---|---|---|
| `UpgradeRollout` | 3 images, 2 bad, set or left to the adapter, 2 clients; client; crash and restart; lag and restart | the type invariant; `UpgradeNotForgotten`; `CompleteMeansReady` (x-0 is ready, on the wanted image) without lag; `RollbackLeavesTheCrashingImage` without crash and client; `UpgradeConverges`; `CrashLoopRolledBack` |
| `UpgradeUndone` | 3 images, no disturbance | violates `RollbackHolds`: although the user leaves the spec alone, the reconcile after a rollback puts the crashing image back, which is rolled back again, for ever |

Three images are enough for an image to be current, previous and wanted at
once; two bad ones let a rollback land on a bad image; two clients with
different default images make the client matter.

### NodeStatus

| Run | Instance | Checks |
|---|---|---|
| `NodeStatusCycle` | crash and rpc; rpc and exempt; all | the type invariant; `StallEarned` in all of them; `RestartEarned` without crash and conflict; `DegradedIsRestarted` and `FreezeNoticed` without conflict, the latter without exempt |
| `NodeStatusExempt` | exempt | violates `ExemptionHonoured`: a synced node is judged by its height all the same |

`MaxHeight` = 1 lets the chain advance once, so that a tracking annotation, an
in-memory copy and a probe can each be of the old or the new height; the
theorem about the stall detector holds for every height.

### Provisioning

Every registered chain on both networks without events, which checks each
adapter's ports, probes and configuration; and `ethereum`, `bitcoin`, `ton` and
`hemi` (two clients; credentials and an exporter; NodePort; no default image)
with API errors, edits with and without the webhook, edits of the Secret,
deleted children, a legacy finalizer, a missing PodMonitor CRD, pod restarts and
operator stops. `MaxEvents` = 2 is what it takes to change something and change
it back, or to fail between a change and its repair; errors and events count
alike. About 312,000 states.

* `ProbesAnswered`, `MetricsScraped`: the ports of probes and scrapes are open.
  Both are about a pod that started with the configuration file of its chain:
  without the webhook the chain may be changed and changed back, and a pod that
  started in between has the file of another one.
* `ImageBeforeWorkload`: no StatefulSet without an image, webhook or not.
* `UserSecretKept`: an existing Secret changes only by an event.
* `Converges`: when the spec can be satisfied from some time on, children, pod
  and status settle on it.

### Bootstrap

Seventeen scripts, each with the faults that it withstands; `MaxHits` = 3 allows
a fault while the consequences of two others are being repaired; the theorems
need no bound. The run checks `StartsOnPinned`, `LiveDataKept` and the refinement
`ImplementsVolume` with its liveness. `Withstands` names the faults, and the
properties are conditional on them: the script is killed anywhere (`kill`) or
while it downloads into a file (`stop`), such a download breaks off (`drop`) or a
streamed extraction does (`cut`), the server delivers another file (`wrong`) or
another archive to extract (`foreign`).

| Scripts | kill | stop | drop | cut | wrong | foreign |
|---|---|---|---|---|---|---|
| blast, viction, morph, berachain | yes | yes | yes | yes | yes | yes |
| thundercore | yes | yes | yes | yes | yes | no |
| cosmos | no | yes | yes | no | yes | no |
| cardano; the snapshot restores of the general, polygon and ethereum kind | no | yes | yes | no | no | no |
| litecoin's restore | no | yes | no | no | no | no |
| immutable, aptos, sui, near, stellar, ton | no | no | no | no | no | no |

"No" means that TLC finds the node started on a file that is not complete or not
the right one, or a script that fails for ever, or that the script has no such
operation. The scripts of the last row test only whether a file exists and write
it in place. Thundercore streams its chain archive without comparing the
checksum that comes with it. Cardano's marker with the version catches the
partial files of an interrupted download, as its comment says; what a kill
breaks is `mainnet-config.json`, which a later start rewrites in place.

`LiveDataKept` is about what the node has written: `live` data is never removed
or overwritten, and `young` data only by the scripts that judge it by size or
marks (`Judging`). Those do: a node that was started without a snapshot and
restarted early is restored over (TRON's empty databases are the case that the
restore's comment names), and stellar, TON and Sui begin anew.

`BootstrapCosmos` violates `InterruptedStartRedone`, the comment of `cosmosNode`
that an interrupted first start is redone from scratch: the chain's `init` writes
a genesis of its own before the script removes it, so a kill in between leaves a
genesis that the next start takes for the pinned one.

### HealthMonitor

Every health check in the repository. Chains that share their code meet fewer
faults (`Twins`), and Avalanche, with four calls per check, meets them one at a
time. `MaxHeight` = 3, `LagThreshold` = 1 and `StallPolls` = 2 are the smallest
values for which a node can be at the tip, behind by no more than the threshold,
and behind by more, and can move again just before it is called stalled;
`tronSyncedThreshold` = 1 (100 in the code) lets a peer be ahead by more and by
no more than that. About 3,100,000 states. There is no liveness here: a verdict is
a function of a check.

`ForeignTip` violates `LagMeansBehind`: `fetchPublicTip` does not know the
network, so a synced testnet node is compared with the mainnet, and for Cardano a
slot is compared with a block number. `LagIsReal` is the same for heights that
can be compared.

### Triggers

Each metric with failing queries, with gaps, and with gaps and recreated pods,
and the restarts of a pod with two containers. `Window` = 4 steps (five points,
of which 80 % of four, so four, must be above) is the smallest window in which
one point may be missing; `MaxRestarts` = 3 with a threshold of 2 lets a
container have restarts before and within the window. About 259,000 states.

### What the conditions on `faults` leave out

Each condition is there because TLC finds the property violated without it.
What the code then does:

* API error in a rollback: `RollbackReplacement` logs a failed deletion or
  label and clears the annotations, so that nothing tracks the pod any more
  (`LeftoversTracked`).
* Stale cache: `mergeAnnotations` sends the difference to a cached object; one
  write behind, it omits a pod name that the cached object still has, and the
  rollback of that replacement leaves x-0 cordoned (`LeftoversTracked`,
  `AnnotationsCoherent`, `PhaseGraph`).
* Rollback, then a new replacement: `spawnReplacementPod` takes over the pod
  that is still terminating, and the completion deletes x-0 for it; this one
  history is allowed by `HandoverKeepsAPod` (`borrowed`). With a stale cache a
  completion may also hand over to a pod that is gone.
* Lagging StatefulSet status: `verifyRolloutHealth` looks at ready and updated
  replicas and not at the observed generation, and may close an upgrade that has
  not begun (`CompleteMeansReady`).
* Operator stop between the two writes of a rollback: `last-image` and
  `previous-image` are equal while the upgrade is still open, so that a crash
  loop of that image is rolled back to itself
  (`RollbackLeavesTheCrashingImage`). A change of `spec.client` alone records
  the unchanged image as the previous one, with the same effect.
* No `spec.image`: `resolveImageForUpgrade` makes up a chain/client string, which
  never equals the image of a crashing container (`CrashLoopRolledBack`), and
  which a later rollback writes into the template, where it cannot be pulled
  (`UpgradeConverges` therefore asks for an image that can).
* Operator stop or conflicting writer between deleting the pod and clearing
  `degraded-since`: the fresh pod is deleted again (`RestartEarned`).
* Storage edit: the webhook admits a new `spec.storage.size`, ensureStatefulSet
  writes it into `volumeClaimTemplates`, the API server refuses it, and every
  later reconcile ends there: Service, PodMonitor, upgrade and health check are
  no longer reached (`Converges`), although `docs/health-monitoring.md` has the
  health check every 30 seconds.
* Ports named twice: filecoin, near, stellar and avalanche name their RPC port
  once more as `metrics`. `buildServicePorts` makes a ServicePort of each, the API
  server refuses two ports with one protocol and number, and every reconcile ends
  at the Service: these chains get no Service, PodMonitor or health check
  (`Satisfiable` leaves them out of `Converges`).
* Without the webhook, a network that is changed and changed back within one
  rollout leaves a pod with the configuration of the other one: its template is
  unchanged, so nothing restarts it (`Converges`).
* `spec.rpc.port` defaults to 8545 for chains that listen elsewhere, and the
  liveness probe of the Ethereum clients follows it while their listen port does
  not (`Satisfiable`, `ProbesAnswered`). Berachain's Service lacks 8545, and
  Plasma's health check cannot succeed. Nothing opens the metrics port that TRON
  and Hyperliquid name (`MetricsScraped`). The PodMonitor scrapes `/metrics`
  always; Avalanche and Lotus serve theirs under `/ext/metrics` and
  `/debug/metrics`, which no property is about.
* Slow nodes: adapters outside `Patient` report a timeout as an error. The
  Ethereum beacon adapter spares only its own 30 s deadline while the HTTP client
  gives up at 10 s, and a timeout of `eth_blockNumber` errs in `evm.go` although
  the comment there says that timeouts must not lead to a restart
  (`BusyNotDegraded`). NEAR, Sui, Cardano and Stellar spare a node whose headers
  are late and report an error when it is the body (`PatientForHeaders`).
* Dead nodes: adapters in `Lenient` report a refused connection as syncing, for
  ever (`DownNoticed`). Dash and Dogecoin report a node that is still loading as
  an error (`BusyNotDegraded`).
* Inferred state: TRON counts as synced at any height when no peer that it syncs
  from is further ahead than the threshold, Lotus when no worker has a target
  (`SyncedIsHonest`).
* Documented exemptions that the code does not make (`Unspared`): synced Bitcoin,
  Litecoin and Dash nodes (`docs/health-monitoring.md`, `docs/adapters.md`,
  `docs/configuration.md`; the run `NodeStatusExempt` shows it, and Litecoin's
  policy `ibd-exempt` never covers a synced node), TRON's LiteFullNode cache build
  (the repository's README), during which there is no block and no exemption
  (`SlowStageSpared`).
* Second calls: Lotus and Sui count as synced when the call that would tell
  otherwise fails (`SyncedIsHonest`); Starknet and Substrate report height 0 for
  a synced node when theirs fails; the Ethereum adapter goes on from height 0,
  which looks like a lag (`LagIsReal`); Avalanche reports 0 when the metrics
  call fails (`SlowStageSpared`). Hyperliquid reports 0 always, and stalls.
* Aptos reports a ledger version, far above the public block height, so that its
  lag is never seen (`Comparable`).
* Crash loop: when the query for the start of the window fails, or has no sample,
  the restarts of the container's whole life are taken for those of the window,
  and a healthy pod is replaced (`CrashLoopIsReal`), although
  `docs/health-monitoring.md` says that all triggers report as not triggered when
  Prometheus is unreachable. With several containers in the pod the two queries
  may speak of different ones.

More observations have no property. An operator stop during the drain
leaves Draining for ever, like `ReplacementStuck`. A replacement pod that stays
missing, not ready or unhealthy is never timed out, because MonitorReplacement
returns before it looks at the start time, although `docs/health-monitoring.md`
says that an exceeded sync timeout triggers a rollback. The replacement pod has no
owner reference and survives its ChainInstance. The Service's selector ignores
the `ready` label, so a cordoned pod keeps its endpoints. A sustained trigger
fires for 80 % of its duration where the documentation says "for the full
duration window". The repository's README says that the webhook enforces minimum
storage and memory; it only warns.

### Fairness

A reconcile that has started runs on (controller-runtime's worker), a requeued
object is reconciled again (`RequeueAfter`), the cache, the kubelet, the
StatefulSet controller and the garbage collector make progress, and in
`NodeStatus` time passes. Nothing makes a trigger fire, a user edit, a call
fail or the operator stop. The liveness properties assume in
addition that the operator is eventually no longer stopped, those of `Upgrade`
that the user stops editing, and `UpgradeConverges` that the auto-restart leaves
the pod alone. In `Provisioning` the restart of a pod that was Degraded for too
long is strongly fair: each time the pod is Degraded again the timeout passes
again. In `Bootstrap` a script that has started goes on and a failed container
is started again; faults are bounded. In `Triggers` checks are repeated and time
passes; `beat` alternates so that time passes also while every value stays the
same. Deadlock is checked in every run but the one with `delete`: once the
ChainInstance and its pods are gone the system may stop.

## Proofs

Every invariant and every action property that a passing run checks is also a
theorem, for every set of `Scenarios`, all images, clients, default images and
overrides, every height, lag and stall threshold, window and number of restarts,
and any number of events, faults and interruptions, under the assumptions named
in the modules. These say that counters are natural numbers, that scenarios are
made of the disturbances that the model knows, and, for `Provisioning`,
`HealthMonitor` and `Bootstrap`, that chains and scripts are among those of the
repository.

* `ReplacementProofs`. `TypeCorrect` rests on `MergedType`: a merge patch of
  annotations yields annotations. `RemovalFollowsSwitch` needs no more than the
  types. `AnnotationsStayCoherent` and `PhasesFollowTheWorkflow` are about
  the scenarios in which the cache keeps up; their inductive invariant `TrackingInv` adds that the
  handler's memory equals the stored annotations, and ties `pc` to the stored
  phase (`PhaseAt`). It is needed because a patch of the phase alone keeps the
  annotations coherent only when a phase was stored before. `LeftoversStayTracked`
  is about those in which API calls succeed as well; `CleanupInv` says what has been
  done to the pods when the annotations are about to be cleared.
  `HandoverKeepsThePod` is about the scenarios in which the cache keeps up,
  rollbacks, errors and operator stops included. `HandoverInv`, on top of
  `TrackingInv`, says that from the spawn to the end of the completion
  (`Committed`) the pod is there and not being deleted, unless it was borrowed: a
  rollback leaves the committed phases before it deletes anything, and what it
  deletes can only be handed over to after another spawn.
* `UpgradeProofs`. `UpgradesAreNotForgotten` strengthens the invariant by the
  point between the two writes of startRollingRestart. `CompletionMeansReady`
  follows from `RolloutInv`: a current pod has the template's image, the template
  has the wanted image from ensureStatefulSet to the end of the upgrade step, and
  a status that does not lag tells of this very pod. `RollbackChangesTheImage`
  is an action property; its invariant `RollbackInv` says that the recorded
  previous and last image differ while an upgrade is open, and that during a
  rollback template, pod and last image agree; a crash loop is only seen on an
  image that could be pulled, so the made-up strings never start a rollback. It
  is about scenarios without operator stops and changes of the client; both are
  needed.
* `NodeStatusProofs`. `StallsAreEarned`: an expired `sync-stall-since` belongs
  to a height at which the node stood for the threshold, or to one the chain
  has left (`SoundInv`); a lost update can only leave a height of the past, so
  crashes and conflicts need no assumption. `RestartsAreEarned`, without them:
  memory and API server agree on `degraded-since`, and an expired one has been
  earned, except where it is about to be cleared (`EarnedInv`).
* `HealthMonitorProofs`. What a report says of the answers it was made from is
  stated once (`Facts`: errors, synced, stalls and heights) and proved for the
  check of every adapter, for answers of any height. The inductive invariant adds
  that answers are of the past and in order (`AnswersInv`), that a public tip
  that can be compared is not ahead of the network (`PublicInv`), and what each
  phase says of the report (`PhaseFacts`). The six properties follow without
  another induction. The exceptions of `SyncedIsHonest`, `BusyNotDegraded` and
  `SlowStageSpared` are part of `Facts`, chain by chain, so the theorems say that
  there are no others.
* `TriggersProofs`. `CrashLoopIsReal` counts rises of a counter in the window,
  while the code subtracts two samples. `GrowthInv` says that between any two
  points of the history a counter grew by no more than the number of its rises;
  it is preserved because the window moves by one step (an injection between the
  two sets of rises) and a counter grows by at most one in it.
* `ProvisioningProofs`. The lemmas of the first part go through the adapters:
  probes, metrics port and sidecars of each are in order (`Sane`), and its file
  reaches the node or no public image exists (`Orderly`). The second part is the
  main loop under edits, deletions and failing calls. The invariant `Inv` has the
  template of a StatefulSet and of a pod rendered from a spec with an image
  (`Rendered`), and the spec that a reconcile works on past its gates has an
  image (`ImageInv`), although the user may edit it meanwhile.
* `BootstrapProofs`. `ScriptsWellFormed`: the jumps of the seventeen scripts
  stay inside them and only the last instruction starts the node. Each
  script has an invariant of its own (`blastInv` to `snapshotLitecoinInv`): for
  each instruction, which files are known to be absent, complete or live there,
  whatever the start before it left behind. Each is preserved by the steps of the
  script and by the faults that it withstands; a kill must lead back to the
  invariant at the first instruction, which is the crash safety of the script.
  `StartsOnPinnedHolds`, `LiveDataIsKept` and `VolumeIsImplemented`, the
  initial states and the steps of the refinement, follow for any number of faults.

Only model-checked: the liveness properties (`VerifyingEnds`, `RollbackResumes`,
`UpgradeConverges`, `CrashLoopRolledBack`, `DegradedIsRestarted`,
`FreezeNoticed`, `Converges`, `TroubleNoticed`) and the fairness of `Volume` in
`ImplementsVolume`, which need ENABLED and are out of the prover's reach; and the
five violations, which are counterexamples.

## Not modelled, and the plan

No invariant or action property is left to prove. What would say more are
stronger statements: how long a replacement may take before its timeout in terms
of reconciles, and the same properties for several ChainInstances that share a
node of the cluster.

Not modelled, and why:

* ChainVersionCatalogReconciler and the registry clients: one sequential pass
  over the pages of a registry into a status that no other part of the operator
  reads; the version order is a library's.
* `cmd/versioncheck` and `cmd/chainsmoke`: command-line tools for the
  maintainers, which run once and are not part of the operator.
* Resource defaults, storage sizes, genesis and peer lists of the adapters, and
  the shell text inside configuration files: data.

Dashboard, metrics, command-line tools, CRD types, charts and manifests hold no
state that the operator's decisions depend on, and stay out.
