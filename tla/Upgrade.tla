------------------------------ MODULE Upgrade ------------------------------
(***************************************************************************)
(* Image upgrades and their automatic rollback: reconcileUpgrade           *)
(* (internal/controller/upgrade.go) after ensureStatefulSet                *)
(* (internal/controller/reconcile_statefulset.go) in each reconcile of     *)
(* ChainInstanceReconciler, for one ChainInstance with one replica.  The   *)
(* reconcile is split at its API writes.  The StatefulSet controller, the  *)
(* kubelet and the user act between them.                                  *)
(***************************************************************************)
CONSTANTS
  Images,         \* container images, repository:tag
  BadImages,      \* those whose container crashes when it is started
  Clients,        \* values of spec.client
  DefaultImage,   \* the adapter's image for a client, when spec.image is unset
  Overrides,      \* values of spec.image a user may set
  Scenarios       \* sets of disturbances; a behaviour meets those of one

KnownFaults == {"crash",     \* the operator stops between two writes
                "lag",       \* StatefulSet status lags behind its template
                "restart",   \* x-0 is deleted, e.g. by the auto-restart
                "client"}    \* the user changes spec.client

\* No value: an image that is not set.
None == "none"

ASSUME UpgradeAssumption ==
  /\ BadImages \subseteq Images
  /\ None \notin Images
  /\ DefaultImage \in [Clients -> Images]
  /\ Overrides \subseteq Images \cup {None}
  /\ Overrides # {}
  /\ Scenarios \subseteq SUBSET KnownFaults

VARIABLES
  spec,     \* spec.image and spec.client of the ChainInstance
  cond,     \* the reason of its Upgrading condition
  sts,      \* the StatefulSet: template image and upgrade annotations
  status,   \* its status: all replicas ready, all replicas updated
  pod,      \* x-0
  node,     \* the reconcile's in-memory ChainInstance
  pc,       \* the reconcile's next write
  pending,  \* history: a recorded upgrade whose outcome is still unknown
  faults    \* the disturbances that may happen in this behaviour

vars == <<spec, cond, sts, status, pod, node, pc, pending>>
-----------------------------------------------------------------------------
(* An image identifier is an image, or the chain/client string that         *)
(* resolveImageForUpgrade makes up when spec.image is not set.              *)
ImageId(i) == <<"image", i>>
ClientId(c) == <<"client", c>>
NoId == <<"none", None>>
Ids == {ImageId(i) : i \in Images} \cup {ClientId(c) : c \in Clients} \cup {NoId}

Specs == [image : Images \cup {None}, client : Clients]

\* Upgrading is True exactly with the reason RollingRestart.
Reasons == {"unset", "RollingRestart", "RolloutComplete", "RollbackTriggered"}
Upgrading(c) == c = "RollingRestart"

PodHealths == {"absent", "starting", "ready", "failing", "crashLoop"}

Steps == {"idle", "ensure", "upgrade", "restartSts", "rollbackSts",
          "rollbackCond"}

TypeOK ==
  /\ spec \in Specs
  /\ cond \in Reasons
  /\ sts \in [exists : BOOLEAN, image : Ids, last : Ids,
              lastClient : Clients \cup {None}, previous : Ids]
  /\ status \in [ready : BOOLEAN, updated : BOOLEAN]
  /\ pod \in [image : Ids, current : BOOLEAN, health : PodHealths]
  /\ node \in [spec : Specs, cond : Reasons]
  /\ pc \in Steps
  /\ pending \in BOOLEAN
  /\ faults \in Scenarios

Init ==
  /\ spec \in [image : Overrides, client : Clients]
  /\ cond = "unset"
  /\ sts = [exists |-> FALSE, image |-> NoId, last |-> NoId,
            lastClient |-> None, previous |-> NoId]
  /\ status = [ready |-> FALSE, updated |-> FALSE]
  /\ pod = [image |-> NoId, current |-> FALSE, health |-> "absent"]
  /\ node = [spec |-> spec, cond |-> cond]
  /\ pc = "idle"
  /\ pending = FALSE
  /\ faults \in Scenarios
-----------------------------------------------------------------------------
\* Slip: the adapter's default image is forgotten.
ResolveContainerImageNoDefault(s) == ImageId(s.image)

ResolveContainerImage(s) ==
  ImageId(IF s.image # None THEN s.image ELSE DefaultImage[s.client])

ResolveImageForUpgrade(s) ==
  IF s.image # None THEN ImageId(s.image) ELSE ClientId(s.client)

WantImage == ResolveImageForUpgrade(node.spec)

StatusOf(p) == [ready |-> p.health = "ready", updated |-> p.current]

\* A new template: x-0 is no longer current, and the status says so at once
\* unless the StatefulSet controller lags.
NewTemplate == /\ pod' = [pod EXCEPT !.current = FALSE]
               /\ status' = IF "lag" \in faults THEN status ELSE StatusOf(pod')

SameTemplate == UNCHANGED <<pod, status>>

\* setCondition patches the status and the in-memory object.
SetCondition(reason) == cond' = reason /\ node' = [node EXCEPT !.cond = reason]
-----------------------------------------------------------------------------
(* ChainInstanceReconciler.Reconcile.                                       *)

Reconcile == /\ pc = "idle"
             /\ node' = [spec |-> spec, cond |-> cond]
             /\ pc' = "ensure"
             /\ UNCHANGED <<spec, cond, sts, status, pod, pending>>

\* Slip: an existing StatefulSet is not updated.
EnsureCreatesOnly ==
  /\ pc = "ensure"
  /\ pc' = "upgrade"
  /\ sts' = [sts EXCEPT !.exists = TRUE,
                        !.image = IF sts.exists THEN @
                                  ELSE ResolveContainerImage(node.spec)]
  /\ IF sts'.image # sts.image THEN NewTemplate ELSE SameTemplate
  /\ UNCHANGED <<spec, cond, node, pending>>

\* The StatefulSet's template always gets the image of the ChainInstance; the
\* annotations of reconcileUpgrade are left alone.
EnsureStatefulSet ==
  /\ pc = "ensure"
  /\ pc' = "upgrade"
  /\ sts' = [sts EXCEPT !.exists = TRUE, !.image = ResolveContainerImage(node.spec)]
  /\ IF sts'.image # sts.image THEN NewTemplate ELSE SameTemplate
  /\ UNCHANGED <<spec, cond, node, pending>>

\* The annotations do not match the wanted image or client.
ChangeDetected == sts.last # WantImage \/ sts.lastClient # node.spec.client

\* Slip: the restart is triggered without the condition.
StartWithoutCondition ==
  /\ pc = "upgrade"
  /\ ChangeDetected
  /\ pc' = "restartSts"
  /\ UNCHANGED <<spec, cond, sts, status, pod, node, pending>>

\* startRollingRestart, first write: Upgrading becomes True.
StartRollingRestart ==
  /\ pc = "upgrade"
  /\ ChangeDetected
  /\ SetCondition("RollingRestart")
  /\ pc' = "restartSts"
  /\ UNCHANGED <<spec, sts, status, pod, pending>>

\* Slip: the previous image is taken after last-image was overwritten.
RecordUpgradeOverwritten ==
  /\ sts' = [sts EXCEPT !.previous = WantImage,
                        !.last = WantImage,
                        !.lastClient = node.spec.client]
  /\ NewTemplate
  /\ pending' = TRUE

\* Second write: the annotations and a new restarted-at in the template.
RecordUpgrade ==
  /\ sts' = [sts EXCEPT !.previous = IF sts.last # NoId THEN sts.last ELSE @,
                        !.last = WantImage,
                        !.lastClient = node.spec.client]
  /\ NewTemplate
  /\ pending' = TRUE

PatchStatefulSet == /\ pc = "restartSts"
                    /\ RecordUpgrade
                    /\ pc' = "idle"
                    /\ UNCHANGED <<spec, cond, node>>

\* Slip: UpdatedReplicas is not compared.
RolloutDoneWhenReady == status.ready

RolloutDone == status.ready /\ status.updated

\* Slip: the crash loop is looked for on the previous image.
HasCrashLoopOnPrevious(id) ==
  pod.health = "crashLoop" /\ pod.image = sts.previous

\* hasCrashLoop over the pods of the app label, of which x-0 is the only one.
HasCrashLoop(id) == pod.health = "crashLoop" /\ pod.image = id

\* verifyRolloutHealth without a rollout, or with one that is under way.
VerifyNothing ==
  /\ pc = "upgrade"
  /\ ~ChangeDetected
  /\ \/ ~Upgrading(node.cond)
     \/ ~RolloutDone /\ ~HasCrashLoop(WantImage)
  /\ pc' = "idle"
  /\ UNCHANGED <<spec, cond, sts, status, pod, node, pending>>

RolloutComplete ==
  /\ pc = "upgrade"
  /\ ~ChangeDetected
  /\ Upgrading(node.cond)
  /\ RolloutDone
  /\ SetCondition("RolloutComplete")
  /\ pc' = "idle"
  /\ pending' = FALSE
  /\ UNCHANGED <<spec, sts, status, pod>>

StartRollback ==
  /\ pc = "upgrade"
  /\ ~ChangeDetected
  /\ Upgrading(node.cond)
  /\ ~RolloutDone
  /\ HasCrashLoop(WantImage)
  /\ pc' = IF sts.previous # NoId THEN "rollbackSts" ELSE "rollbackCond"
  /\ UNCHANGED <<spec, cond, sts, status, pod, node, pending>>

RollbackStatefulSet ==
  /\ pc = "rollbackSts"
  /\ sts' = [sts EXCEPT !.image = sts.previous, !.last = sts.previous]
  /\ NewTemplate
  /\ pc' = "rollbackCond"
  /\ UNCHANGED <<spec, cond, node, pending>>

\* The phase set to Degraded here is recomputed by refreshStatus.
RollbackCondition ==
  /\ pc = "rollbackCond"
  /\ SetCondition("RollbackTriggered")
  /\ pc' = "idle"
  /\ pending' = FALSE
  /\ UNCHANGED <<spec, sts, status, pod>>
-----------------------------------------------------------------------------
(* The operator, the user, the StatefulSet controller and the kubelet.      *)

Crash == /\ "crash" \in faults
         /\ pc # "idle"
         /\ pc' = "idle"
         /\ UNCHANGED <<spec, cond, sts, status, pod, node, pending>>

\* The user edits spec.image or spec.client.
EditSpec == /\ \E i \in Overrides, c \in Clients :
                 /\ <<i, c>> # <<spec.image, spec.client>>
                 /\ c = spec.client \/ "client" \in faults
                 /\ spec' = [image |-> i, client |-> c]
            /\ UNCHANGED <<cond, sts, status, pod, node, pc, pending>>

SyncStatus == /\ status # StatusOf(pod)
              /\ status' = StatusOf(pod)
              /\ UNCHANGED <<spec, cond, sts, pod, node, pc, pending>>

PodStep(p) == /\ pod' = p
              /\ status' = IF "lag" \in faults THEN status ELSE StatusOf(p)
              /\ UNCHANGED <<spec, cond, sts, node, pc, pending>>

\* x-0 is created from the template, or replaced by the rolling update.  The
\* update waits for a pod that is not ready (OrderedReady).
CreatePod == /\ sts.exists
             /\ pod.health = "absent" \/ (pod.health = "ready" /\ ~pod.current)
             /\ PodStep([image |-> sts.image, current |-> TRUE,
                         health |-> "starting"])

Pullable == pod.image \in {ImageId(i) : i \in Images}
Crashes == pod.image \in {ImageId(i) : i \in BadImages}

PodReady == /\ pod.health = "starting"
            /\ Pullable /\ ~Crashes
            /\ PodStep([pod EXCEPT !.health = "ready"])

\* The container crashes, and after crashLoopRestartThreshold restarts the
\* kubelet backs off.
PodFails == /\ pod.health \in {"starting", "failing"}
            /\ Pullable /\ Crashes
            /\ PodStep([pod EXCEPT !.health =
                          IF @ = "starting" THEN "failing" ELSE "crashLoop"])

DeletePod == /\ "restart" \in faults
             /\ pod.health # "absent"
             /\ PodStep([pod EXCEPT !.health = "absent", !.current = FALSE])
-----------------------------------------------------------------------------
ReconcileStep == \/ EnsureStatefulSet \/ StartRollingRestart
                 \/ PatchStatefulSet \/ VerifyNothing \/ RolloutComplete
                 \/ StartRollback \/ RollbackStatefulSet \/ RollbackCondition

Step == \/ Reconcile \/ ReconcileStep
        \/ Crash \/ EditSpec
        \/ SyncStatus \/ CreatePod \/ PodReady \/ PodFails \/ DeletePod

Next == Step /\ UNCHANGED faults

(* Reconciles recur (RequeueAfter), a started one runs on, and the cluster's *)
(* controllers make progress.                                                *)
Fairness == /\ WF_vars(Reconcile) /\ WF_vars(ReconcileStep)
            /\ WF_vars(SyncStatus)
            /\ WF_vars(CreatePod) /\ WF_vars(PodReady) /\ WF_vars(PodFails)

Spec == Init /\ [][Next]_<<vars, faults>> /\ Fairness
-----------------------------------------------------------------------------
(* Safety.  Each property names the disturbances it does not survive.       *)

\* An upgrade that is recorded on the StatefulSet and whose outcome is unknown
\* still has Upgrading = True, so that verifyRolloutHealth looks at it:
\* startRollingRestart sets the condition before it records the upgrade.
UpgradeNotForgotten == pending => Upgrading(cond)

\* Upgrading only turns False for a finished rollout when x-0 runs the new
\* template, with the image that this reconcile wants, and is ready.
\* verifyRolloutHealth compares counters of the StatefulSet's status and not
\* its observedGeneration, so the status must follow the template.
CompleteMeansReady ==
  [][("lag" \notin faults /\ RolloutComplete)
       => /\ pod.current /\ pod.health = "ready"
          /\ pod.image = ResolveContainerImage(node.spec)]_vars

\* A rollback never goes to the image that is crash-looping.  It may once the
\* operator stopped between the two writes of a rollback: last-image and
\* previous-image are then equal while Upgrading stays True, and when the user
\* asks for that image and it crashes, it is rolled back to itself.  It may
\* as well once spec.client was changed alone: reconcileUpgrade starts an
\* upgrade that records the unchanged image as the previous one.
RollbackLeavesTheCrashingImage ==
  [][({"crash", "client"} \cap faults = {} /\ RollbackStatefulSet)
       => sts'.image # pod.image]_vars
-----------------------------------------------------------------------------
(* Liveness.                                                                *)

\* When the user has stopped editing and the operator and x-0 are no longer
\* disturbed, and x-0's images can be pulled and do not crash, x-0 ends up
\* ready on the wanted image and the upgrade is closed.
UpgradeConverges ==
  (<>[][~EditSpec /\ ~DeletePod /\ ~Crash]_vars /\ <>[](Pullable /\ ~Crashes))
    => <>[](/\ pod.image = ResolveContainerImage(spec)
            /\ pod.health = "ready"
            /\ ~Upgrading(cond))

\* A rollback holds: once the user leaves the spec alone, a node that was rolled
\* back to a previous image in the end keeps that image in its template.
RollbackHolds ==
  <>[][~EditSpec]_vars =>
    <>[](cond = "RollbackTriggered" /\ sts.previous # NoId
           => sts.image = sts.previous)

\* The image of the spec is running and backs off from restarting.
WantedCrashes == /\ pod.health = "crashLoop"
                 /\ pod.image = ResolveContainerImage(spec)

\* A user's image that crash-loops while it is being rolled out is rolled back
\* when a previous image is known, once the user has stopped editing (and left
\* an image of their own in the spec) and the operator keeps running.  For an image of the adapter it is not:
\* hasCrashLoop looks for the made-up chain/client string.
CrashLoopRolledBack ==
  (<>[][~EditSpec /\ ~Crash]_vars /\ <>[](spec.image # None)) =>
    ((/\ spec.image # None
      /\ Upgrading(cond) /\ sts.previous # NoId
      /\ WantedCrashes)
       ~> (~Upgrading(cond) \/ ~WantedCrashes))
=============================================================================
