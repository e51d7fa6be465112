--------------------------- MODULE UpgradeProofs ---------------------------
(***************************************************************************)
(* Theorems about Upgrade, for every set of images, clients, default       *)
(* images, overrides and scenarios.                                        *)
(***************************************************************************)
EXTENDS Upgrade, TLAPS

\* TypeOK without the scenario, which no step changes.
WellTyped ==
  /\ spec \in Specs
  /\ cond \in Reasons
  /\ sts \in [exists : BOOLEAN, image : Ids, last : Ids,
              lastClient : Clients \cup {None}, previous : Ids]
  /\ status \in [ready : BOOLEAN, updated : BOOLEAN]
  /\ pod \in [image : Ids, current : BOOLEAN, health : PodHealths]
  /\ node \in [spec : Specs, cond : Reasons]
  /\ pc \in Steps
  /\ pending \in BOOLEAN

\* A step of the specification is a step of the system in the same scenario.
LEMMA NextIsStep ==
  [Next]_<<vars, faults>> => [Step]_vars /\ UNCHANGED faults
BY DEF Next

\* The identifiers the code writes are identifiers.
LEMMA ResolvedIds ==
  ASSUME NEW s \in Specs
  PROVE  /\ ResolveContainerImage(s) \in Ids
         /\ ResolveImageForUpgrade(s) \in Ids
<1>1. ResolveContainerImage(s) \in {ImageId(i) : i \in Images}
  BY UpgradeAssumption DEF ResolveContainerImage, Specs
<1>2. ResolveImageForUpgrade(s) \in {ImageId(i) : i \in Images}
        \/ ResolveImageForUpgrade(s) \in {ClientId(c) : c \in Clients}
  BY DEF ResolveImageForUpgrade, Specs
<1> QED
  BY <1>1, <1>2 DEF Ids

\* The type invariant: what reconcileUpgrade and ensureStatefulSet read back is
\* what they wrote, a crash at any point included.
THEOREM TypeCorrect == Spec => []TypeOK
<1>1. Init => WellTyped
  <2> SUFFICES ASSUME Init PROVE WellTyped
    OBVIOUS
  <2>1. spec \in Specs
    BY UpgradeAssumption DEF Init, Specs
  <2> QED
    BY <2>1 DEF Init, WellTyped, Reasons, Ids, PodHealths, Steps
<1>2. WellTyped /\ [Step]_vars => WellTyped'
  <2> SUFFICES ASSUME WellTyped, [Step]_vars
               PROVE  WellTyped'
    OBVIOUS
  <2>1. CASE Reconcile
    BY <2>1 DEF Reconcile, WellTyped, Steps
  <2>2. CASE EnsureStatefulSet
    <3>1. ResolveContainerImage(node.spec) \in Ids
      BY ResolvedIds DEF WellTyped
    <3>2. sts' \in [exists : BOOLEAN, image : Ids, last : Ids,
                    lastClient : Clients \cup {None}, previous : Ids]
      BY <2>2, <3>1 DEF EnsureStatefulSet, WellTyped
    <3>3. UNCHANGED <<spec, cond, node, pending>> /\ pc' \in Steps
      BY <2>2 DEF EnsureStatefulSet, Steps
    <3>4. /\ pod' \in [image : Ids, current : BOOLEAN, health : PodHealths]
          /\ status' \in [ready : BOOLEAN, updated : BOOLEAN]
      <4>1. CASE NewTemplate
        BY <4>1 DEF NewTemplate, StatusOf, WellTyped
      <4>2. CASE SameTemplate
        BY <4>2 DEF SameTemplate, WellTyped
      <4> QED BY <2>2, <4>1, <4>2 DEF EnsureStatefulSet
    <3> QED
      BY <3>2, <3>3, <3>4 DEF WellTyped
  <2>3. CASE PatchStatefulSet
    <3>1. WantImage \in Ids
      BY ResolvedIds DEF WellTyped, WantImage
    <3>2. node.spec.client \in Clients
      BY DEF WellTyped, Specs
    <3> QED
      BY <2>3, <3>1, <3>2 DEF PatchStatefulSet, RecordUpgrade, NewTemplate,
         StatusOf, WellTyped, Steps
  <2>4. CASE StartRollingRestart \/ RolloutComplete \/ RollbackCondition
    BY <2>4 DEF StartRollingRestart, RolloutComplete, RollbackCondition,
       SetCondition, WellTyped, Reasons, Steps
  <2>5. CASE VerifyNothing \/ StartRollback \/ Crash
    BY <2>5 DEF VerifyNothing, StartRollback, Crash, WellTyped, Steps
  <2>6. CASE RollbackStatefulSet
    BY <2>6 DEF RollbackStatefulSet, NewTemplate, StatusOf, WellTyped, Steps
  <2>7. CASE EditSpec
    BY <2>7, UpgradeAssumption DEF EditSpec, WellTyped, Specs
  <2>8. CASE SyncStatus
    BY <2>8 DEF SyncStatus, StatusOf, WellTyped
  <2>9. CASE CreatePod \/ PodReady \/ PodFails \/ DeletePod
    <3>1. PICK p \in [image : Ids, current : BOOLEAN, health : PodHealths] :
            PodStep(p)
      BY <2>9 DEF CreatePod, PodReady, PodFails, DeletePod, WellTyped, PodHealths
    <3>2. StatusOf(p) \in [ready : BOOLEAN, updated : BOOLEAN]
      BY DEF StatusOf
    <3> QED BY <3>1, <3>2 DEF PodStep, WellTyped
  <2>10. CASE UNCHANGED vars
    BY <2>10 DEF vars, WellTyped
  <2> QED
    BY <2>1, <2>2, <2>3, <2>4, <2>5, <2>6, <2>7, <2>8, <2>9, <2>10
       DEF Step, ReconcileStep
<1>3. Init => faults \in Scenarios
  BY DEF Init
<1>4. faults \in Scenarios /\ UNCHANGED faults => (faults \in Scenarios)'
  OBVIOUS
<1>5. WellTyped /\ faults \in Scenarios => TypeOK
  BY DEF WellTyped, TypeOK
<1> QED
  BY <1>1, <1>2, <1>3, <1>4, <1>5, NextIsStep, PTL DEF Spec

\* The type invariant gives every later step its types.
LEMMA TypeOKIsWellTyped == TypeOK => WellTyped
BY DEF TypeOK, WellTyped
-----------------------------------------------------------------------------
\* The condition is set before the upgrade is recorded: in between, it stands.
AnnouncedInv == UpgradeNotForgotten /\ (pc = "restartSts" => Upgrading(cond))

\* A recorded upgrade always has the condition that makes verifyRolloutHealth
\* look at it, wherever the operator is stopped between the two writes of
\* startRollingRestart, or those of rollback.
THEOREM UpgradesAreNotForgotten == Spec => []UpgradeNotForgotten
<1>1. Init => AnnouncedInv
  BY DEF Init, AnnouncedInv, UpgradeNotForgotten
<1>2. AnnouncedInv /\ [Step]_vars => AnnouncedInv'
  <2> SUFFICES ASSUME AnnouncedInv, [Step]_vars
               PROVE  AnnouncedInv'
    OBVIOUS
  <2> USE DEF AnnouncedInv, UpgradeNotForgotten
  <2>1. CASE StartRollingRestart
    BY <2>1 DEF StartRollingRestart, SetCondition, Upgrading
  <2>2. CASE PatchStatefulSet
    BY <2>2 DEF PatchStatefulSet
  <2>3. CASE RolloutComplete \/ RollbackCondition
    BY <2>3 DEF RolloutComplete, RollbackCondition
  <2>4. CASE UNCHANGED <<cond, pending>> /\ (pc' = pc \/ pc' # "restartSts")
    BY <2>4
  <2>5. Reconcile \/ EnsureStatefulSet \/ VerifyNothing \/ StartRollback
          \/ RollbackStatefulSet \/ Crash
          => UNCHANGED <<cond, pending>> /\ pc' # "restartSts"
    BY DEF Reconcile, EnsureStatefulSet, VerifyNothing, StartRollback,
       RollbackStatefulSet, Crash
  <2>6. EditSpec \/ SyncStatus \/ CreatePod \/ PodReady \/ PodFails \/ DeletePod
          \/ UNCHANGED vars => UNCHANGED <<cond, pending, pc>>
    BY DEF EditSpec, SyncStatus, CreatePod, PodReady, PodFails, DeletePod,
       PodStep, vars
  <2> QED
    BY <2>1, <2>2, <2>3, <2>4, <2>5, <2>6 DEF Step, ReconcileStep
<1>3. AnnouncedInv => UpgradeNotForgotten
  BY DEF AnnouncedInv
<1> QED
  BY <1>1, <1>2, <1>3, NextIsStep, PTL DEF Spec
-----------------------------------------------------------------------------
(* What a finished rollout is.  A pod that is current has the template's    *)
(* image; ensureStatefulSet has put the wanted image there earlier in the   *)
(* same reconcile, and a status that does not lag tells of this very pod.   *)

RolloutInv ==
  /\ pod.current => pod.image = sts.image
  /\ pc \in {"upgrade", "restartSts"}
       => sts.image = ResolveContainerImage(node.spec)
  /\ "lag" \notin faults => status = StatusOf(pod)

\* A new template outdates the pod.
LEMMA NewTemplateRollout ==
  ASSUME WellTyped, NewTemplate
  PROVE  pod'.current = FALSE /\ ("lag" \notin faults => status' = StatusOf(pod'))
BY DEF NewTemplate, WellTyped

\* One step, in any scenario.
LEMMA RolloutInvStep ==
  WellTyped /\ RolloutInv /\ [Step]_vars /\ UNCHANGED faults => RolloutInv'
<1> SUFFICES ASSUME WellTyped, RolloutInv, [Step]_vars, UNCHANGED faults
             PROVE  RolloutInv'
  OBVIOUS
<1> USE DEF RolloutInv
<1>1. CASE Reconcile \/ VerifyNothing \/ StartRollback \/ Crash \/ EditSpec
  BY <1>1 DEF Reconcile, VerifyNothing, StartRollback, Crash, EditSpec, StatusOf
<1>2. CASE EnsureStatefulSet
  <2>1. sts'.image = ResolveContainerImage(node'.spec)
    BY <1>2 DEF EnsureStatefulSet, WellTyped
  <2>2. CASE sts'.image # sts.image
    BY <1>2, <2>1, <2>2, NewTemplateRollout DEF EnsureStatefulSet, StatusOf
  <2>3. CASE sts'.image = sts.image
    BY <1>2, <2>1, <2>3 DEF EnsureStatefulSet, SameTemplate, StatusOf
  <2> QED BY <2>2, <2>3
<1>3. CASE StartRollingRestart \/ RolloutComplete \/ RollbackCondition
  BY <1>3 DEF StartRollingRestart, RolloutComplete, RollbackCondition,
     SetCondition, WellTyped, StatusOf
<1>4. CASE PatchStatefulSet \/ RollbackStatefulSet
  <2>1. NewTemplate /\ pc' \in {"idle", "rollbackCond"}
    BY <1>4 DEF PatchStatefulSet, RecordUpgrade, RollbackStatefulSet
  <2> QED BY <2>1, NewTemplateRollout DEF StatusOf
<1>5. CASE SyncStatus
  BY <1>5 DEF SyncStatus, StatusOf
<1>6. CASE CreatePod \/ PodReady \/ PodFails \/ DeletePod
  <2>1. /\ UNCHANGED <<sts, node, pc>>
        /\ "lag" \notin faults => status' = StatusOf(pod')
    BY <1>6 DEF CreatePod, PodReady, PodFails, DeletePod, PodStep
  <2>2. pod'.current => pod'.image = sts.image
    <3>1. CASE CreatePod
      BY <3>1 DEF CreatePod, PodStep
    <3>2. CASE PodReady \/ PodFails
      BY <3>2 DEF PodReady, PodFails, PodStep, WellTyped
    <3>3. CASE DeletePod
      BY <3>3 DEF DeletePod, PodStep, WellTyped
    <3> QED BY <1>6, <3>1, <3>2, <3>3
  <2> QED BY <2>1, <2>2 DEF StatusOf
<1>7. CASE UNCHANGED vars
  BY <1>7 DEF vars, StatusOf
<1> QED
  BY <1>1, <1>2, <1>3, <1>4, <1>5, <1>6, <1>7 DEF Step, ReconcileStep

\* An upgrade is only closed as complete when x-0 is ready on the image that
\* the reconcile wants, whatever the user edits and wherever the operator is
\* stopped, as long as the StatefulSet's status does not lag.
THEOREM CompletionMeansReady == Spec => CompleteMeansReady
<1>1. Init => RolloutInv
  <2> SUFFICES ASSUME Init PROVE RolloutInv
    OBVIOUS
  <2>1. (pod.health = "ready") = FALSE /\ pod.current = FALSE
    BY DEF Init
  <2>2. status = [ready |-> FALSE, updated |-> FALSE]
    BY DEF Init
  <2>3. status = StatusOf(pod)
    BY <2>1, <2>2, Zenon DEF StatusOf
  <2> QED BY <2>1, <2>3 DEF Init, RolloutInv
<1>2. WellTyped /\ RolloutInv
        => [("lag" \notin faults /\ RolloutComplete)
              => /\ pod.current /\ pod.health = "ready"
                 /\ pod.image = ResolveContainerImage(node.spec)]_vars
  <2> SUFFICES ASSUME WellTyped, RolloutInv, "lag" \notin faults, RolloutComplete
               PROVE  /\ pod.current /\ pod.health = "ready"
                      /\ pod.image = ResolveContainerImage(node.spec)
    OBVIOUS
  <2>1. status.ready /\ status.updated /\ pc = "upgrade"
    BY DEF RolloutComplete, RolloutDone
  <2>2. status = [ready |-> pod.health = "ready", updated |-> pod.current]
    BY DEF RolloutInv, StatusOf
  <2>3. status.ready = (pod.health = "ready") /\ status.updated = pod.current
    BY <2>2, Zenon
  <2> QED BY <2>1, <2>3 DEF RolloutInv
<1> QED
  BY <1>1, <1>2, RolloutInvStep, TypeCorrect, TypeOKIsWellTyped, NextIsStep, PTL
     DEF Spec, CompleteMeansReady
-----------------------------------------------------------------------------
(* Where a rollback goes.  While spec.client is left alone, and no operator *)
(* crash comes between the two writes of a rollback, previous-image and last-image differ for   *)
(* as long as an upgrade is open.  A crash loop is only seen on a real      *)
(* image, so the made-up chain/client strings never start a rollback.       *)

\* The annotations of a StatefulSet that reconcileUpgrade has not seen.
RecordedInv == /\ node.spec.client = spec.client
               /\ sts.last = NoId \/ sts.lastClient = spec.client
               /\ sts.last = NoId => sts.previous = NoId

\* A pod that crash-loops has an image that could be pulled.
CrashLoopOnImage == pod.health = "crashLoop" => Pullable

Resolved == sts.image = ResolveContainerImage(node.spec)

RollbackInv ==
  /\ RecordedInv
  /\ CrashLoopOnImage
  /\ pc # "idle" => node.cond = cond
  /\ pc \in {"upgrade", "restartSts", "rollbackSts"} => Resolved
  /\ pc = "restartSts" => sts.last # WantImage
  /\ Upgrading(cond) /\ pc \notin {"restartSts", "rollbackCond"}
       => sts.previous = NoId \/ sts.previous # sts.last
  /\ pc = "rollbackSts" => /\ Upgrading(cond)
                           /\ sts.previous # NoId
                           /\ sts.last = WantImage
                           /\ WantImage = ResolveContainerImage(node.spec)
                           /\ pod.image = WantImage

\* One step, given no change of the client and no crash.
LEMMA RollbackInvStep ==
  ASSUME {"crash", "client"} \cap faults = {},
         WellTyped, RollbackInv, [Step]_vars
  PROVE  RollbackInv'
<1> USE DEF RollbackInv
<1>1. WantImage # NoId
  BY DEF WantImage, ResolveImageForUpgrade, ImageId, ClientId, NoId
<1>2. CASE Reconcile
  BY <1>2 DEF Reconcile, RecordedInv, CrashLoopOnImage, Pullable
<1>3. CASE EnsureStatefulSet
  <2>1. /\ sts'.image = ResolveContainerImage(node.spec) /\ sts'.last = sts.last
        /\ sts'.previous = sts.previous /\ sts'.lastClient = sts.lastClient
    BY <1>3 DEF EnsureStatefulSet, WellTyped
  <2>2. UNCHANGED <<spec, cond, node>> /\ pc = "ensure" /\ pc' = "upgrade"
    BY <1>3 DEF EnsureStatefulSet
  <2>3. pod'.image = pod.image /\ pod'.health = pod.health
    <3>1. CASE NewTemplate
      BY <3>1 DEF NewTemplate, WellTyped
    <3>2. CASE SameTemplate
      BY <3>2 DEF SameTemplate
    <3> QED BY <1>3, <3>1, <3>2 DEF EnsureStatefulSet
  <2> QED
    BY <2>1, <2>2, <2>3 DEF RecordedInv, CrashLoopOnImage, Pullable, Resolved,
       WantImage
<1>4. CASE StartRollingRestart
  <2>1. sts.last # WantImage
    BY <1>1, <1>4 DEF StartRollingRestart, ChangeDetected, RecordedInv, WellTyped,
       Specs
  <2>2. /\ UNCHANGED <<spec, sts, pod>> /\ node'.spec = node.spec
        /\ node'.cond = cond' /\ pc = "upgrade" /\ pc' = "restartSts"
    BY <1>4 DEF StartRollingRestart, SetCondition, WellTyped
  <2> QED
    BY <2>1, <2>2 DEF RecordedInv, CrashLoopOnImage, Pullable, Resolved, WantImage
<1>5. CASE PatchStatefulSet
  <2>1. /\ sts'.previous = (IF sts.last # NoId THEN sts.last ELSE sts.previous)
        /\ sts'.last = WantImage /\ sts'.lastClient = node.spec.client
    BY <1>5 DEF PatchStatefulSet, RecordUpgrade, WellTyped
  <2>2. UNCHANGED <<spec, cond, node>> /\ pc = "restartSts" /\ pc' = "idle"
    BY <1>5 DEF PatchStatefulSet
  <2>3. node.spec.client \in Clients
    BY DEF WellTyped, Specs
  <2>4. pod'.image = pod.image /\ pod'.health = pod.health
    BY <1>5 DEF PatchStatefulSet, RecordUpgrade, NewTemplate, WellTyped
  <2> QED
    BY <1>1, <2>1, <2>2, <2>3, <2>4 DEF RecordedInv, CrashLoopOnImage, Pullable
<1>6. CASE VerifyNothing
  BY <1>6 DEF VerifyNothing, RecordedInv, CrashLoopOnImage, Pullable
<1>7. CASE RolloutComplete \/ RollbackCondition
  BY <1>7 DEF RolloutComplete, RollbackCondition, SetCondition, Upgrading,
     RecordedInv, CrashLoopOnImage, Pullable, WellTyped
<1>8. CASE StartRollback
  <2>1. pod.health = "crashLoop" /\ pod.image = WantImage
    BY <1>8 DEF StartRollback, HasCrashLoop
  <2>2. PICK i \in Images : WantImage = ImageId(i)
    BY <2>1 DEF CrashLoopOnImage, Pullable
  <2>3. WantImage = ResolveContainerImage(node.spec)
    BY <2>2 DEF WantImage, ResolveImageForUpgrade, ResolveContainerImage, ImageId,
       ClientId
  <2>4. /\ UNCHANGED <<spec, cond, sts, pod, node>> /\ pc = "upgrade"
        /\ pc' = "rollbackSts" => sts.previous # NoId
        /\ pc' \in {"rollbackSts", "rollbackCond"}
    BY <1>8 DEF StartRollback
  <2>5. Upgrading(cond) /\ sts.last = WantImage
    BY <1>8 DEF StartRollback, ChangeDetected
  <2> QED
    BY <2>1, <2>3, <2>4, <2>5 DEF RecordedInv, CrashLoopOnImage, Pullable,
       Resolved, WantImage
<1>9. CASE RollbackStatefulSet
  <2>1. pod'.image = pod.image /\ pod'.health = pod.health
    BY <1>9 DEF RollbackStatefulSet, NewTemplate, WellTyped
  <2>2. /\ UNCHANGED <<spec, cond, node>> /\ pc' = "rollbackCond"
        /\ pc = "rollbackSts"
        /\ sts'.last = sts.previous /\ sts'.previous = sts.previous
        /\ sts'.lastClient = sts.lastClient
    BY <1>9 DEF RollbackStatefulSet, WellTyped
  <2> QED
    BY <1>1, <2>1, <2>2 DEF RecordedInv, CrashLoopOnImage, Pullable
<1>10. CASE EditSpec \/ SyncStatus \/ UNCHANGED vars
  <2>1. UNCHANGED <<cond, sts, pod, node, pc>> /\ spec'.client = spec.client
    BY <1>10 DEF EditSpec, SyncStatus, vars
  <2> QED
    BY <2>1 DEF RecordedInv, CrashLoopOnImage, Pullable, Resolved, WantImage
<1>11. CASE CreatePod \/ PodReady \/ PodFails \/ DeletePod
  <2>1. UNCHANGED <<spec, cond, sts, node, pc>>
    BY <1>11 DEF CreatePod, PodReady, PodFails, DeletePod, PodStep
  <2>2. pod'.image \in {pod.image, sts.image} /\ CrashLoopOnImage'
    <3>1. CASE CreatePod
      BY <3>1 DEF CreatePod, PodStep, CrashLoopOnImage
    <3>2. CASE PodReady
      BY <3>2 DEF PodReady, PodStep, WellTyped, CrashLoopOnImage
    <3>3. CASE PodFails
      BY <3>3 DEF PodFails, PodStep, WellTyped, CrashLoopOnImage, Pullable
    <3>4. CASE DeletePod
      BY <3>4 DEF DeletePod, PodStep, WellTyped, CrashLoopOnImage
    <3> QED BY <1>11, <3>1, <3>2, <3>3, <3>4
  <2> QED
    BY <2>1, <2>2 DEF RecordedInv, Resolved, WantImage
<1>12. ~Crash
  BY DEF Crash
<1> QED
  BY <1>2, <1>3, <1>4, <1>5, <1>6, <1>7, <1>8, <1>9, <1>10, <1>11, <1>12
     DEF Step, ReconcileStep

RollbackUnlessCrash == {"crash", "client"} \cap faults = {} => RollbackInv

\* While the user leaves spec.client alone, a rollback never goes to the image that is crash-looping
\* as long as the operator is not stopped in the middle of a reconcile: for
\* any images, defaults and overrides, whatever the user edits meanwhile and
\* however late the StatefulSet's status is.
THEOREM RollbackChangesTheImage ==
  Spec => RollbackLeavesTheCrashingImage
<1>1. Init => RollbackUnlessCrash
  BY DEF Init, RollbackUnlessCrash, RollbackInv, RecordedInv, CrashLoopOnImage,
     Upgrading
<1>2. WellTyped /\ RollbackUnlessCrash /\ [Step]_vars /\ UNCHANGED faults
        => RollbackUnlessCrash'
  <2> SUFFICES ASSUME WellTyped, RollbackUnlessCrash, [Step]_vars,
                      {"crash", "client"} \cap faults = {}
               PROVE  RollbackInv'
    BY DEF RollbackUnlessCrash
  <2> QED BY RollbackInvStep DEF RollbackUnlessCrash
<1>3. WellTyped /\ RollbackUnlessCrash /\ [Step]_vars
        => [({"crash", "client"} \cap faults = {} /\ RollbackStatefulSet)
              => sts'.image # pod.image]_vars
  <2> SUFFICES ASSUME WellTyped, RollbackInv, RollbackStatefulSet
               PROVE  sts'.image # pod.image
    BY DEF RollbackUnlessCrash
  <2>1. sts'.image = sts.previous /\ pc = "rollbackSts"
    BY DEF RollbackStatefulSet, WellTyped
  <2> QED BY <2>1 DEF RollbackInv
<1> QED
  BY <1>1, <1>2, <1>3, TypeCorrect, TypeOKIsWellTyped, NextIsStep, PTL
     DEF Spec, RollbackLeavesTheCrashingImage
=============================================================================
