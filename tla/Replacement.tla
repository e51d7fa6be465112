---------------------------- MODULE Replacement ----------------------------
(***************************************************************************)
(* Blue/green replacement of a blockchain node's pod: NodeHealthReconciler *)
(* (internal/controller/nodehealth_controller.go) driving                  *)
(* ReplacementManager (internal/health/replacement.go) and                 *)
(* LabelBasedTrafficManager (internal/health/traffic.go) for one           *)
(* ChainInstance "x".  One reconcile at a time runs for it; it is split    *)
(* into one step per API call, because the operator can stop, an API call  *)
(* can fail, and the kubelet, the StatefulSet controller, the user and the *)
(* main ChainInstanceReconciler can act between any two of them.           *)
(*                                                                         *)
(* "old" is the StatefulSet's pod x-0, "new" the bare pod                  *)
(* x-0-replacement.  Reads of the ChainInstance come from the manager's    *)
(* cache, writes are merge patches against what the cache returned.        *)
(***************************************************************************)
CONSTANT Scenarios  \* sets of disturbances; a behaviour meets those of one

KnownFaults == {"crash",        \* the operator stops between two API calls
                "error",        \* an API call reports an error
                "stale",        \* the cache lags behind the API server
                "timeout",      \* SyncTimeout elapses
                "unhealthy",    \* triggers fire on the replacement pod
                "flap",         \* a running pod loses readiness
                "restart",      \* the main reconciler deletes x-0
                "status",       \* the main reconciler changes status.phase
                "delete"}       \* the user deletes the ChainInstance

ASSUME ScenariosAssumption == Scenarios \subseteq SUBSET KnownFaults

VARIABLES
  api,      \* the ChainInstance held by the API server
  cache,    \* the manager's cached copy of it
  node,     \* the annotations of the handler's in-memory object
  pods,     \* the two pods
  pc,       \* the handler's next API call, "idle" between reconciles
  faults,   \* the disturbances that may happen in this behaviour
  borrowed  \* history: the last spawn took over a pod that was being deleted

vars == <<api, cache, node, pods, pc>>
-----------------------------------------------------------------------------
(* The four replacement annotations; "" is an annotation that is not set.   *)

Unset == ""
Phases == {Unset, "Draining", "Creating", "Verifying", "Completing",
           "RollingBack"}
Stamps == {Unset, "recent", "expired"}    \* older than SyncTimeout or not

Annotations == [phase : Phases, pod : {Unset, "new"}, old : {Unset, "old"},
                started : Stamps]

NoAnnotations == [phase |-> Unset, pod |-> Unset, old |-> Unset,
                  started |-> Unset]

Objects == [live : BOOLEAN, checkable : BOOLEAN, ann : Annotations]

(* What a pod is to this workflow: whether it exists, runs with every       *)
(* container ready ("up"), is being deleted, and its chainplane ready label.*)
PodStates == {"absent", "pending", "up", "termUp", "term"}
Terminating == {"termUp", "term"}
Pods == [{"old", "new"} -> [st : PodStates, ready : {Unset, "true", "false"}]]

NoPod == [st |-> "absent", ready |-> Unset]

Steps == {"idle", "markDraining", "cordon", "drain", "markCreating", "spawn",
          "markVerifying", "monitor", "markCompleting", "switchOld",
          "switchNew", "removeOld", "clearDone", "markRollingBack", "dropNew",
          "restoreOld", "clearRolledBack"}

TypeOK == /\ api \in Objects
          /\ cache \in Objects
          /\ node \in Annotations
          /\ pods \in Pods
          /\ pc \in Steps
          /\ faults \in Scenarios
          /\ borrowed \in BOOLEAN

Init == /\ api = [live |-> TRUE, checkable |-> TRUE, ann |-> NoAnnotations]
        /\ cache = api
        /\ node = NoAnnotations
        /\ pods = [old |-> [st |-> "up", ready |-> Unset], new |-> NoPod]
        /\ pc = "idle"
        /\ faults \in Scenarios
        /\ borrowed = FALSE
-----------------------------------------------------------------------------
(* API calls.                                                               *)

\* A write of the ChainInstance reaches the cache at once, unless it may lag.
Write(o) == /\ api' = o
            /\ cache' = IF "stale" \in faults THEN cache ELSE o

\* The call returned; with "error" it may report a failure all the same.
Returns(ok, failed) == \/ pc' = ok
                       \/ "error" \in faults /\ pc' = failed

\* The call failed and had no effect.
Fails(failed) == /\ "error" \in faults
                 /\ pc' = failed
                 /\ UNCHANGED <<api, cache, node, pods>>

\* Slip: the keys the caller leaves alone are patched as well.
MergedWithoutKeep(base, current, wanted) ==
  [k \in DOMAIN NoAnnotations |-> wanted[k]]

(* mergeAnnotations: the patch holds the keys in which the wanted object    *)
(* differs from the cached one it was derived from, and no resource version;*)
(* a new timestamp always differs.  "keep" is a key the caller leaves alone.*)
Merged(base, current, wanted) ==
  [k \in DOMAIN NoAnnotations |->
     IF wanted[k] = "keep" \/ (wanted[k] = base[k] /\ wanted[k] # "recent")
       THEN current[k]
       ELSE wanted[k]]

KeepAll == [k \in DOMAIN NoAnnotations |-> "keep"]

\* Re-read, patch, and copy the server's answer into the handler's object.
\* A missing object is an error, and every caller then returns it.
MergeAnnotations(wanted, ok) ==
  \/ /\ cache.live /\ api.live
     /\ Write([api EXCEPT !.ann = Merged(cache.ann, api.ann, wanted)])
     /\ node' = api'.ann
     /\ Returns(ok, "idle")
     /\ UNCHANGED pods
  \/ /\ ~(cache.live /\ api.live)
     /\ pc' = "idle"
     /\ UNCHANGED <<api, cache, node, pods>>
  \/ Fails("idle")

MarkPhase(phase, ok) == MergeAnnotations([KeepAll EXCEPT !.phase = phase], ok)

\* Slip: only the phase is deleted.
ClearPhaseOnly == MarkPhase(Unset, "idle")

\* clearAnnotations: the patch deletes the keys the cached object has.
ClearAnnotations == MergeAnnotations(NoAnnotations, "idle")

\* labelPod and setPodLabel: read the pod, patch its ready label.
LabelPod(p, value, ok, notFound, failed) ==
  \/ /\ pods[p].st # "absent"
     /\ pods' = [pods EXCEPT ![p].ready = value]
     /\ Returns(ok, failed)
     /\ UNCHANGED <<api, cache, node>>
  \/ /\ pods[p].st = "absent"
     /\ pc' = notFound
     /\ UNCHANGED <<api, cache, node, pods>>
  \/ Fails(failed)

\* Deletion is graceful: the pod keeps running until the kubelet stops it.
Deleted(st) == CASE st = "up"      -> "termUp"
                 [] st = "pending" -> "term"
                 [] OTHER          -> st

\* removePod and the deletion in RollbackReplacement: a missing pod is fine.
DeletePod(p, ok, failed) ==
  \/ /\ pods' = [pods EXCEPT ![p].st = Deleted(@)]
     /\ Returns(ok, failed)
     /\ UNCHANGED <<api, cache, node>>
  \/ Fails(failed)
-----------------------------------------------------------------------------
(* NodeHealthReconciler.Reconcile.                                          *)

\* Slip: a replacement being verified does not count as in progress.
InProgressUnlessVerifying(ann) ==
  ann.phase \notin {Unset, "Completing", "Verifying"}

\* Slip: an unfinished rollback does not count as in progress.
InProgressUnlessRollingBack(ann) ==
  ann.phase \notin {Unset, "Completing", "RollingBack"}

IsReplacementInProgress(ann) == ann.phase \notin {Unset, "Completing"}

\* The reads and early returns before the state machine.
Reconciles == pc = "idle" /\ cache.live /\ cache.checkable

\* A trigger fires on x-0.  When none fires the reconcile changes nothing.
EvaluateTriggers ==
  /\ Reconciles
  /\ ~IsReplacementInProgress(cache.ann)
  /\ node' = cache.ann
  /\ pc' = "markDraining"
  /\ UNCHANGED <<api, cache, pods>>

\* Slip: an unfinished rollback is monitored like a replacement.
AdvanceMonitors ==
  /\ Reconciles
  /\ IsReplacementInProgress(cache.ann)
  /\ cache.ann.phase \notin {"Draining", "Creating"}
  /\ node' = cache.ann
  /\ pc' = "monitor"
  /\ UNCHANGED <<api, cache, pods>>

\* advanceReplacement: Verifying is monitored, a transient phase is only
\* requeued, RollingBack and any other phase are rolled back.
AdvanceReplacement ==
  /\ Reconciles
  /\ IsReplacementInProgress(cache.ann)
  /\ cache.ann.phase \notin {"Draining", "Creating"}
  /\ node' = cache.ann
  /\ pc' = IF cache.ann.phase = "Verifying" THEN "monitor"
                                            ELSE "markRollingBack"
  /\ UNCHANGED <<api, cache, pods>>

RequeueTransient ==
  /\ Reconciles
  /\ cache.ann.phase \in {"Draining", "Creating"}
  /\ UNCHANGED vars
-----------------------------------------------------------------------------
(* StartReplacement.                                                        *)

MarkDraining ==
  /\ pc = "markDraining"
  /\ MergeAnnotations([phase |-> "Draining", pod |-> "new", old |-> "old",
                       started |-> "recent"], "cordon")

CordonOldPod == /\ pc = "cordon"
                /\ LabelPod("old", "false", "drain", "drain", "idle")

\* Drain labels the pod once more; its error is logged and ignored.
DrainOldPod ==
  /\ pc = "drain"
  /\ LabelPod("old", "false", "markCreating", "markCreating", "markCreating")

MarkCreating == pc = "markCreating" /\ MarkPhase("Creating", "spawn")

\* spawnReplacementPod clones x-0, which must exist; a pod that already has
\* the replacement's name is taken as it is.
SpawnReplacementPod ==
  /\ pc = "spawn"
  /\ \/ /\ pods["old"].st = "absent"
        /\ pc' = "idle"
        /\ UNCHANGED <<api, cache, node, pods>>
     \/ /\ pods["old"].st # "absent"
        /\ pods' = IF pods["new"].st = "absent"
                     THEN [pods EXCEPT !["new"] = [st |-> "pending",
                                                   ready |-> "false"]]
                     ELSE pods
        /\ Returns("markVerifying", "idle")
        /\ UNCHANGED <<api, cache, node>>
     \/ Fails("idle")

MarkVerifying == pc = "markVerifying" /\ MarkPhase("Verifying", "idle")
-----------------------------------------------------------------------------
(* handleVerifying and MonitorReplacement.                                  *)

\* Running with ready containers; deletion in progress is not looked at.
ContainersReady == pods["new"].st \in {"up", "termUp"}

MonitorOutcomes ==
  IF node.pod = Unset THEN {"markRollingBack"}
  ELSE (IF "error" \in faults THEN {"markRollingBack"} ELSE {})
       \cup (IF ~ContainersReady \/ "unhealthy" \in faults
               THEN {"idle"} ELSE {})
       \cup (IF ContainersReady
               THEN {IF node.started = "expired" THEN "markRollingBack"
                                                 ELSE "markCompleting"}
               ELSE {})

MonitorReplacement == /\ pc = "monitor"
                      /\ pc' \in MonitorOutcomes
                      /\ UNCHANGED <<api, cache, node, pods>>
-----------------------------------------------------------------------------
(* CompleteReplacement.  ValidateTraffic only logs; CleanupPVC is off.      *)

MarkCompleting == pc = "markCompleting" /\ MarkPhase("Completing", "switchOld")

\* The names come from the object the patch returned.
NamesKnown == node.old # Unset /\ node.pod # Unset

SwitchTrafficOld ==
  /\ pc = "switchOld"
  /\ \/ /\ NamesKnown
        /\ LabelPod("old", "false", "switchNew", "switchNew", "idle")
     \/ /\ ~NamesKnown
        /\ pc' = "idle"
        /\ UNCHANGED <<api, cache, node, pods>>

\* Slip: a failure to label the replacement pod is logged and ignored.
SwitchTrafficNewIgnoringErrors ==
  /\ pc = "switchNew"
  /\ LabelPod("new", "true", "removeOld", "removeOld", "removeOld")

SwitchTrafficNew == /\ pc = "switchNew"
                    /\ LabelPod("new", "true", "removeOld", "idle", "idle")

RemoveOldPod == /\ pc = "removeOld"
                /\ DeletePod("old", "clearDone", "idle")

ClearAfterComplete == pc = "clearDone" /\ ClearAnnotations
-----------------------------------------------------------------------------
(* RollbackReplacement: errors on the two pods are logged and ignored.      *)

MarkRollingBack == /\ pc = "markRollingBack"
                   /\ MarkPhase("RollingBack", "dropNew")

\* Slip: the rollback forgets to restore the old pod.
DropReplacementPodOnly ==
  /\ pc = "dropNew"
  /\ DeletePod("new", "clearRolledBack", "clearRolledBack")

DropReplacementPod ==
  /\ pc = "dropNew"
  /\ \/ /\ node.pod # Unset
        /\ DeletePod("new", "restoreOld", "restoreOld")
     \/ /\ node.pod = Unset
        /\ pc' = "restoreOld"
        /\ UNCHANGED <<api, cache, node, pods>>

RestoreOldPod ==
  /\ pc = "restoreOld"
  /\ \/ /\ node.old # Unset
        /\ LabelPod("old", "true", "clearRolledBack", "clearRolledBack",
                    "clearRolledBack")
     \/ /\ node.old = Unset
        /\ pc' = "clearRolledBack"
        /\ UNCHANGED <<api, cache, node, pods>>

ClearAfterRollback == pc = "clearRolledBack" /\ ClearAnnotations
-----------------------------------------------------------------------------
(* The operator process, its cache and its clock.                           *)

\* The operator stops; the next one lists the objects before it reconciles.
Crash == /\ "crash" \in faults
         /\ pc # "idle"
         /\ pc' = "idle"
         /\ node' = NoAnnotations
         /\ cache' = api
         /\ UNCHANGED <<api, pods>>

CatchUp == /\ cache # api
           /\ cache' = api
           /\ UNCHANGED <<api, node, pods, pc>>

Aged(ann) == [ann EXCEPT !.started = IF @ = "recent" THEN "expired" ELSE @]

\* SyncTimeout passes: every copy of the timestamp is now too old.
Elapse == /\ "timeout" \in faults
          /\ "recent" \in {api.ann.started, cache.ann.started, node.started}
          /\ api' = [api EXCEPT !.ann = Aged(@)]
          /\ cache' = [cache EXCEPT !.ann = Aged(@)]
          /\ node' = Aged(node)
          /\ UNCHANGED <<pods, pc>>
-----------------------------------------------------------------------------
(* The rest of the cluster.                                                 *)

StartPod(p) == /\ pods[p].st = "pending"
               /\ pods' = [pods EXCEPT ![p].st = "up"]
               /\ UNCHANGED <<api, cache, node, pc>>

FlapPod(p) == /\ "flap" \in faults
              /\ pods[p].st = "up"
              /\ pods' = [pods EXCEPT ![p].st = "pending"]
              /\ UNCHANGED <<api, cache, node, pc>>

\* The kubelet stops a deleted pod, then its object goes away.
StopPod(p) ==
  /\ pods[p].st \in Terminating
  /\ pods' = [pods EXCEPT ![p] = IF @.st = "termUp" THEN [@ EXCEPT !.st = "term"]
                                                     ELSE NoPod]
  /\ UNCHANGED <<api, cache, node, pc>>

\* The StatefulSet recreates x-0 from its template, which has no ready label.
RecreateOldPod == /\ api.live
                  /\ pods["old"].st = "absent"
                  /\ pods' = [pods EXCEPT !["old"].st = "pending"]
                  /\ UNCHANGED <<api, cache, node, pc>>

\* ChainInstanceReconciler.restartIfDegradedTooLong deletes x-0, whatever the
\* replacement annotations say.
RestartDegradedPod == /\ "restart" \in faults
                      /\ api.live
                      /\ pods["old"].st \in {"pending", "up"}
                      /\ pods' = [pods EXCEPT !["old"].st = Deleted(@)]
                      /\ UNCHANGED <<api, cache, node, pc>>

\* refreshStatus moves status.phase into or out of isCheckablePhase.
ChangeStatus == /\ "status" \in faults
                /\ api.live
                /\ Write([api EXCEPT !.checkable = ~@])
                /\ UNCHANGED <<node, pods, pc>>

DeleteInstance == /\ "delete" \in faults
                  /\ api.live
                  /\ Write([api EXCEPT !.live = FALSE])
                  /\ UNCHANGED <<node, pods, pc>>

\* x-0 is owned by the ChainInstance through its StatefulSet; the replacement
\* pod carries no owner reference.
GarbageCollect == /\ ~api.live
                  /\ pods["old"].st \in {"pending", "up"}
                  /\ pods' = [pods EXCEPT !["old"].st = Deleted(@)]
                  /\ UNCHANGED <<api, cache, node, pc>>
-----------------------------------------------------------------------------
StartReplacement == \/ MarkDraining \/ CordonOldPod \/ DrainOldPod
                    \/ MarkCreating \/ SpawnReplacementPod \/ MarkVerifying

CompleteReplacement == \/ MarkCompleting \/ SwitchTrafficOld
                       \/ SwitchTrafficNew \/ RemoveOldPod
                       \/ ClearAfterComplete

RollbackReplacement == \/ MarkRollingBack \/ DropReplacementPod
                       \/ RestoreOldPod \/ ClearAfterRollback

\* The steps of a reconcile that has started.
HandlerStep == \/ StartReplacement \/ MonitorReplacement
               \/ CompleteReplacement \/ RollbackReplacement

Step == \/ EvaluateTriggers \/ AdvanceReplacement \/ RequeueTransient
        \/ HandlerStep
        \/ Crash \/ CatchUp \/ Elapse
        \/ \E p \in {"old", "new"} : StartPod(p) \/ FlapPod(p) \/ StopPod(p)
        \/ RecreateOldPod \/ RestartDegradedPod \/ ChangeStatus
        \/ DeleteInstance \/ GarbageCollect

\* The history that goes with a step.
Record ==
  \/ SpawnReplacementPod /\ borrowed' = (pods["new"].st \in Terminating)
  \/ ~SpawnReplacementPod /\ UNCHANGED borrowed

Next == Step /\ Record /\ UNCHANGED faults

(* Fairness.  A reconcile that started runs on; a requeued ChainInstance is *)
(* reconciled again; the cache, the kubelet, the StatefulSet controller and *)
(* the garbage collector make progress.  Nothing makes a trigger fire.      *)
Fairness == /\ WF_vars(HandlerStep)
            /\ WF_vars(AdvanceReplacement)
            /\ WF_vars(CatchUp)
            /\ \A p \in {"old", "new"} : WF_vars(StartPod(p)) /\ WF_vars(StopPod(p))
            /\ WF_vars(RecreateOldPod)
            /\ WF_vars(GarbageCollect)

Spec == Init /\ [][Next]_<<vars, faults, borrowed>> /\ Fairness
-----------------------------------------------------------------------------
(* Safety.  Each property names the disturbances it does not survive.       *)

\* x-0 is only deleted by a completion that has labelled the replacement pod
\* ready=true, unless that pod has gone away meanwhile: SwitchTraffic's errors
\* abort CompleteReplacement before removePod.
RemoveAfterSwitch ==
  pc = "removeOld" => \/ pods["new"].ready = "true"
                      \/ pods["new"].st = "absent"

\* Everything a replacement leaves on the pods is tracked by the annotations
\* that a later reconcile starts from: when replacement-phase is not set, x-0
\* is not left cordoned and no unswitched replacement pod is left running,
\* whatever the point at which the operator stopped.  RollbackReplacement
\* swallows errors, and mergeAnnotations trusts the cache.
LeftoversTracked ==
  faults \cap {"error", "stale"} = {} /\ api.live /\ api.ann.phase = Unset =>
    /\ pods["old"].st \in {"pending", "up"} => pods["old"].ready # "false"
    /\ pods["new"].st \in {"pending", "up"} => pods["new"].ready = "true"

\* The annotations are written and cleared together: a phase that
\* advanceReplacement acts on comes with both pod names and the start time,
\* and no name outlives the phase.
AnnotationsCoherent ==
  "stale" \notin faults =>
    /\ api.ann.phase = Unset <=> api.ann.pod = Unset
    /\ api.ann.phase = Unset <=> api.ann.old = Unset
    /\ api.ann.phase = Unset <=> api.ann.started = Unset

\* A completion only deletes x-0 for a replacement pod that is neither being
\* deleted nor gone, also when rollbacks, operator stops and failed calls came
\* before it.  The one exception is a spawnReplacementPod that found the pod of
\* an earlier rollback still terminating: it takes that pod over.
HandoverKeepsAPod ==
  [][("stale" \notin faults /\ RemoveOldPod)
       => (pods["new"].st \in {"pending", "up"} \/ borrowed)]_vars

PhaseEdges == {<<Unset, "Draining">>, <<"Completing", "Draining">>,
               <<"Draining", "Creating">>, <<"Creating", "Verifying">>,
               <<"Verifying", "Completing">>, <<"Verifying", "RollingBack">>,
               <<"Completing", Unset>>, <<"RollingBack", Unset>>}

\* The stored phase only moves along the workflow's edges: no phase is
\* skipped, no verified replacement is restarted, and a replacement that is
\* rolling back is never completed.
PhaseGraph ==
  [][("stale" \notin faults /\ api'.ann.phase # api.ann.phase) =>
       <<api.ann.phase, api'.ann.phase>> \in PhaseEdges]_vars
-----------------------------------------------------------------------------
(* Liveness.                                                                *)

\* The operator is not stopped over and over again.
CrashesEnd == <>[][~Crash]_vars

\* A replacement that reached Verifying, with a pod that stays healthy, leaves
\* it for good: it is completed or, if the operator stops during the
\* completion, left in Completing.
VerifyingEnds ==
  (CrashesEnd /\ faults \subseteq {"crash", "restart"}) =>
    (api.ann.phase = "Verifying" ~> api.ann.phase \in {Unset, "Completing"})

\* A rollback that was interrupted is taken up again and finished: the phase
\* RollingBack always gives way to cleared annotations, unless the API fails
\* for good, the cache stays behind or the ChainInstance is deleted.
RollbackResumes ==
  (CrashesEnd /\ faults \cap {"error", "stale", "delete"} = {}) =>
    (api.ann.phase = "RollingBack" ~> api.ann.phase = Unset)

\* The transient phases are left again.
TransientPhasesAdvance ==
  api.ann.phase \in {"Draining", "Creating"}
    ~> api.ann.phase \notin {"Draining", "Creating"}
=============================================================================
