------------------------- MODULE ReplacementProofs -------------------------
(***************************************************************************)
(* Theorems about Replacement, for every set of Scenarios.          *)
(***************************************************************************)
EXTENDS Replacement, TLAPS

\* TypeOK without the scenario, which no step changes, and the history.
WellTyped == /\ api \in Objects /\ cache \in Objects
             /\ node \in Annotations
             /\ pods \in Pods
             /\ pc \in Steps

\* A step of the specification is a step of the system in the same scenario.
LEMMA NextIsStep ==
  [Next]_<<vars, faults, borrowed>> => [Step]_vars /\ UNCHANGED faults
BY DEF Next

\* What a caller of mergeAnnotations may ask for.
WantedAnnotations == [phase : Phases \cup {"keep"}, pod : {Unset, "new", "keep"},
                      old : {Unset, "old", "keep"}, started : Stamps \cup {"keep"}]

\* mergeAnnotations yields annotations, whatever it is asked to write.
LEMMA MergedType ==
  ASSUME NEW base \in Annotations, NEW current \in Annotations,
         NEW wanted \in WantedAnnotations
  PROVE  Merged(base, current, wanted) \in Annotations
<1> DEFINE m == Merged(base, current, wanted)
<1>1. DOMAIN NoAnnotations = {"phase", "pod", "old", "started"}
  BY DEF NoAnnotations
<1>2. m = [phase |-> m.phase, pod |-> m.pod, old |-> m.old,
           started |-> m.started]
  BY <1>1 DEF Merged
<1>3. /\ m.phase \in Phases
      /\ m.pod \in {Unset, "new"}
      /\ m.old \in {Unset, "old"}
      /\ m.started \in Stamps
  BY <1>1 DEF Merged, Annotations, WantedAnnotations
<1> QED
  BY <1>2, <1>3 DEF Annotations

\* A merge patch of the annotations preserves the type invariant.
LEMMA MergeTypeOK ==
  ASSUME WellTyped, NEW wanted \in WantedAnnotations, NEW ok \in Steps,
         MergeAnnotations(wanted, ok)
  PROVE  WellTyped'
<1>1. "idle" \in Steps
  BY DEF Steps
<1>2. CASE Write([api EXCEPT !.ann = Merged(cache.ann, api.ann, wanted)])
           /\ node' = api'.ann /\ Returns(ok, "idle") /\ UNCHANGED pods
  <2>1. Merged(cache.ann, api.ann, wanted) \in Annotations
    BY MergedType DEF WellTyped, Objects
  <2>2. api' \in Objects /\ cache' \in Objects /\ node' \in Annotations
    BY <1>2, <2>1 DEF WellTyped, Objects, Write
  <2>3. pods' \in Pods /\ pc' \in Steps
    BY <1>1, <1>2 DEF WellTyped, Returns
  <2> QED BY <2>2, <2>3 DEF WellTyped
<1>3. CASE UNCHANGED <<api, cache, node, pods>> /\ pc' = "idle"
  BY <1>1, <1>3 DEF WellTyped
<1> QED
  BY <1>2, <1>3 DEF MergeAnnotations, Fails

\* The two kinds of patch the workflow uses: of the phase alone, and of all
\* four annotations.
LEMMA MarkTypeOK ==
  ASSUME WellTyped, NEW phase \in Phases, NEW ok \in Steps, MarkPhase(phase, ok)
  PROVE  WellTyped'
<1> DEFINE w == [KeepAll EXCEPT !.phase = phase]
<1>1. w = [phase |-> phase, pod |-> "keep", old |-> "keep", started |-> "keep"]
  BY DEF KeepAll, NoAnnotations
<1>2. w \in WantedAnnotations
  BY <1>1 DEF WantedAnnotations
<1> QED
  BY <1>2, MergeTypeOK DEF MarkPhase

\* clearAnnotations preserves the type invariant.
LEMMA ClearTypeOK ==
  ASSUME WellTyped, ClearAnnotations
  PROVE  WellTyped'
<1>1. NoAnnotations \in WantedAnnotations
  BY DEF NoAnnotations, WantedAnnotations, Phases, Stamps
<1> QED
  BY <1>1, MergeTypeOK DEF ClearAnnotations, Steps

\* A patch of a pod's label, and a deletion of a pod, preserve it too.
LEMMA LabelTypeOK ==
  ASSUME WellTyped, NEW p \in {"old", "new"}, NEW value \in {Unset, "true", "false"},
         NEW ok \in Steps, NEW notFound \in Steps, NEW failed \in Steps,
         LabelPod(p, value, ok, notFound, failed)
  PROVE  WellTyped'
<1>1. pods' \in Pods
  BY DEF WellTyped, LabelPod, Fails, Pods
<1> QED
  BY <1>1 DEF WellTyped, LabelPod, Fails, Returns

\* Deleting a pod preserves the type invariant.
LEMMA DeleteTypeOK ==
  ASSUME WellTyped, NEW p \in {"old", "new"}, NEW ok \in Steps, NEW failed \in Steps,
         DeletePod(p, ok, failed)
  PROVE  WellTyped'
<1>1. \A st \in PodStates : Deleted(st) \in PodStates
  BY DEF Deleted, PodStates
<1>2. pods' \in Pods
  BY <1>1 DEF WellTyped, DeletePod, Fails, Pods
<1> QED
  BY <1>2 DEF WellTyped, DeletePod, Fails, Returns

\* Every step of a reconcile preserves the type invariant.
LEMMA HandlerTypeOK ==
  ASSUME WellTyped, HandlerStep
  PROVE  WellTyped'
<1>1. CASE StartReplacement
  <2>1. CASE MarkDraining
    <3>1. [phase |-> "Draining", pod |-> "new", old |-> "old",
           started |-> "recent"] \in WantedAnnotations
      BY DEF WantedAnnotations, Phases, Stamps
    <3> QED BY <2>1, <3>1, MergeTypeOK DEF MarkDraining, Steps
  <2>2. CASE CordonOldPod
    BY <2>2, LabelTypeOK, SMTT(30) DEF CordonOldPod, Steps
  <2>3. CASE DrainOldPod
    BY <2>3, LabelTypeOK DEF DrainOldPod, Steps
  <2>4. CASE MarkCreating
    BY <2>4, MarkTypeOK DEF MarkCreating, Steps, Phases
  <2>5. CASE SpawnReplacementPod
    <3>1. pods' \in Pods
      BY <2>5 DEF SpawnReplacementPod, Fails, WellTyped, Pods, PodStates
    <3> QED
      BY <2>5, <3>1 DEF SpawnReplacementPod, Fails, Returns, WellTyped, Steps
  <2>6. CASE MarkVerifying
    BY <2>6, MarkTypeOK DEF MarkVerifying, Steps, Phases
  <2> QED
    BY <1>1, <2>1, <2>2, <2>3, <2>4, <2>5, <2>6 DEF StartReplacement
<1>2. CASE MonitorReplacement
  <2>1. MonitorOutcomes \subseteq Steps
    BY DEF MonitorOutcomes, Steps
  <2> QED BY <1>2, <2>1 DEF MonitorReplacement, WellTyped
<1>3. CASE CompleteReplacement
  <2>1. CASE MarkCompleting
    BY <2>1, MarkTypeOK DEF MarkCompleting, Steps, Phases
  <2>2. CASE SwitchTrafficOld
    <3>1. CASE LabelPod("old", "false", "switchNew", "switchNew", "idle")
      BY <3>1, LabelTypeOK DEF Steps
    <3>2. CASE pc' = "idle" /\ UNCHANGED <<api, cache, node, pods>>
      BY <3>2 DEF WellTyped, Steps
    <3> QED BY <2>2, <3>1, <3>2 DEF SwitchTrafficOld
  <2>3. CASE SwitchTrafficNew
    BY <2>3, LabelTypeOK DEF SwitchTrafficNew, Steps
  <2>4. CASE RemoveOldPod
    BY <2>4, DeleteTypeOK DEF RemoveOldPod, Steps
  <2>5. CASE ClearAfterComplete
    BY <2>5, ClearTypeOK DEF ClearAfterComplete
  <2> QED
    BY <1>3, <2>1, <2>2, <2>3, <2>4, <2>5 DEF CompleteReplacement
<1>4. CASE RollbackReplacement
  <2>1. CASE MarkRollingBack
    BY <2>1, MarkTypeOK DEF MarkRollingBack, Steps, Phases
  <2>2. CASE DropReplacementPod
    <3>1. CASE DeletePod("new", "restoreOld", "restoreOld")
      BY <3>1, DeleteTypeOK DEF Steps
    <3>2. CASE pc' = "restoreOld" /\ UNCHANGED <<api, cache, node, pods>>
      BY <3>2 DEF WellTyped, Steps
    <3> QED BY <2>2, <3>1, <3>2 DEF DropReplacementPod
  <2>3. CASE RestoreOldPod
    <3>1. CASE LabelPod("old", "true", "clearRolledBack", "clearRolledBack",
                        "clearRolledBack")
      BY <3>1, LabelTypeOK DEF Steps
    <3>2. CASE pc' = "clearRolledBack" /\ UNCHANGED <<api, cache, node, pods>>
      BY <3>2 DEF WellTyped, Steps
    <3> QED BY <2>3, <3>1, <3>2 DEF RestoreOldPod
  <2>4. CASE ClearAfterRollback
    BY <2>4, ClearTypeOK DEF ClearAfterRollback
  <2> QED
    BY <1>4, <2>1, <2>2, <2>3, <2>4 DEF RollbackReplacement
<1> QED
  BY <1>1, <1>2, <1>3, <1>4 DEF HandlerStep

\* Time passing keeps annotations annotations.
LEMMA AgedType ==
  ASSUME NEW ann \in Annotations
  PROVE  Aged(ann) \in Annotations
BY DEF Aged, Annotations, Stamps

\* The type invariant: every annotation, cached copy, pod label and handler
\* state is one the code writes, for every set of disturbances.
THEOREM TypeCorrect == Spec => []TypeOK
<1>1. Init => WellTyped
  BY DEF Init, WellTyped, Objects, Annotations, NoAnnotations, Phases, Stamps,
         Pods, PodStates, NoPod, Steps
<1>2. WellTyped /\ [Step]_vars => WellTyped'
  <2> SUFFICES ASSUME WellTyped, [Step]_vars
               PROVE  WellTyped'
    OBVIOUS
  <2>1. CASE EvaluateTriggers \/ AdvanceReplacement
    BY <2>1 DEF EvaluateTriggers, AdvanceReplacement, WellTyped, Objects, Steps
  <2>2. CASE HandlerStep
    BY <2>2, HandlerTypeOK
  <2>3. CASE Crash
    BY <2>3 DEF Crash, WellTyped, Steps, NoAnnotations, Annotations, Phases, Stamps
  <2>4. CASE CatchUp
    BY <2>4 DEF CatchUp, WellTyped
  <2>5. CASE Elapse
    <3>1. /\ Aged(api.ann) \in Annotations /\ Aged(cache.ann) \in Annotations
          /\ Aged(node) \in Annotations
      BY AgedType DEF WellTyped, Objects
    <3> QED BY <2>5, <3>1 DEF Elapse, WellTyped, Objects
  <2>6. ASSUME NEW p \in {"old", "new"}, StartPod(p) \/ FlapPod(p) \/ StopPod(p)
        PROVE  WellTyped'
    <3>1. pods' \in Pods
      BY <2>6 DEF StartPod, FlapPod, StopPod, WellTyped, Pods, PodStates, NoPod
    <3> QED BY <2>6, <3>1 DEF StartPod, FlapPod, StopPod, WellTyped
  <2>7. CASE RecreateOldPod \/ RestartDegradedPod \/ GarbageCollect
    <3>1. \A st \in PodStates : Deleted(st) \in PodStates
      BY DEF Deleted, PodStates
    <3>2. pods' \in Pods
      BY <2>7, <3>1 DEF RecreateOldPod, RestartDegradedPod, GarbageCollect,
                        WellTyped, Pods, PodStates
    <3> QED
      BY <2>7, <3>2 DEF RecreateOldPod, RestartDegradedPod, GarbageCollect, WellTyped
  <2>8. CASE ChangeStatus \/ DeleteInstance
    BY <2>8 DEF ChangeStatus, DeleteInstance, Write, WellTyped, Objects
  <2>9. CASE RequeueTransient \/ UNCHANGED vars
    BY <2>9 DEF RequeueTransient, vars, WellTyped
  <2> QED
    BY <2>1, <2>2, <2>3, <2>4, <2>5, <2>6, <2>7, <2>8, <2>9 DEF Step
<1>3. Init => faults \in Scenarios
  BY DEF Init
<1>4. faults \in Scenarios /\ UNCHANGED faults => (faults \in Scenarios)'
  OBVIOUS
<1>5. Init => borrowed \in BOOLEAN
  BY DEF Init
<1>6. borrowed \in BOOLEAN /\ [Next]_<<vars, faults, borrowed>>
        => (borrowed \in BOOLEAN)'
  <2> SUFFICES ASSUME borrowed \in BOOLEAN, [Next]_<<vars, faults, borrowed>>
               PROVE  borrowed' \in BOOLEAN
    OBVIOUS
  <2>1. CASE borrowed' = (pods["new"].st \in Terminating)
    <3>1. (pods["new"].st \in Terminating) \in BOOLEAN
      BY DEF Terminating
    <3> QED BY <2>1, <3>1
  <2>2. CASE UNCHANGED borrowed
    BY <2>2
  <2> QED BY <2>1, <2>2 DEF Next, Record
<1>7. WellTyped /\ faults \in Scenarios /\ borrowed \in BOOLEAN => TypeOK
  BY DEF WellTyped, TypeOK
<1> QED
  BY <1>1, <1>2, <1>3, <1>4, <1>5, <1>6, <1>7, NextIsStep, PTL DEF Spec

\* The type invariant gives every later step its types.
LEMMA TypeOKIsWellTyped == TypeOK => WellTyped
BY DEF TypeOK, WellTyped
-----------------------------------------------------------------------------
\* removePod is only reached after the replacement pod was labelled ready:
\* the order of SwitchTraffic and removePod in CompleteReplacement, and the
\* error returns between them, under every disturbance.
THEOREM RemovalFollowsSwitch == Spec => []RemoveAfterSwitch
<1>1. Init => RemoveAfterSwitch
  BY DEF Init, RemoveAfterSwitch
<1>2. WellTyped /\ RemoveAfterSwitch /\ [Step]_vars => RemoveAfterSwitch'
  <2> SUFFICES ASSUME WellTyped, RemoveAfterSwitch, [Step]_vars, pc' = "removeOld"
               PROVE  pods'["new"].ready = "true" \/ pods'["new"].st = "absent"
    BY DEF RemoveAfterSwitch
  <2>1. CASE HandlerStep
    <3>1. CASE SwitchTrafficNew
      BY <3>1 DEF SwitchTrafficNew, LabelPod, Fails, Returns, WellTyped, Pods
    <3>2. CASE StartReplacement
      BY <3>2 DEF StartReplacement, MarkDraining, CordonOldPod, DrainOldPod,
           MarkCreating, SpawnReplacementPod, MarkVerifying, MarkPhase,
           MergeAnnotations, LabelPod, Fails, Returns
    <3>3. CASE MonitorReplacement
      BY <3>3 DEF MonitorReplacement, MonitorOutcomes
    <3>4. CASE MarkCompleting \/ SwitchTrafficOld \/ RemoveOldPod
               \/ ClearAfterComplete
      BY <3>4 DEF MarkCompleting, SwitchTrafficOld, RemoveOldPod,
           ClearAfterComplete, MarkPhase, ClearAnnotations, MergeAnnotations,
           LabelPod, DeletePod, Fails, Returns
    <3>5. CASE RollbackReplacement
      BY <3>5 DEF RollbackReplacement, MarkRollingBack, DropReplacementPod,
           RestoreOldPod, ClearAfterRollback, MarkPhase, ClearAnnotations,
           MergeAnnotations, LabelPod, DeletePod, Fails, Returns
    <3> QED
      BY <2>1, <3>1, <3>2, <3>3, <3>4, <3>5 DEF HandlerStep, CompleteReplacement
  <2>2. CASE EvaluateTriggers \/ AdvanceReplacement \/ Crash
    BY <2>2 DEF EvaluateTriggers, AdvanceReplacement, Crash
  <2>3. ASSUME NEW p \in {"old", "new"}, StartPod(p) \/ FlapPod(p) \/ StopPod(p)
        PROVE  pods'["new"].ready = "true" \/ pods'["new"].st = "absent"
    BY <2>3 DEF StartPod, FlapPod, StopPod, NoPod, WellTyped, Pods,
                RemoveAfterSwitch
  <2>4. CASE RecreateOldPod \/ RestartDegradedPod \/ GarbageCollect
    BY <2>4 DEF RecreateOldPod, RestartDegradedPod, GarbageCollect, WellTyped, Pods,
                RemoveAfterSwitch
  <2>5. CASE pods' = pods /\ pc' = pc
    BY <2>5 DEF RemoveAfterSwitch
  <2>6. CatchUp \/ Elapse \/ ChangeStatus \/ DeleteInstance \/ RequeueTransient
          \/ UNCHANGED vars => pods' = pods /\ pc' = pc
    BY DEF CatchUp, Elapse, ChangeStatus, DeleteInstance, RequeueTransient, vars
  <2> QED
    BY <2>1, <2>2, <2>3, <2>4, <2>5, <2>6 DEF Step
<1> QED
  BY <1>1, <1>2, TypeCorrect, TypeOKIsWellTyped, NextIsStep, PTL DEF Spec
-----------------------------------------------------------------------------
(* The annotations while the cache keeps up.  The invariant ties the        *)
(* handler's program counter to the phase that is stored: nobody else       *)
(* writes the annotations, so each patch starts from the phase that the     *)
(* handler's own last patch, or the read that started it, left behind.      *)

Fresh == cache = api

PhaseAt ==
  [idle            |-> Phases,
   markDraining    |-> {Unset, "Completing"},
   cordon          |-> {"Draining"},   drain         |-> {"Draining"},
   markCreating    |-> {"Draining"},   spawn         |-> {"Creating"},
   markVerifying   |-> {"Creating"},   monitor       |-> {"Verifying"},
   markCompleting  |-> {"Verifying"},  switchOld     |-> {"Completing"},
   switchNew       |-> {"Completing"}, removeOld     |-> {"Completing"},
   clearDone       |-> {"Completing"},
   markRollingBack |-> {"Verifying", "RollingBack"},
   dropNew         |-> {"RollingBack"}, restoreOld   |-> {"RollingBack"},
   clearRolledBack |-> {"RollingBack"}]

HandlerInStep == /\ pc # "idle" => node = api.ann
                 /\ api.ann.phase \in PhaseAt[pc]

\* What AnnotationsCoherent says of a scenario in which the cache keeps up.
Coherent == /\ api.ann.phase = Unset <=> api.ann.pod = Unset
            /\ api.ann.phase = Unset <=> api.ann.old = Unset
            /\ api.ann.phase = Unset <=> api.ann.started = Unset

TrackingInv == Fresh /\ HandlerInStep /\ Coherent

\* What a patch of the annotations does when the cache is up to date: the
\* keys asked for are written and the others left alone, or nothing happens
\* and the handler returns.
LEMMA FreshMerge ==
  ASSUME "stale" \notin faults, WellTyped, Fresh,
         NEW wanted \in WantedAnnotations, NEW ok, MergeAnnotations(wanted, ok)
  PROVE  /\ Fresh'
         /\ pods' = pods
         /\ \/ /\ api.live
               /\ node' = api'.ann
               /\ api'.ann = [k \in {"phase", "pod", "old", "started"} |->
                                IF wanted[k] = "keep" THEN api.ann[k] ELSE wanted[k]]
               /\ api'.live = api.live
               /\ \/ pc' = ok
                  \/ "error" \in faults /\ pc' = "idle"
            \/ /\ api' = api /\ node' = node /\ pc' = "idle"
               /\ "error" \in faults \/ ~api.live
<1>1. DOMAIN NoAnnotations = {"phase", "pod", "old", "started"}
  BY DEF NoAnnotations
<1>2. Merged(api.ann, api.ann, wanted) =
        [k \in {"phase", "pod", "old", "started"} |->
           IF wanted[k] = "keep" THEN api.ann[k] ELSE wanted[k]]
  BY <1>1 DEF Merged
<1>3. CASE /\ cache.live /\ api.live
           /\ Write([api EXCEPT !.ann = Merged(cache.ann, api.ann, wanted)])
           /\ node' = api'.ann
           /\ Returns(ok, "idle")
           /\ UNCHANGED pods
  BY <1>2, <1>3 DEF Write, Returns, Fresh, WellTyped, Objects
<1>4. CASE ~(cache.live /\ api.live) /\ pc' = "idle"
           /\ UNCHANGED <<api, cache, node, pods>>
  BY <1>4 DEF Fresh
<1>5. CASE Fails("idle")
  BY <1>5 DEF Fails, Fresh
<1> QED
  BY <1>3, <1>4, <1>5 DEF MergeAnnotations

\* The patches of the workflow: MarkPhase writes the phase alone.
LEMMA FreshMark ==
  ASSUME "stale" \notin faults, WellTyped, Fresh,
         NEW phase \in Phases, NEW ok, MarkPhase(phase, ok)
  PROVE  /\ Fresh'
         /\ pods' = pods
         /\ \/ /\ api.live /\ api'.live
               /\ node' = api'.ann
               /\ api'.ann.phase = phase /\ api'.ann.pod = api.ann.pod
               /\ api'.ann.old = api.ann.old /\ api'.ann.started = api.ann.started
               /\ \/ pc' = ok
                  \/ "error" \in faults /\ pc' = "idle"
            \/ /\ api' = api /\ node' = node /\ pc' = "idle"
               /\ "error" \in faults \/ ~api.live
<1> DEFINE w == [KeepAll EXCEPT !.phase = phase]
<1>1. w = [phase |-> phase, pod |-> "keep", old |-> "keep", started |-> "keep"]
  BY DEF KeepAll, NoAnnotations
<1>2. w \in WantedAnnotations
  BY <1>1 DEF WantedAnnotations
<1>3. MergeAnnotations(w, ok)
  BY DEF MarkPhase
<1>4. phase # "keep"
  BY DEF Phases, Unset
<1>5. /\ w.phase = phase /\ w.pod = "keep" /\ w.old = "keep"
      /\ w.started = "keep"
  BY <1>1
<1> DEFINE m == [k \in {"phase", "pod", "old", "started"} |->
                   IF w[k] = "keep" THEN api.ann[k] ELSE w[k]]
<1>6. /\ m.phase = phase /\ m.pod = api.ann.pod
      /\ m.old = api.ann.old /\ m.started = api.ann.started
  BY <1>4, <1>5
<1> HIDE DEF w
<1>7. /\ Fresh'
      /\ pods' = pods
      /\ \/ /\ api.live
            /\ node' = api'.ann
            /\ api'.ann = m
            /\ api'.live = api.live
            /\ \/ pc' = ok
               \/ "error" \in faults /\ pc' = "idle"
         \/ /\ api' = api /\ node' = node /\ pc' = "idle"
            /\ "error" \in faults \/ ~api.live
  BY <1>2, <1>3, FreshMerge
<1> HIDE DEF m
<1> QED
  BY <1>6, <1>7

\* clearAnnotations deletes all four.
LEMMA FreshClear ==
  ASSUME "stale" \notin faults, WellTyped, Fresh, ClearAnnotations
  PROVE  /\ Fresh'
         /\ pods' = pods
         /\ \/ /\ api.live /\ api'.live
               /\ node' = api'.ann
               /\ api'.ann.phase = Unset /\ api'.ann.pod = Unset
               /\ api'.ann.old = Unset /\ api'.ann.started = Unset
               /\ pc' = "idle"
            \/ /\ api' = api /\ node' = node /\ pc' = "idle"
               /\ "error" \in faults \/ ~api.live
<1>1. NoAnnotations \in WantedAnnotations
  BY DEF NoAnnotations, WantedAnnotations, Phases, Stamps
<1>2. MergeAnnotations(NoAnnotations, "idle")
  BY DEF ClearAnnotations
<1> QED
  BY <1>1, <1>2, FreshMerge, ZenonT(60) DEF NoAnnotations, Unset

\* The first patch of StartReplacement sets all four.
LEMMA FreshDraining ==
  ASSUME "stale" \notin faults, WellTyped, Fresh, MarkDraining
  PROVE  /\ Fresh'
         /\ pods' = pods
         /\ \/ /\ api.live /\ api'.live
               /\ node' = api'.ann
               /\ api'.ann.phase = "Draining" /\ api'.ann.pod = "new"
               /\ api'.ann.old = "old" /\ api'.ann.started = "recent"
               /\ pc' \in {"cordon", "idle"}
            \/ /\ api' = api /\ node' = node /\ pc' = "idle"
               /\ "error" \in faults \/ ~api.live
<1> DEFINE w == [phase |-> "Draining", pod |-> "new", old |-> "old",
                 started |-> "recent"]
<1>1. w \in WantedAnnotations
  BY DEF WantedAnnotations, Phases, Stamps
<1>2. MergeAnnotations(w, "cordon")
  BY DEF MarkDraining
<1> QED
  BY <1>1, <1>2, FreshMerge

\* A step of a reconcile preserves the tracking invariant and moves the phase
\* along an edge of the workflow.
LEMMA HandlerTracks ==
  ASSUME "stale" \notin faults, WellTyped, TrackingInv, HandlerStep
  PROVE  /\ TrackingInv'
         /\ \/ api'.ann.phase = api.ann.phase
            \/ <<api.ann.phase, api'.ann.phase>> \in PhaseEdges
<1> USE DEF TrackingInv
<1>0. api.ann.phase \in Phases
  BY DEF WellTyped, Objects, Annotations
<1>1. CASE MarkDraining
  <2>1. Fresh'
    BY <1>1, FreshDraining
  <2>2. \/ /\ node' = api'.ann
           /\ api'.ann.phase = "Draining" /\ api'.ann.pod = "new"
           /\ api'.ann.old = "old" /\ api'.ann.started = "recent"
           /\ pc' \in {"cordon", "idle"}
        \/ api' = api /\ pc' = "idle"
    BY <1>1, FreshDraining
  <2>3. Coherent'
    BY <2>2 DEF Coherent, Unset
  <2>4. HandlerInStep'
    BY <1>0, <2>2 DEF HandlerInStep, PhaseAt, Phases
  <2>5. api.ann.phase \in {Unset, "Completing"}
    BY <1>1 DEF MarkDraining, HandlerInStep, PhaseAt
  <2> QED BY <2>1, <2>2, <2>3, <2>4, <2>5 DEF PhaseEdges
<1>2. ASSUME NEW next, NEW phase \in Phases \ {Unset}, MarkPhase(phase, next),
             pc # "markDraining", pc # "idle",
             phase \in PhaseAt[next], phase \in PhaseAt["idle"],
             api.ann.phase # Unset,
             \/ api.ann.phase = phase
             \/ <<api.ann.phase, phase>> \in PhaseEdges
      PROVE  /\ TrackingInv'
             /\ \/ api'.ann.phase = api.ann.phase
                \/ <<api.ann.phase, api'.ann.phase>> \in PhaseEdges
  <2>1. \/ /\ node' = api'.ann
           /\ api'.ann.phase = phase /\ api'.ann.pod = api.ann.pod
           /\ api'.ann.old = api.ann.old /\ api'.ann.started = api.ann.started
           /\ pc' \in {next, "idle"}
        \/ api' = api /\ pc' = "idle"
    BY <1>2, FreshMark
  <2>2. Fresh'
    BY <1>2, FreshMark
  <2>3. Coherent'
    BY <1>2, <2>1 DEF Coherent
  <2>4. HandlerInStep'
    BY <1>0, <1>2, <2>1 DEF HandlerInStep, PhaseAt
  <2> QED BY <1>2, <2>1, <2>2, <2>3, <2>4
<1>3. CASE MarkCreating
  BY <1>2, <1>3 DEF MarkCreating, HandlerInStep, PhaseAt, PhaseEdges, Phases, Unset
<1>4. CASE MarkVerifying
  BY <1>2, <1>4 DEF MarkVerifying, HandlerInStep, PhaseAt, PhaseEdges, Phases, Unset
<1>5. CASE MarkCompleting
  BY <1>2, <1>5 DEF MarkCompleting, HandlerInStep, PhaseAt, PhaseEdges, Phases, Unset
<1>6. CASE MarkRollingBack
  BY <1>2, <1>6 DEF MarkRollingBack, HandlerInStep, PhaseAt, PhaseEdges, Phases,
     Unset
<1>7. CASE ClearAfterComplete \/ ClearAfterRollback
  <2>0. ClearAnnotations
    BY <1>7 DEF ClearAfterComplete, ClearAfterRollback
  <2>1. Fresh'
    BY <2>0, FreshClear
  <2>2. \/ /\ api'.ann.phase = Unset /\ api'.ann.pod = Unset
           /\ api'.ann.old = Unset /\ api'.ann.started = Unset
           /\ pc' = "idle"
        \/ api' = api /\ pc' = "idle"
    BY <2>0, FreshClear
  <2>3. Coherent'
    BY <2>2 DEF Coherent
  <2>4. HandlerInStep'
    BY <1>0, <2>2 DEF HandlerInStep, PhaseAt, Phases
  <2>5. api.ann.phase \in {"Completing", "RollingBack"}
    BY <1>7 DEF ClearAfterComplete, ClearAfterRollback, HandlerInStep, PhaseAt
  <2> QED BY <2>1, <2>2, <2>3, <2>4, <2>5 DEF PhaseEdges
<1>8. CASE /\ UNCHANGED <<api, cache, node>>
           /\ pc' = "idle" \/ (PhaseAt[pc] = PhaseAt[pc'] /\ pc # "idle")
  <2>1. PhaseAt["idle"] = Phases
    BY DEF PhaseAt
  <2>2. HandlerInStep'
    BY <1>0, <1>8, <2>1 DEF HandlerInStep
  <2> QED BY <1>8, <2>2 DEF Fresh, Coherent
<1>9. CASE CordonOldPod \/ DrainOldPod \/ SpawnReplacementPod
  <2>1. UNCHANGED <<api, cache, node>>
    BY <1>9 DEF CordonOldPod, DrainOldPod, SpawnReplacementPod, LabelPod, Fails
  <2>2. \/ pc = "cordon" /\ pc' \in {"drain", "idle"}
        \/ pc = "drain" /\ pc' = "markCreating"
        \/ pc = "spawn" /\ pc' \in {"markVerifying", "idle"}
    BY <1>9 DEF CordonOldPod, DrainOldPod, SpawnReplacementPod, LabelPod, Fails,
       Returns
  <2> QED BY <1>8, <2>1, <2>2, SMTT(30) DEF PhaseAt
<1>10. CASE MonitorReplacement
  <2>1. pc' \in {"idle", "markCompleting", "markRollingBack"}
    BY <1>10 DEF MonitorReplacement, MonitorOutcomes
  <2> QED
    BY <1>0, <1>10, <2>1 DEF MonitorReplacement, Fresh, HandlerInStep, PhaseAt,
       Coherent
<1>11. CASE SwitchTrafficOld \/ SwitchTrafficNew \/ RemoveOldPod
  <2>1. UNCHANGED <<api, cache, node>>
    BY <1>11 DEF SwitchTrafficOld, SwitchTrafficNew, RemoveOldPod, LabelPod,
       DeletePod, Fails
  <2>2. \/ pc = "switchOld" /\ pc' \in {"switchNew", "idle"}
        \/ pc = "switchNew" /\ pc' \in {"removeOld", "idle"}
        \/ pc = "removeOld" /\ pc' \in {"clearDone", "idle"}
    BY <1>11 DEF SwitchTrafficOld, SwitchTrafficNew, RemoveOldPod, LabelPod,
       DeletePod, Fails, Returns
  <2> QED BY <1>8, <2>1, <2>2 DEF PhaseAt
<1>12. CASE DropReplacementPod \/ RestoreOldPod
  <2>1. UNCHANGED <<api, cache, node>>
    BY <1>12 DEF DropReplacementPod, RestoreOldPod, LabelPod, DeletePod, Fails
  <2>2. \/ pc = "dropNew" /\ pc' = "restoreOld"
        \/ pc = "restoreOld" /\ pc' = "clearRolledBack"
    BY <1>12 DEF DropReplacementPod, RestoreOldPod, LabelPod, DeletePod, Fails,
       Returns
  <2> QED BY <1>8, <2>1, <2>2 DEF PhaseAt
<1> QED
  BY <1>1, <1>3, <1>4, <1>5, <1>6, <1>7, <1>9, <1>10, <1>11, <1>12
     DEF HandlerStep, StartReplacement, CompleteReplacement, RollbackReplacement

\* So does every step.
LEMMA StepTracks ==
  ASSUME "stale" \notin faults, WellTyped, TrackingInv, [Step]_vars
  PROVE  /\ TrackingInv'
         /\ \/ api'.ann.phase = api.ann.phase
            \/ <<api.ann.phase, api'.ann.phase>> \in PhaseEdges
<1> USE DEF TrackingInv
<1>0. api.ann.phase \in Phases
  BY DEF WellTyped, Objects, Annotations
<1>1. CASE HandlerStep
  BY <1>1, HandlerTracks
<1>2. CASE EvaluateTriggers
  BY <1>2 DEF EvaluateTriggers, IsReplacementInProgress, Fresh, HandlerInStep,
     PhaseAt, Coherent
<1>3. CASE AdvanceReplacement
  <2>1. api.ann.phase \in {"Verifying", "RollingBack"}
    BY <1>0, <1>3 DEF AdvanceReplacement, IsReplacementInProgress, Fresh, Phases
  <2>2. HandlerInStep'
    BY <1>3, <2>1 DEF AdvanceReplacement, Fresh, HandlerInStep, PhaseAt
  <2> QED BY <1>3, <2>2 DEF AdvanceReplacement, Fresh, Coherent
<1>4. CASE Crash
  BY <1>0, <1>4 DEF Crash, Fresh, HandlerInStep, PhaseAt, Coherent
<1>5. CASE Elapse
  <2>1. /\ Aged(api.ann).phase = api.ann.phase /\ Aged(api.ann).pod = api.ann.pod
        /\ Aged(api.ann).old = api.ann.old
        /\ Aged(api.ann).started = Unset <=> api.ann.started = Unset
    BY DEF Aged, WellTyped, Objects, Annotations, Unset
  <2>2. api'.ann = Aged(api.ann) /\ cache' = api'
    BY <1>5 DEF Elapse, WellTyped, Objects, Fresh
  <2>3. node' = Aged(node) /\ pc' = pc
    BY <1>5 DEF Elapse
  <2> HIDE DEF Aged
  <2> QED
    BY <2>1, <2>2, <2>3 DEF Fresh, HandlerInStep, Coherent
<1>6. CASE ChangeStatus \/ DeleteInstance
  <2>1. api'.ann = api.ann /\ cache' = api' /\ UNCHANGED <<node, pc>>
    BY <1>6 DEF ChangeStatus, DeleteInstance, Write, WellTyped, Objects
  <2> QED BY <2>1 DEF Fresh, HandlerInStep, Coherent
<1>7. CASE UNCHANGED <<api, cache, node, pc>>
  BY <1>7 DEF Fresh, HandlerInStep, Coherent
<1>8. ASSUME NEW p \in {"old", "new"}, StartPod(p) \/ FlapPod(p) \/ StopPod(p)
      PROVE  UNCHANGED <<api, cache, node, pc>>
  BY <1>8 DEF StartPod, FlapPod, StopPod
<1>9. RecreateOldPod \/ RestartDegradedPod \/ GarbageCollect \/ RequeueTransient
        \/ CatchUp \/ UNCHANGED vars => UNCHANGED <<api, cache, node, pc>>
  BY DEF RecreateOldPod, RestartDegradedPod, GarbageCollect, RequeueTransient,
     CatchUp, Fresh, vars
<1> QED
  BY <1>1, <1>2, <1>3, <1>4, <1>5, <1>6, <1>7, <1>8, <1>9 DEF Step

\* Both hold of a new ChainInstance.
LEMMA InitTracks == Init => TrackingInv
<1> SUFFICES ASSUME Init PROVE TrackingInv
  OBVIOUS
<1>1. Fresh
  BY DEF Init, Fresh
<1>2. HandlerInStep
  BY DEF Init, HandlerInStep, PhaseAt, NoAnnotations, Phases
<1>3. Coherent
  BY DEF Init, Coherent, NoAnnotations
<1> QED
  BY <1>1, <1>2, <1>3 DEF TrackingInv

\* The inductive invariant of every scenario in which the cache keeps up.
TrackingUnlessStale == "stale" \notin faults => TrackingInv

\* It is preserved in every scenario.
LEMMA NextTracks ==
  ASSUME WellTyped, TrackingUnlessStale, [Step]_vars, UNCHANGED faults
  PROVE  TrackingUnlessStale'
<1> SUFFICES ASSUME "stale" \notin faults PROVE TrackingInv'
  BY DEF TrackingUnlessStale
<1> QED
  BY StepTracks DEF TrackingUnlessStale

\* While the cache keeps up, the four annotations are set and cleared
\* together, through crashes, API errors and everything else.
THEOREM AnnotationsStayCoherent == Spec => []AnnotationsCoherent
<1>1. Init => TrackingUnlessStale
  BY InitTracks DEF TrackingUnlessStale
<1>2. WellTyped /\ TrackingUnlessStale /\ [Step]_vars /\ UNCHANGED faults
        => TrackingUnlessStale'
  BY NextTracks
<1>3. TrackingUnlessStale => AnnotationsCoherent
  BY DEF TrackingUnlessStale, TrackingInv, Coherent, AnnotationsCoherent
<1> QED
  BY <1>1, <1>2, <1>3, TypeCorrect, TypeOKIsWellTyped, NextIsStep, PTL DEF Spec

\* While the cache keeps up, the stored phase moves along the edges of the
\* workflow only: no crash, error or timeout makes a later reconcile act on a
\* phase that a patch of an earlier one has left behind.
THEOREM PhasesFollowTheWorkflow == Spec => PhaseGraph
<1>1. Init => TrackingUnlessStale
  BY InitTracks DEF TrackingUnlessStale
<1>2. WellTyped /\ TrackingUnlessStale /\ [Step]_vars /\ UNCHANGED faults
        => TrackingUnlessStale'
  BY NextTracks
<1>3. WellTyped /\ TrackingUnlessStale /\ [Step]_vars
        => [("stale" \notin faults /\ api'.ann.phase # api.ann.phase) =>
              <<api.ann.phase, api'.ann.phase>> \in PhaseEdges]_vars
  BY StepTracks DEF TrackingUnlessStale
<1> QED
  BY <1>1, <1>2, <1>3, TypeCorrect, TypeOKIsWellTyped, NextIsStep, PTL
     DEF Spec, PhaseGraph
-----------------------------------------------------------------------------
(* What a replacement leaves behind.  While no API call fails and the cache *)
(* keeps up, the invariant says what the handler has already done to the    *)
(* pods when it reaches the patch that clears the annotations.              *)

Running(p) == pods[p].st \in {"pending", "up"}

\* x-0 is not cordoned; no replacement pod runs that was not switched to.
OldClean == Running("old") => pods["old"].ready # "false"
NewClean == Running("new") => pods["new"].ready = "true"

\* A pod object that does not exist carries no label.
AbsentIsBlank == pods["old"].st = "absent" => pods["old"].ready = Unset

\* What LeftoversTracked says of such a scenario.
Tracked == api.live /\ api.ann.phase = Unset => OldClean /\ NewClean

CleanupInv == /\ Tracked
              /\ AbsentIsBlank
              /\ pc = "clearDone" => OldClean /\ NewClean
              /\ pc = "removeOld" => NewClean
              /\ pc = "clearRolledBack" => OldClean /\ NewClean
              /\ pc = "restoreOld" => NewClean

\* The kubelet, the StatefulSet controller, the main reconciler and the
\* garbage collector neither cordon x-0 nor bring back a replacement pod.
LEMMA ClusterKeepsClean ==
  ASSUME WellTyped, CleanupInv,
         \/ \E p \in {"old", "new"} : StartPod(p) \/ FlapPod(p) \/ StopPod(p)
         \/ RecreateOldPod \/ RestartDegradedPod \/ GarbageCollect
  PROVE  CleanupInv'
<1>1. /\ OldClean => OldClean'
      /\ NewClean => NewClean'
      /\ AbsentIsBlank'
      /\ UNCHANGED <<api, pc>>
  <2>1. ASSUME NEW p \in {"old", "new"}, StartPod(p) \/ FlapPod(p) \/ StopPod(p)
        PROVE  <1>1!:
    BY <2>1 DEF StartPod, FlapPod, StopPod, OldClean, NewClean, Running,
       AbsentIsBlank, CleanupInv, NoPod, Terminating, WellTyped, Pods
  <2>2. CASE RecreateOldPod \/ RestartDegradedPod \/ GarbageCollect
    BY <2>2, ZenonT(60) DEF RecreateOldPod, RestartDegradedPod, GarbageCollect, OldClean,
       NewClean, Running, AbsentIsBlank, CleanupInv, Deleted, Unset, WellTyped, Pods
  <2> QED BY <2>1, <2>2
<1>2. Tracked'
  BY <1>1 DEF CleanupInv, Tracked, OldClean, NewClean, Running
<1> QED
  BY <1>1, <1>2 DEF CleanupInv

\* A patch that leaves a phase behind leaves something that tracks the pods.
LEMMA MarkKeepsClean ==
  ASSUME "stale" \notin faults, WellTyped, TrackingInv, CleanupInv,
         \/ MarkDraining \/ MarkCreating \/ MarkVerifying \/ MarkCompleting
         \/ MarkRollingBack
  PROVE  CleanupInv'
<1>1. /\ pods' = pods
      /\ \/ api'.ann.phase # Unset
         \/ api' = api
      /\ pc' \in {"cordon", "spawn", "idle", "switchOld", "dropNew"}
  <2>1. CASE MarkDraining
    BY <2>1, FreshDraining DEF TrackingInv, Unset
  <2>2. ASSUME NEW phase \in Phases \ {Unset},
               NEW ok \in {"spawn", "idle", "switchOld", "dropNew"},
               MarkPhase(phase, ok)
        PROVE  <1>1!:
    BY <2>2, FreshMark DEF TrackingInv
  <2>3. CASE MarkCreating \/ MarkVerifying \/ MarkCompleting \/ MarkRollingBack
    BY <2>2, <2>3 DEF MarkCreating, MarkVerifying, MarkCompleting,
       MarkRollingBack, Phases, Unset
  <2> QED BY <2>1, <2>3
<1> QED
  BY <1>1 DEF CleanupInv, Tracked, AbsentIsBlank, OldClean, NewClean, Running

\* The annotations are only cleared when the pods are clean.
LEMMA ClearKeepsClean ==
  ASSUME "stale" \notin faults, WellTyped, TrackingInv, CleanupInv,
         ClearAfterComplete \/ ClearAfterRollback
  PROVE  CleanupInv'
<1>1. OldClean /\ NewClean /\ ClearAnnotations
  BY DEF ClearAfterComplete, ClearAfterRollback, CleanupInv
<1>2. pods' = pods /\ pc' = "idle"
  BY <1>1, FreshClear DEF TrackingInv
<1> QED
  BY <1>1, <1>2 DEF CleanupInv, Tracked, AbsentIsBlank, OldClean,
     NewClean, Running

\* The steps on the pods: removePod and the rollback clean up before the
\* annotations are cleared.
LEMMA PodStepsKeepClean ==
  ASSUME "stale" \notin faults, "error" \notin faults,
         WellTyped, TrackingInv, CleanupInv,
         \/ CordonOldPod \/ DrainOldPod \/ SpawnReplacementPod
         \/ MonitorReplacement
         \/ SwitchTrafficOld \/ SwitchTrafficNew \/ RemoveOldPod
         \/ DropReplacementPod \/ RestoreOldPod
  PROVE  CleanupInv'
<1>1. api.ann.phase # Unset /\ api' = api /\ node = api.ann
  <2>1. pc \in {"cordon", "drain", "spawn", "monitor", "switchOld", "switchNew",
               "removeOld", "dropNew", "restoreOld"}
    BY DEF CordonOldPod, DrainOldPod, SpawnReplacementPod, MonitorReplacement,
       SwitchTrafficOld, SwitchTrafficNew, RemoveOldPod, DropReplacementPod,
       RestoreOldPod
  <2>2. api' = api
    BY DEF CordonOldPod, DrainOldPod, SpawnReplacementPod, MonitorReplacement,
       SwitchTrafficOld, SwitchTrafficNew, RemoveOldPod, DropReplacementPod,
       RestoreOldPod, LabelPod, DeletePod, Fails
  <2>3. PhaseAt[pc] \subseteq {"Draining", "Creating", "Verifying", "Completing",
                              "RollingBack"}
    BY <2>1 DEF PhaseAt
  <2> QED BY <2>1, <2>2, <2>3 DEF TrackingInv, HandlerInStep, Unset
<1>2. Tracked'
  BY <1>1 DEF Tracked
<1>3. CASE CordonOldPod \/ DrainOldPod \/ SpawnReplacementPod
           \/ MonitorReplacement \/ SwitchTrafficOld
  <2>1. pc' \notin {"clearDone", "removeOld", "clearRolledBack", "restoreOld"}
    BY <1>3 DEF CordonOldPod, DrainOldPod, SpawnReplacementPod, Fails, Returns,
       MonitorReplacement, MonitorOutcomes, SwitchTrafficOld, LabelPod
  <2>2. AbsentIsBlank'
    BY <1>3 DEF CordonOldPod, DrainOldPod, SpawnReplacementPod, Fails,
       MonitorReplacement, SwitchTrafficOld, LabelPod, CleanupInv, AbsentIsBlank,
       WellTyped, Pods
  <2> QED BY <1>2, <2>1, <2>2 DEF CleanupInv
<1>4. CASE SwitchTrafficNew
  BY <1>2, <1>4 DEF SwitchTrafficNew, LabelPod, Fails, Returns, CleanupInv,
     AbsentIsBlank, NewClean, Running, WellTyped, Pods
<1>5. CASE RemoveOldPod
  BY <1>2, <1>5 DEF RemoveOldPod, DeletePod, Deleted, Fails, Returns, CleanupInv,
     AbsentIsBlank, OldClean, NewClean, Running, WellTyped, Pods
<1>6. CASE DropReplacementPod
  <2>1. node.pod # Unset
    BY <1>1 DEF TrackingInv, Coherent
  <2> QED
    BY <1>2, <1>6, <2>1 DEF DropReplacementPod, DeletePod, Deleted, Fails, Returns,
       CleanupInv, AbsentIsBlank, NewClean, Running, WellTyped, Pods
<1>7. CASE RestoreOldPod
  <2>1. node.old # Unset
    BY <1>1 DEF TrackingInv, Coherent
  <2> QED
    BY <1>2, <1>7, <2>1 DEF RestoreOldPod, LabelPod, Fails, Returns, CleanupInv,
       AbsentIsBlank, OldClean, NewClean, Running, WellTyped, Pods
<1> QED
  BY <1>3, <1>4, <1>5, <1>6, <1>7

\* The inductive invariant of every scenario without failing calls and with a
\* cache that keeps up.
NoErrors == faults \cap {"error", "stale"} = {}
CleanUnlessErrors == NoErrors => TrackingInv /\ CleanupInv

\* Every step keeps what the annotations do not track clean.
LEMMA StepKeepsClean ==
  ASSUME NoErrors, WellTyped, TrackingInv, CleanupInv, [Step]_vars
  PROVE  CleanupInv'
<1>0. "stale" \notin faults /\ "error" \notin faults
  BY DEF NoErrors
<1>1. CASE HandlerStep
  BY <1>0, <1>1, MarkKeepsClean, ClearKeepsClean, PodStepsKeepClean DEF HandlerStep,
     StartReplacement, CompleteReplacement, RollbackReplacement
<1>2. CASE \/ \E p \in {"old", "new"} : StartPod(p) \/ FlapPod(p) \/ StopPod(p)
           \/ RecreateOldPod \/ RestartDegradedPod \/ GarbageCollect
  BY <1>2, ClusterKeepsClean
<1>3. CASE EvaluateTriggers \/ AdvanceReplacement \/ Crash
  BY <1>3 DEF EvaluateTriggers, AdvanceReplacement, Crash, CleanupInv,
     Tracked, AbsentIsBlank, OldClean, NewClean, Running
<1>4. CASE /\ UNCHANGED <<pods, pc>>
           /\ api'.live => api.live
           /\ api'.ann.phase = api.ann.phase
  BY <1>4 DEF CleanupInv, Tracked, AbsentIsBlank, OldClean, NewClean,
     Running
<1>5. CASE Elapse
  <2>1. Aged(api.ann).phase = api.ann.phase
    BY DEF Aged, WellTyped, Objects, Annotations
  <2> QED BY <1>4, <1>5, <2>1 DEF Elapse, WellTyped, Objects
<1>6. CASE ChangeStatus \/ DeleteInstance
  BY <1>0, <1>4, <1>6 DEF ChangeStatus, DeleteInstance, Write, WellTyped, Objects
<1>7. CASE CatchUp \/ RequeueTransient \/ UNCHANGED vars
  BY <1>4, <1>7 DEF CatchUp, RequeueTransient, vars
<1> QED
  BY <1>1, <1>2, <1>3, <1>5, <1>6, <1>7 DEF Step

\* The invariant is preserved in every scenario.
LEMMA NextKeepsClean ==
  ASSUME WellTyped, CleanUnlessErrors, [Step]_vars, UNCHANGED faults
  PROVE  CleanUnlessErrors'
<1> SUFFICES ASSUME NoErrors PROVE TrackingInv' /\ CleanupInv'
  BY DEF CleanUnlessErrors, NoErrors
<1>1. TrackingInv /\ CleanupInv
  BY DEF CleanUnlessErrors
<1>2. CleanupInv'
  BY <1>1, StepKeepsClean
<1>3. TrackingInv'
  BY <1>1, StepTracks DEF NoErrors
<1> QED
  BY <1>2, <1>3

\* While no API call fails and the cache keeps up, everything a replacement
\* leaves on the pods is tracked by the annotations, wherever the operator is
\* stopped and whatever the rest of the cluster does meanwhile.
THEOREM LeftoversStayTracked == Spec => []LeftoversTracked
<1>1. Init => CleanUnlessErrors
  <2> SUFFICES ASSUME Init PROVE CleanupInv
    BY InitTracks DEF CleanUnlessErrors
  <2>1. /\ pods["old"].st = "up" /\ pods["old"].ready = Unset
        /\ pods["new"].st = "absent" /\ pc = "idle"
    BY DEF Init, NoPod
  <2> QED
    BY <2>1 DEF CleanupInv, Tracked, OldClean, NewClean, Running, AbsentIsBlank,
       Unset
<1>2. WellTyped /\ CleanUnlessErrors /\ [Step]_vars /\ UNCHANGED faults
        => CleanUnlessErrors'
  BY NextKeepsClean
<1>3. CleanUnlessErrors => LeftoversTracked
  BY DEF CleanUnlessErrors, NoErrors, CleanupInv, Tracked, OldClean, NewClean,
     Running, LeftoversTracked
<1> QED
  BY <1>1, <1>2, <1>3, TypeCorrect, TypeOKIsWellTyped, NextIsStep, PTL DEF Spec
-----------------------------------------------------------------------------
(* The hand-over.  From the spawn on, the pod that a replacement hands over *)
(* to is neither being deleted nor gone: only a rollback deletes it, and a  *)
(* stored phase RollingBack never becomes Verifying or Completing again,    *)
(* also not when the rollback is interrupted or its calls fail.  What a     *)
(* rollback leaves behind is found by the next spawn, which takes over a    *)
(* pod that is still terminating.                                           *)

\* The replacement pod is spawned and may be handed over to.
Committed == pc = "markVerifying" \/ api.ann.phase \in {"Verifying", "Completing"}

HandoverInv ==
  ~borrowed /\ Committed => pods["new"].st \in {"pending", "up"}

\* Taking over a pod that is not terminating, or creating one.
LEMMA SpawnHandsOver ==
  ASSUME WellTyped, TrackingInv, SpawnReplacementPod,
         borrowed' = (pods["new"].st \in Terminating)
  PROVE  HandoverInv'
<1>1. api.ann.phase = "Creating" /\ api' = api
  BY DEF SpawnReplacementPod, TrackingInv, HandlerInStep, PhaseAt, Fails
<1>2. CASE pc' = "markVerifying"
  <2>1. pods' = IF pods["new"].st = "absent"
                  THEN [pods EXCEPT !["new"] = [st |-> "pending",
                                                ready |-> "false"]]
                  ELSE pods
    BY <1>2 DEF SpawnReplacementPod, Fails
  <2> QED
    BY <2>1 DEF HandoverInv, Terminating, WellTyped, Pods, PodStates
<1>3. CASE pc' # "markVerifying"
  BY <1>1, <1>3 DEF HandoverInv, Committed
<1> QED BY <1>2, <1>3

\* The patches: only a committed replacement is marked Verifying or Completing.
LEMMA MarkHandsOver ==
  ASSUME "stale" \notin faults, WellTyped, TrackingInv,
         \/ MarkDraining \/ MarkCreating \/ MarkVerifying \/ MarkCompleting
         \/ ClearAfterComplete \/ MarkRollingBack \/ ClearAfterRollback
  PROVE  pods' = pods /\ (Committed' => Committed)
<1>1. CASE MarkDraining
  BY <1>1, FreshDraining DEF TrackingInv, Committed
<1>2. ASSUME NEW phase \in Phases, NEW ok \in Steps \ {"markVerifying"},
             MarkPhase(phase, ok)
      PROVE  /\ pods' = pods /\ pc' # "markVerifying"
             /\ api'.ann.phase \in {api.ann.phase, phase}
  BY <1>2, FreshMark DEF TrackingInv, Steps
<1>3. CASE MarkCreating \/ MarkRollingBack
  BY <1>2, <1>3 DEF MarkCreating, MarkRollingBack, Phases, Steps, Committed
<1>4. CASE MarkVerifying
  BY <1>2, <1>4 DEF MarkVerifying, Phases, Steps, Committed
<1>5. CASE MarkCompleting
  <2>1. api.ann.phase = "Verifying"
    BY <1>5 DEF MarkCompleting, TrackingInv, HandlerInStep, PhaseAt
  <2> QED BY <1>2, <1>5, <2>1 DEF MarkCompleting, Phases, Steps, Committed
<1>6. CASE ClearAfterComplete \/ ClearAfterRollback
  BY <1>6, FreshClear DEF ClearAfterComplete, ClearAfterRollback, TrackingInv,
     Committed, Unset
<1> QED
  BY <1>1, <1>3, <1>4, <1>5, <1>6

\* The other calls of the handler leave the stored phase alone, and only a
\* rollback, whose phase is RollingBack, touches the state of the pod.
LEMMA PodStepsHandOver ==
  ASSUME WellTyped, TrackingInv,
         \/ CordonOldPod \/ DrainOldPod \/ MonitorReplacement \/ SwitchTrafficOld
         \/ SwitchTrafficNew \/ RemoveOldPod \/ DropReplacementPod
         \/ RestoreOldPod
  PROVE  /\ Committed' => Committed
         /\ Committed => pods'["new"].st = pods["new"].st
<1>1. api' = api /\ pc' # "markVerifying"
  BY DEF CordonOldPod, DrainOldPod, MonitorReplacement, MonitorOutcomes,
     SwitchTrafficOld, SwitchTrafficNew, RemoveOldPod, DropReplacementPod,
     RestoreOldPod, LabelPod, DeletePod, Fails, Returns
<1>2. CASE DropReplacementPod
  BY <1>1, <1>2 DEF DropReplacementPod, TrackingInv, HandlerInStep, PhaseAt,
     Committed
<1>3. CASE ~DropReplacementPod
  <2>1. pods'["new"].st = pods["new"].st
    BY <1>3 DEF CordonOldPod, DrainOldPod, MonitorReplacement, SwitchTrafficOld,
       SwitchTrafficNew, RemoveOldPod, RestoreOldPod, LabelPod, DeletePod, Fails,
       WellTyped, Pods
  <2> QED BY <1>1, <2>1 DEF Committed
<1> QED BY <1>2, <1>3

\* The rest of the cluster deletes none but x-0.
LEMMA ClusterHandsOver ==
  ASSUME WellTyped,
         \/ \E p \in {"old", "new"} : StartPod(p) \/ FlapPod(p) \/ StopPod(p)
         \/ RecreateOldPod \/ RestartDegradedPod \/ GarbageCollect
  PROVE  /\ UNCHANGED <<api, pc>>
         /\ pods["new"].st \in {"pending", "up"}
              => pods'["new"].st \in {"pending", "up"}
<1>1. ASSUME NEW p \in {"old", "new"}, StartPod(p) \/ FlapPod(p) \/ StopPod(p)
      PROVE  /\ UNCHANGED <<api, pc>>
             /\ pods["new"].st \in {"pending", "up"}
                  => pods'["new"].st \in {"pending", "up"}
  BY <1>1 DEF StartPod, FlapPod, StopPod, Terminating, WellTyped, Pods
<1>2. CASE RecreateOldPod \/ RestartDegradedPod \/ GarbageCollect
  BY <1>2 DEF RecreateOldPod, RestartDegradedPod, GarbageCollect, WellTyped, Pods
<1> QED BY <1>1, <1>2

\* One step that spawns no pod.
LEMMA StepHandsOver ==
  ASSUME "stale" \notin faults, WellTyped, TrackingInv, HandoverInv, [Step]_vars,
         ~SpawnReplacementPod, borrowed' = borrowed
  PROVE  HandoverInv'
<1> SUFFICES /\ Committed' => Committed
             /\ Committed /\ pods["new"].st \in {"pending", "up"}
                  => pods'["new"].st \in {"pending", "up"}
  BY DEF HandoverInv
<1>1. CASE HandlerStep
  BY <1>1, MarkHandsOver, PodStepsHandOver
     DEF HandlerStep, StartReplacement, CompleteReplacement, RollbackReplacement
<1>2. CASE \/ \E p \in {"old", "new"} : StartPod(p) \/ FlapPod(p) \/ StopPod(p)
           \/ RecreateOldPod \/ RestartDegradedPod \/ GarbageCollect
  BY <1>2, ClusterHandsOver DEF Committed
<1>3. CASE EvaluateTriggers \/ AdvanceReplacement \/ Crash
  BY <1>3 DEF EvaluateTriggers, AdvanceReplacement, Crash, Committed
<1>4. CASE ChangeStatus \/ DeleteInstance
  BY <1>4 DEF ChangeStatus, DeleteInstance, Write, WellTyped, Objects, Committed
<1>5. CASE Elapse
  BY <1>5 DEF Elapse, Aged, WellTyped, Objects, Annotations, Committed
<1>6. CASE CatchUp \/ RequeueTransient \/ UNCHANGED vars
  BY <1>6 DEF CatchUp, RequeueTransient, vars, Committed
<1> QED
  BY <1>1, <1>2, <1>3, <1>4, <1>5, <1>6 DEF Step

\* The inductive invariant of every scenario in which the cache keeps up.
HandoverUnlessStale == "stale" \notin faults => TrackingInv /\ HandoverInv

\* A completion deletes x-0 only for a pod that is neither being deleted nor
\* gone, or for one that spawnReplacementPod found terminating: through
\* rollbacks, timeouts, failed calls, operator stops, unhealthy and flapping
\* pods, restarts of x-0 and the deletion of the ChainInstance.
THEOREM HandoverKeepsThePod == Spec => HandoverKeepsAPod
<1>1. Init => HandoverUnlessStale
  <2> SUFFICES ASSUME Init PROVE HandoverInv
    BY InitTracks DEF HandoverUnlessStale
  <2> QED
    BY DEF Init, NoAnnotations, HandoverInv, Committed, Unset
<1>2. WellTyped /\ HandoverUnlessStale /\ [Next]_<<vars, faults, borrowed>>
        => HandoverUnlessStale'
  <2> SUFFICES ASSUME WellTyped, HandoverUnlessStale, "stale" \notin faults,
                      [Next]_<<vars, faults, borrowed>>
               PROVE  TrackingInv' /\ HandoverInv'
    BY NextIsStep DEF HandoverUnlessStale
  <2>1. TrackingInv /\ HandoverInv /\ [Step]_vars
    BY NextIsStep DEF HandoverUnlessStale
  <2>2. TrackingInv'
    BY <2>1, StepTracks
  <2>3. CASE SpawnReplacementPod /\ Next
    BY <2>1, <2>2, <2>3, SpawnHandsOver DEF Next, Record
  <2>4. CASE ~SpawnReplacementPod /\ Next
    BY <2>1, <2>2, <2>4, StepHandsOver DEF Next, Record
  <2>5. CASE UNCHANGED <<vars, faults, borrowed>>
    BY <2>1, <2>2, <2>5 DEF vars, HandoverInv, Committed
  <2> QED BY <2>3, <2>4, <2>5
<1>3. HandoverUnlessStale
        => [("stale" \notin faults /\ RemoveOldPod)
              => (pods["new"].st \in {"pending", "up"} \/ borrowed)]_vars
  <2> SUFFICES ASSUME HandoverUnlessStale, "stale" \notin faults, RemoveOldPod
               PROVE  pods["new"].st \in {"pending", "up"} \/ borrowed
    OBVIOUS
  <2>1. api.ann.phase = "Completing"
    BY DEF HandoverUnlessStale, TrackingInv, HandlerInStep, PhaseAt, RemoveOldPod
  <2> QED BY <2>1 DEF HandoverUnlessStale, HandoverInv, Committed
<1> QED
  BY <1>1, <1>2, <1>3, TypeCorrect, TypeOKIsWellTyped, PTL
     DEF Spec, HandoverKeepsAPod
=============================================================================
