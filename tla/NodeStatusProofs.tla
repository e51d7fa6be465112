-------------------------- MODULE NodeStatusProofs --------------------------
(***************************************************************************)
(* Theorems about NodeStatus, for every height and set of scenarios.       *)
(***************************************************************************)
EXTENDS NodeStatus, TLAPS

\* TypeOK without the scenario, which no step changes.
WellTyped == /\ api \in Objects /\ node \in Objects
             /\ current \in BOOLEAN /\ updated \in BOOLEAN
             /\ probe \in Probes
             /\ height \in Heights
             /\ pod \in PodStates
             /\ pc \in Steps
             /\ earned \in BOOLEAN
             /\ stood \subseteq Heights

\* A step of the specification is a step of the system in the same scenario.
LEMMA NextIsStep ==
  [Next]_<<vars, faults>> => [Step]_vars /\ UNCHANGED faults
BY DEF Next

\* What the pieces of a cycle compute stays an object.
LEMMA TrackedType ==
  ASSUME NEW n \in Objects, NEW block \in Heights
  PROVE  Tracked(n, block) \in Objects /\ Untracked(n) \in Objects
BY DEF Tracked, Untracked, Objects, Stamps

\* An update of the annotations that is refused, or not made, keeps the types.
LEMMA PersistType ==
  ASSUME WellTyped, NEW n \in Objects, PersistAnnotations(n) \/ DoNotPersist
  PROVE  api' \in Objects /\ updated' \in BOOLEAN
BY DEF PersistAnnotations, DoNotPersist, WellTyped, Objects

\* Applying the probe to the status keeps the types.
LEMMA ApplyType ==
  ASSUME WellTyped,
         \/ ApplyDegradedFromError \/ ApplySyncingExempt \/ ApplyStalled
         \/ ApplyAdvancing
  PROVE  WellTyped'
<1> USE DEF WellTyped
<1>1. CASE ApplyDegradedFromError \/ ApplyStalled
  BY <1>1 DEF ApplyDegradedFromError, ApplyStalled, DoNotPersist, Objects,
     NodePhases, Steps
<1>2. CASE ApplySyncingExempt
  <2>1. api' \in Objects /\ updated' \in BOOLEAN
    BY <1>2, PersistType DEF ApplySyncingExempt, MaybeSnapshot
  <2> QED
    BY <1>2, <2>1 DEF ApplySyncingExempt, Recovered, Objects, NodePhases, Steps
<1>3. CASE ApplyAdvancing
  <2> DEFINE n == Tracked(node, probe.block)
  <2>0. probe.block \in Heights
    BY DEF Probes
  <2>1. n \in Objects /\ Untracked(n) \in Objects
    BY <2>0, TrackedType
  <2>2. api' \in Objects /\ updated' \in BOOLEAN
    BY <1>3, <2>1, PersistType DEF ApplyAdvancing, MaybeSnapshot
  <2>3. VerdictOf(probe) \in NodePhases
    BY DEF VerdictOf, NodePhases
  <2>4. node' \in Objects
    <3> HIDE DEF n
    <3>1. node' = [(IF probe.kind = "synced" THEN Untracked(n) ELSE n)
                     EXCEPT !.phase = VerdictOf(probe)]
      BY <1>3 DEF ApplyAdvancing, n
    <3> QED BY <2>1, <2>3, <3>1 DEF Objects
  <2>5. pc' \in Steps /\ earned' \in BOOLEAN
        /\ UNCHANGED <<current, probe, height, pod, stood>>
    BY <1>3 DEF ApplyAdvancing, Recovered, Steps
  <2> QED BY <2>2, <2>4, <2>5
<1> QED
  BY <1>1, <1>2, <1>3

\* So does the auto-restart.
LEMMA RestartType ==
  ASSUME WellTyped, RestartIfDegradedTooLong \/ ClearDegradedTracking
  PROVE  WellTyped'
<1> USE DEF WellTyped
<1> DEFINE Since(v) == [node EXCEPT !.since = v]
<1>0. Since("recent") \in Objects /\ Since("unset") \in Objects
  BY DEF Objects, Stamps
<1>1. ASSUME NEW next \in Steps, RecordDegraded(next) PROVE WellTyped'
  BY <1>0, <1>1, PersistType DEF RecordDegraded
<1>2. ASSUME NEW next \in Steps, LeaveRunning(next) PROVE WellTyped'
  BY <1>2 DEF LeaveRunning
<1>3. ASSUME NEW next \in Steps, RestartPod(next) PROVE WellTyped'
  BY <1>3 DEF RestartPod, PodStates
<1>4. ASSUME NEW next \in Steps, ForgetDegraded(next) PROVE WellTyped'
  BY <1>0, <1>4, PersistType DEF ForgetDegraded
<1>5. CASE RestartIfDegradedTooLong
  BY <1>1, <1>2, <1>3, <1>4, <1>5 DEF RestartIfDegradedTooLong, Steps
<1>6. CASE ClearDegradedTracking
  <2>1. api' \in Objects /\ updated' \in BOOLEAN
    BY <1>0, <1>6, PersistType DEF ClearDegradedTracking
  <2> QED BY <1>0, <1>6, <2>1 DEF ClearDegradedTracking, Steps
<1> QED
  BY <1>5, <1>6

\* The type invariant of a status cycle, with its heights bounded by the
\* height of the chain.
THEOREM TypeCorrect == Spec => []TypeOK
<1>1. Init => WellTyped
  <2> SUFFICES ASSUME Init PROVE WellTyped
    OBVIOUS
  <2>1. 0 \in Heights
    BY NodeStatusAssumption DEF Heights
  <2>2. api \in Objects /\ node \in Objects
    BY DEF Init, Objects, NodePhases, Stamps
  <2>3. probe \in Probes
    BY <2>1 DEF Init, Probes
  <2>4. pod \in PodStates /\ pc \in Steps
    BY DEF Init, NewPod, PodStates, Steps
  <2> QED
    BY <2>1, <2>2, <2>3, <2>4 DEF Init, WellTyped
<1>2. WellTyped /\ [Step]_vars => WellTyped'
  <2> SUFFICES ASSUME WellTyped, [Step]_vars
               PROVE  WellTyped'
    OBVIOUS
  <2>1. CASE HealthCheck
    BY <2>1, NodeStatusAssumption DEF HealthCheck, WellTyped, Probes, Steps
  <2>2. CASE ApplyDegradedFromError \/ ApplySyncingExempt \/ ApplyStalled
             \/ ApplyAdvancing
    BY <2>2, ApplyType
  <2>3. CASE RestartIfDegradedTooLong \/ ClearDegradedTracking
    BY <2>3, RestartType
  <2>4. CASE PatchStatus
    BY <2>4 DEF PatchStatus, WellTyped, Objects, Steps
  <2>5. CASE ElapseDegraded
    BY <2>5 DEF ElapseDegraded, Aged, WellTyped, Objects, Stamps
  <2>6. CASE ElapseStall
    <3>1. stood' \subseteq Heights
      BY <2>6 DEF ElapseStall, WellTyped, Probes
    <3> QED BY <2>6, <3>1 DEF ElapseStall, Aged, WellTyped, Objects, Stamps
  <2>7. CASE Crash \/ OtherWrite
    BY <2>7 DEF Crash, OtherWrite, WellTyped, Steps
  <2>8. CASE ChainAdvances
    BY <2>8, NodeStatusAssumption DEF ChainAdvances, WellTyped, Heights
  <2>9. CASE PodProgress
    BY <2>9 DEF PodProgress, WellTyped, PodStates, NewPod
  <2>10. CASE UNCHANGED vars
    BY <2>10 DEF vars, WellTyped
  <2> QED
    BY <2>1, <2>2, <2>3, <2>4, <2>5, <2>6, <2>7, <2>8, <2>9, <2>10
       DEF Step, Cycle
<1>3. Init => faults \in Scenarios
  BY DEF Init
<1>4. faults \in Scenarios /\ UNCHANGED faults => (faults \in Scenarios)'
  OBVIOUS
<1>5. WellTyped /\ faults \in Scenarios => TypeOK
  BY DEF WellTyped, TypeOK
<1> QED
  BY <1>1, <1>2, <1>3, <1>4, <1>5, NextIsStep, PTL DEF Spec

\* The type invariant gives every later step its types.
LEMMA TypeOKIsWellTyped == TypeOK => WellTyped
BY DEF TypeOK, WellTyped
-----------------------------------------------------------------------------
(* The stall detector.  An expired sync-stall-since always belongs to a     *)
(* height at which the node stood for the threshold, or to one the chain    *)
(* has left behind.  The height of the chain never falls, so a tracking     *)
(* annotation that was not updated can only name a height of the past.      *)

Sound(n) == n.stall = "expired" => n.last \in stood \/ n.last < height

SoundInv == /\ api.last <= height /\ node.last <= height /\ probe.block <= height
            /\ Sound(api) /\ Sound(node)
            /\ pc = "apply" /\ node.stall = "expired"
                 => node.last \in stood \/ node.last # probe.block

\* Whatever a cycle persists is sound if what it holds in memory is.
LEMMA SoundPersist ==
  ASSUME WellTyped, SoundInv, NEW n \in Objects, n.last <= height, Sound(n),
         PersistAnnotations(n) \/ DoNotPersist,
         UNCHANGED <<height, stood>>
  PROVE  api'.last <= height' /\ Sound(api)'
BY DEF PersistAnnotations, DoNotPersist, SoundInv, Sound, WellTyped, Objects

\* The tracking that detectHeightStall writes is sound.
LEMMA SoundTracked ==
  ASSUME WellTyped, SoundInv
  PROVE  /\ Tracked(node, probe.block) \in Objects
         /\ Tracked(node, probe.block).last <= height
         /\ Sound(Tracked(node, probe.block))
<1>1. node \in Objects /\ probe.block \in Heights
  BY DEF WellTyped, Probes
<1>2. Tracked(node, probe.block) \in Objects
  BY <1>1, TrackedType
<1>3. CASE node.last # probe.block
  <2>1. Tracked(node, probe.block)
          = [node EXCEPT !.last = probe.block, !.stall = "unset"]
    BY <1>3 DEF Tracked
  <2>2. /\ Tracked(node, probe.block).last = probe.block
        /\ Tracked(node, probe.block).stall = "unset"
    BY <1>1, <2>1 DEF Objects
  <2> QED BY <1>2, <2>2 DEF Sound, SoundInv
<1>4. CASE node.last = probe.block /\ node.stall = "unset"
  <2>1. Tracked(node, probe.block) = [node EXCEPT !.stall = "recent"]
    BY <1>4 DEF Tracked
  <2>2. /\ Tracked(node, probe.block).last = node.last
        /\ Tracked(node, probe.block).stall = "recent"
    BY <1>1, <2>1 DEF Objects
  <2> QED BY <1>2, <2>2 DEF Sound, SoundInv
<1>5. CASE node.last = probe.block /\ node.stall # "unset"
  BY <1>1, <1>5 DEF Tracked, Sound, SoundInv, Objects
<1> QED
  BY <1>2, <1>3, <1>4, <1>5

\* Applying the probe to the status preserves the invariant.
LEMMA ApplySound ==
  ASSUME WellTyped, SoundInv,
         \/ ApplyDegradedFromError \/ ApplySyncingExempt \/ ApplyStalled
         \/ ApplyAdvancing
  PROVE  SoundInv'
<1>1. pc' # "apply" /\ UNCHANGED <<probe, height, stood>>
  BY DEF ApplyDegradedFromError, ApplySyncingExempt, ApplyStalled, ApplyAdvancing
<1>2. CASE ApplyDegradedFromError \/ ApplyStalled
  BY <1>1, <1>2 DEF ApplyDegradedFromError, ApplyStalled, DoNotPersist, SoundInv,
     Sound, WellTyped, Objects
<1>3. CASE ApplySyncingExempt
  <2>1. api'.last <= height' /\ Sound(api)'
    BY <1>1, <1>3, SoundPersist DEF ApplySyncingExempt, MaybeSnapshot, SoundInv,
       WellTyped
  <2>2. node'.last = node.last /\ node'.stall = node.stall
    BY <1>3 DEF ApplySyncingExempt, WellTyped, Objects
  <2> QED BY <1>1, <2>1, <2>2 DEF SoundInv, Sound
<1>4. CASE ApplyAdvancing
  <2> DEFINE n == Tracked(node, probe.block)
  <2>1. n \in Objects /\ n.last <= height /\ Sound(n)
    BY SoundTracked
  <2> HIDE DEF n
  <2>2. PersistAnnotations(n) \/ DoNotPersist
    BY <1>4 DEF ApplyAdvancing, MaybeSnapshot, n
  <2>3. api'.last <= height' /\ Sound(api)'
    BY <1>1, <2>1, <2>2, SoundPersist
  <2>4. node' = [(IF probe.kind = "synced" THEN Untracked(n) ELSE n)
                   EXCEPT !.phase = VerdictOf(probe)]
    BY <1>4 DEF ApplyAdvancing, n
  <2>5. \/ node'.last = n.last /\ node'.stall = n.stall
        \/ node'.last = NoBlock /\ node'.stall = "unset"
    BY <2>1, <2>4 DEF Untracked, Objects
  <2>6. node'.last <= height' /\ Sound(node)'
    BY <1>1, <2>1, <2>5 DEF Sound, NoBlock, WellTyped, Heights
  <2> QED BY <1>1, <2>3, <2>6 DEF SoundInv
<1> QED
  BY <1>2, <1>3, <1>4

\* So does the auto-restart, which leaves the stall tracking alone.
LEMMA RestartSound ==
  ASSUME WellTyped, SoundInv, RestartIfDegradedTooLong \/ ClearDegradedTracking
  PROVE  SoundInv'
<1>1. pc' # "apply" /\ UNCHANGED <<probe, height, stood>>
  BY DEF RestartIfDegradedTooLong, ClearDegradedTracking, RecordDegraded,
     LeaveRunning, RestartPod, ForgetDegraded
<1>2. /\ node' \in Objects
      /\ node'.last = node.last /\ node'.stall = node.stall
  BY DEF RestartIfDegradedTooLong, ClearDegradedTracking, RecordDegraded,
     LeaveRunning, RestartPod, ForgetDegraded, WellTyped, Objects, Stamps
<1>3. PICK m \in {node, node'} : PersistAnnotations(m) \/ DoNotPersist
  BY DEF RestartIfDegradedTooLong, ClearDegradedTracking, RecordDegraded,
     LeaveRunning, RestartPod, ForgetDegraded, DoNotPersist
<1>4. m \in Objects /\ m.last <= height /\ Sound(m)
  BY <1>2 DEF SoundInv, Sound, WellTyped
<1>5. api'.last <= height' /\ Sound(api)'
  BY <1>1, <1>3, <1>4, SoundPersist
<1> QED
  BY <1>1, <1>2, <1>5 DEF SoundInv, Sound

\* A node is only called stalled at a height at which it stood for a full
\* threshold, whatever writes are lost to crashes and conflicts.
THEOREM StallsAreEarned == Spec => StallEarned
<1>1. Init => SoundInv
  BY DEF Init, SoundInv, Sound, NoBlock
<1>2. WellTyped /\ SoundInv /\ [Step]_vars => SoundInv'
  <2> SUFFICES ASSUME WellTyped, SoundInv, [Step]_vars
               PROVE  SoundInv'
    OBVIOUS
  <2>1. CASE HealthCheck
    <3>1. node' = api /\ probe'.block = height /\ UNCHANGED <<api, height, stood>>
      BY <2>1 DEF HealthCheck
    <3> QED BY <3>1 DEF SoundInv, Sound, WellTyped, Heights
  <2>2. CASE ApplyDegradedFromError \/ ApplySyncingExempt \/ ApplyStalled
             \/ ApplyAdvancing
    BY <2>2, ApplySound
  <2>3. CASE RestartIfDegradedTooLong \/ ClearDegradedTracking
    BY <2>3, RestartSound
  <2>4. CASE PatchStatus
    BY <2>4 DEF PatchStatus, SoundInv, Sound, WellTyped, Objects
  <2>5. CASE ElapseDegraded
    BY <2>5 DEF ElapseDegraded, SoundInv, Sound, WellTyped, Objects
  <2>6. CASE ElapseStall
    <3>1. /\ api'.last = api.last /\ node'.last = node.last
          /\ UNCHANGED <<probe, height, pc>>
      BY <2>6 DEF ElapseStall, WellTyped, Objects
    <3>2. /\ stood \subseteq stood' /\ height \in stood'
          /\ pc = "apply" => probe.block \in stood'
      BY <2>6 DEF ElapseStall
    <3>3. /\ api.last \in Int /\ node.last \in Int /\ height \in Int
      BY NodeStatusAssumption DEF WellTyped, Objects, Heights, NoBlock
    <3>4. Sound(api)' /\ Sound(node)'
      BY <3>1, <3>2, <3>3 DEF SoundInv, Sound
    <3> QED BY <3>1, <3>2, <3>4 DEF SoundInv
  <2>7. CASE Crash \/ OtherWrite \/ PodProgress \/ UNCHANGED vars
    BY <2>7 DEF Crash, OtherWrite, PodProgress, vars, SoundInv, Sound
  <2>8. CASE ChainAdvances
    <3>1. /\ UNCHANGED <<api, node, probe, pc, stood>> /\ height' = height + 1
          /\ height \in Int /\ api.last \in Int /\ node.last \in Int
          /\ probe.block \in Int
      BY <2>8, NodeStatusAssumption DEF ChainAdvances, WellTyped, Objects, Probes,
         Heights, NoBlock
    <3> QED BY <3>1 DEF SoundInv, Sound
  <2> QED
    BY <2>1, <2>2, <2>3, <2>4, <2>5, <2>6, <2>7, <2>8 DEF Step, Cycle
<1>3. SoundInv /\ ApplyStalled => probe.block \in stood
  BY DEF SoundInv, ApplyStalled, DetectHeightStall
<1> QED
  BY <1>1, <1>2, <1>3, TypeCorrect, TypeOKIsWellTyped, NextIsStep, PTL
     DEF Spec, StallEarned
-----------------------------------------------------------------------------
(* The auto-restart, for an operator that is not stopped between two calls  *)
(* and whose updates are not refused: memory and API server then agree on   *)
(* degraded-since.  An expired one has been earned, except where it is      *)
(* about to be cleared: after the pod was deleted, and after a recovery.    *)

Reliable == faults \cap {"crash", "conflict"} = {}

EarnedInv == /\ current
             /\ api.since = node.since
             /\ node.since = "expired"
                  => earned \/ pc \in {"forgetStalled", "forget", "clear"}

\* With every update accepted, what is persisted is what is in memory.
LEMMA ReliablePersist ==
  ASSUME WellTyped, EarnedInv, NEW n \in Objects, PersistAnnotations(n)
  PROVE  api'.since = n.since
BY DEF PersistAnnotations, EarnedInv, WellTyped, Objects

\* Applying the probe leaves degraded-since alone; a verdict other than
\* Degraded goes on to clear it.
LEMMA ApplyEarned ==
  ASSUME WellTyped, EarnedInv,
         \/ ApplyDegradedFromError \/ ApplySyncingExempt \/ ApplyStalled
         \/ ApplyAdvancing
  PROVE  EarnedInv'
<1>1. CASE ApplyDegradedFromError \/ ApplyStalled
  BY <1>1 DEF ApplyDegradedFromError, ApplyStalled, DoNotPersist, EarnedInv,
     WellTyped, Objects
<1>2. CASE ApplySyncingExempt
  <2>1. api'.since = api.since
    BY <1>2, ReliablePersist DEF ApplySyncingExempt, MaybeSnapshot, DoNotPersist,
       EarnedInv, WellTyped
  <2> QED BY <1>2, <2>1 DEF ApplySyncingExempt, EarnedInv, WellTyped, Objects
<1>3. CASE ApplyAdvancing
  <2> DEFINE n == Tracked(node, probe.block)
  <2>1. n \in Objects /\ n.since = node.since
    BY TrackedType DEF WellTyped, Probes, Tracked, Objects
  <2> HIDE DEF n
  <2>2. api'.since = api.since
    BY <1>3, <2>1, ReliablePersist DEF ApplyAdvancing, MaybeSnapshot,
       DoNotPersist, EarnedInv, n
  <2>3. node' = [(IF probe.kind = "synced" THEN Untracked(n) ELSE n)
                   EXCEPT !.phase = VerdictOf(probe)]
    BY <1>3 DEF ApplyAdvancing, n
  <2>4. node'.since = node.since
    BY <2>1, <2>3 DEF Untracked, Objects
  <2>5. pc = "apply" /\ current' = current
        /\ \/ pc' = "clear"
           \/ VerdictOf(probe) = "Degraded" /\ earned' = earned
    BY <1>3 DEF ApplyAdvancing, Recovered, WellTyped
  <2> QED BY <2>2, <2>4, <2>5 DEF EarnedInv
<1> QED
  BY <1>1, <1>2, <1>3

\* The auto-restart spends what was earned and clears the annotation.
LEMMA RestartEarnedInv ==
  ASSUME WellTyped, EarnedInv, RestartIfDegradedTooLong \/ ClearDegradedTracking
  PROVE  EarnedInv'
<1> DEFINE Since(v) == [node EXCEPT !.since = v]
<1>0. /\ Since("recent") \in Objects /\ Since("recent").since = "recent"
      /\ Since("unset") \in Objects /\ Since("unset").since = "unset"
  BY DEF WellTyped, Objects, Stamps
<1>1. ASSUME NEW next, RecordDegraded(next) PROVE EarnedInv'
  BY <1>0, <1>1, ReliablePersist DEF RecordDegraded, EarnedInv
<1>2. ASSUME NEW next, LeaveRunning(next),
             pc \in {"restartStalled", "restart"}
      PROVE  EarnedInv'
  BY <1>2 DEF LeaveRunning, EarnedInv
<1>3. ASSUME NEW next, RestartPod(next), next \in {"forgetStalled", "forget"}
      PROVE  EarnedInv'
  BY <1>3 DEF RestartPod, EarnedInv
<1>4. ASSUME NEW next, ForgetDegraded(next) PROVE EarnedInv'
  BY <1>0, <1>4, ReliablePersist DEF ForgetDegraded, EarnedInv
<1>5. CASE RestartIfDegradedTooLong
  BY <1>1, <1>2, <1>3, <1>4, <1>5 DEF RestartIfDegradedTooLong
<1>6. CASE ClearDegradedTracking
  <2>1. node' = Since("unset") /\ current' = current
    BY <1>6 DEF ClearDegradedTracking
  <2>2. api'.since = "unset"
    BY <1>0, <1>6, <2>1, ReliablePersist
       DEF ClearDegradedTracking, DoNotPersist, EarnedInv
  <2> QED BY <1>0, <2>1, <2>2 DEF EarnedInv
<1> QED
  BY <1>5, <1>6

\* A pod is only deleted after a full timeout of uninterrupted degradation
\* since the last restart.
THEOREM RestartsAreEarned == Spec => RestartEarned
<1>1. Init => EarnedInv
  BY DEF Init, EarnedInv
<1>2. Reliable /\ WellTyped /\ EarnedInv /\ [Step]_vars => EarnedInv'
  <2> SUFFICES ASSUME Reliable, WellTyped, EarnedInv, [Step]_vars
               PROVE  EarnedInv'
    OBVIOUS
  <2>0. "crash" \notin faults /\ "conflict" \notin faults
    BY DEF Reliable
  <2>1. CASE HealthCheck
    BY <2>0, <2>1 DEF HealthCheck, EarnedInv
  <2>2. CASE ApplyDegradedFromError \/ ApplySyncingExempt \/ ApplyStalled
             \/ ApplyAdvancing
    BY <2>2, ApplyEarned
  <2>3. CASE RestartIfDegradedTooLong \/ ClearDegradedTracking
    BY <2>3, RestartEarnedInv
  <2>4. CASE PatchStatus
    BY <2>4 DEF PatchStatus, EarnedInv, WellTyped, Objects
  <2>5. CASE ElapseDegraded
    BY <2>5 DEF ElapseDegraded, Aged, EarnedInv, WellTyped, Objects
  <2>6. CASE ElapseStall
    BY <2>6 DEF ElapseStall, EarnedInv, WellTyped, Objects
  <2>7. CASE Crash \/ OtherWrite
    BY <2>0, <2>7 DEF Crash, OtherWrite
  <2>8. CASE ChainAdvances \/ PodProgress \/ UNCHANGED vars
    BY <2>8 DEF ChainAdvances, PodProgress, vars, EarnedInv
  <2> QED
    BY <2>1, <2>2, <2>3, <2>4, <2>5, <2>6, <2>7, <2>8 DEF Step, Cycle
<1>3. Reliable /\ WellTyped /\ EarnedInv /\ [Step]_vars
        => (pod' = "gone" /\ pod # "gone" => earned)
  <2> SUFFICES ASSUME WellTyped, EarnedInv, [Step]_vars,
                      pod' = "gone", pod # "gone"
               PROVE  earned
    OBVIOUS
  <2>1. CASE RestartIfDegradedTooLong
    <3>1. /\ pc \in {"restartStalled", "restart"}
          /\ node.since = "expired"
      BY <2>1 DEF RestartIfDegradedTooLong, RecordDegraded, LeaveRunning,
         RestartPod, ForgetDegraded
    <3> QED BY <3>1 DEF EarnedInv
  <2>2. CASE PodProgress
    BY <2>2 DEF PodProgress, NewPod, WellTyped, PodStates
  <2>3. CASE ~(RestartIfDegradedTooLong \/ PodProgress)
    BY <2>3 DEF Step, Cycle, HealthCheck, ApplyDegradedFromError,
       ApplySyncingExempt, ApplyStalled, ApplyAdvancing, ClearDegradedTracking,
       PatchStatus, ElapseDegraded, ElapseStall, Crash, OtherWrite,
       ChainAdvances, vars
  <2> QED BY <2>1, <2>2, <2>3
<1>4. Init => (Reliable => EarnedInv)
  BY <1>1
<1>5. Reliable /\ UNCHANGED faults => Reliable'
  BY DEF Reliable
<1>6. ~Reliable /\ UNCHANGED faults => ~Reliable'
  BY DEF Reliable
<1>7. (Reliable => EarnedInv) /\ WellTyped /\ [Step]_vars
        => ((/\ faults \cap {"crash", "conflict"} = {}
             /\ pod' = "gone" /\ pod # "gone") => earned)
  BY <1>3 DEF Reliable
<1> QED
  BY <1>2, <1>4, <1>5, <1>6, <1>7, TypeCorrect, TypeOKIsWellTyped, NextIsStep, PTL
     DEF Spec, RestartEarned
=============================================================================
