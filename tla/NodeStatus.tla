----------------------------- MODULE NodeStatus -----------------------------
(***************************************************************************)
(* The status half of a ChainInstanceReconciler cycle: refreshStatus       *)
(* (internal/controller/reconcile_health.go) probes the node, detects a    *)
(* frozen height and block lag, decides the phase, restarts a pod that has *)
(* been Degraded for too long, and patches the status.  One step per API   *)
(* call.  Annotations are written by persistAnnotations                    *)
(* (internal/controller/helpers.go), a full update that the API server     *)
(* refuses when the ChainInstance has changed since it was read; the       *)
(* status goes through a merge patch, which carries the resource version   *)
(* only after such an update.                                              *)
(***************************************************************************)
EXTENDS Integers

CONSTANTS
  MaxHeight,     \* bound on the height of the chain
  HasInit,       \* the pod has an init container (snapshot restore)
  AutoRestart,   \* spec.health.degradedTimeoutMinutes is not 0
  Scenarios      \* sets of circumstances; a behaviour meets those of one

KnownFaults == {"crash",      \* the operator stops between two API calls
                "conflict",   \* somebody else writes the ChainInstance
                "rpc",        \* the probe of a running node may fail
                "exempt"}     \* the adapter may report StallExempt

ASSUME NodeStatusAssumption ==
  /\ MaxHeight \in Nat
  /\ HasInit \in BOOLEAN
  /\ AutoRestart \in BOOLEAN
  /\ Scenarios \subseteq SUBSET KnownFaults

VARIABLES
  api,       \* tracking annotations and status.phase at the API server
  node,      \* the cycle's in-memory copy
  current,   \* nobody has written the object since the cycle read it
  updated,   \* the cycle has updated the object
  probe,     \* the result of HealthCheck
  height,    \* block height of the blockchain node
  pod,       \* x-0
  pc,        \* the cycle's next API call
  earned,    \* history: a full timeout of uninterrupted degradation has
             \* passed since the last restart
  stood,     \* history: the heights at which the node still stood, or had
             \* just been seen, when a stall threshold had passed
  faults     \* the circumstances of this behaviour

vars == <<api, node, current, updated, probe, height, pod, pc, earned, stood>>
-----------------------------------------------------------------------------
Heights == 0 .. MaxHeight
NoBlock == -1

\* A timestamp annotation: not set, set, or set longer ago than its limit.
Stamps == {"unset", "recent", "expired"}
NodePhases == {"Pending", "Syncing", "Healthy", "Degraded"}

Objects == [phase : NodePhases,
            since : Stamps,                      \* degraded-since
            stall : Stamps,                      \* sync-stall-since
            last : Heights \cup {NoBlock}]       \* last-sync-block

Probes == [kind : {"error", "syncing", "synced"}, exempt : BOOLEAN,
           lagging : BOOLEAN, block : Heights]

PodStates == {"init", "starting", "up", "gone"}

Steps == {"idle", "apply", "restartStalled", "forgetStalled", "restart",
          "forget", "clear", "patch"}

TypeOK == /\ api \in Objects /\ node \in Objects
          /\ current \in BOOLEAN /\ updated \in BOOLEAN
          /\ probe \in Probes
          /\ height \in Heights
          /\ pod \in PodStates
          /\ pc \in Steps
          /\ earned \in BOOLEAN
          /\ stood \subseteq Heights
          /\ faults \in Scenarios

NewPod == IF HasInit THEN "init" ELSE "starting"

Init == /\ api = [phase |-> "Pending", since |-> "unset", stall |-> "unset",
                  last |-> NoBlock]
        /\ node = api
        /\ current = TRUE /\ updated = FALSE
        /\ probe = [kind |-> "error", exempt |-> FALSE, lagging |-> FALSE,
                    block |-> 0]
        /\ height = 0
        /\ pod = NewPod
        /\ pc = "idle"
        /\ earned = FALSE
        /\ stood = {}
        /\ faults \in Scenarios
-----------------------------------------------------------------------------
(* API calls of a cycle.                                                    *)

\* persistAnnotations: the annotations of n replace the stored ones, unless
\* the object has changed; callers log the error and go on.
PersistAnnotations(n) ==
  IF current THEN /\ api' = [n EXCEPT !.phase = api.phase]
                  /\ updated' = TRUE
             ELSE UNCHANGED <<api, updated>>

DoNotPersist == UNCHANGED <<api, updated>>

\* estimateSyncETA stores a progress or block snapshot every so often, and
\* with it the annotations of n.
MaybeSnapshot(n) == PersistAnnotations(n) \/ DoNotPersist

\* The read and the probe that start a cycle.  A pod that does not run fails
\* it; the cached object may be outdated already.
HealthCheck ==
  /\ pc = "idle"
  /\ node' = api
  /\ current' \in (IF "conflict" \in faults THEN BOOLEAN ELSE {TRUE})
  /\ updated' = FALSE
  /\ probe' \in [kind : IF pod # "up" THEN {"error"}
                        ELSE {"syncing", "synced"}
                             \cup (IF "rpc" \in faults THEN {"error"} ELSE {}),
                 exempt : IF "exempt" \in faults THEN BOOLEAN ELSE {FALSE},
                 lagging : BOOLEAN, block : {height}]
  /\ pc' = "apply"
  /\ UNCHANGED <<api, height, pod, earned, stood>>
-----------------------------------------------------------------------------
(* Status application.                                                      *)

\* Slip: the height expected next is recorded.
TrackedNext(n, block) ==
  IF n.last # block THEN [n EXCEPT !.last = block + 1, !.stall = "unset"] ELSE n

\* Slip: a new height leaves sync-stall-since alone.
TrackedKeepingSince(n, block) ==
  CASE n.last # block      -> [n EXCEPT !.last = block]
    [] n.last = block /\ n.stall = "unset" -> [n EXCEPT !.stall = "recent"]
    [] OTHER               -> n

\* detectHeightStall: the tracking annotations after this look at the height.
Tracked(n, block) ==
  CASE n.last # block      -> [n EXCEPT !.last = block, !.stall = "unset"]
    [] n.last = block /\ n.stall = "unset" -> [n EXCEPT !.stall = "recent"]
    [] OTHER               -> n

DetectHeightStall(n, block) == n.last = block /\ n.stall = "expired"

Untracked(n) == [n EXCEPT !.last = NoBlock, !.stall = "unset"]

\* The cycle's verdict is not Degraded: any degradation has been interrupted.
Recovered(phase) == earned' = (earned /\ phase = "Degraded")

\* applyDegradedFromError.
ApplyDegradedFromError ==
  /\ pc = "apply" /\ probe.kind = "error"
  /\ node' = [node EXCEPT !.phase = "Degraded"]
  /\ DoNotPersist
  /\ pc' = "restart"
  /\ UNCHANGED <<current, probe, height, pod, earned, stood>>

\* applySyncingStatus when the adapter exempts the node from stall detection.
ApplySyncingExempt ==
  /\ pc = "apply" /\ probe.kind = "syncing" /\ probe.exempt
  /\ node' = [node EXCEPT !.phase = "Syncing"]
  /\ MaybeSnapshot(node)
  /\ pc' = "clear"
  /\ Recovered("Syncing")
  /\ UNCHANGED <<current, probe, height, pod, stood>>

StallChecked == \/ probe.kind = "syncing" /\ ~probe.exempt
                \/ probe.kind = "synced"

\* markStalled, and the stalled branch of applyFullySyncedStatus.
ApplyStalled ==
  /\ pc = "apply" /\ StallChecked
  /\ DetectHeightStall(node, probe.block)
  /\ node' = [node EXCEPT !.phase = "Degraded"]
  /\ DoNotPersist
  /\ pc' = "restartStalled"
  /\ UNCHANGED <<current, probe, height, pod, earned, stood>>

\* The other cases.  A synced node forgets its tracking in memory only; what
\* was persisted is the tracking that detectHeightStall updated.
VerdictOf(p) == CASE p.kind = "syncing" -> "Syncing"
                  [] p.lagging          -> "Degraded"
                  [] OTHER              -> "Healthy"

\* Slip: the tracking is persisted after a synced node has cleared it.
ApplyAdvancingCleared ==
  /\ pc = "apply" /\ StallChecked
  /\ ~DetectHeightStall(node, probe.block)
  /\ node' = [Untracked(node) EXCEPT !.phase = VerdictOf(probe)]
  /\ PersistAnnotations(node')
  /\ pc' = IF VerdictOf(probe) = "Degraded" THEN "restart" ELSE "clear"
  /\ Recovered(VerdictOf(probe))
  /\ UNCHANGED <<current, probe, height, pod, stood>>

ApplyAdvancing ==
  /\ pc = "apply" /\ StallChecked
  /\ ~DetectHeightStall(node, probe.block)
  /\ LET n == Tracked(node, probe.block)
     IN  /\ \/ n # node /\ PersistAnnotations(n)
            \/ n = node /\ probe.kind = "syncing" /\ MaybeSnapshot(n)
            \/ n = node /\ probe.kind = "synced" /\ DoNotPersist
         /\ node' = [(IF probe.kind = "synced" THEN Untracked(n) ELSE n)
                       EXCEPT !.phase = VerdictOf(probe)]
  /\ pc' = IF VerdictOf(probe) = "Degraded" THEN "restart" ELSE "clear"
  /\ Recovered(VerdictOf(probe))
  /\ UNCHANGED <<current, probe, height, pod, stood>>
-----------------------------------------------------------------------------
(* restartIfDegradedTooLong, called by refreshStatus for every Degraded node *)
(* and before that by the stall handling.                                    *)

\* Slip: degraded-since is only set in memory.
RecordInMemory(next) ==
  /\ node.since = "unset"
  /\ node' = [node EXCEPT !.since = "recent"]
  /\ pc' = next
  /\ UNCHANGED <<api, current, updated, probe, height, pod, earned, stood>>

RecordDegraded(next) ==
  /\ AutoRestart
  /\ node.since = "unset"
  /\ node' = [node EXCEPT !.since = "recent"]
  /\ PersistAnnotations(node')
  /\ pc' = next
  /\ UNCHANGED <<current, probe, height, pod, earned, stood>>

LeaveRunning(next) ==
  /\ ~AutoRestart \/ node.since = "recent" \/ (node.since = "expired" /\ pod = "gone")
  /\ pc' = next
  /\ UNCHANGED <<api, node, current, updated, probe, height, pod, earned, stood>>

RestartPod(next) ==
  /\ AutoRestart
  /\ node.since = "expired" /\ pod # "gone"
  /\ pod' = "gone"
  /\ earned' = FALSE
  /\ pc' = next
  /\ UNCHANGED <<api, node, current, updated, probe, height, stood>>

ForgetDegraded(next) ==
  /\ node' = [node EXCEPT !.since = "unset"]
  /\ PersistAnnotations(node')
  /\ pc' = next
  /\ UNCHANGED <<current, probe, height, pod, earned, stood>>

RestartIfDegradedTooLong ==
  \/ /\ pc = "restartStalled"
     /\ \/ RecordDegraded("restart") \/ LeaveRunning("restart")
        \/ RestartPod("forgetStalled")
  \/ pc = "forgetStalled" /\ ForgetDegraded("restart")
  \/ /\ pc = "restart"
     /\ RecordDegraded("patch") \/ LeaveRunning("patch") \/ RestartPod("forget")
  \/ pc = "forget" /\ ForgetDegraded("patch")

\* Slip: degraded-since is only cleared in memory.
ClearInMemory ==
  /\ pc = "clear"
  /\ node' = [node EXCEPT !.since = "unset"]
  /\ pc' = "patch"
  /\ UNCHANGED <<api, current, updated, probe, height, pod, earned, stood>>

\* clearDegradedTracking, and with it whatever changed in memory.
ClearDegradedTracking ==
  /\ pc = "clear"
  /\ node' = [node EXCEPT !.since = "unset"]
  /\ IF node.since # "unset" THEN PersistAnnotations(node') ELSE DoNotPersist
  /\ pc' = "patch"
  /\ UNCHANGED <<current, probe, height, pod, earned, stood>>

\* The status patch holds the phase, and the resource version of the cycle's
\* own update if there was one.
PatchStatus ==
  /\ pc = "patch"
  /\ api' = IF updated /\ ~current THEN api
                                   ELSE [api EXCEPT !.phase = node.phase]
  /\ pc' = "idle"
  /\ UNCHANGED <<node, current, updated, probe, height, pod, earned, stood>>
-----------------------------------------------------------------------------
(* Time, the operator, other writers, the blockchain node and its pod.      *)

Aged(stamp) == IF stamp = "recent" THEN "expired" ELSE stamp

\* degradedTimeoutMinutes pass.  Between a recovery and the clearing of
\* degraded-since that is not a time of degradation any more.
ElapseDegraded == /\ "recent" \in {api.since, node.since}
                  /\ api' = [api EXCEPT !.since = Aged(@)]
                  /\ node' = [node EXCEPT !.since = Aged(@)]
                  /\ earned' = (earned \/ pc # "clear")
                  /\ UNCHANGED <<current, updated, probe, height, pod, pc, stood>>

\* syncStallThreshold passes.
ElapseStall == /\ "recent" \in {api.stall, node.stall}
               /\ api' = [api EXCEPT !.stall = Aged(@)]
               /\ node' = [node EXCEPT !.stall = Aged(@)]
               /\ stood' = stood \cup {height}
                                 \cup (IF pc = "apply" THEN {probe.block} ELSE {})
               /\ UNCHANGED <<current, updated, probe, height, pod, pc, earned>>

Crash == /\ "crash" \in faults
         /\ pc # "idle"
         /\ pc' = "idle"
         /\ UNCHANGED <<api, node, current, updated, probe, height, pod, earned, stood>>

\* The NodeHealthReconciler, the user or another client writes the object.
OtherWrite == /\ "conflict" \in faults
              /\ pc # "idle" /\ current
              /\ current' = FALSE
              /\ UNCHANGED <<api, node, updated, probe, height, pod, pc, earned, stood>>

ChainAdvances == /\ pod = "up"
                 /\ height < MaxHeight
                 /\ height' = height + 1
                 /\ UNCHANGED <<api, node, current, updated, probe, pod, pc, earned, stood>>

PodProgress == /\ pod # "up"
               /\ pod' = CASE pod = "gone"     -> NewPod
                           [] pod = "init"     -> "starting"
                           [] pod = "starting" -> "up"
               /\ UNCHANGED <<api, node, current, updated, probe, height, pc, earned, stood>>
-----------------------------------------------------------------------------
Cycle == \/ HealthCheck
         \/ ApplyDegradedFromError \/ ApplySyncingExempt \/ ApplyStalled
         \/ ApplyAdvancing
         \/ RestartIfDegradedTooLong \/ ClearDegradedTracking \/ PatchStatus

Step == \/ Cycle
        \/ ElapseDegraded \/ ElapseStall
        \/ Crash \/ OtherWrite \/ ChainAdvances \/ PodProgress

Next == Step /\ UNCHANGED faults

(* Cycles recur every reconcileInterval and a started one runs on; time     *)
(* passes; pods start.                                                      *)
Fairness == /\ WF_vars(Cycle) /\ WF_vars(ElapseDegraded) /\ WF_vars(ElapseStall)
            /\ WF_vars(PodProgress)

Spec == Init /\ [][Next]_<<vars, faults>> /\ Fairness
-----------------------------------------------------------------------------
(* Safety.  Each property names the circumstances it does not survive.      *)

\* The pod is only deleted after a full timeout of uninterrupted degradation
\* since the last restart: degraded-since never survives a recovery or a
\* restart.  It does when the operator stops, or loses the write to another
\* client, between deleting the pod and clearing the annotation.
RestartEarned ==
  [][(/\ faults \cap {"crash", "conflict"} = {}
      /\ pod' = "gone" /\ pod # "gone") => earned]_vars

\* A node is only called stalled at a height at which it stood for a full
\* syncStallThreshold: no lost, refused or repeated write of the tracking
\* annotations makes detectHeightStall count time spent at another height.
StallEarned == [][ApplyStalled => probe.block \in stood]_vars

\* A stall-exempt probe never makes the node Degraded for a frozen height.
ExemptionHonoured == [][ApplyStalled => ~probe.exempt]_vars
-----------------------------------------------------------------------------
(* Liveness, for an operator that is not stopped over and over again and    *)
(* whose updates are not refused.                                           *)

Undisturbed == "conflict" \notin faults /\ <>[][~Crash]_vars

\* A node that is reported Degraded is restarted or recovers.
DegradedIsRestarted ==
  Undisturbed =>
    (api.phase = "Degraded" ~> (api.phase # "Degraded" \/ pod = "gone"))

\* A node whose height is frozen does not go unnoticed, unless the adapter
\* exempts it: after the chain has stopped at its last height, the node is
\* again and again either reported Degraded or down.
FreezeNoticed ==
  (Undisturbed /\ "exempt" \notin faults) =>
    []<>(api.phase = "Degraded" \/ pod # "up")
=============================================================================
