------------------------------ MODULE Triggers ------------------------------
(***************************************************************************)
(* The health triggers of a pod (internal/health: evaluator.go, trigger.go *)
(* and metric.go): one check asks Prometheus for five metrics in turn, and *)
(* for some of them a second time for their past.  Any query may fail, and *)
(* time passes between the evaluations: a query is retried for as long as  *)
(* a step of the time series.                                              *)
(*                                                                         *)
(* A behaviour follows one metric; the others have no data.  Replacement   *)
(* has what a fired trigger leads to.                                      *)
(***************************************************************************)
EXTENDS Integers, Sequences, FiniteSets

CONSTANTS
  Scenarios,           \* records: metric, series, faults
  Window,              \* a trigger's duration or window, in steps of 30 s
  CrashLoopRestarts,   \* restarts within the window that fire
  MaxRestarts          \* bound on the restarts of a container

KnownFaults == {"backend",    \* a query may fail in spite of its retries
                "gap",        \* Prometheus may have no sample for a step
                "recreate"}   \* the pod may be deleted and created again

\* The canonical order of evaluation.
allTriggers ==
  <<"sync_lag", "error_rate", "latency", "crash_loop", "disk_usage">>

Names == {allTriggers[i] : i \in 1 .. 5}

ASSUME TriggersAssumption ==
  /\ Window \in Nat \ {0}
  /\ CrashLoopRestarts \in Nat \ {0}
  /\ MaxRestarts \in Nat
  /\ \A s \in Scenarios : /\ s.metric \in Names
                          /\ s.series # {} /\ IsFiniteSet(s.series)
                          /\ s.faults \subseteq KnownFaults

VARIABLES
  scenario,   \* the metric, its series and the faults of this behaviour
  history,    \* the metric at each step of the window, now last
  beat,       \* alternates with every step of time
  turn,       \* index of the trigger under evaluation, 0 between checks
  fired       \* the triggers that fired in this check, or in the last one

vars == <<history, beat, turn, fired>>

metric == scenario.metric
series == scenario.series
faults == scenario.faults

\* A step: the value of each series, and whether Prometheus has it.  Restarts
\* are counted; of other metrics it matters whether they exceed their threshold
\* (1) or not (0).
Points == 1 .. Window + 1
Now == history[Window + 1]
Zero == [c \in series |-> 0]

\* A pod that has just been created.
Init ==
  /\ scenario \in Scenarios
  /\ history = [i \in Points |-> [v |-> Zero, seen |-> i = Window + 1]]
  /\ beat = FALSE
  /\ turn = 0 /\ fired = {}
-----------------------------------------------------------------------------
(* Queries.                                                                *)

\* PrometheusClient.get gives up after its retries.
Unanswered == "backend" \in faults

\* The result set is empty.
NoMetricData(t) == t # metric \/ ~Now.seen

\* The first series of the answer, of this moment or of the moment before the
\* window of the second query was fixed.
InstantValue(t) ==
  {history[i].v[c] : i \in {k \in {Window, Window + 1} :
                              t = metric /\ history[k].seen}, c \in series}

\* Slip: the points are expected every 15 s.
SustainedTwice(c) ==
  10 * Cardinality({i \in Points : history[i].seen /\ history[i].v[c] > 0})
    >= 8 * 2 * Window

\* The points above the threshold are at least 80 % of the expected points.
Sustained(c) ==
  10 * Cardinality({i \in Points : history[i].seen /\ history[i].v[c] > 0})
    >= 8 * Window

\* The points in the first 30 s of the window.
RangeValues == {i \in {1, 2} : history[i].seen}

\* Slip: the restarts at the start of the window are not looked at.
PastIgnored(c) == 0

\* The value of the first of those points, or 0.
Past(c) ==
  IF RangeValues = {} THEN 0
  ELSE history[CHOOSE i \in RangeValues : \A j \in RangeValues : i <= j].v[c]
-----------------------------------------------------------------------------
(* A check.                                                                *)

\* CheckAll: nothing fires when the backend is not healthy.
CheckAll ==
  /\ turn = 0
  /\ fired' = {}
  /\ turn' = 1 \/ (Unanswered /\ UNCHANGED turn)
  /\ UNCHANGED <<history, beat>>

Evaluating(t) == turn # 0 /\ allTriggers[turn] = t

\* Slip: the last trigger is followed by another one.
ConcludeOnward(t, yes) ==
  /\ fired' = IF yes THEN fired \cup {t} ELSE fired
  /\ turn' = turn + 1
  /\ UNCHANGED <<history, beat>>

\* The result of one trigger is recorded and the next one is evaluated.
Conclude(t, yes) ==
  /\ fired' = IF yes THEN fired \cup {t} ELSE fired
  /\ turn' = IF turn = Len(allTriggers) THEN 0 ELSE turn + 1
  /\ UNCHANGED <<history, beat>>

\* The instant query fails, or has no result.
NoDataResult(t) == (NoMetricData(t) \/ Unanswered) /\ Conclude(t, FALSE)

\* The value decides.
EvalInstant(t) ==
  /\ Evaluating(t)
  /\ \/ NoDataResult(t)
     \/ \E n \in InstantValue(t) : Conclude(t, n > 0)

\* There is a value, and the window decides; a failed query is inconclusive.
EvalSustained(t) ==
  /\ Evaluating(t)
  /\ \/ NoDataResult(t)
     \/ /\ InstantValue(t) # {}
        /\ \/ \E c \in series : Conclude(t, Sustained(c))
           \/ Unanswered /\ Conclude(t, FALSE)

evalSyncLag == EvalSustained("sync_lag")
evalErrorRate == EvalInstant("error_rate")
evalLatency == EvalSustained("latency")
evalDiskUsage == EvalInstant("disk_usage")

\* The restarts since the start of the window.  A failed range query leaves
\* them at the restarts that the container ever had.
evalCrashLoop ==
  /\ Evaluating("crash_loop")
  /\ \/ NoDataResult("crash_loop")
     \/ \E current \in InstantValue("crash_loop") :
          \E past \in {Past(c) : c \in series} \cup {n \in {0} : Unanswered} :
            Conclude("crash_loop", current - past >= CrashLoopRestarts)

Check ==
  CheckAll \/ evalSyncLag \/ evalErrorRate \/ evalLatency \/ evalCrashLoop
  \/ evalDiskUsage
-----------------------------------------------------------------------------
(* The pod and Prometheus.                                                 *)

\* A step of the time series, after which the series have one of the values v.
Pass(v) ==
  /\ \E s \in IF "gap" \in faults THEN BOOLEAN ELSE {TRUE} :
       history' = [i \in Points |-> IF i <= Window THEN history[i + 1]
                                   ELSE [v |-> v, seen |-> s]]
  /\ beat' = ~beat
  /\ UNCHANGED <<turn, fired>>

Later(n) ==
  IF metric = "crash_loop" THEN {n} \cup ({n + 1} \cap 0 .. MaxRestarts)
                           ELSE {0, 1}

Tick ==
  \E v \in [series -> 0 .. MaxRestarts + 1] :
    /\ \A c \in series : v[c] \in Later(Now.v[c])
    /\ Pass(v)

\* The new pod has the name of the old one, and counts from zero.
Recreate == "recreate" \in faults /\ Pass(Zero)

Act == Check \/ Tick \/ Recreate

Next == Act /\ UNCHANGED scenario

(* Checks are repeated every minute, and time passes. *)
Fairness ==
  /\ WF_<<vars, scenario>>(Check /\ UNCHANGED scenario)
  /\ WF_<<vars, scenario>>(Tick /\ UNCHANGED scenario)

Spec == Init /\ [][Next]_<<vars, scenario>> /\ Fairness
-----------------------------------------------------------------------------
(* Types of all variables: a check ends after its last trigger. *)
TypeOK ==
  /\ scenario \in Scenarios
  /\ history \in [Points -> [v : [series -> 0 .. MaxRestarts + 1],
                             seen : BOOLEAN]]
  /\ beat \in BOOLEAN
  /\ turn \in 0 .. Len(allTriggers)
  /\ fired \subseteq Names

\* The restarts in the window of the containers c of pods of this name.
Restarts(c) ==
  Cardinality({i \in 1 .. Window : history[i + 1].v[c] > history[i].v[c]})

\* A crash loop fires only when that many restarts happened within the window,
\* whatever happens between the two queries, whatever samples are missing after
\* the window's start, and also when the pod is created again and its
\* counter begins anew.  The restarts that a container ever had count when the
\* query for the past fails or Prometheus has no sample there, and those of two
\* containers are mixed up when the pod has several: the first series of an
\* answer may be of either.
CrashLoopIsReal ==
  [][(/\ "crash_loop" \in fired' \ fired
      /\ "backend" \notin faults /\ Cardinality(series) = 1
      /\ RangeValues # {} \/ history[1].v = Zero) =>
        \E c \in series : Restarts(c) >= CrashLoopRestarts
    ]_<<vars, scenario>>

\* A pod that stays above a threshold fires its trigger again and again while
\* Prometheus answers and has its samples, also after gaps, and also when the
\* pod was created again before.
TroubleNoticed ==
  metric # "crash_loop" /\ "backend" \notin faults =>
    (<>[](Now.seen /\ \A c \in series : Now.v[c] > 0) => []<>(metric \in fired))
=============================================================================
