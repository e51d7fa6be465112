--------------------------- MODULE TriggersProofs ---------------------------
(***************************************************************************)
(* Theorems about Triggers, for every window, threshold and set of         *)
(* scenarios.                                                              *)
(***************************************************************************)
EXTENDS Triggers, FiniteSetTheorems, TLAPS

Samples == [v : [series -> 0 .. MaxRestarts + 1], seen : BOOLEAN]

\* The triggers by their place in the order of evaluation.
LEMMA Order ==
  /\ Len(allTriggers) = 5
  /\ Names = {"sync_lag", "error_rate", "latency", "crash_loop", "disk_usage"}
<1>1. Names = {allTriggers[1], allTriggers[2], allTriggers[3], allTriggers[4],
               allTriggers[5]}
  BY DEF Names
<1> QED
  BY <1>1 DEF allTriggers

\* The result of a trigger.
LEMMA ConcludeType ==
  ASSUME TypeOK, NEW t \in Names, NEW yes, turn # 0, Conclude(t, yes)
  PROVE  turn' \in 0 .. Len(allTriggers) /\ fired' \subseteq Names
BY Order DEF TypeOK, Conclude

\* Every step of a check leaves the time series alone.
LEMMA CheckKeepsHistory == Check => UNCHANGED <<history, beat>>
BY DEF Check, CheckAll, evalSyncLag, evalErrorRate, evalLatency, evalCrashLoop,
   evalDiskUsage, EvalSustained, EvalInstant, NoDataResult, Conclude

\* The triggers of a check keep the types.
LEMMA CheckType ==
  ASSUME TypeOK, Check
  PROVE  turn' \in 0 .. Len(allTriggers) /\ fired' \subseteq Names
<1>1. CASE CheckAll
  BY <1>1, Order DEF TypeOK, CheckAll
<1>2. ASSUME NEW t \in Names, EvalInstant(t) \/ EvalSustained(t)
      PROVE  turn' \in 0 .. Len(allTriggers) /\ fired' \subseteq Names
  <2>1. turn # 0 /\ \E yes : Conclude(t, yes)
    BY <1>2 DEF EvalInstant, EvalSustained, Evaluating, NoDataResult
  <2> QED
    BY <2>1, ConcludeType
<1>3. CASE evalCrashLoop
  <2>1. turn # 0 /\ \E yes : Conclude("crash_loop", yes)
    BY <1>3 DEF evalCrashLoop, Evaluating, NoDataResult
  <2> QED
    BY <2>1, Order, ConcludeType
<1> QED
  BY <1>1, <1>2, <1>3, Order
     DEF Check, evalSyncLag, evalErrorRate, evalLatency, evalDiskUsage

\* The values that a step of the time series can have.
LEMMA PassType ==
  ASSUME TypeOK, UNCHANGED scenario, NEW v \in [series -> 0 .. MaxRestarts + 1],
         Pass(v)
  PROVE  TypeOK'
<1>1. PICK s \in BOOLEAN :
        history' = [i \in Points |-> IF i <= Window THEN history[i + 1]
                                     ELSE [v |-> v, seen |-> s]]
  BY DEF Pass
<1>2. [v |-> v, seen |-> s] \in Samples
  BY DEF Samples
<1>3. history \in [Points -> Samples] /\ Samples' = Samples
  BY DEF TypeOK, Samples, series
<1>4. history' \in [Points -> Samples]
  BY <1>1, <1>2, <1>3, TriggersAssumption DEF Points
<1> QED
  BY <1>3, <1>4 DEF TypeOK, Samples, Pass, series

\* The counters of a fresh pod.
LEMMA ZeroType == Zero \in [series -> 0 .. MaxRestarts + 1]
BY TriggersAssumption DEF Zero

\* Every variable keeps its type, and a check ends after its last trigger.
THEOREM TypeCorrect == Spec => []TypeOK
<1>1. Init => TypeOK
  <2> SUFFICES ASSUME Init PROVE TypeOK
    OBVIOUS
  <2>1. \A b \in BOOLEAN : [v |-> Zero, seen |-> b] \in Samples
    BY ZeroType DEF Samples
  <2> DEFINE now(i) == i = Window + 1
  <2>2. \A i \in Points : now(i) \in BOOLEAN
    OBVIOUS
  <2>3. history = [i \in Points |-> [v |-> Zero, seen |-> now(i)]]
    BY DEF Init
  <2> HIDE DEF now
  <2>4. history \in [Points -> Samples]
    BY <2>1, <2>2, <2>3
  <2>5. /\ scenario \in Scenarios /\ beat \in BOOLEAN
        /\ turn \in 0 .. Len(allTriggers) /\ fired \subseteq Names
    <3>1. scenario \in Scenarios /\ beat = FALSE /\ turn = 0 /\ fired = {}
      BY DEF Init
    <3>2. beat \in BOOLEAN
      BY <3>1
    <3>3. turn \in 0 .. Len(allTriggers)
      BY <3>1, Order
    <3> QED
      BY <3>1, <3>2, <3>3
  <2> QED
    BY <2>4, <2>5 DEF TypeOK, Samples
<1>2. TypeOK /\ [Next]_<<vars, scenario>> => TypeOK'
  <2> SUFFICES ASSUME TypeOK, [Next]_<<vars, scenario>> PROVE TypeOK'
    OBVIOUS
  <2>1. CASE Check /\ UNCHANGED scenario
    BY <2>1, CheckKeepsHistory, CheckType DEF TypeOK, series
  <2>2. CASE (Tick \/ Recreate) /\ UNCHANGED scenario
    BY <2>2, PassType, ZeroType DEF Tick, Recreate
  <2>3. CASE UNCHANGED <<vars, scenario>>
    BY <2>3 DEF vars, TypeOK, series
  <2> QED
    BY <2>1, <2>2, <2>3 DEF Next, Act
<1> QED
  BY <1>1, <1>2, PTL DEF Spec
-----------------------------------------------------------------------------
(* A container restarts at most once in a step, so a counter cannot have   *)
(* grown by more than the number of its restarts, wherever one looks.      *)

\* The steps from i to j in which the counter of c grows.
Rises(h, c, i, j) == {k \in i .. j - 1 : h[k + 1].v[c] > h[k].v[c]}

GrowthInv ==
  metric = "crash_loop" =>
    \A c \in series, i, j \in Points :
      i <= j => history[j].v[c] - history[i].v[c]
                  <= Cardinality(Rises(history, c, i, j))

\* The rises of a window can be counted.
LEMMA RisesFinite ==
  ASSUME NEW h, NEW c, NEW i \in Int, NEW j \in Int
  PROVE  /\ IsFiniteSet(Rises(h, c, i, j))
         /\ Cardinality(Rises(h, c, i, j)) \in Nat
<1>1. IsFiniteSet(i .. j - 1) /\ Rises(h, c, i, j) \in SUBSET (i .. j - 1)
  BY FS_Interval DEF Rises
<1> QED
  BY <1>1, FS_Subset, FS_CardinalityType

\* A look at more steps finds no fewer rises.
LEMMA RisesWithin ==
  ASSUME NEW h, NEW c, NEW i \in Int, NEW j \in Int, NEW m \in Int, NEW n \in Int,
         m <= i, j <= n
  PROVE  Cardinality(Rises(h, c, i, j)) <= Cardinality(Rises(h, c, m, n))
<1>1. Rises(h, c, i, j) \in SUBSET Rises(h, c, m, n)
  BY DEF Rises
<1> QED
  BY <1>1, RisesFinite, FS_Subset

\* The steps of a window that moves on.
LEMMA RisesShifted ==
  ASSUME NEW h, NEW g, NEW c, NEW i \in Int, NEW j \in Int,
         \A k \in i .. j : g[k] = h[k + 1]
  PROVE  Cardinality(Rises(h, c, i + 1, j + 1)) <= Cardinality(Rises(g, c, i, j))
<1> DEFINE S == Rises(h, c, i + 1, j + 1)
           T == Rises(g, c, i, j)
           f == [k \in S |-> k - 1]
<1>1. \A k \in S : k - 1 \in T
  BY DEF Rises
<1>2. S \subseteq Int
  BY DEF Rises
<1>3. f \in [S -> T] /\ \A a, b \in S : f[a] = f[b] => a = b
  BY <1>1, <1>2
<1>4. f \in Injection(S, T)
  BY <1>3 DEF Injection, IsInjective
<1> QED
  BY <1>4, RisesFinite, FS_Injection

\* One more step: it is a rise or it is not.
LEMMA RisesExtended ==
  ASSUME NEW g, NEW c, NEW i \in Int, NEW j \in Int, i <= j,
         g[j + 1].v[c] > g[j].v[c]
  PROVE  Cardinality(Rises(g, c, i, j + 1)) = Cardinality(Rises(g, c, i, j)) + 1
<1>1. Rises(g, c, i, j + 1) = Rises(g, c, i, j) \cup {j} /\ j \notin Rises(g, c, i, j)
  BY DEF Rises
<1> QED
  BY <1>1, RisesFinite, FS_AddElement

\* The values are numbers.
LEMMA ValueType ==
  TypeOK => \A i \in Points, c \in series : history[i].v[c] \in Nat
<1> SUFFICES ASSUME TypeOK, NEW i \in Points, NEW c \in series
             PROVE  history[i].v[c] \in Nat
  OBVIOUS
<1>1. history[i] \in Samples
  BY DEF TypeOK, Samples
<1>2. history[i].v \in [series -> 0 .. MaxRestarts + 1]
  BY <1>1 DEF Samples
<1> QED
  BY <1>2, TriggersAssumption

\* A step of the time series in which no counter grows by more than one.
LEMMA PassGrowth ==
  ASSUME TypeOK, TypeOK', GrowthInv, UNCHANGED scenario, NEW v, Pass(v),
         metric = "crash_loop",
         \A c \in series : v[c] \in {0, Now.v[c], Now.v[c] + 1}
  PROVE  GrowthInv'
<1> DEFINE h == history
           g == history'
<1>1. /\ series' = series /\ metric' = metric
      /\ \A i \in 1 .. Window : g[i] = h[i + 1]
      /\ g[Window + 1].v = v
      /\ Window \in Nat /\ Window >= 1
  BY TriggersAssumption DEF Pass, Points, series, metric
<1>2. \A c \in series, i \in Points : h[i].v[c] \in Nat
  BY ValueType
<1>3. \A c \in series, i \in Points : g[i].v[c] \in Nat
  <2>1. (TypeOK => \A i \in Points, c \in series : history[i].v[c] \in Nat)'
    BY ValueType, PTL
  <2> QED
    BY <1>1, <2>1 DEF Points
<1> SUFFICES ASSUME NEW c \in series, NEW i \in Points, NEW j \in Points, i <= j
             PROVE  g[j].v[c] - g[i].v[c] <= Cardinality(Rises(g, c, i, j))
  BY <1>1 DEF GrowthInv
<1> HIDE DEF h, g
<1> USE DEF Points
<1>4. ASSUME NEW k \in 1 .. Window, i <= k
      PROVE  g[k].v[c] - g[i].v[c] <= Cardinality(Rises(g, c, i, k))
  <2>1. g[k] = h[k + 1] /\ g[i] = h[i + 1]
    BY <1>1, <1>4
  <2>2. h[k + 1].v[c] - h[i + 1].v[c] <= Cardinality(Rises(h, c, i + 1, k + 1))
    BY <1>1, <1>4 DEF GrowthInv, h
  <2>3. Cardinality(Rises(h, c, i + 1, k + 1)) <= Cardinality(Rises(g, c, i, k))
    <3>1. \A n \in i .. k : g[n] = h[n + 1]
      BY <1>1, <1>4
    <3> QED
      BY <3>1, <1>1, RisesShifted
  <2>4. /\ Cardinality(Rises(h, c, i + 1, k + 1)) \in Nat
        /\ Cardinality(Rises(g, c, i, k)) \in Nat
    BY <1>1, RisesFinite
  <2>5. h[k + 1].v[c] \in Nat /\ h[i + 1].v[c] \in Nat
    BY <1>1, <1>2, <1>4
  <2> QED
    BY <2>1, <2>2, <2>3, <2>4, <2>5
<1>5. CASE j <= Window
  BY <1>1, <1>4, <1>5
<1>6. CASE j = Window + 1 /\ i = Window + 1
  <2>1. Cardinality(Rises(g, c, i, j)) \in Nat
    BY <1>1, RisesFinite
  <2> QED
    BY <1>3, <1>6, <2>1
<1>7. CASE j = Window + 1 /\ i <= Window
  <2> DEFINE a == g[Window].v[c]
             b == g[Window + 1].v[c]
             o == g[i].v[c]
             m == Cardinality(Rises(g, c, i, Window))
             n == Cardinality(Rises(g, c, i, Window + 1))
  <2>1. a \in Nat /\ b \in Nat /\ o \in Nat /\ m \in Nat /\ n \in Nat
    BY <1>1, <1>3, RisesFinite
  <2>2. a - o <= m
    BY <1>1, <1>4, <1>7
  <2>3. b \in {0, a, a + 1}
    BY <1>1 DEF Now, h
  <2>4. m <= n
    BY <1>1, RisesWithin
  <2>5. b > a => n = m + 1
    BY <1>1, <1>7, RisesExtended
  <2>6. b - o <= n
    <3> HIDE DEF a, b, o, m, n
    <3> QED BY <2>1, <2>2, <2>3, <2>4, <2>5
  <2> QED
    BY <1>7, <2>6
<1> QED
  BY <1>1, <1>5, <1>6, <1>7

\* At first no counter has grown.
LEMMA GrowthInit == Init => GrowthInv
<1> SUFFICES ASSUME Init, NEW c \in series, NEW i \in Points, NEW j \in Points
             PROVE  history[j].v[c] - history[i].v[c]
                      <= Cardinality(Rises(history, c, i, j))
  BY DEF GrowthInv
<1>1. history[j].v[c] = 0 /\ history[i].v[c] = 0
  BY DEF Init, Zero
<1>2. Cardinality(Rises(history, c, i, j)) \in Nat
  BY RisesFinite DEF Points
<1> QED
  BY <1>1, <1>2

\* The invariant holds in every state of every behaviour.
THEOREM Invariance == Spec => [](TypeOK /\ GrowthInv)
<1>1. TypeOK /\ TypeOK' /\ GrowthInv /\ [Next]_<<vars, scenario>> => GrowthInv'
  <2> SUFFICES ASSUME TypeOK, TypeOK', GrowthInv, [Next]_<<vars, scenario>>
               PROVE  GrowthInv'
    OBVIOUS
  <2>1. CASE UNCHANGED <<history, scenario>>
    BY <2>1 DEF GrowthInv, metric, series
  <2>2. CASE metric # "crash_loop" /\ UNCHANGED scenario
    BY <2>2 DEF GrowthInv, metric
  <2>3. CASE Tick /\ UNCHANGED scenario /\ metric = "crash_loop"
    <3>1. PICK v : Pass(v) /\ \A c \in series : v[c] \in Later(Now.v[c])
      BY <2>3 DEF Tick
    <3>2. \A c \in series : v[c] \in {0, Now.v[c], Now.v[c] + 1}
      BY <2>3, <3>1 DEF Later
    <3> QED
      BY <2>3, <3>1, <3>2, PassGrowth
  <2>4. CASE Recreate /\ UNCHANGED scenario /\ metric = "crash_loop"
    <3>1. \A c \in series : Zero[c] = 0
      BY DEF Zero
    <3> QED
      BY <2>4, <3>1, PassGrowth DEF Recreate
  <2> QED
    BY <2>1, <2>2, <2>3, <2>4, CheckKeepsHistory DEF Next, Act, vars
<1> QED
  BY <1>1, GrowthInit, TypeCorrect, PTL DEF Spec
-----------------------------------------------------------------------------
\* Only its own evaluation makes the crash loop trigger fire.
LEMMA CrashLoopFires ==
  ASSUME Check, "crash_loop" \in fired' \ fired
  PROVE  /\ metric = "crash_loop"
         /\ \E k \in {Window, Window + 1}, c \in series :
              /\ history[k].seen
              /\ \E past \in {Past(d) : d \in series} \cup {n \in {0} : Unanswered} :
                   history[k].v[c] - past >= CrashLoopRestarts
<1>1. evalCrashLoop
  BY DEF Check, CheckAll, evalSyncLag, evalErrorRate, evalLatency, evalDiskUsage,
     EvalSustained, EvalInstant, NoDataResult, Conclude
<1>2. PICK current \in InstantValue("crash_loop"),
           past \in {Past(c) : c \in series} \cup {n \in {0} : Unanswered} :
        current - past >= CrashLoopRestarts
  BY <1>1 DEF evalCrashLoop, NoDataResult, Conclude
<1>3. PICK k \in {n \in {Window, Window + 1} :
                    "crash_loop" = metric /\ history[n].seen}, c \in series :
        current = history[k].v[c]
  BY <1>2 DEF InstantValue
<1> QED
  BY <1>2, <1>3

\* The value that stands for the past is that of one of the first two points.
LEMMA PastPoint ==
  ASSUME NEW c \in series, RangeValues # {} \/ history[1].v = Zero
  PROVE  \E m \in {1, 2} : /\ Past(c) = history[m].v[c]
                           /\ m = 2 => ~history[1].seen
<1>1. CASE RangeValues = {}
  BY <1>1 DEF Past, Zero
<1>2. CASE RangeValues # {}
  <2>1. \E i \in RangeValues : \A j \in RangeValues : i <= j
    BY <1>2 DEF RangeValues
  <2> DEFINE m == CHOOSE i \in RangeValues : \A j \in RangeValues : i <= j
  <2>2. m \in RangeValues /\ \A j \in RangeValues : m <= j
    BY <2>1
  <2>3. Past(c) = history[m].v[c]
    BY <1>2 DEF Past
  <2> HIDE DEF m
  <2> QED
    BY <2>2, <2>3 DEF RangeValues
<1> QED
  BY <1>1, <1>2

\* A crash loop trigger that fires has seen its number of restarts in its window.
THEOREM CrashLoopIsRealHolds == Spec => CrashLoopIsReal
<1>1. TypeOK /\ GrowthInv /\ [Next]_<<vars, scenario>> =>
        [(/\ "crash_loop" \in fired' \ fired
          /\ "backend" \notin faults /\ Cardinality(series) = 1
          /\ RangeValues # {} \/ history[1].v = Zero) =>
            \E c \in series : Restarts(c) >= CrashLoopRestarts
        ]_<<vars, scenario>>
  <2> SUFFICES ASSUME TypeOK, GrowthInv, Next, "crash_loop" \in fired' \ fired,
                      "backend" \notin faults, Cardinality(series) = 1,
                      RangeValues # {} \/ history[1].v = Zero
               PROVE  \E c \in series : Restarts(c) >= CrashLoopRestarts
    OBVIOUS
  <2>1. Check
    BY DEF Next, Act, Tick, Recreate, Pass
  <2>2. PICK k \in {Window, Window + 1}, c \in series, d \in series :
          history[k].seen /\ history[k].v[c] - Past(d) >= CrashLoopRestarts
    BY <2>1, CrashLoopFires DEF Unanswered
  <2>3. c = d
    <3>1. IsFiniteSet(series)
      BY TriggersAssumption DEF TypeOK, series
    <3> QED
      BY <3>1, FS_Singleton
  <2>4. PICK m \in {1, 2} : Past(c) = history[m].v[c] /\ (m = 2 => ~history[1].seen)
    BY PastPoint
  <2>5. m \in Points /\ k \in Points /\ m <= k
    BY <2>2, <2>4, TriggersAssumption DEF Points
  <2>6. history[k].v[c] - history[m].v[c] <= Cardinality(Rises(history, c, m, k))
    BY <2>1, <2>5, CrashLoopFires DEF GrowthInv
  <2>7. /\ Cardinality(Rises(history, c, m, k))
             <= Cardinality(Rises(history, c, 1, Window + 1))
        /\ Cardinality(Rises(history, c, m, k)) \in Nat
        /\ Cardinality(Rises(history, c, 1, Window + 1)) \in Nat
    BY <2>5, RisesWithin, RisesFinite, TriggersAssumption DEF Points
  <2>8. Restarts(c) = Cardinality(Rises(history, c, 1, Window + 1))
    BY TriggersAssumption DEF Restarts, Rises
  <2>9. history[k].v[c] \in Nat /\ history[m].v[c] \in Nat
    BY <2>5, ValueType
  <2>10. Restarts(c) >= CrashLoopRestarts
    BY <2>2, <2>3, <2>4, <2>6, <2>7, <2>8, <2>9, TriggersAssumption
  <2> QED
    BY <2>10
<1> QED
  BY <1>1, Invariance, PTL DEF Spec, CrashLoopIsReal
=============================================================================
