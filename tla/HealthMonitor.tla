--------------------------- MODULE HealthMonitor ---------------------------
(***************************************************************************)
(* A blockchain node, its network and the checks that refreshStatus        *)
(* (internal/controller/reconcile_health.go) makes of it with the adapters *)
(* of HealthChecks: the node and the network move on between the calls of  *)
(* a check, and between them and the call for the public tip               *)
(* (internal/controller/chain_tip.go).                                     *)
(*                                                                         *)
(* NodeStatus has the API calls that record a verdict and what follows     *)
(* from it, for a probe that may say anything; this module has what the    *)
(* probes say, for a verdict that is recorded at once.                     *)
(***************************************************************************)
EXTENDS HealthChecks, FiniteSets

CONSTANTS
  Scenarios,       \* records: chain, network, faults
  MaxHeight,       \* bound on the height of the network
  LagThreshold,    \* spec.health.blockLagThreshold
  StallPolls       \* checks that fit into a stall threshold

KnownFaults == {"slow",     \* a call to the node may time out
                "down",     \* a call to the node may be refused
                "public"}   \* a public source may fail, or be behind

ASSUME HealthMonitorAssumption ==
  /\ MaxHeight \in Nat \ {0}
  /\ LagThreshold \in Nat
  /\ StallPolls \in Nat \ {0}
  /\ \A s \in Scenarios : /\ s.chain \in Chains
                          /\ s.network \in {"mainnet", "testnet"}
                          /\ s.faults \subseteq KnownFaults

VARIABLES
  scenario,   \* the chain, its network and the faults of this behaviour
  node,       \* the stage and the height of the node
  tip,        \* the height of its network
  answers,    \* what the node has answered in the check under way
  public,     \* what the public source said in the last check
  report,     \* what the adapter made of it
  phase,      \* the verdict of the last check
  last,       \* annotation last-sync-block
  since       \* annotation sync-stall-since: checks since then, 0 if not set

vars == <<node, tip, answers, public, report, phase, last, since>>

chain == scenario.chain
faults == scenario.faults

Heights == 0 .. MaxHeight
NoOpinion == -1
NoBlock == -2

\* A Degraded phase is named by the reason of its condition.
Phases == {"Pending", "Syncing", "Healthy", "HealthCheckFailed", "Stalled",
           "BlockLag"}

Answers == [kind : Kinds, stage : Stages, height : Heights, tip : Heights,
            lead : Heights, work : {"idle", "active"}]
Reports == [kind : {"none", "error", "syncing", "synced"},
            block : {Beat} \cup 0 .. 2 * MaxHeight, exempt : BOOLEAN]

\* A check has ended and the next one has not begun.
Judged == report.kind # "none"

TypeOK ==
  /\ scenario \in Scenarios
  /\ node \in [stage : Stages, height : Heights]
  /\ tip \in Heights
  /\ answers \in Seq(Answers)
  /\ Len(answers) <= Calls(chain)
  /\ public \in {NoOpinion} \cup 0 .. 2 * MaxHeight
  /\ report \in Reports
  /\ phase \in Phases
  /\ last \in {NoBlock, Beat} \cup 0 .. 2 * MaxHeight
  /\ since \in 0 .. StallPolls + 1

NoReport == [kind |-> "none", block |-> 0, exempt |-> FALSE]

Init ==
  /\ scenario \in Scenarios
  /\ node = [stage |-> "loading", height |-> 0]
  /\ tip = MaxHeight - 1
  /\ answers = <<>>
  /\ public = NoOpinion
  /\ report = NoReport
  /\ phase = "Pending"
  /\ last = NoBlock /\ since = 0
-----------------------------------------------------------------------------
(* The calls of a check.                                                   *)

\* getblockchaininfo is refused while the node loads its index.
Kind == IF /\ node.stage = "loading"
           /\ chain \in {"bitcoin", "litecoin", "dash", "dogecoin"}
          THEN "starting" ELSE "ok"

\* The second call of a check of sui goes to a public node.
Foreign == chain = "sui" /\ ~Judged /\ Len(answers) = 1

AnswerKinds ==
  IF Foreign
    THEN {"ok"} \cup (IF "public" \in faults THEN {"refused"} ELSE {})
    ELSE {Kind} \cup (IF "slow" \in faults THEN {"timeout", "torn"} ELSE {})
                \cup (IF "down" \in faults THEN {"refused"} ELSE {})

\* The peers that a TRON node syncs from may be anywhere up to the tip, and
\* there may be none; what is not asked for is 0 and idle.
Leads ==
  IF chain = "tron" THEN {l \in Heights : node.height + l <= tip} ELSE {0}
Works ==
  IF chain \in {"tron", "filecoin"} THEN {"idle", "active"} ELSE {"idle"}

Ask ==
  /\ Judged \/ Len(answers) < Calls(chain)
  /\ \E k \in AnswerKinds, l \in Leads, w \in Works :
       LET r == [kind |-> k, stage |-> node.stage, height |-> node.height,
                 tip |-> tip, lead |-> l, work |-> w]
       IN  answers' = IF Judged THEN <<r>> ELSE Append(answers, r)
  /\ report' = NoReport
  /\ public' = NoOpinion
  /\ UNCHANGED <<node, tip, phase, last, since>>
-----------------------------------------------------------------------------
(* The public tip, always that of the mainnet.                             *)

\* Slots pass without a block.
Slots(height) == 2 * height

\* Koios is asked for the slot; the other sources for a height.
Unit(t) == IF chain = "cardano" THEN Slots(t) ELSE t

WithPublicTip ==
  {"ethereum", "bsc", "avalanche", "bitcoin", "litecoin", "dash", "tron",
   "xrp", "stellar", "near", "sui", "ton", "cosmos", "aptos", "cardano"}

\* The heights of another network have nothing to do with this one.
fetchPublicTip ==
  CASE chain \notin WithPublicTip -> {NoOpinion}
    [] chain \in WithPublicTip /\ scenario.network = "testnet" ->
         {0, 2 * MaxHeight}
    [] OTHER ->
         {Unit(tip)} \cup (IF "public" \in faults
                             THEN {NoOpinion} \cup {Unit(t) : t \in 0 .. tip}
                             ELSE {})

\* Slip: the distance counts in both directions.
checkBlockLagEitherWay(block, t) ==
  t # NoOpinion /\ (t - block > LagThreshold \/ block - t > LagThreshold)

\* Slip: a lag of one more is accepted.
checkBlockLagLate(block, t) == t # NoOpinion /\ t - block > LagThreshold + 1

checkBlockLag(block, t) == t # NoOpinion /\ t - block > LagThreshold
-----------------------------------------------------------------------------
(* The verdict.                                                            *)

Aged == IF since \in 1 .. StallPolls THEN since + 1 ELSE since

\* Slip: the height expected next is recorded.
detectHeightStallNext(block) ==
  /\ last' = IF last = block THEN last ELSE block + 1
  /\ since' = CASE last # block -> 0 [] since = 0 -> 1 [] OTHER -> Aged

\* detectHeightStall: no two clock readings are the same.
Frozen(block) == block # Beat /\ last = block

detectHeightStall(block) ==
  /\ last' = block
  /\ since' = CASE ~Frozen(block)               -> 0
                [] Frozen(block) /\ since = 0   -> 1
                [] Frozen(block) /\ since # 0   -> Aged

Stalled(block) == Frozen(block) /\ Aged > StallPolls

\* The tracking of a synced node is cleared in memory, which is stored if
\* degraded-since has to be cleared as well.
TrackSynced(block) ==
  detectHeightStall(block) \/ (last' = NoBlock /\ since' = 0)

Untracked == last' = last /\ since' = Aged

\* refreshStatus: applyDegradedFromError, applySyncingStatus and
\* applyFullySyncedStatus.
refreshStatus ==
  /\ ~Judged /\ Len(answers) = Calls(chain)
  /\ report' = HealthCheck(chain, answers)
  /\ LET r == report'
     IN  \/ /\ r.kind = "error"
            /\ phase' = "HealthCheckFailed"
            /\ Untracked /\ UNCHANGED public
         \/ /\ r.kind = "syncing" /\ r.exempt
            /\ phase' = "Syncing"
            /\ Untracked /\ UNCHANGED public
         \/ /\ r.kind = "syncing" /\ ~r.exempt
            /\ phase' = IF Stalled(r.block) THEN "Stalled" ELSE "Syncing"
            /\ detectHeightStall(r.block) /\ UNCHANGED public
         \/ /\ r.kind = "synced" /\ Stalled(r.block)
            /\ phase' = "Stalled"
            /\ detectHeightStall(r.block) /\ UNCHANGED public
         \/ /\ r.kind = "synced" /\ ~Stalled(r.block)
            /\ public' \in fetchPublicTip
            /\ phase' = IF checkBlockLag(r.block, public') THEN "BlockLag"
                                                           ELSE "Healthy"
            /\ TrackSynced(r.block)
  /\ UNCHANGED <<node, tip, answers>>
-----------------------------------------------------------------------------
(* The network and the node.                                               *)

TipGrows ==
  /\ tip < MaxHeight
  /\ tip' = tip + 1
  /\ UNCHANGED <<node, answers, public, report, phase, last, since>>

Advance ==
  /\ node.stage # "loading" /\ node.height < tip
  /\ node' = [node EXCEPT !.height = @ + 1]
  /\ UNCHANGED <<tip, answers, public, report, phase, last, since>>

\* A node enters a stage with a block, and calls itself synced at the tip; it
\* may go on to do so while the network moves on.
ChangeStage ==
  /\ \/ node.stage = "loading" /\ node' = [stage |-> "catchup", height |-> 1]
     \/ node.stage = "catchup" /\ node' = [node EXCEPT !.stage = "finishing"]
     \/ /\ node.stage = "finishing" /\ node.height = tip
        /\ node' = [node EXCEPT !.stage = "synced"]
     \/ /\ node.stage = "synced" /\ node.height < tip
        /\ node' = [node EXCEPT !.stage = "catchup"]
  /\ UNCHANGED <<tip, answers, public, report, phase, last, since>>

Step == Ask \/ refreshStatus \/ TipGrows \/ Advance \/ ChangeStage

Next == Step /\ UNCHANGED scenario

Spec == Init /\ [][Next]_<<vars, scenario>>
-----------------------------------------------------------------------------
(* Properties of the verdict at the end of a check.                        *)

AllOk == \A i \in 1 .. Len(answers) : Ok(answers[i])
Slow == \E i \in 1 .. Len(answers) : RPCTimedOut(answers[i])
Refused == \E i \in 1 .. Len(answers) : answers[i].kind = "refused"

\* These have no call that tells whether the node is synced.
TakenAsSynced == {"aptos", "solana", "hyperliquid"}

\* A node is reported synced only if it said so itself during the check or,
\* where the adapter compares heights, was at the tip: not because a call
\* failed, or the calls of a check straddle a change.  The exceptions are those
\* that the code makes: Lotus and Sui count as synced when the call that would
\* tell otherwise fails, Lotus also when no worker has a target, and TRON when
\* no peer that it syncs from is further ahead than the threshold, wherever the
\* network is.
SyncedIsHonest ==
  report.kind = "synced" =>
    \/ chain \in TakenAsSynced
    \/ \E i \in 1 .. Len(answers) :
         Ok(answers[i]) /\ answers[i].stage = "synced"
    \/ chain = "sui" /\ answers[1].height >= answers[2].tip
    \/ chain = "sui" /\ ~Ok(answers[2])
    \/ chain = "filecoin" /\ ~Active(answers[2])
    \/ chain = "tron" /\ answers[1].lead <= tronSyncedThreshold

\* Adapters that tell "busy" from "down" in each of their calls.
Patient == {"ethereum", "bitcoin", "litecoin", "starknet", "polkadot", "kusama",
            "filecoin", "stellar", "cardano", "near", "sui", "ton", "hyperliquid"}

\* Those of them that do so only until the body comes: one that breaks off is
\* an error.
PatientForHeaders == {"stellar", "cardano", "near", "sui"}

\* A node that is only slow to answer does not become Degraded for that: an
\* error takes a refused call, or the body of an answer that breaks off where
\* the adapter has no patience for it.  A node that answered in time has no
\* error.
BusyNotDegraded ==
  phase = "HealthCheckFailed" /\ Judged =>
    \/ Refused
    \/ Slow /\ chain \notin Patient
    \/ answers[1].kind = "torn" /\ chain \in PatientForHeaders
    \/ answers[1].kind = "starting" /\ chain \in {"dash", "dogecoin"}

\* Adapters for which a node that is down may just be busy.
Lenient == {"bitcoin", "litecoin", "cardano", "near", "sui", "ton"}

\* A node that refuses a connection when the check begins becomes Degraded.
DownNoticed ==
  Judged /\ answers[1].kind = "refused" /\ chain \notin Lenient =>
    phase = "HealthCheckFailed"

\* The stages in which the documentation lets a height stand still: the list
\* of docs/health-monitoring.md and the notes of docs/adapters.md, and for TRON
\* the cache build of README.md ("loading") and the download of blocks.
SlowStages(c) ==
  CASE c \in {"ethereum", "bsc", "near"} -> {"loading", "catchup", "finishing"}
    [] c = "bitcoin" -> {"loading", "synced"}
    [] c = "litecoin" -> {"loading", "catchup", "synced"}
    [] c = "dash" -> {"synced"}
    [] c = "stellar" -> {"loading", "finishing"}
    [] c = "tron" -> {"loading", "catchup"}
    [] c \in {"ton", "aptos", "cardano", "sui", "cosmos", "dymension", "kava",
              "evmos", "moca", "axelar", "sei", "osmosis"} -> {"loading"}
    [] c = "avalanche" -> {"catchup"}
    [] OTHER -> {}

\* What the code does not spare although the documentation says so.  A synced
\* node of the Bitcoin family is judged by its height like any other
\* (ExemptionHonoured of NodeStatus; the policy of Litecoin does not even claim
\* the exemption), and TRON is exempt only while it downloads blocks from a
\* peer that is far enough ahead.  Avalanche needs the metrics call to succeed.
Unspared ==
  \/ chain \in {"bitcoin", "litecoin", "dash"} /\ answers[1].stage = "synced"
  \/ /\ chain = "tron"
     /\ \/ answers[1].stage = "loading" \/ ~Active(answers[1])
        \/ answers[1].lead <= tronSyncedThreshold
  \/ chain = "avalanche" /\ ~AllOk

\* Elsewhere, a height that stands still in such a stage is never held against
\* the node, however many checks find it there.
SlowStageSpared ==
  phase = "Stalled" /\ Judged =>
    \/ \E i \in 1 .. Len(answers) : answers[i].stage \notin SlowStages(chain)
    \/ Unspared

\* The height and the public tip are of one network and in one unit.
Comparable == scenario.network = "mainnet" /\ chain \notin {"cardano", "aptos"}

\* The heights of the node at the first and at the last answer of the check.
HeightBefore == answers[1].height
HeightAfter == answers[Len(answers)].height

\* "Block lag exceeds `blockLagThreshold`" (docs/health-monitoring.md): a node
\* is called lagging only when it trails its network by more than that, the
\* blocks that came up during the check included.
LagMeansBehind ==
  phase = "BlockLag" /\ Judged => tip - HeightBefore > LagThreshold

\* The same for a height and a tip that can be compared: neither a source that
\* is behind or fails, nor a call of the check that fails, makes a node lag.
\* The Ethereum adapter alone goes on without a height.
LagIsReal ==
  (/\ phase = "BlockLag" /\ Judged /\ Comparable
   /\ ~(chain = "ethereum" /\ ~AllOk)) => tip - HeightBefore > LagThreshold

\* A node that calls itself synced but was further behind than the threshold
\* is not Healthy, if the public source is up to date.
LagNoticed ==
  (/\ phase = "Healthy" /\ Judged /\ Comparable
   /\ chain \in WithPublicTip /\ public = tip) =>
    tip - HeightAfter <= LagThreshold
=============================================================================
