------------------------ MODULE HealthMonitorProofs ------------------------
(***************************************************************************)
(* Theorems about HealthMonitor, for every height, threshold and set of    *)
(* scenarios.                                                              *)
(***************************************************************************)
EXTENDS HealthMonitor, TLAPS

Utxo == {"bitcoin", "litecoin", "dash", "dogecoin"}
Cosmos == {"cosmos", "dymension", "kava", "evmos", "moca", "axelar", "sei",
           "osmosis"}

\* What an answer says of the node: it has a block unless it is loading, and the
\* Bitcoin family does not answer before that.
Truthful(c, r) ==
  /\ r.stage = "loading" <=> r.height = 0
  /\ r.kind = "starting" => c \in Utxo
  /\ c \in Utxo /\ r.kind = "ok" => r.stage # "loading"

\* The answers of a check so far.
Sound(c, a) ==
  /\ \A i \in 1 .. Len(a) : Truthful(c, a[i])
  /\ \A i, j \in 1 .. Len(a) : i <= j => a[i].height <= a[j].height

(* What a report r says about the answers that it was made from.           *)

\* The report of a node that is slow, down or starting.
ErrorFacts(c, a, r) ==
  /\ r.kind = "error" =>
       \/ \E i \in 1 .. Len(a) : a[i].kind = "refused"
       \/ (\E i \in 1 .. Len(a) : RPCTimedOut(a[i])) /\ c \notin Patient
       \/ a[1].kind = "torn" /\ c \in PatientForHeaders
       \/ a[1].kind = "starting" /\ c \in {"dash", "dogecoin"}
  /\ a[1].kind = "refused" /\ c \notin Lenient => r.kind = "error"

SyncedFacts(c, a, r) ==
  r.kind = "synced" =>
    \/ c \in TakenAsSynced
    \/ \E i \in 1 .. Len(a) : Ok(a[i]) /\ a[i].stage = "synced"
    \/ c = "sui" /\ a[1].height >= a[2].tip
    \/ c = "sui" /\ ~Ok(a[2])
    \/ c = "filecoin" /\ ~Active(a[2])
    \/ c = "tron" /\ a[1].lead <= tronSyncedThreshold

\* What the code does not spare, as a fact about the answers.
UnsparedIn(c, a) ==
  \/ c \in {"bitcoin", "litecoin", "dash"} /\ a[1].stage = "synced"
  \/ /\ c = "tron"
     /\ \/ a[1].stage = "loading" \/ ~Active(a[1])
        \/ a[1].lead <= tronSyncedThreshold
  \/ c = "avalanche" /\ ~(\A i \in 1 .. Len(a) : Ok(a[i]))

\* A report that can be held against a height that stands still.
StallFacts(c, a, r) ==
  r.kind \in {"syncing", "synced"} /\ r.block # Beat
  /\ ~(r.kind = "syncing" /\ r.exempt) =>
    \/ \E i \in 1 .. Len(a) : a[i].stage \notin SlowStages(c)
    \/ UnsparedIn(c, a)

\* A synced height that is compared with the public tip.
HeightFacts(c, a, r) ==
  r.kind = "synced" /\ c \in WithPublicTip \ {"cardano", "aptos"} =>
    /\ r.block \in Int
    /\ r.block <= a[Len(a)].height
    /\ ~(c = "ethereum" /\ ~(\A i \in 1 .. Len(a) : Ok(a[i]))) =>
         a[1].height <= r.block

Facts(c, a, r) ==
  /\ r \in Reports /\ r.kind # "none"
  /\ ErrorFacts(c, a, r) /\ SyncedFacts(c, a, r)
  /\ StallFacts(c, a, r) /\ HeightFacts(c, a, r)

\* One answer: its fields, and what they say.
Answer(c, x) == x \in Answers /\ Truthful(c, x)

\* The answer of a check of one call.
LEMMA OneAnswer ==
  ASSUME NEW c \in Chains, NEW a \in Seq(Answers), Len(a) = 1, Sound(c, a)
  PROVE  Answer(c, a[1])
BY DEF Sound, Answer

\* The answers of a check of two calls, of which the second is not earlier.
LEMMA TwoAnswers ==
  ASSUME NEW c \in Chains, NEW a \in Seq(Answers), Len(a) = 2, Sound(c, a)
  PROVE  Answer(c, a[1]) /\ Answer(c, a[2]) /\ a[1].height <= a[2].height
BY DEF Sound, Answer

\* The facts about a report that was made from one answer.
FactsOfOne(c, x, r) ==
  /\ r.kind # "none"
  /\ r.kind = "error" =>
       \/ x.kind = "refused"
       \/ RPCTimedOut(x) /\ c \notin Patient
       \/ x.kind = "torn" /\ c \in PatientForHeaders
       \/ x.kind = "starting" /\ c \in {"dash", "dogecoin"}
  /\ x.kind = "refused" /\ c \notin Lenient => r.kind = "error"
  /\ r.kind = "synced" =>
       \/ c \in TakenAsSynced
       \/ Ok(x) /\ x.stage = "synced"
       \/ c = "tron" /\ x.lead <= tronSyncedThreshold
  /\ ~(r.kind = "syncing" /\ r.exempt) /\ r.block # Beat /\ r.kind # "error" =>
       \/ x.stage \notin SlowStages(c)
       \/ c \in {"bitcoin", "litecoin", "dash"} /\ x.stage = "synced"
       \/ /\ c = "tron"
          /\ x.stage = "loading" \/ ~Active(x) \/ x.lead <= tronSyncedThreshold
  /\ r.kind = "synced" /\ c # "aptos" /\ c \in WithPublicTip =>
       r.block = x.height

\* The same for two answers.
FactsOfTwo(c, x, y, r) ==
  /\ r.kind # "none"
  /\ r.kind = "error" =>
       \/ x.kind = "refused" \/ y.kind = "refused"
       \/ (RPCTimedOut(x) \/ RPCTimedOut(y)) /\ c \notin Patient
       \/ x.kind = "torn" /\ c \in PatientForHeaders
  /\ x.kind = "refused" /\ c \notin Lenient => r.kind = "error"
  /\ r.kind = "synced" =>
       \/ Ok(x) /\ x.stage = "synced"
       \/ Ok(y) /\ y.stage = "synced"
       \/ c = "sui" /\ x.height >= y.tip
       \/ c = "sui" /\ ~Ok(y)
       \/ c = "filecoin" /\ ~Active(y)
  /\ ~(r.kind = "syncing" /\ r.exempt) /\ r.block # Beat /\ r.kind # "error" =>
       x.stage \notin SlowStages(c) \/ y.stage \notin SlowStages(c)
  /\ r.kind = "synced" /\ c \in WithPublicTip =>
       /\ r.block <= y.height
       /\ ~(c = "ethereum" /\ ~(Ok(x) /\ Ok(y))) => x.height <= r.block

\* The building blocks of a report.
LEMMA ReportTypes ==
  /\ Failed \in Reports /\ syncingPseudo \in Reports
  /\ \A b \in 0 .. 2 * MaxHeight, e \in BOOLEAN :
       Syncing(b, e) \in Reports /\ Synced(b, e) \in Reports
  /\ \A s \in Stages, b \in 0 .. 2 * MaxHeight : AsClaimed(s, b) \in Reports
  /\ \A q \in Reports, e \in BOOLEAN : [q EXCEPT !.exempt = e] \in Reports
BY HealthMonitorAssumption
   DEF Reports, Failed, syncingPseudo, Syncing, Synced, AsClaimed, Beat

\* The heights are among the blocks of a report.
LEMMA HeightTypes ==
  /\ 0 \in 0 .. 2 * MaxHeight
  /\ \A h \in Heights : h \in 0 .. 2 * MaxHeight /\ Versions(h) \in 0 .. 2 * MaxHeight
BY HealthMonitorAssumption DEF Heights, Versions

\* The checks that take one answer.
LEMMA ChecksOfOneCall ==
  ASSUME NEW c \in Chains, NEW a \in Seq(Answers), Calls(c) = 1, Answer(c, a[1])
  PROVE  HealthCheck(c, a) \in Reports /\ FactsOfOne(c, a[1], HealthCheck(c, a))
<1> DEFINE r == HealthCheck(c, a)
<1> USE DEF Answer, Answers
<1>a. CASE c \in Utxo
  <2>1. \E retry \in BOOLEAN, policy \in {"synced-exempt", "ibd-exempt"} :
          /\ r = utxoHealthCheck(a, retry, policy)
          /\ retry <=> c \in Lenient
          /\ policy = "ibd-exempt" <=> c = "litecoin"
    BY <1>a DEF HealthCheck, Utxo, bitcoin, litecoin, dash, dogecoin, Lenient
  <2>2. PICK retry \in BOOLEAN, policy \in {"synced-exempt", "ibd-exempt"} :
          /\ r = utxoHealthCheck(a, retry, policy)
          /\ retry <=> c \in Lenient
          /\ policy = "ibd-exempt" <=> c = "litecoin"
    BY <2>1
  <2> DEFINE e == \/ policy = "synced-exempt" /\ a[1].stage = "synced"
                  \/ policy = "ibd-exempt" /\ a[1].stage \in {"loading", "catchup"}
  <2>3. r \in Reports
    <3>1. \/ r = Failed \/ r = Syncing(0, TRUE)
          \/ r = [AsClaimed(a[1].stage, a[1].height) EXCEPT !.exempt = e]
      BY <2>2 DEF utxoHealthCheck
    <3>0. AsClaimed(a[1].stage, a[1].height) \in Reports
      BY ReportTypes, HeightTypes
    <3>2. e \in BOOLEAN
      OBVIOUS
    <3> HIDE DEF e
    <3>3. [AsClaimed(a[1].stage, a[1].height) EXCEPT !.exempt = e] \in Reports
      BY <3>0, <3>2, ReportTypes
    <3>4. Failed \in Reports /\ Syncing(0, TRUE) \in Reports
      BY ReportTypes, HeightTypes
    <3> QED
      BY <3>1, <3>3, <3>4
  <2>4. FactsOfOne(c, a[1], r)
    BY <1>a, <2>2 DEF utxoHealthCheck, FactsOfOne, Truthful, Heights, Kinds, Stages,
       Utxo, Ok, TimedOut, RPCTimedOut, Transient, Failed, Syncing, Synced, AsClaimed, Beat,
       Patient, PatientForHeaders, Lenient, TakenAsSynced, SlowStages
  <2> QED BY <2>3, <2>4
<1>b. CASE c \in Cosmos
  <2>1. r = cosmos(a)
    BY <1>b DEF HealthCheck, Cosmos, dymension, kava, evmos, moca, axelar, sei, osmosis
  <2>3. r \in Reports
    BY <2>1, ReportTypes, HeightTypes DEF cosmos
  <2>4. FactsOfOne(c, a[1], r)
    BY <1>b, <2>1 DEF cosmos, FactsOfOne, Truthful, Heights, Kinds, Stages,
       Utxo, Ok, TimedOut, RPCTimedOut, Failed, Syncing, Synced, AsClaimed, Beat,
       syncingPseudo, Patient, PatientForHeaders, Lenient, TakenAsSynced, SlowStages, Cosmos
  <2> QED BY <2>3, <2>4
<1>1. CASE c = "xrp"
  <2>1. r = xrp(a)
    BY <1>1 DEF HealthCheck
  <2>2. r \in Reports
    BY <2>1, ReportTypes, HeightTypes DEF xrp
  <2>3. FactsOfOne(c, a[1], r)
    BY <1>1, <2>1 DEF xrp, FactsOfOne, Truthful, Heights, Kinds, Stages,
       Utxo, Ok, TimedOut, RPCTimedOut, Failed, Syncing, Synced, AsClaimed, Beat, Versions,
       syncingPseudo, Patient, PatientForHeaders, Lenient, TakenAsSynced, SlowStages
  <2> QED BY <2>2, <2>3
<1>2. CASE c = "ethereum-beacon"
  <2>1. r = beaconHealthCheck(a)
    BY <1>2 DEF HealthCheck
  <2>2. r \in Reports
    BY <2>1, ReportTypes, HeightTypes DEF beaconHealthCheck
  <2>3. FactsOfOne(c, a[1], r)
    BY <1>2, <2>1 DEF beaconHealthCheck, FactsOfOne, Truthful, Heights, Kinds, Stages,
       Utxo, Ok, TimedOut, RPCTimedOut, Failed, Syncing, Synced, AsClaimed, Beat, Versions,
       syncingPseudo, Patient, PatientForHeaders, Lenient, TakenAsSynced, SlowStages
  <2> QED BY <2>2, <2>3
<1>3. CASE c = "aptos"
  <2>1. r = aptos(a)
    BY <1>3 DEF HealthCheck
  <2>2. r \in Reports
    BY <2>1, ReportTypes, HeightTypes DEF aptos
  <2>3. FactsOfOne(c, a[1], r)
    BY <1>3, <2>1 DEF aptos, FactsOfOne, Truthful, Heights, Kinds, Stages,
       Utxo, Ok, TimedOut, RPCTimedOut, Failed, Syncing, Synced, AsClaimed, Beat, Versions,
       syncingPseudo, Patient, PatientForHeaders, Lenient, TakenAsSynced, SlowStages
  <2> QED BY <2>2, <2>3
<1>4. CASE c = "stellar"
  <2>1. r = stellar(a)
    BY <1>4 DEF HealthCheck
  <2>2. r \in Reports
    BY <2>1, ReportTypes, HeightTypes DEF stellar
  <2>3. FactsOfOne(c, a[1], r)
    BY <1>4, <2>1 DEF stellar, FactsOfOne, Truthful, Heights, Kinds, Stages,
       Utxo, Ok, TimedOut, RPCTimedOut, Failed, Syncing, Synced, AsClaimed, Beat, Versions,
       syncingPseudo, Patient, PatientForHeaders, Lenient, TakenAsSynced, SlowStages
  <2> QED BY <2>2, <2>3
<1>5. CASE c = "cardano"
  <2>1. r = cardano(a)
    BY <1>5 DEF HealthCheck
  <2>2. r \in Reports
    BY <2>1, ReportTypes, HeightTypes DEF cardano
  <2>3. FactsOfOne(c, a[1], r)
    BY <1>5, <2>1 DEF cardano, FactsOfOne, Truthful, Heights, Kinds, Stages,
       Utxo, Ok, TimedOut, RPCTimedOut, Failed, Syncing, Synced, AsClaimed, Beat, Versions,
       syncingPseudo, Patient, PatientForHeaders, Lenient, TakenAsSynced, SlowStages
  <2> QED BY <2>2, <2>3
<1>6. CASE c = "near"
  <2>1. r = near(a)
    BY <1>6 DEF HealthCheck
  <2>2. r \in Reports
    BY <2>1, ReportTypes, HeightTypes DEF near
  <2>3. FactsOfOne(c, a[1], r)
    BY <1>6, <2>1 DEF near, FactsOfOne, Truthful, Heights, Kinds, Stages,
       Utxo, Ok, TimedOut, RPCTimedOut, Failed, Syncing, Synced, AsClaimed, Beat, Versions,
       syncingPseudo, Patient, PatientForHeaders, Lenient, TakenAsSynced, SlowStages
  <2> QED BY <2>2, <2>3
<1>7. CASE c = "solana"
  <2>1. r = solana(a)
    BY <1>7 DEF HealthCheck
  <2>2. r \in Reports
    BY <2>1, ReportTypes, HeightTypes DEF solana
  <2>3. FactsOfOne(c, a[1], r)
    BY <1>7, <2>1 DEF solana, FactsOfOne, Truthful, Heights, Kinds, Stages,
       Utxo, Ok, TimedOut, RPCTimedOut, Failed, Syncing, Synced, AsClaimed, Beat, Versions,
       syncingPseudo, Patient, PatientForHeaders, Lenient, TakenAsSynced, SlowStages
  <2> QED BY <2>2, <2>3
<1>8. CASE c = "tron"
  <2>1. r = tron(a)
    BY <1>8 DEF HealthCheck
  <2>2. \/ r = Failed /\ ~Ok(a[1])
        \/ r = Syncing(0, FALSE) /\ Ok(a[1]) /\ a[1].stage = "loading"
        \/ /\ r = Synced(a[1].height, FALSE) /\ Ok(a[1])
           /\ a[1].lead <= tronSyncedThreshold
        \/ r = Syncing(a[1].height, FALSE) /\ Ok(a[1]) /\ ~Active(a[1])
        \/ r = Syncing(a[1].height, TRUE) /\ Ok(a[1]) /\ Active(a[1])
    <3>1. a[1].lead <= tronSyncedThreshold <=> ~(a[1].lead > tronSyncedThreshold)
      <4>1. a[1].lead \in Int /\ tronSyncedThreshold \in Int
        BY HealthChecksAssumption, HealthMonitorAssumption DEF Heights
      <4> QED
        BY <4>1
    <3>2. CASE ~Ok(a[1])
      <4>1. r = Failed
        BY <2>1, <3>2 DEF tron
      <4> QED
        BY <3>2, <4>1
    <3>3. CASE Ok(a[1]) /\ a[1].stage = "loading"
      <4>1. r = Syncing(0, FALSE)
        BY <2>1, <3>3 DEF tron
      <4> QED
        BY <3>3, <4>1
    <3>4. CASE Ok(a[1]) /\ a[1].stage # "loading"
      <4>1. \/ r = Synced(a[1].height, FALSE) /\ a[1].lead <= tronSyncedThreshold
            \/ r = Syncing(a[1].height, TRUE) /\ Active(a[1])
            \/ r = Syncing(a[1].height, FALSE) /\ ~Active(a[1])
        BY <2>1, <3>1, <3>4 DEF tron
      <4> QED
        BY <3>4, <4>1
    <3> QED
      BY <3>2, <3>3, <3>4
  <2>3. r \in Reports
    BY <2>2, ReportTypes, HeightTypes
  <2>4. FactsOfOne(c, a[1], r)
    BY <1>8, <2>2 DEF FactsOfOne, Truthful, Heights, Kinds, Stages,
       Utxo, Ok, RPCTimedOut, Failed, Syncing, Synced, Beat,
       Patient, PatientForHeaders, Lenient, TakenAsSynced, SlowStages
  <2> QED BY <2>3, <2>4
<1>9. CASE c = "ton"
  <2>1. r = ton(a)
    BY <1>9 DEF HealthCheck
  <2>2. r \in Reports
    BY <2>1, ReportTypes, HeightTypes DEF ton
  <2>3. FactsOfOne(c, a[1], r)
    BY <1>9, <2>1 DEF ton, FactsOfOne, Truthful, Heights, Kinds, Stages,
       Utxo, Ok, TimedOut, RPCTimedOut, Failed, Syncing, Synced, AsClaimed, Beat, Versions,
       syncingPseudo, Patient, PatientForHeaders, Lenient, TakenAsSynced, SlowStages
  <2> QED BY <2>2, <2>3
<1>10. CASE c = "hyperliquid"
  <2>1. r = hyperliquid(a)
    BY <1>10 DEF HealthCheck
  <2>2. r \in Reports
    BY <2>1, ReportTypes, HeightTypes DEF hyperliquid, TimedOut, Kinds
  <2>3. FactsOfOne(c, a[1], r)
    BY <1>10, <2>1 DEF hyperliquid, FactsOfOne, Truthful, Heights, Kinds, Stages,
       Utxo, Ok, TimedOut, RPCTimedOut, Failed, Syncing, Synced, AsClaimed, Beat, Versions,
       syncingPseudo, Patient, PatientForHeaders, Lenient, TakenAsSynced, SlowStages, WithPublicTip
  <2> QED BY <2>2, <2>3
<1> QED
  BY <1>a, <1>b, <1>1, <1>2, <1>3, <1>4, <1>5, <1>6, <1>7, <1>8, <1>9, <1>10 DEF Chains, Calls, Utxo, Cosmos

\* The checks that take two answers.
LEMMA ChecksOfTwoCalls ==
  ASSUME NEW c \in Chains, NEW a \in Seq(Answers), Calls(c) = 2,
         Answer(c, a[1]), Answer(c, a[2]), a[1].height <= a[2].height
  PROVE  /\ HealthCheck(c, a) \in Reports
         /\ FactsOfTwo(c, a[1], a[2], HealthCheck(c, a))
<1> DEFINE r == HealthCheck(c, a)
<1> USE DEF Answer, Answers
<1>1. CASE c = "bsc"
  <2>1. r = evmHealthCheck(a)
    BY <1>1 DEF HealthCheck
  <2>2. r \in Reports
    BY <2>1, ReportTypes, HeightTypes, ZenonT(60) DEF evmHealthCheck, Stages
  <2>3. FactsOfTwo(c, a[1], a[2], r)
    BY <1>1, <2>1, SMTT(30) DEF evmHealthCheck, FactsOfTwo, Truthful, Heights, Kinds, Stages,
       Utxo, Ok, TimedOut, RPCTimedOut, Failed, Syncing, Synced, AsClaimed, Beat,
       syncingPseudo, Patient, PatientForHeaders, Lenient, SlowStages, WithPublicTip
  <2> QED BY <2>2, <2>3
<1>2. CASE c = "ethereum"
  <2>1. r = ethereum(a)
    BY <1>2 DEF HealthCheck
  <2>2. r \in Reports
    BY <2>1, ReportTypes, HeightTypes DEF ethereum, Stages
  <2>3. FactsOfTwo(c, a[1], a[2], r)
    BY <1>2, <2>1, SMTT(30) DEF ethereum, FactsOfTwo, Truthful, Heights, Kinds, Stages,
       Utxo, Ok, TimedOut, RPCTimedOut, Failed, Syncing, Synced, AsClaimed, Beat,
       syncingPseudo, Patient, PatientForHeaders, Lenient, SlowStages, WithPublicTip
  <2> QED BY <2>2, <2>3
<1>3. CASE c = "starknet"
  <2>1. r = starknet(a)
    BY <1>3 DEF HealthCheck
  <2>2. r \in Reports
    BY <2>1, ReportTypes, HeightTypes, ZenonT(60) DEF starknet, Stages
  <2>3. FactsOfTwo(c, a[1], a[2], r)
    BY <1>3, <2>1, SMTT(30) DEF starknet, FactsOfTwo, Truthful, Heights, Kinds, Stages,
       Utxo, Ok, TimedOut, RPCTimedOut, Failed, Syncing, Synced, AsClaimed, Beat,
       syncingPseudo, Patient, PatientForHeaders, Lenient, SlowStages, WithPublicTip
  <2> QED BY <2>2, <2>3
<1>4. CASE c \in {"polkadot", "kusama"}
  <2>1. r = substrateHealthCheck(a)
    BY <1>4 DEF HealthCheck, polkadot, kusama
  <2>2. r \in Reports
    BY <2>1, ReportTypes, HeightTypes, ZenonT(60) DEF substrateHealthCheck, Stages
  <2> USE DEF substrateHealthCheck, Truthful, Heights, Kinds, Stages, Utxo, Ok, TimedOut,
       RPCTimedOut, Failed, Syncing, Synced, AsClaimed, Beat, syncingPseudo
  <2>3. /\ c \in Patient /\ c \notin Lenient /\ c \notin WithPublicTip
        /\ SlowStages(c) = {}
    BY <1>4 DEF Patient, Lenient, WithPublicTip, SlowStages
  <2>4. r.kind # "none" /\ (a[1].kind = "refused" => r.kind = "error")
    BY <2>1, SMTT(30)
  <2>5. r.kind = "error" => a[1].kind = "refused" \/ a[2].kind = "refused"
    BY <1>4, <2>1, SMTT(30)
  <2>6. r.kind = "synced" => Ok(a[1]) /\ a[1].stage = "synced"
    BY <2>1, SMTT(30)
  <2> QED BY <2>2, <2>3, <2>4, <2>5, <2>6 DEF FactsOfTwo
<1>5. CASE c = "filecoin"
  <2>1. r = filecoin(a)
    BY <1>5 DEF HealthCheck
  <2>2. r \in Reports
    BY <2>1, ReportTypes, HeightTypes DEF filecoin, Stages
  <2>3. FactsOfTwo(c, a[1], a[2], r)
    BY <1>5, <2>1 DEF filecoin, FactsOfTwo, Truthful, Heights, Kinds, Stages,
       Utxo, Ok, TimedOut, RPCTimedOut, Failed, Syncing, Synced, AsClaimed, Beat,
       syncingPseudo, Patient, PatientForHeaders, Lenient, SlowStages, WithPublicTip
  <2> QED BY <2>2, <2>3
<1>6. CASE c = "sui"
  <2>1. r = sui(a)
    BY <1>6 DEF HealthCheck
  <2>2. r \in Reports
    BY <2>1, ReportTypes, HeightTypes DEF sui, Stages
  <2>3. FactsOfTwo(c, a[1], a[2], r)
    BY <1>6, <2>1 DEF sui, FactsOfTwo, Truthful, Heights, Kinds, Stages,
       Utxo, Ok, TimedOut, RPCTimedOut, Failed, Syncing, Synced, AsClaimed, Beat,
       syncingPseudo, Patient, PatientForHeaders, Lenient, SlowStages, WithPublicTip
  <2> QED BY <2>2, <2>3
<1> QED
  BY <1>1, <1>2, <1>3, <1>4, <1>5, <1>6 DEF Chains, Calls

\* Avalanche takes three answers, of which the last two may be those of an EVM
\* chain.
LEMMA CheckOfAvalanche ==
  ASSUME NEW a \in Seq(Answers), Len(a) = 3, Sound("avalanche", a)
  PROVE  Facts("avalanche", a, avalanche(a))
<1> DEFINE c == "avalanche"
           r == avalanche(a)
<1>1. /\ Answer(c, a[1]) /\ Answer(c, a[2]) /\ Answer(c, a[3])
      /\ a[1].height <= a[2].height /\ a[2].height <= a[3].height
      /\ a[1].height <= a[3].height
  BY DEF Sound, Answer
<1>2. Tail(a)[1] = a[2] /\ Tail(a)[2] = a[3]
  OBVIOUS
<1> USE DEF Answer, Answers
<1>3. r \in Reports
  <2>1. evmHealthCheck(Tail(a)) \in Reports
    BY <1>1, <1>2, ReportTypes, HeightTypes DEF evmHealthCheck
  <2>2. Syncing(Beat, FALSE) \in Reports
    BY ReportTypes DEF syncingPseudo
  <2> QED
    BY <1>1, <2>1, <2>2, ReportTypes, HeightTypes DEF avalanche
<1> USE DEF avalanche, evmHealthCheck, Truthful, Heights, Kinds, Stages, Utxo,
     Ok, TimedOut, RPCTimedOut, Failed, Syncing, Synced, Beat
<1>4. /\ r.kind # "none"
      /\ r.kind = "error" => \/ a[1].kind = "refused" \/ a[2].kind = "refused"
                             \/ a[3].kind = "refused" \/ RPCTimedOut(a[1])
                             \/ RPCTimedOut(a[2]) \/ RPCTimedOut(a[3])
      /\ a[1].kind = "refused" => r.kind = "error"
      /\ r.kind = "synced" => /\ Ok(a[2]) /\ a[2].stage = "synced"
                              /\ r.block = a[3].height
  BY <1>1, <1>2, ZenonT(60)
<1>5. (/\ r.kind \in {"syncing", "synced"} /\ r.block # Beat
       /\ ~(r.kind = "syncing" /\ r.exempt)
       /\ Ok(a[1]) /\ Ok(a[2]) /\ Ok(a[3])) =>
        a[1].stage # "catchup" \/ a[2].stage # "catchup"
  BY <1>1, <1>2, SMTT(30)
<1> HIDE DEF r
<1>6. ErrorFacts(c, a, r)
  BY <1>4 DEF ErrorFacts, Patient
<1>7. SyncedFacts(c, a, r)
  BY <1>4 DEF SyncedFacts
<1>8. StallFacts(c, a, r)
  <2> SUFFICES ASSUME r.kind \in {"syncing", "synced"}, r.block # Beat,
                      ~(r.kind = "syncing" /\ r.exempt),
                      Ok(a[1]) /\ Ok(a[2]) /\ Ok(a[3])
               PROVE  a[1].stage \notin SlowStages(c) \/ a[2].stage \notin SlowStages(c)
    BY DEF StallFacts, UnsparedIn
  <2> QED
    BY <1>5 DEF SlowStages
<1>9. HeightFacts(c, a, r)
  BY <1>1, <1>4 DEF HeightFacts
<1> QED
  BY <1>3, <1>4, <1>6, <1>7, <1>8, <1>9 DEF Facts, r

\* What every health check makes of sound answers.
LEMMA CheckFacts ==
  ASSUME NEW c \in Chains, NEW a \in Seq(Answers), Len(a) = Calls(c),
         Sound(c, a)
  PROVE  Facts(c, a, HealthCheck(c, a))
<1> DEFINE r == HealthCheck(c, a)
<1>1. CASE Calls(c) = 1
  <2>1. Answer(c, a[1])
    BY <1>1, OneAnswer
  <2>2. r \in Reports /\ FactsOfOne(c, a[1], r)
    BY <1>1, <2>1, ChecksOfOneCall
  <2> HIDE DEF r
  <2>3. r.kind \in {"none", "error", "syncing", "synced"} /\ a[1].height \in Int
    BY <2>1, <2>2 DEF Reports, Answer, Answers, Heights
  <2>4. ErrorFacts(c, a, r)
    BY <1>1, <2>2 DEF ErrorFacts, FactsOfOne
  <2>5. SyncedFacts(c, a, r)
    BY <1>1, <2>2 DEF SyncedFacts, FactsOfOne
  <2>6. StallFacts(c, a, r)
    BY <1>1, <2>2 DEF StallFacts, FactsOfOne, UnsparedIn
  <2>7. HeightFacts(c, a, r)
    BY <1>1, <2>2, <2>3 DEF HeightFacts, FactsOfOne
  <2> QED
    BY <2>2, <2>4, <2>5, <2>6, <2>7 DEF Facts, FactsOfOne, r
<1>2. CASE Calls(c) = 2
  <2>1. Answer(c, a[1]) /\ Answer(c, a[2]) /\ a[1].height <= a[2].height
    BY <1>2, TwoAnswers
  <2>2. r \in Reports /\ FactsOfTwo(c, a[1], a[2], r)
    BY <1>2, <2>1, ChecksOfTwoCalls
  <2> HIDE DEF r
  <2>3. /\ r.kind \in {"none", "error", "syncing", "synced"}
        /\ r.block \in Int
        /\ a[1].kind = "starting" => c \in Utxo
    BY <2>1, <2>2, HealthMonitorAssumption DEF Reports, Answer, Truthful, Beat
  <2>4. ErrorFacts(c, a, r)
    BY <1>2, <2>2 DEF ErrorFacts, FactsOfTwo
  <2>5. SyncedFacts(c, a, r)
    BY <1>2, <2>2 DEF SyncedFacts, FactsOfTwo
  <2>6. StallFacts(c, a, r)
    BY <1>2, <2>2 DEF StallFacts, FactsOfTwo
  <2>7. HeightFacts(c, a, r)
    BY <1>2, <2>2, <2>3 DEF HeightFacts, FactsOfTwo
  <2> QED
    BY <2>2, <2>4, <2>5, <2>6, <2>7 DEF Facts, FactsOfTwo, r
<1>3. CASE c = "avalanche"
  <2>1. r = avalanche(a) /\ Len(a) = 3
    BY <1>3 DEF HealthCheck, Calls
  <2> QED
    BY <1>3, <2>1, CheckOfAvalanche
<1> QED
  BY <1>1, <1>2, <1>3 DEF Calls
-----------------------------------------------------------------------------
(* The inductive invariant.                                                *)

NodeInv == node.stage = "loading" <=> node.height = 0

AnswersInv ==
  /\ Sound(chain, answers)
  /\ \A i \in 1 .. Len(answers) : answers[i].height <= node.height

\* What the phase says of the report and of the public tip.
PhaseFacts ==
  /\ phase = "HealthCheckFailed" <=> report.kind = "error"
  /\ phase = "Stalled" => /\ report.kind \in {"syncing", "synced"}
                          /\ report.block # Beat
                          /\ ~(report.kind = "syncing" /\ report.exempt)
  /\ phase = "BlockLag" => /\ report.kind = "synced"
                           /\ checkBlockLag(report.block, public)
  /\ phase = "Healthy" => /\ report.kind = "synced"
                          /\ ~checkBlockLag(report.block, public)

PublicInv ==
  /\ Comparable => public <= tip
  /\ chain \notin WithPublicTip => public = NoOpinion

JudgedInv ==
  Judged => /\ Len(answers) = Calls(chain)
            /\ Facts(chain, answers, report)
            /\ PhaseFacts

Inv == TypeOK /\ NodeInv /\ AnswersInv /\ PublicInv /\ JudgedInv

\* The number of calls of a check.
LEMMA CallsType == \A c : Calls(c) \in {1, 2, 3}
BY DEF Calls

\* The heights of the answers are numbers.
LEMMA AnswerHeights ==
  ASSUME NEW a \in Seq(Answers), NEW i \in 1 .. Len(a)
  PROVE  a[i].height \in Int
<1>1. a[i] \in Answers
  OBVIOUS
<1> QED
  BY <1>1, HealthMonitorAssumption DEF Answers, Heights

\* Before the first check nothing has been judged.
LEMMA InvInit == Init => Inv
<1> SUFFICES ASSUME Init PROVE Inv
  OBVIOUS
<1> USE HealthMonitorAssumption DEF Init
<1>1. TypeOK
  BY CallsType DEF TypeOK, Heights, Stages, NoReport, Reports, Phases,
     NoOpinion, NoBlock, Beat
<1>2. NodeInv /\ AnswersInv
  BY DEF NodeInv, AnswersInv, Sound
<1>3. PublicInv /\ JudgedInv
  BY DEF PublicInv, NoOpinion, JudgedInv, Judged, NoReport
<1> QED
  BY <1>1, <1>2, <1>3 DEF Inv

\* A call adds a sound answer, or is the first one of the next check.
LEMMA InvAsk == Inv /\ Ask /\ UNCHANGED scenario => Inv'
<1> SUFFICES ASSUME Inv, Ask, UNCHANGED scenario PROVE Inv'
  OBVIOUS
<1> DEFINE Said(k, l, w) ==
             [kind |-> k, stage |-> node.stage, height |-> node.height,
              tip |-> tip, lead |-> l, work |-> w]
<1>1. PICK k \in AnswerKinds, l \in Leads, w \in Works :
        answers' = IF Judged THEN <<Said(k, l, w)>>
                             ELSE Append(answers, Said(k, l, w))
  BY DEF Ask
<1> DEFINE x == Said(k, l, w)
<1>2. /\ scenario' = scenario /\ node' = node /\ tip' = tip /\ phase' = phase
      /\ last' = last /\ since' = since /\ report' = NoReport
      /\ public' = NoOpinion /\ (Judged \/ Len(answers) < Calls(chain))
  BY DEF Ask
<1>3. /\ chain' = chain /\ node \in [stage : Stages, height : Heights]
      /\ tip \in Heights /\ answers \in Seq(Answers)
  BY <1>2 DEF chain, Inv, TypeOK
<1>4. k \in Kinds /\ l \in Heights /\ w \in {"idle", "active"}
  BY HealthMonitorAssumption
     DEF AnswerKinds, Kind, Kinds, Leads, Works, Heights
<1>5. x \in Answers
  BY <1>3, <1>4 DEF Answers
<1>6. Truthful(chain, x)
  BY DEF Truthful, AnswerKinds, Kind, Utxo, Foreign, NodeInv, Inv
<1>7. x.height = node.height /\ node.height \in Int
  BY <1>3, HealthMonitorAssumption DEF Heights
<1> HIDE DEF x
<1>8. /\ AnswersInv' /\ answers' \in Seq(Answers)
      /\ Len(answers') <= Calls(chain)
  <2>1. CASE Judged
    <3>1. answers' = <<x>>
      BY <1>1, <2>1 DEF x
    <3>2. answers' \in Seq(Answers) /\ Len(answers') = 1 /\ answers'[1] = x
      BY <1>5, <3>1
    <3>3. AnswersInv'
      BY <1>2, <1>3, <1>6, <1>7, <3>2 DEF AnswersInv, Sound
    <3>4. 1 <= Calls(chain)
      BY CallsType
    <3> QED
      BY <3>2, <3>3, <3>4
  <2>2. CASE ~Judged
    <3>1. answers' = Append(answers, x)
      BY <1>1, <2>2 DEF x
    <3>2. /\ answers' \in Seq(Answers) /\ Len(answers') = Len(answers) + 1
          /\ \A i \in 1 .. Len(answers) : answers'[i] = answers[i]
          /\ answers'[Len(answers) + 1] = x
      BY <1>3, <1>5, <3>1
    <3>3. AnswersInv'
      BY <1>2, <1>3, <1>6, <1>7, <3>2, SMTT(30) DEF AnswersInv, Sound, Inv
    <3>4. Len(answers') <= Calls(chain)
      BY <1>2, <1>3, <2>2, <3>2, CallsType
    <3> QED
      BY <3>2, <3>3, <3>4
  <2> QED
    BY <2>1, <2>2
<1>9. NoReport \in Reports
  BY HealthMonitorAssumption DEF NoReport, Reports
<1>10. TypeOK'
  BY <1>2, <1>3, <1>8, <1>9 DEF Inv, TypeOK
<1>11. NodeInv' /\ JudgedInv'
  BY <1>2 DEF Inv, NodeInv, JudgedInv, Judged, NoReport
<1>12. PublicInv'
  BY <1>2, <1>3, HealthMonitorAssumption DEF PublicInv, NoOpinion, Heights
<1> QED
  BY <1>8, <1>10, <1>11, <1>12 DEF Inv

\* The public tip is a height of the network, or of another one.
LEMMA TipType ==
  ASSUME TypeOK, NEW t \in fetchPublicTip
  PROVE  /\ t \in {NoOpinion} \cup 0 .. 2 * MaxHeight
         /\ Comparable => t <= tip
         /\ chain \notin WithPublicTip => t = NoOpinion
<1>1. tip \in Int /\ 0 <= tip /\ tip <= MaxHeight
  BY HealthMonitorAssumption DEF TypeOK, Heights
<1>2. \A h \in 0 .. tip : /\ Unit(h) \in 0 .. 2 * MaxHeight
                          /\ chain # "cardano" => Unit(h) <= tip
  BY <1>1, HealthMonitorAssumption DEF Unit, Slots
<1>3. CASE chain \notin WithPublicTip
  BY <1>1, <1>3 DEF fetchPublicTip, NoOpinion
<1>4. CASE chain \in WithPublicTip /\ scenario.network = "testnet"
  BY <1>4, HealthMonitorAssumption DEF fetchPublicTip, Comparable
<1>5. CASE chain \in WithPublicTip /\ scenario.network # "testnet"
  <2>1. t = NoOpinion \/ \E h \in 0 .. tip : t = Unit(h)
    BY <1>1, <1>5 DEF fetchPublicTip
  <2> QED
    BY <1>1, <1>2, <1>5, <2>1 DEF NoOpinion, Comparable
<1> QED
  BY <1>3, <1>4, <1>5

\* The verdict of a check.
LEMMA InvRefreshStatus == Inv /\ refreshStatus /\ UNCHANGED scenario => Inv'
<1> SUFFICES ASSUME Inv, refreshStatus, UNCHANGED scenario PROVE Inv'
  OBVIOUS
<1> DEFINE r == report'
<1>1. /\ scenario' = scenario /\ chain' = chain /\ node' = node /\ tip' = tip
      /\ answers' = answers /\ Len(answers) = Calls(chain)
      /\ r = HealthCheck(chain, answers)
  BY DEF refreshStatus, chain
<1>2. TypeOK /\ chain \in Chains /\ answers \in Seq(Answers) /\ Sound(chain, answers)
  BY HealthMonitorAssumption DEF Inv, TypeOK, AnswersInv, chain
<1>3. Facts(chain, answers, r)
  BY <1>1, <1>2, CheckFacts
<1>4. /\ r \in Reports /\ r.kind # "none"
      /\ r.block \in {Beat} \cup 0 .. 2 * MaxHeight
  BY <1>3 DEF Facts, Reports
<1>5. Comparable' = Comparable
  BY <1>1 DEF Comparable, chain
<1> HIDE DEF r
<1>6. /\ public \in {NoOpinion} \cup 0 .. 2 * MaxHeight
      /\ last \in {NoBlock, Beat} \cup 0 .. 2 * MaxHeight
      /\ since \in 0 .. StallPolls + 1 /\ Aged \in 0 .. StallPolls + 1
      /\ 1 \in 0 .. StallPolls + 1
  BY <1>2, HealthMonitorAssumption DEF TypeOK, Aged
<1>7. /\ \/ Untracked \/ detectHeightStall(r.block) \/ TrackSynced(r.block)
      /\ \/ public' = public \/ public' \in fetchPublicTip
      /\ phase' \in Phases
  BY DEF refreshStatus, r, Phases
<1>8. /\ last' \in {NoBlock, Beat} \cup 0 .. 2 * MaxHeight
      /\ since' \in 0 .. StallPolls + 1
  <2>1. 0 \in 0 .. StallPolls + 1
    BY HealthMonitorAssumption
  <2>2. since' = 0 \/ since' = 1 \/ since' = Aged
    BY <1>7 DEF detectHeightStall, TrackSynced, Untracked
  <2>3. last' = last \/ last' = r.block \/ last' = NoBlock
    BY <1>7 DEF detectHeightStall, TrackSynced, Untracked
  <2> HIDE DEF r
  <2> QED
    BY <1>4, <1>6, <2>1, <2>2, <2>3
<1>9. public' \in {NoOpinion} \cup 0 .. 2 * MaxHeight /\ PublicInv'
  BY <1>1, <1>2, <1>5, <1>6, <1>7, TipType DEF Inv, PublicInv
<1>10. PhaseFacts'
  BY <1>4 DEF refreshStatus, PhaseFacts, r, Stalled, Frozen, checkBlockLag, Phases
<1>11. TypeOK'
  BY <1>1, <1>2, <1>4, <1>7, <1>8, <1>9 DEF TypeOK, r
<1>12. NodeInv' /\ AnswersInv' /\ JudgedInv'
  BY <1>1, <1>3, <1>10 DEF Inv, NodeInv, AnswersInv, JudgedInv, r
<1> QED
  BY <1>9, <1>11, <1>12 DEF Inv

\* The network and the node move on: what was answered stays what it is.
LEMMA InvTipGrows == Inv /\ TipGrows /\ UNCHANGED scenario => Inv'
<1> SUFFICES ASSUME Inv, TipGrows, UNCHANGED scenario PROVE Inv'
  OBVIOUS
<1>1. /\ scenario' = scenario /\ chain' = chain /\ node' = node
      /\ answers' = answers /\ public' = public /\ report' = report
      /\ phase' = phase /\ last' = last /\ since' = since
      /\ tip' \in Heights /\ tip' = tip + 1 /\ tip \in Int
  BY HealthMonitorAssumption DEF TipGrows, chain, Inv, TypeOK, Heights
<1>2. TypeOK'
  BY <1>1 DEF Inv, TypeOK
<1>3. NodeInv' /\ AnswersInv'
  BY <1>1 DEF Inv, NodeInv, AnswersInv
<1>4. public \in Int /\ Comparable' = Comparable
  BY <1>1, HealthMonitorAssumption DEF Inv, TypeOK, NoOpinion, Comparable
<1>5. PublicInv'
  BY <1>1, <1>4 DEF Inv, PublicInv
<1>6. JudgedInv'
  BY <1>1 DEF Inv, JudgedInv, Judged, PhaseFacts
<1> QED
  BY <1>2, <1>3, <1>5, <1>6 DEF Inv

\* A node that moves on leaves the answers that it gave behind it.
LEMMA InvNode == Inv /\ (Advance \/ ChangeStage) /\ UNCHANGED scenario => Inv'
<1> SUFFICES ASSUME Inv, Advance \/ ChangeStage, UNCHANGED scenario PROVE Inv'
  OBVIOUS
<1>1. /\ scenario' = scenario /\ chain' = chain /\ tip' = tip
      /\ answers' = answers /\ public' = public /\ report' = report
      /\ phase' = phase /\ last' = last /\ since' = since
  BY DEF Advance, ChangeStage, chain
<1>2. /\ node \in [stage : Stages, height : Heights] /\ tip \in Heights
      /\ NodeInv /\ answers \in Seq(Answers)
  BY DEF Inv, TypeOK
<1>3. /\ node' \in [stage : Stages, height : Heights] /\ NodeInv'
      /\ node.height <= node'.height
  <2>1. \A n \in [stage : Stages, height : Heights], st \in Stages, h \in Heights :
          /\ [n EXCEPT !.stage = st] \in [stage : Stages, height : Heights]
          /\ [n EXCEPT !.height = h] \in [stage : Stages, height : Heights]
    OBVIOUS
  <2>2. CASE Advance
    <3>1. node.height + 1 \in Heights
      BY <1>2, <2>2, HealthMonitorAssumption DEF Advance, Heights
    <3> QED
      BY <1>2, <2>1, <2>2, <3>1, HealthMonitorAssumption
         DEF Advance, NodeInv, Heights
  <2>3. CASE ChangeStage
    <3>1. 1 \in Heights
      BY HealthMonitorAssumption DEF Heights
    <3>2. node' = [stage |-> "catchup", height |-> 1] \/
            \E st \in {"catchup", "finishing", "synced"} :
              node' = [node EXCEPT !.stage = st] /\ node.stage # "loading"
      BY <2>3 DEF ChangeStage
    <3> QED
      BY <1>2, <2>1, <2>3, <3>1, <3>2, HealthMonitorAssumption
         DEF ChangeStage, NodeInv, Stages, Heights
  <2> QED
    BY <2>2, <2>3
<1>4. TypeOK'
  BY <1>1, <1>3 DEF Inv, TypeOK
<1>5. \A i \in 1 .. Len(answers) : answers[i].height \in Int
  BY <1>2, AnswerHeights
<1>6. node.height \in Int /\ node'.height \in Int
  BY <1>2, <1>3, HealthMonitorAssumption DEF Heights
<1>7. AnswersInv'
  BY <1>1, <1>3, <1>5, <1>6 DEF Inv, AnswersInv
<1>8. PublicInv' /\ JudgedInv'
  BY <1>1 DEF Inv, PublicInv, Comparable, JudgedInv, Judged, PhaseFacts
<1> QED
  BY <1>3, <1>4, <1>7, <1>8 DEF Inv

\* The invariant holds in every state of every behaviour.
THEOREM Invariance == Spec => []Inv
<1>1. Inv /\ [Next]_<<vars, scenario>> => Inv'
  <2> SUFFICES ASSUME Inv, [Next]_<<vars, scenario>> PROVE Inv'
    OBVIOUS
  <2>1. CASE Next
    BY <2>1, InvAsk, InvRefreshStatus, InvTipGrows, InvNode DEF Next, Step
  <2>2. CASE UNCHANGED <<vars, scenario>>
    BY <2>2 DEF vars, Inv, TypeOK, NodeInv, AnswersInv, PublicInv, JudgedInv,
       PhaseFacts, Judged, Comparable, chain
  <2> QED
    BY <2>1, <2>2
<1> QED
  BY <1>1, InvInit, PTL DEF Spec

\* Every variable keeps its type, whatever the heights and thresholds.
THEOREM TypeCorrect == Spec => []TypeOK
BY Invariance, PTL DEF Inv

\* No adapter calls a node synced because a call failed or because the node and
\* its network moved on between two calls of its check.  TRON and Lotus infer
\* the state from their peers and workers, which may know of no better.
THEOREM SyncedIsHonestHolds == Spec => []SyncedIsHonest
<1>1. Inv => SyncedIsHonest
  BY DEF Inv, JudgedInv, Judged, Facts, SyncedFacts, SyncedIsHonest
<1> QED
  BY <1>1, Invariance, PTL

\* An error of a health check is never made of time-outs alone, for an adapter
\* that tells a busy node from one that is down, but for the bodies that break
\* off on NEAR, Sui, Cardano and Stellar.
THEOREM BusyNotDegradedHolds == Spec => []BusyNotDegraded
<1>1. Inv => BusyNotDegraded
  BY DEF Inv, JudgedInv, PhaseFacts, Facts, ErrorFacts, BusyNotDegraded,
     Refused, Slow
<1> QED
  BY <1>1, Invariance, PTL

\* A node that refuses the first call of a check ends up Degraded by it.
THEOREM DownNoticedHolds == Spec => []DownNoticed
<1>1. Inv => DownNoticed
  BY DEF Inv, JudgedInv, PhaseFacts, Facts, ErrorFacts, DownNoticed
<1> QED
  BY <1>1, Invariance, PTL

\* A node is called stalled only if some answer of the check found it outside
\* the stages in which the documentation lets its height stand still, or in one
\* that the code does not spare.
THEOREM SlowStageSparedHolds == Spec => []SlowStageSpared
<1>1. Inv => SlowStageSpared
  BY DEF Inv, JudgedInv, PhaseFacts, Facts, StallFacts, UnsparedIn, Unspared,
     SlowStageSpared, AllOk
<1> QED
  BY <1>1, Invariance, PTL

\* A node that is called lagging does trail its network by more than the
\* threshold, where its height and the public tip can be compared.
THEOREM LagIsRealHolds == Spec => []LagIsReal
<1>1. Inv => LagIsReal
  <2> SUFFICES ASSUME Inv, phase = "BlockLag", Judged, Comparable,
                      ~(chain = "ethereum" /\ ~AllOk)
               PROVE  tip - HeightBefore > LagThreshold
    BY DEF LagIsReal
  <2>1. /\ report.kind = "synced" /\ public # NoOpinion
        /\ public - report.block > LagThreshold
        /\ chain \in WithPublicTip /\ public <= tip
    BY DEF Inv, JudgedInv, PhaseFacts, PublicInv, checkBlockLag
  <2>2. report.block \in Int /\ answers[1].height <= report.block
    BY <2>1 DEF Inv, JudgedInv, Facts, HeightFacts, Comparable, AllOk
  <2>3. tip \in Int /\ public \in Int
    BY HealthMonitorAssumption DEF Inv, TypeOK, Heights, NoOpinion
  <2>4. answers \in Seq(Answers) /\ 1 \in 1 .. Len(answers)
    BY CallsType DEF Inv, TypeOK, JudgedInv
  <2>5. answers[1].height \in Int
    BY <2>4, AnswerHeights
  <2> QED
    BY <2>1, <2>2, <2>3, <2>5, HealthMonitorAssumption DEF HeightBefore
<1> QED
  BY <1>1, Invariance, PTL

\* A node further behind an up-to-date public tip than the threshold is not
\* Healthy, whatever it says of itself.
THEOREM LagNoticedHolds == Spec => []LagNoticed
<1>1. Inv => LagNoticed
  <2> SUFFICES ASSUME Inv, phase = "Healthy", Judged, Comparable,
                      chain \in WithPublicTip, public = tip
               PROVE  tip - HeightAfter <= LagThreshold
    BY DEF LagNoticed
  <2>1. tip \in Int /\ 0 <= tip /\ Len(answers) \in {1, 2, 3}
    BY HealthMonitorAssumption, CallsType DEF Inv, TypeOK, JudgedInv, Heights
  <2>2. report.kind = "synced" /\ ~(public - report.block > LagThreshold)
    BY <2>1 DEF Inv, JudgedInv, PhaseFacts, checkBlockLag, NoOpinion
  <2>3. report.block \in Int /\ report.block <= answers[Len(answers)].height
    BY <2>2 DEF Inv, JudgedInv, Facts, HeightFacts, Comparable
  <2>4. answers[Len(answers)].height \in Int
    <3>1. answers \in Seq(Answers)
      BY DEF Inv, TypeOK
    <3>2. \A n \in {1, 2, 3} : n \in 1 .. n
      OBVIOUS
    <3> QED
      BY <2>1, <3>1, <3>2, AnswerHeights
  <2> QED
    BY <2>1, <2>2, <2>3, <2>4, HealthMonitorAssumption DEF HeightAfter
<1> QED
  BY <1>1, Invariance, PTL
=============================================================================
