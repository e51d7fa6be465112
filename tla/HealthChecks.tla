---------------------------- MODULE HealthChecks ----------------------------
(***************************************************************************)
(* What each adapter's HealthCheck (internal/adapters) makes of the        *)
(* answers of its node.  The answers of one check are a sequence `a`, one  *)
(* per call that matters, in the order of the calls.  An answer has        *)
(*   kind    "ok", "timeout" (the client gave up before the headers came), *)
(*           "torn" (it gave up while it read the body, of which nothing   *)
(*           that can be parsed has come), "refused", or "starting" (the   *)
(*           node answers that it cannot answer yet),                      *)
(*   stage   the node's own view of itself when it answered: the flag or   *)
(*           the state that it reports, or the tolerance that the adapter  *)
(*           allows it (TON 5 blocks, Cardano 0.5 % of the slots, XRP the  *)
(*           age of the ledger),                                           *)
(*   height  its block height then (0 while it has none),                  *)
(*   tip     the height of the network then,                               *)
(*   lead    by how much the best peer that it syncs from is ahead (TRON), *)
(*   work    whether a download or sync worker is at work (TRON, Lotus).   *)
(* Peer counts, progress, the highest block and the ETA are left out: they *)
(* decide nothing.                                                         *)
(***************************************************************************)
EXTENDS Integers, Sequences

CONSTANT tronSyncedThreshold   \* 100 blocks in the code

ASSUME HealthChecksAssumption == tronSyncedThreshold \in Nat

(* "loading": no block yet (snapshot or state download, replay, warm-up).  *)
(* "catchup": behind the network.  "finishing": the last phase before      *)
(* "synced", in which the height may not move (indexing, joining).         *)
Stages == {"loading", "catchup", "finishing", "synced"}
Kinds == {"ok", "timeout", "torn", "refused", "starting"}

Ok(r) == r.kind = "ok"

Active(r) == Ok(r) /\ r.work = "active"

\* isContextTimeout of the error of an HTTP request.
TimedOut(r) == r.kind = "timeout"

\* The same of an error of callRPC, which reads the body as well.
RPCTimedOut(r) == r.kind \in {"timeout", "torn"}

(* The result: an error, or a SyncStatus.  Beat stands for a block number  *)
(* made from the clock (pseudoBlock, or a height mixed with the time): no  *)
(* two checks report the same one.                                         *)
Beat == -1
Failed == [kind |-> "error", block |-> 0, exempt |-> FALSE]
Syncing(b, x) == [kind |-> "syncing", block |-> b, exempt |-> x]
Synced(b, x) == [kind |-> "synced", block |-> b, exempt |-> x]
syncingPseudo == Syncing(Beat, FALSE)

\* The node's own verdict with its height, stall detection on.
AsClaimed(stage, block) ==
  IF stage = "synced" THEN Synced(block, FALSE) ELSE Syncing(block, FALSE)

\* isTransientRPCError.
Transient(r) == r.kind \in {"timeout", "torn", "refused", "starting"}
-----------------------------------------------------------------------------
(* Ethereum and its kin: eth_syncing, then eth_blockNumber.                *)

\* Slip: the status of a busy node does not say that it is syncing.
evmBusyIsSynced(a) ==
  CASE RPCTimedOut(a[1])           -> Synced(0, TRUE)
    [] ~RPCTimedOut(a[1]) /\ ~(Ok(a[1]) /\ Ok(a[2])) -> Failed
    [] OTHER                    -> AsClaimed(a[1].stage, a[2].height)

\* While syncing, the height is that of a pipeline stage for some clients:
\* it may stand still for hours.
evmHealthCheck(a) ==
  CASE RPCTimedOut(a[1]) -> Syncing(0, TRUE)
    [] ~RPCTimedOut(a[1]) /\ ~(Ok(a[1]) /\ Ok(a[2])) -> Failed
    [] Ok(a[1]) /\ Ok(a[2]) ->
         IF a[1].stage = "synced" THEN Synced(a[2].height, FALSE)
                                  ELSE Syncing(a[2].height, TRUE)

\* Slip: every failure of eth_syncing counts as a busy node.
ethereumForgiving(a) ==
  LET height == IF Ok(a[2]) THEN a[2].height ELSE 0
  IN  IF Ok(a[1]) /\ a[1].stage = "synced" THEN Synced(height, FALSE)
                                           ELSE Syncing(height, TRUE)

\* The height is asked for in any case, and is 0 when that fails.
ethereum(a) ==
  LET height == IF Ok(a[2]) THEN a[2].height ELSE 0
  IN  CASE RPCTimedOut(a[1]) -> Syncing(height, TRUE)
        [] Ok(a[1]) -> IF a[1].stage = "synced" THEN Synced(height, FALSE)
                                                ELSE Syncing(height, TRUE)
        [] ~RPCTimedOut(a[1]) /\ ~Ok(a[1]) -> Failed

\* One client timeout is shorter than the deadline of the check, and only the
\* deadline counts as "busy" here.
beaconHealthCheck(a) ==
  IF Ok(a[1]) THEN AsClaimed(a[1].stage, a[1].height) ELSE Failed

\* /ext/health tells whether all subnets are bootstrapped; if not, the second
\* call reads the counters of the P-chain, which is done before the others.
avalanche(a) ==
  CASE TimedOut(a[1]) -> Syncing(0, TRUE)
    [] ~TimedOut(a[1]) /\ ~Ok(a[1]) -> Failed
    [] Ok(a[1]) /\ a[1].stage = "synced" -> evmHealthCheck(Tail(a))
    [] Ok(a[1]) /\ a[1].stage # "synced" ->
         LET fetched == IF Ok(a[2]) THEN a[2].height ELSE 0
             finished == Ok(a[2]) /\ a[2].stage \in {"finishing", "synced"}
         IN  Syncing(IF ~finished /\ fetched > 0 THEN Beat ELSE fetched, FALSE)
-----------------------------------------------------------------------------
(* Bitcoin and its kin: getblockchaininfo.                                 *)

utxoHealthCheck(a, useRetry, stallPolicy) ==
  CASE Ok(a[1]) ->
         LET exempt ==
               \/ stallPolicy = "synced-exempt" /\ a[1].stage = "synced"
               \/ /\ stallPolicy = "ibd-exempt"
                  /\ a[1].stage \in {"loading", "catchup"}
         IN  [AsClaimed(a[1].stage, a[1].height) EXCEPT !.exempt = exempt]
    [] ~Ok(a[1]) /\ useRetry /\ Transient(a[1]) -> Syncing(0, TRUE)
    [] ~Ok(a[1]) /\ ~(useRetry /\ Transient(a[1])) -> Failed

bitcoin(a) == utxoHealthCheck(a, TRUE, "synced-exempt")
litecoin(a) == utxoHealthCheck(a, TRUE, "ibd-exempt")
dash(a) == utxoHealthCheck(a, FALSE, "synced-exempt")
dogecoin(a) == utxoHealthCheck(a, FALSE, "synced-exempt")
-----------------------------------------------------------------------------
(* Chains whose state and height come from two calls.                      *)

starknet(a) ==
  CASE RPCTimedOut(a[1]) -> syncingPseudo
    [] ~RPCTimedOut(a[1]) /\ ~Ok(a[1]) -> Failed
    [] Ok(a[1]) /\ a[1].stage = "synced" ->
         Synced(IF Ok(a[2]) THEN a[2].height ELSE 0, FALSE)
    [] Ok(a[1]) /\ a[1].stage # "synced" -> Syncing(a[1].height, FALSE)

substrateHealthCheck(a) ==
  CASE RPCTimedOut(a[1]) -> syncingPseudo
    [] ~RPCTimedOut(a[1]) /\ ~Ok(a[1]) -> Failed
    [] Ok(a[1]) /\ Ok(a[2]) -> AsClaimed(a[1].stage, a[2].height)
    [] Ok(a[1]) /\ ~Ok(a[2]) ->
         IF a[1].stage = "synced" THEN Synced(0, FALSE) ELSE syncingPseudo

kusama(a) == substrateHealthCheck(a)

\* The same flow, with the height from chain_getHeader.
polkadot(a) == substrateHealthCheck(a)

\* The height, then the sync workers: a node is syncing while one of them has
\* a target that it has not reached, and counts as synced otherwise.
filecoin(a) ==
  CASE RPCTimedOut(a[1]) -> syncingPseudo
    [] ~RPCTimedOut(a[1]) /\ ~Ok(a[1]) -> Failed
    [] Ok(a[1]) -> IF Active(a[2]) THEN Syncing(a[1].height, FALSE)
                                  ELSE Synced(a[1].height, FALSE)

\* The metrics of the node, then the tip from a public source; without the
\* latter the node counts as synced.
sui(a) ==
  CASE a[1].kind = "torn" -> Failed
    [] a[1].kind # "torn" /\ (~Ok(a[1]) \/ a[1].stage = "loading") -> syncingPseudo
    [] OTHER -> IF Ok(a[2]) /\ a[1].height < a[2].tip
                  THEN Syncing(a[1].height, FALSE)
                  ELSE Synced(a[1].height, FALSE)
-----------------------------------------------------------------------------
(* Chains that need one answer.                                            *)

xrp(a) == IF Ok(a[1]) THEN AsClaimed(a[1].stage, a[1].height) ELSE Failed

\* The ledger version counts transactions, not blocks.
Versions(height) == 2 * height

\* What the node has beyond its first version counts as synced.
aptos(a) ==
  CASE ~Ok(a[1]) -> Failed
    [] Ok(a[1]) /\ a[1].height = 0 -> syncingPseudo
    [] Ok(a[1]) /\ a[1].height # 0 -> Synced(Versions(a[1].height), FALSE)

\* Slip: a busy node is not told from one that is down.
stellarImpatient(a) ==
  IF Ok(a[1]) THEN [AsClaimed(a[1].stage, a[1].height) EXCEPT
                      !.exempt = a[1].stage # "synced"]
              ELSE Failed

stellar(a) ==
  CASE TimedOut(a[1]) -> Syncing(0, TRUE)
    [] ~TimedOut(a[1]) /\ ~Ok(a[1]) -> Failed
    [] Ok(a[1]) -> [AsClaimed(a[1].stage, a[1].height) EXCEPT
                      !.exempt = \/ a[1].stage = "finishing"
                                 \/ a[1].stage # "synced" /\ a[1].height <= 1]

\* During a ledger replay there is no block number.
cardano(a) ==
  CASE a[1].kind = "torn" -> Failed
    [] Ok(a[1]) /\ a[1].height # 0 -> AsClaimed(a[1].stage, a[1].height)
    [] OTHER -> syncingPseudo

\* Slip: the height is reported as it is.
nearPlain(a) ==
  CASE a[1].kind = "torn" -> Failed
    [] Ok(a[1]) -> AsClaimed(a[1].stage, a[1].height)
    [] OTHER -> syncingPseudo

near(a) ==
  CASE a[1].kind = "torn" -> Failed
    [] Ok(a[1]) /\ a[1].stage = "synced" -> Synced(a[1].height, FALSE)
    [] OTHER -> syncingPseudo

solana(a) == IF Ok(a[1]) THEN Synced(a[1].height, FALSE) ELSE Failed

\* The state is inferred from the peers that the node syncs from; without one
\* it counts as synced.  Blocks being fetched exempt it.
tron(a) ==
  CASE ~Ok(a[1]) -> Failed
    [] Ok(a[1]) /\ a[1].stage = "loading" -> Syncing(0, FALSE)
    [] Ok(a[1]) /\ a[1].stage # "loading" ->
         CASE a[1].lead <= tronSyncedThreshold -> Synced(a[1].height, FALSE)
           [] a[1].lead > tronSyncedThreshold /\ Active(a[1]) ->
                Syncing(a[1].height, TRUE)
           [] a[1].lead > tronSyncedThreshold /\ ~Active(a[1]) ->
                Syncing(a[1].height, FALSE)

ton(a) == IF Ok(a[1]) /\ a[1].stage # "loading"
            THEN AsClaimed(a[1].stage, a[1].height) ELSE syncingPseudo

\* There is no height to be had, and the body is not read.
hyperliquid(a) ==
  CASE TimedOut(a[1]) -> syncingPseudo
    [] a[1].kind \in {"ok", "torn"} -> Synced(0, FALSE)
    [] a[1].kind \in {"refused", "starting"} -> Failed

cosmos(a) ==
  CASE ~Ok(a[1]) -> Failed
    [] Ok(a[1]) /\ a[1].height = 0 /\ a[1].stage # "synced" -> syncingPseudo
    [] OTHER -> AsClaimed(a[1].stage, a[1].height)

\* Copies of the same function.
dymension(a) == cosmos(a)
kava(a) == cosmos(a)
evmos(a) == cosmos(a)
moca(a) == cosmos(a)
axelar(a) == cosmos(a)
sei(a) == cosmos(a)
osmosis(a) == cosmos(a)
-----------------------------------------------------------------------------
\* The chains that have a check here.
Chains ==
  {"bsc", "ethereum", "ethereum-beacon", "avalanche", "bitcoin", "litecoin",
   "dash", "dogecoin", "starknet", "polkadot", "kusama", "filecoin", "sui",
   "xrp", "aptos", "stellar", "cardano", "near", "solana", "tron", "ton",
   "hyperliquid", "cosmos", "dymension", "kava", "evmos", "moca", "axelar",
   "sei", "osmosis"}

\* How many answers a check needs.
Calls(chain) ==
  CASE chain = "avalanche" -> 3
    [] chain \in {"bsc", "ethereum", "starknet", "polkadot", "kusama",
                  "filecoin", "sui"} -> 2
    [] OTHER -> 1

\* The adapters by chain; bsc stands for all that call evmHealthCheck.
HealthCheck(chain, a) ==
  CASE chain = "bsc"             -> evmHealthCheck(a)
    [] chain = "ethereum"        -> ethereum(a)
    [] chain = "ethereum-beacon" -> beaconHealthCheck(a)
    [] chain = "avalanche"       -> avalanche(a)
    [] chain = "bitcoin"         -> bitcoin(a)
    [] chain = "litecoin"        -> litecoin(a)
    [] chain = "dash"            -> dash(a)
    [] chain = "dogecoin"        -> dogecoin(a)
    [] chain = "starknet"        -> starknet(a)
    [] chain = "polkadot"        -> polkadot(a)
    [] chain = "kusama"          -> kusama(a)
    [] chain = "filecoin"        -> filecoin(a)
    [] chain = "sui"             -> sui(a)
    [] chain = "xrp"             -> xrp(a)
    [] chain = "aptos"           -> aptos(a)
    [] chain = "stellar"         -> stellar(a)
    [] chain = "cardano"         -> cardano(a)
    [] chain = "near"            -> near(a)
    [] chain = "solana"          -> solana(a)
    [] chain = "tron"            -> tron(a)
    [] chain = "ton"             -> ton(a)
    [] chain = "hyperliquid"     -> hyperliquid(a)
    [] chain = "cosmos"          -> cosmos(a)
    [] chain = "dymension"       -> dymension(a)
    [] chain = "kava"            -> kava(a)
    [] chain = "evmos"           -> evmos(a)
    [] chain = "moca"            -> moca(a)
    [] chain = "axelar"          -> axelar(a)
    [] chain = "sei"             -> sei(a)
    [] chain = "osmosis"         -> osmosis(a)
=============================================================================
