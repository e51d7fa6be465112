---------------------------- MODULE EvmAdapters ----------------------------
(***************************************************************************)
(* The adapters whose health check is evmHealthCheck, one definition for   *)
(* each file. Adapters that are thin wrappers of a shared base are equal   *)
(* here, as their files differ in names, networks and resources only.      *)
(***************************************************************************)
EXTENDS Adapters

(* OP Stack chains on op-reth. *)
Bob == opRethProtocolAdapter
Fraxtal == opRethProtocolAdapter
HashKey == opRethProtocolAdapter
Ink == opRethProtocolAdapter
Lisk == opRethProtocolAdapter
Mode == opRethProtocolAdapter
Optimism == opRethProtocolAdapter
Soneium == opRethProtocolAdapter
Superseed == opRethProtocolAdapter
Unichain == opRethProtocolAdapter
Worldchain == opRethProtocolAdapter
Zora == opRethProtocolAdapter

(* base-reth-node takes the same flags; base-consensus takes the ports of  *)
(* op-node under other names.                                              *)
Base ==
  [opRethProtocolAdapter EXCEPT
     !.beside = [cl_rpc |-> 9545, cl_p2p |-> 9222, cl_metrics |-> 7300]]

(* ZK Stack chains. *)
Abstract == zkStackProtocolAdapter
CronosZkEVM == zkStackProtocolAdapter
Lens == zkStackProtocolAdapter
ZeroNetwork == zkStackProtocolAdapter
ZkSync == zkStackProtocolAdapter

(* Nitro chains. *)
Arbitrum == nitroChain(8545, 8546)
Everclear == nitroChain(8547, 8548)
GravityAlpha == nitroChain(8547, 8548)
Playnance == nitroChain(8547, 8548)
Plume == nitroChain(8547, 8548)

(* Nethermind chains. *)
Gnosis == nethermindNode(6060)
Fuse == nethermindNode(6060)

(* The clients of ethereum and ethereum-archive. The liveness probe        *)
(* follows spec.rpc.port, the listen ports do not.                         *)
gethArgs == [opGethArgs EXCEPT !.conf = @ \union {8551}]
erigonArgs == [Evm(30303, 6060) EXCEPT !.args = {8545, 8546, 8551, 30303, 6060}]
rethArgs == [Evm(30303, 9001) EXCEPT !.args = {8545, 8546, 8551, 30303, 9001}]
ethNethermind == [nethermindNode(9091) EXCEPT !.args = @ \union {8551}]

ethClient(client) ==
  CASE client = "geth"   -> gethArgs
    [] client = "reth"   -> rethArgs
    [] client = "erigon" -> erigonArgs
    [] OTHER             -> ethNethermind

Ethereum(client, rpcPort) ==
  LET a == ethClient(client)
  IN [a EXCEPT !.ports = [rpc |-> @.rpc, ws |-> @.ws, p2p |-> @.p2p,
                          metrics |-> @.metrics, engine |-> 8551],
               !.live = IF rpcPort > 0 THEN rpcPort ELSE 8545,
               !.health = "ethereum"]

(* geth forks that are handed their configuration. *)
EthereumClassic == opGethArgs
Core == opGethArgs
Celo == opGethArgs
Scroll == opGethArgs
Goat == opGethArgs
OpBNB == opGethArgs
ImmutableZkEVM == opGethArgs
Viction == opGethArgs
Hemi == [opGethArgs EXCEPT !.conf = @ \union {8551}]
Taiko == [opGethArgs EXCEPT !.conf = HttpAndWs, !.own = {30303}]
BlastChain == [opGethArgs EXCEPT !.conf = HttpAndWs, !.own = {30303}]

(* l2geth: the environment sets RPC and WebSocket again, metrics are on    *)
(* the pprof port.                                                         *)
Metis ==
  [opGethArgs EXCEPT !.conf = HttpAndWs, !.args = HttpAndWs \union {6060},
                     !.own = {30303}]

BSC ==
  [Evm(30311, 6060) EXCEPT
     !.file = "config.toml", !.read = "passed",
     !.conf = HttpAndWs \union {30311}, !.args = HttpAndWs \union {6060},
     !.start = 8545]

Polygon ==
  [Evm(30303, 6060) EXCEPT
     !.file = "config.toml", !.read = "passed",
     !.conf = HttpAndWs \union {6060}, !.own = {30303}]

(* cdk-erigon serves WebSocket on the HTTP port: nothing opens 8546.       *)
PolygonZkEVM ==
  [Evm(30303, 6061) EXCEPT
     !.file = "hermezconfig.yaml", !.read = "passed",
     !.conf = {8545, 9091, 6061}, !.own = {30303}]

Linea ==
  [Evm(30303, 9545) EXCEPT
     !.file = "config.toml", !.read = "passed",
     !.conf = HttpAndWs \union {30303}, !.args = {9545}]

(* The start script copies override.yaml beside the network files. *)
Thundercore ==
  [Evm(30303, 9201) EXCEPT
     !.file = "override.yaml", !.read = "passed",
     !.conf = HttpAndWs \union {9201, 9998}, !.own = {30303}]

Klaytn ==
  [Node EXCEPT
     !.ports = [rpc |-> 8551, ws |-> 8552, p2p |-> 32323, metrics |-> 6060],
     !.file = "kaia.yaml", !.read = "passed",
     !.conf = {8551, 8552, 32323}, !.args = {6060},
     !.live = 8551, !.answers = 8551]

Rootstock ==
  [Node EXCEPT
     !.ports = [rpc |-> 4444, p2p |-> 5050],
     !.file = "rsk.conf", !.read = "passed", !.conf = {4444, 4445, 5050},
     !.live = 4444, !.answers = 4444]

Harmony ==
  [Node EXCEPT
     !.ports = [rpc |-> 9500, ws |-> 9800, p2p |-> 9000, metrics |-> 9900],
     !.file = "harmony.conf", !.read = "passed",
     !.conf = {9500, 9501, 9800, 9801, 9000, 9900, 6000},
     !.live = 9500, !.answers = 9500]

(* Chains whose files nothing hands to the node, with flags for all of it. *)
Fantom ==
  [Evm(5050, 6060) EXCEPT !.args = HttpAndWs \union {5050, 6060},
                          !.file = "config.toml"]
Mantle ==
  [Evm(30303, 6060) EXCEPT !.args = HttpAndWs \union {30303, 6060},
                           !.file = "config.toml"]
Moonbeam == moonbeamArgs("moonbeam.json")
Moonriver == moonbeamArgs("moonriver.json")

(* Chains without a public image, whose image must read the file itself.   *)
BitTorrent == gethMetricsArgs
Shibarium == gethMetricsArgs
Katana == gethMetricsArgs
MegaETH == gethMetricsArgs
Zircuit == gethMetricsArgs
BobaEth == gethMetricsArgs
Doma == gethMetricsArgs
Kroma == gethMetricsArgs
Ronin == [gethMetricsArgs EXCEPT !.conf = HttpAndWs, !.own = {30303}]
Swell == [gethMetricsArgs EXCEPT !.conf = HttpAndWs, !.own = {30303}]
MantaPacific == [gethMetricsArgs EXCEPT !.conf = HttpAndWs, !.own = {30303}]
Monad == [gethMetricsArgs EXCEPT !.file = "monad.json"]
Telos == [gethMetricsArgs EXCEPT !.file = "telos.toml"]
Aurora ==
  [Evm(30303, 9090) EXCEPT !.file = "aurora.toml", !.read = "image",
                           !.conf = {8545}, !.own = {30303, 9090}]
Sonic ==
  [gethMetricsArgs EXCEPT
     !.ports = [rpc |-> 18545, ws |-> 18546, p2p |-> 5050, metrics |-> 6060],
     !.conf = {18545, 18546, 5050}, !.live = 18545, !.answers = 18545]
Wemix ==
  [gethMetricsArgs EXCEPT
     !.ports = [http |-> 8588, ws |-> 8598, p2p |-> 8589, metrics |-> 6060],
     !.conf = {8588, 8598, 8589}, !.live = 8588, !.answers = 8588]
Cronos ==
  [Evm(26656, 26660) EXCEPT
     !.file = "app.toml", !.read = "image",
     !.conf = {8545, 8546, 26660, 26656}]

(* Cosmos SDK chains with an EVM, checked on it. *)
Haqq ==
  [cosmosNode({8545, 8546}) EXCEPT
     !.ports = Evm(26656, 26660).ports,
     !.live = 8545, !.health = "evm", !.answers = 8545]
Mezo ==
  [cosmosNode({1317, 8545, 8546}) EXCEPT
     !.ports = [rpc |-> 26657, api |-> 1317, p2p |-> 26656,
                metrics |-> 26660, evm_rpc |-> 8545, evm_ws |-> 8546],
     !.health = "evm", !.answers = 8545]

(* Consensus clients whose execution client is a container of              *)
(* spec.sidecars: it serves the probed JSON-RPC port. The Service of       *)
(* berachain does not expose that port.                                    *)
Berachain ==
  [Node EXCEPT
     !.ports = [p2p |-> 26656, rpc |-> 26657, engine |-> 8551,
                metrics |-> 26660],
     !.args = {26657}, !.conf = {3500}, !.file = "app.toml",
     !.read = "passed", !.own = {26656, 26660}, !.user = {8545, 8551},
     !.live = 8545, !.answers = 8545]
Morph ==
  [Evm(30303, 26660) EXCEPT
     !.file = "config.toml", !.conf = HttpAndWs,
     !.own = {26660}, !.user = {8545, 8546, 30303}]

(* The health check of plasma reports an error without asking.             *)
Plasma ==
  [Evm(30303, 6060) EXCEPT
     !.file = "config.toml", !.own = {8545, 8546, 30303, 6060},
     !.health = "none", !.answers = 0]
=============================================================================
