--------------------------- MODULE NativeAdapters ---------------------------
(***************************************************************************)
(* The adapters with a health check of their own protocol, one definition  *)
(* for each file. The records are described in Adapters.                   *)
(***************************************************************************)
EXTENDS Adapters

(* The Bitcoin family. Only bitcoin moves its ports with the network.      *)
Bitcoin(network) ==
  IF network = "testnet"
  THEN utxoProtocolAdapter("bitcoin.conf", 18332, 18333)
  ELSE utxoProtocolAdapter("bitcoin.conf", 8332, 8333)
Litecoin == utxoProtocolAdapter("litecoin.conf", 9332, 9333)
Dogecoin == utxoProtocolAdapter("dogecoin.conf", 22555, 22556)
Dash == utxoProtocolAdapter("dash.conf", 9998, 9999)

(* Beacon chains. *)
EthereumBeacon == lighthouseBeaconArgs
GnosisBeacon == lighthouseBeaconArgs

(* Substrate chains checked with system_health. *)
Polkadot ==
  [moonbeamArgs("polkadot.json") EXCEPT !.start = 9944, !.health = "polkadot"]
Kusama ==
  [moonbeamArgs("kusama.json") EXCEPT !.start = 9944, !.health = "substrate"]

(* Cosmos SDK chains checked with /status.                                 *)
Cosmos ==
  [cosmosNode({1317}) EXCEPT !.args = @ \union {26656, 1317}, !.start = 26657]
Kava == [cosmosNode({1317}) EXCEPT !.start = 26657]
Osmosis == [cosmosNode({1317}) EXCEPT !.start = 26657]
Sei == [cosmosNode({1317}) EXCEPT !.start = 26657]
Moca ==
  [cosmosNode({1317, 8545}) EXCEPT
     !.ports = [rpc |-> 26657, api |-> 1317, p2p |-> 26656,
                metrics |-> 26660, evm_rpc |-> 8545]]
Evmos == [Moca EXCEPT !.start = 26657]
Dymension ==
  [cosmosNode({1317, 9090}) EXCEPT
     !.ports = [rpc |-> 26657, p2p |-> 26656, grpc |-> 9090,
                metrics |-> 26660]]
Axelar == Dymension

(* juno takes flags and environment; juno.json is written for reference.   *)
Starknet ==
  [Node EXCEPT
     !.ports = [rpc |-> 6060, metrics |-> 9090], !.args = {6060, 9090},
     !.file = "juno.json", !.live = 6060, !.start = 6060,
     !.health = "starknet", !.answers = 6060]

(* The metrics port of solana is declared by the node's container and by   *)
(* its exporter; the exporter opens it.                                    *)
Solana ==
  [Node EXCEPT
     !.ports = [rpc |-> 8899, ws |-> 8900, metrics |-> 8080],
     !.args = {8899}, !.own = {8900}, !.file = "validator.yml",
     !.beside = [metrics |-> 8080], !.live = 8899, !.start = 8899,
     !.health = "solana", !.answers = 8899]

Filecoin ==
  [Node EXCEPT
     !.ports = [rpc |-> 1234, metrics |-> 1234, p2p |-> 12345],
     !.conf = {1234, 12345}, !.file = "config.toml", !.read = "passed",
     !.live = 1234, !.start = 1234, !.health = "filecoin", !.answers = 1234]

XRP ==
  [Node EXCEPT
     !.ports = [rpc |-> 5005, peer |-> 51235],
     !.conf = {5005, 51235, 6006}, !.file = "rippled.cfg", !.read = "passed",
     !.live = 5005, !.health = "xrp", !.answers = 5005]

Aptos ==
  [Node EXCEPT
     !.ports = [rpc |-> 8080, metrics |-> 9101, p2p |-> 6180],
     !.conf = {8080, 6180}, !.own = {9101},
     !.file = "fullnode.yaml", !.read = "passed",
     !.live = 8080, !.start = 8080, !.health = "aptos", !.answers = 8080]

Stellar ==
  [Node EXCEPT
     !.ports = [http |-> 11626, metrics |-> 11626, peer |-> 11625],
     !.conf = {11626, 11625}, !.file = "stellar-core.cfg", !.read = "passed",
     !.live = 11626, !.health = "stellar", !.answers = 11626]

Avalanche ==
  [Node EXCEPT
     !.ports = [rpc |-> 9650, metrics |-> 9650, staking |-> 9651],
     !.conf = {9650}, !.own = {9651}, !.file = "config.json",
     !.read = "passed", !.live = 9650, !.start = 9650,
     !.health = "avalanche", !.answers = 9650]

(* The start script downloads the node's real configuration, which opens   *)
(* the two monitoring ports. The check and the probes use Prometheus.      *)
Cardano ==
  [Node EXCEPT
     !.ports = [p2p |-> 3001, ekg |-> 12788, metrics |-> 12798],
     !.args = {3001}, !.own = {12788, 12798}, !.file = "config.json",
     !.live = 12798, !.start = 12798,
     !.health = "cardano", !.target = 12798, !.answers = 12798]

(* The start script downloads the node's real configuration.               *)
Near ==
  [Node EXCEPT
     !.ports = [rpc |-> 3030, metrics |-> 3030, p2p |-> 24567],
     !.own = {3030, 24567}, !.file = "config.json",
     !.live = 3030, !.start = 3030, !.health = "near", !.answers = 3030]

Sui ==
  [Node EXCEPT
     !.ports = [rpc |-> 9000, metrics |-> 9184],
     !.conf = {9000, 9184, 1337}, !.file = "fullnode.yaml",
     !.read = "passed", !.live = 9000, !.start = 9000,
     !.health = "sui", !.target = 9184, !.answers = 9184]

(* The rendered file enables no Prometheus endpoint.                       *)
TRON ==
  [Node EXCEPT
     !.ports = [http |-> 8090, grpc |-> 50051, p2p |-> 18888,
                metrics |-> 9527],
     !.conf = {8090, 8091, 50051, 18888}, !.file = "config.conf",
     !.read = "passed", !.live = 8090, !.start = 8090,
     !.health = "tron", !.answers = 8090]

(* The start script answers seqno queries beside the node.                 *)
TON ==
  [Node EXCEPT
     !.ports = [liteserver |-> 30003, seqno |-> 8081],
     !.args = {30003, 8081}, !.file = "global-config.json",
     !.read = "passed", !.live = 30003, !.start = 30003,
     !.health = "ton", !.target = 8081, !.answers = 8081, !.nodePort = TRUE]

Hyperliquid ==
  [Node EXCEPT
     !.ports = [api |-> 3001, p2p |-> 4001, metrics |-> 9090],
     !.conf = {3001, 4001}, !.file = "hyperliquid.json", !.read = "image",
     !.live = 3001, !.health = "hyperliquid", !.answers = 3001]
=============================================================================
