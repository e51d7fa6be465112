------------------------------ MODULE Adapters ------------------------------
(***************************************************************************)
(* What an adapter contributes to the pod of a chain (internal/adapters):  *)
(* the ports it declares, the ports that its command, arguments and        *)
(* environment open, those that the rendered configuration opens, whether  *)
(* that file is read, the probes and the health check.                     *)
(*                                                                         *)
(* Only TCP ports are kept. An adapter is a record                         *)
(*                                                                         *)
(*   ports    ContainerPorts, by name                                      *)
(*   args     ports opened by the command, its arguments and environment   *)
(*   conf     ports opened by the rendered configuration file              *)
(*   file     name of that file; Empty when there is none                  *)
(*   read     "passed": the command line, the environment or the start     *)
(*              script hands the file to the node;                         *)
(*            "image": only an image that looks in /config reads it;       *)
(*            "never": the file is a reference, or there is none           *)
(*   own      ports that the node opens without being told to              *)
(*   user     ports left to a container of spec.sidecars                   *)
(*   beside   ports of the adapter's own sidecars, by name                 *)
(*   live, start   ports of the liveness and startup probes; 0 is none     *)
(*   health   kind of the health check                                     *)
(*   target   port that the check puts into the URL; 0 keeps rpcURL        *)
(*   answers  port on which the calls of the check are answered            *)
(*   creds    the adapter is RPCCredentialed                               *)
(*   nodePort the adapter is a NodePortProvider                            *)
(***************************************************************************)
EXTENDS Naturals

(* The empty string of the code: no file, no image, no client. *)
Empty == "empty"

Node ==
  [ports |-> <<>>, args |-> {}, conf |-> {}, file |-> Empty, read |-> "never",
   own |-> {}, user |-> {}, beside |-> <<>>, live |-> 0, start |-> 0,
   health |-> "evm", target |-> 0, answers |-> 0,
   creds |-> FALSE, nodePort |-> FALSE]

(* evmPorts and a metrics port, with the probe and the health check on the *)
(* JSON-RPC port.                                                          *)
Evm(p2p, metrics) ==
  [Node EXCEPT !.ports = [rpc |-> 8545, ws |-> 8546, p2p |-> p2p,
                          metrics |-> metrics],
               !.live = 8545, !.answers = 8545]

(* The JSON-RPC and WebSocket ports of a geth-style TOML file, with the    *)
(* listen address of its [Node.P2P] table where there is one.              *)
HttpAndWs == {8545, 8546}

(* Slip: the metrics flags are forgotten. *)
opGethArgsQuiet ==
  [Evm(30303, 6060) EXCEPT !.file = "config.toml", !.read = "passed",
                           !.conf = HttpAndWs \union {30303}]

(* A geth fork started with --config and with the metrics flags.           *)
opGethArgs ==
  [Evm(30303, 6060) EXCEPT !.file = "config.toml", !.read = "passed",
                           !.conf = HttpAndWs \union {30303}, !.args = {6060}]

(* A geth fork that gets the metrics flags only: its image must find the   *)
(* configuration in /config.                                               *)
gethMetricsArgs == [opGethArgs EXCEPT !.read = "image"]

(* op-reth with an op-node beside it; everything is set by flags.          *)
opRethProtocolAdapter ==
  [Evm(30303, 9001) EXCEPT
     !.args = {8545, 8546, 30303, 9001, 8551},
     !.beside = [opnode_rpc |-> 9545, opnode_p2p |-> 9222,
                 opnode_metrics |-> 7300]]

(* The ZK Stack external node, set by environment variables, with its      *)
(* Postgres as a restartable init container.                               *)
zkStackProtocolAdapter ==
  [Node EXCEPT
     !.ports = [rpc |-> 3060, ws |-> 3061, health |-> 3081, metrics |-> 3312],
     !.args = {3060, 3061, 3081, 3312},
     !.beside = [postgres |-> 5432],
     !.live = 3081, !.start = 3081, !.answers = 3060]

(* Nitro reads nitro.json with --conf.file.                                *)
nitroChain(http, ws) ==
  [Node EXCEPT
     !.ports = [rpc |-> http, ws |-> ws, metrics |-> 6070],
     !.conf = {http, ws, 6070}, !.file = "nitro.json", !.read = "passed",
     !.live = http, !.answers = http]

(* Nethermind takes every setting as a flag; nethermind.json is written    *)
(* for reference.                                                          *)
nethermindNode(metrics) ==
  [Evm(30303, metrics) EXCEPT !.args = HttpAndWs \union {30303, metrics},
                              !.file = "nethermind.json"]

(* Slip: the exporter is left on its default port. *)
utxoExporterOnDefaultPort(file, rpc, p2p) ==
  [Node EXCEPT
     !.ports = [rpc |-> rpc, p2p |-> p2p], !.conf = {rpc}, !.file = file,
     !.read = "passed", !.own = {p2p}, !.beside = [metrics |-> 9332],
     !.live = rpc, !.health = "utxo", !.answers = rpc, !.creds = TRUE]

(* The Bitcoin family: rpcauth in the configuration, credentials from the  *)
(* Secret, and a metrics exporter beside the node.                         *)
utxoProtocolAdapter(file, rpc, p2p) ==
  [Node EXCEPT
     !.ports = [rpc |-> rpc, p2p |-> p2p], !.conf = {rpc}, !.file = file,
     !.read = "passed", !.own = {p2p}, !.beside = [metrics |-> 9339],
     !.live = rpc, !.health = "utxo", !.answers = rpc, !.creds = TRUE]

(* cosmosNode.Command: app.toml is merged into the home directory at every *)
(* start, Prometheus is enabled in config.toml and --rpc.laddr is passed.  *)
cosmosNode(conf) ==
  [Node EXCEPT
     !.ports = [rpc |-> 26657, api |-> 1317, p2p |-> 26656,
                metrics |-> 26660],
     !.args = {26657, 26660}, !.conf = conf, !.own = {26656},
     !.file = "app.toml", !.read = "passed",
     !.live = 26657, !.health = "cosmos", !.answers = 26657]

(* Lighthouse reads flags; lighthouse.toml is written for reference.       *)
lighthouseBeaconArgs ==
  [Node EXCEPT
     !.ports = [api |-> 5052, metrics |-> 5054, p2p |-> 9000],
     !.args = {5052, 5054, 9000}, !.file = "lighthouse.toml",
     !.live = 5052, !.health = "beacon", !.answers = 5052]

(* A Substrate node set by flags; the JSON file is written for reference.  *)
moonbeamArgs(file) ==
  [Node EXCEPT
     !.ports = [rpc |-> 9944, p2p |-> 30333, metrics |-> 9615],
     !.args = {9944, 30333, 9615}, !.file = file,
     !.live = 9944, !.answers = 9944]

-----------------------------------------------------------------------------
(* What the pod of an adapter serves when the file `file` of its           *)
(* configuration was mounted at the start.                                 *)
Values(f) == {f[k] : k \in DOMAIN f}

Reads(a) == a.read \in {"passed", "image"}

(* A node that is handed a file which is not there exits.                  *)
Starts(a, file) == a.read = "passed" => file = a.file

MainServes(a, file) ==
  a.args \union a.own \union (IF Reads(a) /\ file = a.file THEN a.conf ELSE {})

Serves(a, file) == MainServes(a, file) \union Values(a.beside) \union a.user

(* The ports of one pod share a network namespace.                         *)
Clash(a, file) ==
  \/ MainServes(a, file) \intersect Values(a.beside) # {}
  \/ \E j, k \in DOMAIN a.beside : j # k /\ a.beside[j] = a.beside[k]

(* adapterMetricsPort: the main container is searched before the sidecars. *)
MetricsPort(a) ==
  CASE "metrics" \in DOMAIN a.ports  -> a.ports.metrics
    [] "metrics" \in DOMAIN a.beside -> a.beside.metrics
    [] OTHER -> 0
=============================================================================
