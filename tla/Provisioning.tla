---------------------------- MODULE Provisioning ----------------------------
(***************************************************************************)
(* The main loop of ChainInstanceReconciler: from the spec of one          *)
(* ChainInstance, through its adapter, to the RPC Secret, the ConfigMap,   *)
(* the StatefulSet, the Service, the PodMonitor and the health check       *)
(* (internal/controller: blockchainnode_controller.go, reconcile_*.go),    *)
(* together with the admission webhook and the pod that results.           *)
(*                                                                         *)
(* Every ensure function is a step of its own: the user, the kubelet and   *)
(* the StatefulSet controller act between them, and each of them may fail, *)
(* which ends the reconcile. What refreshStatus makes of a sync status is  *)
(* the subject of NodeStatus, the upgrade step that of Upgrade.            *)
(***************************************************************************)
EXTENDS EvmAdapters, NativeAdapters, FiniteSets

CONSTANTS
  None,             \* an object that does not exist
  Chains,           \* chains of the instances that are created
  Representatives,  \* chains that meet the events of a scenario
  Scenarios,        \* sets of events that a behaviour may meet
  MaxEvents         \* bound on the number of events in a behaviour

VARIABLES
  faults,   \* the events of this behaviour
  events,   \* number of events so far
  node,     \* the ChainInstance: spec, and its legacy finalizer
  pc,       \* next step of the reconcile
  seen,     \* the spec that the reconcile works on
  creds,    \* the credentials that the reconcile works with
  secret,   \* "<name>-rpc-credentials": number of its content, or None
  minted,   \* number of contents the Secret has had
  cm,       \* "<name>-config", or None
  sts,      \* the StatefulSet, or None
  svc,      \* the Service, or None
  pm,       \* the PodMonitor exists
  pod,      \* the pod with what it read at its start, or None
  status    \* phase, and whether the Degraded reason is ImageRequired

children == <<secret, minted, cm, sts, svc, pm>>
vars == <<events, node, pc, seen, creds, children, pod, status>>

-----------------------------------------------------------------------------
(* The registry of adapters, by chain.                                     *)
registry ==
  [abstract |-> Abstract, aptos |-> Aptos, arbitrum |-> Arbitrum,
   aurora |-> Aurora, avalanche |-> Avalanche, axelar |-> Axelar,
   base |-> Base, berachain |-> Berachain, bittorrent |-> BitTorrent,
   blast |-> BlastChain, bob |-> Bob, boba_eth |-> BobaEth, bsc |-> BSC,
   cardano |-> Cardano, celo |-> Celo, core |-> Core, cosmos |-> Cosmos,
   cronos |-> Cronos, cronos_zkevm |-> CronosZkEVM, dash |-> Dash,
   dogecoin |-> Dogecoin, doma |-> Doma, dymension |-> Dymension,
   ethereum_beacon |-> EthereumBeacon, ethereum_classic |-> EthereumClassic,
   everclear |-> Everclear, evmos |-> Evmos, fantom |-> Fantom,
   filecoin |-> Filecoin, fraxtal |-> Fraxtal, fuse |-> Fuse,
   gnosis |-> Gnosis, gnosis_beacon |-> GnosisBeacon, goat |-> Goat,
   gravity_alpha |-> GravityAlpha, haqq |-> Haqq, harmony |-> Harmony,
   hashkey |-> HashKey, hemi |-> Hemi, hyperliquid |-> Hyperliquid,
   immutable_zkevm |-> ImmutableZkEVM, ink |-> Ink, katana |-> Katana,
   kava |-> Kava, klaytn |-> Klaytn, kroma |-> Kroma, kusama |-> Kusama,
   lens |-> Lens, linea |-> Linea, lisk |-> Lisk, litecoin |-> Litecoin,
   manta_pacific |-> MantaPacific, mantle |-> Mantle, megaeth |-> MegaETH,
   metis |-> Metis, mezo |-> Mezo, moca |-> Moca, mode |-> Mode,
   monad |-> Monad, moonbeam |-> Moonbeam, moonriver |-> Moonriver,
   morph |-> Morph, near |-> Near, opbnb |-> OpBNB, optimism |-> Optimism,
   osmosis |-> Osmosis, plasma |-> Plasma, playnance |-> Playnance,
   plume |-> Plume, polkadot |-> Polkadot, polygon |-> Polygon,
   polygon_zkevm |-> PolygonZkEVM, ronin |-> Ronin, rootstock |-> Rootstock,
   scroll |-> Scroll, sei |-> Sei, shibarium |-> Shibarium,
   solana |-> Solana, soneium |-> Soneium, sonic |-> Sonic,
   starknet |-> Starknet, stellar |-> Stellar, sui |-> Sui,
   superseed |-> Superseed, swell |-> Swell, taiko |-> Taiko,
   telos |-> Telos, thundercore |-> Thundercore, ton |-> TON, tron |-> TRON,
   unichain |-> Unichain, viction |-> Viction, wemix |-> Wemix,
   worldchain |-> Worldchain, xrp |-> XRP, zero_network |-> ZeroNetwork,
   zircuit |-> Zircuit, zksync |-> ZkSync, zora |-> Zora]

Archives == {"ethereum", "ethereum_archive"}

Get(s) ==
  CASE s.chain \in Archives  -> Ethereum(s.client, s.port)
    [] s.chain = "bitcoin"   -> Bitcoin(s.network)
    [] OTHER                 -> registry[s.chain]

(* Chains whose default image is empty. *)
WithoutPublicImage ==
  {"aurora", "bittorrent", "boba_eth", "celo", "cronos", "doma", "evmos",
   "fantom", "hemi", "hyperliquid", "katana", "kroma", "linea",
   "manta_pacific", "mantle", "megaeth", "monad", "ronin", "shibarium",
   "sonic", "swell", "telos", "wemix", "zero_network", "zircuit"}

(* DefaultImageFor: an unknown client gets the image of the chain. *)
DefaultImageFor(chain, client) ==
  CASE chain \in WithoutPublicImage -> Empty
    [] chain \in Archives ->
         IF client \in {"geth", "reth", "erigon"} THEN client ELSE "nethermind"
    [] OTHER -> chain

resolveContainerImage(s) ==
  IF s.image THEN "override" ELSE DefaultImageFor(s.chain, s.client)

-----------------------------------------------------------------------------
(* The admission webhook. *)
validateChainInstanceSpec(s) ==
  /\ s.chain \in DOMAIN registry \union Archives \union {"bitcoin"}
  /\ s.network \in {"mainnet", "testnet", "devnet"}
  /\ s.size > 0

validateImage(s) == s.image \/ DefaultImageFor(s.chain, s.client) # Empty

ValidateCreate(s) == validateChainInstanceSpec(s) /\ validateImage(s)

ValidateUpdate(old, new) ==
  /\ validateChainInstanceSpec(new)
  /\ validateImage(new)
  /\ old.chain = new.chain
  /\ old.network = new.network

-----------------------------------------------------------------------------
(* What the reconcile wants of each child. *)

(* The rendered configuration. Without a file name the ConfigMap is empty. *)
Config(s, c) ==
  IF Get(s).file = Empty
  THEN [file |-> Empty, network |-> Empty, auth |-> 0]
  ELSE [file |-> Get(s).file, network |-> s.network, auth |-> c]

RenderPodTemplate(s, hash) ==
  [image |-> resolveContainerImage(s), node |-> Get(s),
   network |-> s.network, hash |-> hash]

(* One ServicePort for each ContainerPort, with its name. *)
buildServicePorts(s) ==
  [type |-> IF Get(s).nodePort THEN "NodePort" ELSE "ClusterIP",
   ports |-> Get(s).ports]

(* The API server takes a Service only if no two of its ports are the same *)
(* port of the same protocol. filecoin, near, stellar and avalanche name   *)
(* their RPC port once more as metrics.                                    *)
ServiceAccepted(v) ==
  \A j, k \in DOMAIN v.ports : v.ports[j] = v.ports[k] => j = k

(* A cluster without the CRD of prometheus-operator is tolerated. *)
WantPodMonitor(s) ==
  s.monitor /\ MetricsPort(Get(s)) # 0 /\ "nocrd" \notin faults

(* The port of the URL that the health check calls. *)
HealthPort(s) ==
  IF Get(s).target # 0 THEN Get(s).target
  ELSE IF s.port > 0 THEN s.port ELSE 8545

-----------------------------------------------------------------------------
(* The pod. A container that is handed a missing file keeps crashing. *)
Up == pod # None /\ Starts(pod.tmpl.node, pod.conf.file)

(* A public image finds only what it is handed; spec.image names one that  *)
(* also looks into /config.                                                *)
PodServes ==
  LET n == pod.tmpl.node
      found == n.read = "passed" \/ pod.tmpl.image = "override"
  IN Serves(n, IF found THEN pod.conf.file ELSE Empty)

(* The health check gets an answer: the Service has the port, the pod      *)
(* serves that protocol on it, and accepts the credentials.                *)
Answered(s, c) ==
  LET port == HealthPort(s)
  IN /\ Up
     /\ svc # None /\ port \in Values(svc.ports)
     /\ port \in PodServes /\ port = pod.tmpl.node.answers
     /\ Get(s).creds => pod.conf.auth = c

-----------------------------------------------------------------------------
Clients(chain) == IF chain \in Archives THEN {Empty, "geth", "reth"} ELSE {Empty}

NoSecret == [n |-> 0, ok |-> FALSE]

(* 7777 stands for a port that no node serves. *)
Ports(s) == {8545, 7777, Get(s).answers}

Created ==
  [chain : Chains, network : {"mainnet", "testnet"}, image : BOOLEAN,
   client : {Empty, "geth", "reth"}, port : {8545}, monitor : BOOLEAN,
   size : {1}]

Init ==
  /\ faults \in Scenarios
  /\ events = 0
  /\ \E s \in Created :
       \E p \in Ports(s) :
         /\ s.monitor /\ s.client \in Clients(s.chain)
         /\ faults # {} => s.chain \in Representatives /\ p # 7777
         /\ "nowebhook" \in faults \/ ValidateCreate(s)
         /\ node = [spec |-> [s EXCEPT !.port = p],
                    finalizer |-> "legacy" \in faults]
  /\ pc = "idle"
  /\ seen = node.spec
  /\ creds = 0
  /\ secret = NoSecret /\ minted = 0
  /\ cm = None /\ sts = None /\ svc = None /\ pm = FALSE
  /\ pod = None
  /\ status = [phase |-> "Pending", imageRequired |-> FALSE]

-----------------------------------------------------------------------------
(* The reconcile. *)
StripFinalizer ==
  /\ pc = "idle" /\ node.finalizer
  /\ node' = [node EXCEPT !.finalizer = FALSE]
  /\ UNCHANGED <<events, pc, seen, creds, children, pod, status>>

markImageRequired ==
  /\ pc = "idle" /\ ~node.finalizer
  /\ resolveContainerImage(node.spec) = Empty
  /\ status' = [phase |-> "Failed", imageRequired |-> TRUE]
  /\ UNCHANGED <<events, node, pc, seen, creds, children, pod>>

(* Slip: the reconcile relies on the webhook for the image. *)
StartUnchecked ==
  /\ pc = "idle" /\ ~node.finalizer
  /\ seen' = node.spec /\ creds' = 0 /\ pc' = "secret"
  /\ UNCHANGED <<events, node, children, pod, status>>

StartReconcile ==
  /\ pc = "idle" /\ ~node.finalizer
  /\ resolveContainerImage(node.spec) # Empty
  /\ seen' = node.spec /\ creds' = 0 /\ pc' = "secret"
  /\ UNCHANGED <<events, node, children, pod, status>>

(* RPCCredentials.Validate fails on a Secret that lacks a key. *)
UseSecret ==
  IF secret.ok THEN creds' = secret.n /\ pc' = "configmap"
               ELSE pc' = "idle" /\ UNCHANGED creds

(* Slip: a Secret that is not there yet is taken for an empty one. *)
ensureRPCSecretOptional ==
  /\ pc = "secret"
  /\ creds' = secret.n /\ pc' = "configmap"
  /\ UNCHANGED <<events, node, seen, children, pod, status>>

ensureRPCSecret ==
  /\ pc = "secret"
  /\ \/ ~Get(seen).creds /\ pc' = "configmap" /\ UNCHANGED creds
     \/ Get(seen).creds /\ secret # NoSecret /\ UseSecret
     \/ Get(seen).creds /\ secret = NoSecret /\ pc' = "create" /\ UNCHANGED creds
  /\ UNCHANGED <<events, node, seen, children, pod, status>>

(* Slip: the generated Secret replaces one that appeared meanwhile. *)
createRPCSecretForced ==
  /\ pc = "create"
  /\ minted' = minted + 1
  /\ secret' = [n |-> minted + 1, ok |-> TRUE]
  /\ creds' = minted + 1 /\ pc' = "configmap"
  /\ UNCHANGED <<events, node, seen, cm, sts, svc, pm, pod, status>>

createRPCSecret ==
  /\ pc = "create"
  /\ \/ /\ secret = NoSecret
        /\ minted' = minted + 1
        /\ secret' = [n |-> minted + 1, ok |-> TRUE]
        /\ creds' = minted + 1 /\ pc' = "configmap"
     \/ secret # NoSecret /\ UseSecret /\ UNCHANGED <<secret, minted>>
  /\ UNCHANGED <<events, node, seen, cm, sts, svc, pm, pod, status>>

ensureConfigMap ==
  /\ pc = "configmap"
  /\ cm' = Config(seen, creds)
  /\ pc' = "statefulset"
  /\ UNCHANGED <<events, node, seen, creds, secret, minted, sts, svc, pm, pod,
                 status>>

(* Slip: the template of an existing StatefulSet keeps its configuration   *)
(* hash.                                                                   *)
ensureStatefulSetKeepsHash ==
  /\ pc = "statefulset"
  /\ \/ /\ sts # None => sts.size = seen.size
        /\ sts' = [tmpl |-> RenderPodTemplate(seen,
                     IF sts = None THEN Config(seen, creds) ELSE sts.tmpl.hash),
                   size |-> seen.size]
        /\ pc' = "service"
     \/ sts # None /\ sts.size # seen.size /\ pc' = "idle" /\ UNCHANGED sts
  /\ UNCHANGED <<events, node, seen, creds, secret, minted, cm, svc, pm, pod,
                 status>>

(* The API server rejects an update of volumeClaimTemplates. *)
ensureStatefulSet ==
  /\ pc = "statefulset"
  /\ \/ /\ sts # None => sts.size = seen.size
        /\ sts' = [tmpl |-> RenderPodTemplate(seen, Config(seen, creds)),
                   size |-> seen.size]
        /\ pc' = "service"
     \/ sts # None /\ sts.size # seen.size /\ pc' = "idle" /\ UNCHANGED sts
  /\ UNCHANGED <<events, node, seen, creds, secret, minted, cm, svc, pm, pod,
                 status>>

(* deleteOnTypeMismatch comes first, the upsert follows; a refused upsert  *)
(* ends the reconcile.                                                     *)
ensureService ==
  /\ \/ /\ pc = "service" /\ svc # None
        /\ svc.type # buildServicePorts(seen).type
        /\ svc' = None /\ pc' = "upsert"
     \/ /\ \/ pc = "upsert"
           \/ /\ pc = "service"
              /\ svc # None => svc.type = buildServicePorts(seen).type
        /\ \/ /\ ServiceAccepted(buildServicePorts(seen))
              /\ svc' = buildServicePorts(seen) /\ pc' = "podmonitor"
           \/ /\ ~ServiceAccepted(buildServicePorts(seen))
              /\ UNCHANGED svc /\ pc' = "idle"
  /\ UNCHANGED <<events, node, seen, creds, secret, minted, cm, sts, pm, pod,
                 status>>

ensurePodMonitor ==
  /\ pc = "podmonitor"
  /\ pm' = WantPodMonitor(seen)
  /\ pc' = "status"
  /\ UNCHANGED <<events, node, seen, creds, secret, minted, cm, sts, svc, pod,
                 status>>

(* refreshStatus. A node that stays Degraded has its pod deleted.          *)
refreshStatus ==
  /\ pc = "status"
  /\ status' = [phase |-> IF Answered(seen, creds) THEN "Running"
                                                   ELSE "Degraded",
                imageRequired |-> FALSE]
  /\ pc' = "idle"
  /\ UNCHANGED <<events, node, seen, creds, children, pod>>

restartIfDegradedTooLong ==
  /\ pc = "status" /\ ~Answered(seen, creds)
  /\ status.phase = "Degraded" /\ pod # None
  /\ pod' = None
  /\ status' = [phase |-> "Degraded", imageRequired |-> FALSE]
  /\ pc' = "idle"
  /\ UNCHANGED <<events, node, seen, creds, children>>

Reconcile ==
  \/ StripFinalizer \/ markImageRequired \/ StartReconcile
  \/ ensureRPCSecret \/ createRPCSecret \/ ensureConfigMap
  \/ ensureStatefulSet \/ ensureService \/ ensurePodMonitor
  \/ refreshStatus \/ restartIfDegradedTooLong

-----------------------------------------------------------------------------
(* The StatefulSet controller and the kubelet. The ConfigMap is not        *)
(* optional for the pod; the exporter beside a credentialed node waits for *)
(* the Secret.                                                             *)
Key == IF sts.tmpl.node.creds /\ secret.ok THEN secret.n ELSE 0

StartPod ==
  /\ pod = None /\ sts # None /\ cm # None
  /\ pod' = [tmpl |-> sts.tmpl, conf |-> cm, key |-> Key]
  /\ UNCHANGED <<events, node, pc, seen, creds, children, status>>

RollPod ==
  /\ pod # None /\ (sts # None => pod.tmpl # sts.tmpl)
  /\ pod' = None
  /\ UNCHANGED <<events, node, pc, seen, creds, children, status>>

StartExporter ==
  /\ pod # None /\ pod.key = 0 /\ pod.tmpl.node.creds /\ secret.ok
  /\ pod' = [pod EXCEPT !.key = secret.n]
  /\ UNCHANGED <<events, node, pc, seen, creds, children, status>>

(* A crashing container is started again, on the mounted ConfigMap of now. *)
RestartCrashing ==
  /\ pod # None /\ ~Up /\ cm # None /\ pod.conf # cm
  /\ pod' = [pod EXCEPT !.conf = cm]
  /\ UNCHANGED <<events, node, pc, seen, creds, children, status>>

Cluster == StartPod \/ RollPod \/ StartExporter \/ RestartCrashing

-----------------------------------------------------------------------------
(* Events. *)
Event(f) == f \in faults /\ events < MaxEvents /\ events' = events + 1

(* An API call fails, or the operator stops: the reconcile starts over. *)
Abort ==
  /\ Event("error")
  /\ pc # "idle" /\ pc' = "idle"
  /\ UNCHANGED <<node, seen, creds, children, pod, status>>

Edits(s) ==
  (IF "edit" \notin faults THEN {} ELSE
     {[s EXCEPT !.image = ~@], [s EXCEPT !.monitor = ~@]}
     \union {[s EXCEPT !.client = c] : c \in Clients(s.chain)}
     \union {[s EXCEPT !.port = p] : p \in Ports(s)}
     \union {[s EXCEPT !.network = n] : n \in {"mainnet", "testnet"}}
     \union {[s EXCEPT !.chain = c] : c \in Representatives})
  \union
  (IF "storage" \notin faults THEN {} ELSE
     {[s EXCEPT !.size = n] : n \in 0..2})

EditSpec ==
  /\ \E f \in {"edit", "storage"} : Event(f)
  /\ \E s \in Edits(node.spec) \ {node.spec} :
       /\ s.client \in Clients(s.chain)
       /\ "nowebhook" \in faults \/ ValidateUpdate(node.spec, s)
       /\ node' = [node EXCEPT !.spec = s]
  /\ UNCHANGED <<pc, seen, creds, children, pod, status>>

(* The user deletes the Secret or provides one, with a content it never    *)
(* had: README.md describes what restoring an earlier one can do.          *)
EditSecret ==
  /\ Event("secret")
  /\ Get(node.spec).creds
  /\ \/ secret # NoSecret /\ secret' = NoSecret /\ UNCHANGED minted
     \/ \E ok \in BOOLEAN : secret' = [n |-> minted + 1, ok |-> ok]
                           /\ minted' = minted + 1
  /\ UNCHANGED <<node, pc, seen, creds, cm, sts, svc, pm, pod, status>>

DeleteChild ==
  /\ Event("delete")
  /\ \/ cm # None /\ cm' = None /\ UNCHANGED <<sts, svc, pm>>
     \/ sts # None /\ sts' = None /\ UNCHANGED <<cm, svc, pm>>
     \/ svc # None /\ svc' = None /\ UNCHANGED <<cm, sts, pm>>
     \/ pm /\ pm' = FALSE /\ UNCHANGED <<cm, sts, svc>>
  /\ UNCHANGED <<node, pc, seen, creds, secret, minted, pod, status>>

(* The pod is evicted, or its main container restarts in place. *)
RestartPod ==
  /\ Event("restart")
  /\ pod # None
  /\ \/ pod' = None
     \/ cm # None /\ cm # pod.conf /\ pod' = [pod EXCEPT !.conf = cm]
  /\ UNCHANGED <<node, pc, seen, creds, children, status>>

Events == Abort \/ EditSpec \/ EditSecret \/ DeleteChild \/ RestartPod

Step == Reconcile \/ Cluster \/ Events

Next == Step /\ UNCHANGED faults

(* The work queue runs a reconcile every 30 s and after every error; a     *)
(* node that stays Degraded passes its timeout; the cluster keeps working. *)
Fairness ==
  /\ WF_<<vars, faults>>(Reconcile /\ UNCHANGED faults)
  /\ SF_<<vars, faults>>(restartIfDegradedTooLong /\ UNCHANGED faults)
  /\ WF_<<vars, faults>>(StartPod /\ UNCHANGED faults)
  /\ WF_<<vars, faults>>(RollPod /\ UNCHANGED faults)
  /\ WF_<<vars, faults>>(StartExporter /\ UNCHANGED faults)
  /\ WF_<<vars, faults>>(RestartCrashing /\ UNCHANGED faults)

Spec == Init /\ [][Next]_<<vars, faults>> /\ Fairness

-----------------------------------------------------------------------------
(* Types of all variables, and the knowledge that each stage of a          *)
(* reconcile has: past the Secret, a credentialed chain has credentials.   *)
Specs ==
  [chain : Chains, network : {"mainnet", "testnet"}, image : BOOLEAN,
   client : {Empty, "geth", "reth"}, port : Nat, monitor : BOOLEAN,
   size : Nat]

TypeOK ==
  /\ faults \in Scenarios
  /\ events \in 0..MaxEvents
  /\ node \in [spec : Specs, finalizer : BOOLEAN]
  /\ pc \in {"idle", "secret", "create", "configmap", "statefulset",
             "service", "upsert", "podmonitor", "status"}
  /\ seen \in Specs
  /\ minted \in Nat
  /\ secret \in [n : 0..minted, ok : BOOLEAN]
  /\ creds \in 0..minted
  /\ Get(seen).creds /\ pc \in {"configmap", "statefulset", "service",
       "upsert", "podmonitor", "status"} => creds > 0
  /\ cm # None => cm.auth \in 0..minted
  /\ sts # None => DOMAIN sts = {"tmpl", "size"}
  /\ svc # None => svc.type \in {"ClusterIP", "NodePort"}
  /\ pm \in BOOLEAN
  /\ pod # None => DOMAIN pod = {"tmpl", "conf", "key"}
  /\ status \in [phase : {"Pending", "Failed", "Degraded", "Running"},
                 imageRequired : BOOLEAN]

(* The ports that the kubelet probes are served by the pod on the          *)
(* configuration that its template belongs to, and no two containers of    *)
(* the pod open the same port. The liveness probe of the Ethereum clients  *)
(* follows spec.rpc.port while their listen port does not: those pods are  *)
(* exempt when it is not the client's.                                     *)
ProbesAnswered ==
  Up /\ pod.conf.file = pod.tmpl.node.file =>
    LET n == pod.tmpl.node
    IN /\ n.health = "ethereum" => n.answers \in PodServes
       /\ n.health # "ethereum" => {n.live, n.start} \ {0} \subseteq PodServes
       /\ ~Clash(n, pod.conf.file)

(* No StatefulSet ever has an empty image, with or without the webhook:    *)
(* markImageRequired says that no workload is created until it is set.     *)
ImageBeforeWorkload == sts # None => sts.tmpl.image # Empty

(* The operator never changes a Secret that exists, also when the user     *)
(* creates it between the operator's read and its own create.              *)
UserSecretKept ==
  [][secret # NoSecret /\ secret' # secret => events' > events]_<<vars, faults>>

(* The spec can be satisfied: there is an image, the Secret is valid, the  *)
(* API server takes the Service, and the health check goes to the port     *)
(* that the node answers on and that the Service has.                      *)
Satisfiable ==
  LET s == node.spec
  IN /\ resolveContainerImage(s) # Empty
     /\ Get(s).creds => secret.ok \/ secret = NoSecret
     /\ ServiceAccepted(buildServicePorts(s))
     /\ HealthPort(s) = Get(s).answers
     /\ HealthPort(s) \in Values(Get(s).ports)

Settled ==
  LET s == node.spec
  IN /\ cm = Config(s, IF Get(s).creds THEN secret.n ELSE 0)
     /\ sts # None /\ sts.tmpl = RenderPodTemplate(s, cm)
     /\ svc = buildServicePorts(s)
     /\ pm = WantPodMonitor(s)
     /\ Up /\ pod.tmpl = sts.tmpl
     /\ pod.conf = cm \/ ~Reads(Get(s)) \/ "nowebhook" \in faults
     /\ Get(s).creds => pod.key = secret.n
     /\ status = [phase |-> "Running", imageRequired |-> FALSE]

(* Once the children are those of the spec, a PodMonitor stands for a pod  *)
(* that serves the port named metrics, in the node or beside it. tron and  *)
(* hyperliquid name a port that nothing opens. Without the webhook the     *)
(* chain may be changed and changed back: a pod that started between the   *)
(* two has the file of another chain.                                      *)
MetricsScraped ==
  (/\ Settled /\ pm
   /\ pod.tmpl.node.health \notin {"tron", "hyperliquid"}
   /\ "nowebhook" \in faults => pod.conf.file = pod.tmpl.node.file) =>
    MetricsPort(pod.tmpl.node) \in PodServes

(* Once the events are over and the spec can be satisfied, the pod runs    *)
(* the spec's template on the spec's configuration, node, exporter and     *)
(* operator share the credentials of the Secret, Service and PodMonitor    *)
(* are those of the spec, and the status says Running. Without the webhook *)
(* the network may be changed and changed back: a pod that started between *)
(* the two keeps the other configuration, as its template is unchanged. An *)
(* edit of the storage size, which the webhook admits and the API server   *)
(* refuses for a StatefulSet, ends every later reconcile: none settles. So *)
(* does a Service that the API server refuses, which Satisfiable excludes. *)
Converges ==
  "storage" \notin faults => (<>[]Satisfiable => <>[]Settled)

ASSUME ProvisioningAssumption ==
  /\ MaxEvents \in Nat
  /\ Chains \subseteq DOMAIN registry \union Archives \union {"bitcoin"}
  /\ Representatives \subseteq Chains

(* The events that the model knows. *)
ASSUME KnownFaults ==
  \A f \in Scenarios : f \subseteq
    {"error", "edit", "storage", "nowebhook", "secret", "delete", "restart",
     "nocrd", "legacy"}
=============================================================================
