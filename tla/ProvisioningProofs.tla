------------------------- MODULE ProvisioningProofs -------------------------
(***************************************************************************)
(* Theorems about Provisioning, for every set of chains that have an       *)
(* adapter, every set of scenarios and any number of events.               *)
(***************************************************************************)
EXTENDS Provisioning, TLAPS

(* The adapters, one by one.                                               *)

\* The pod of an adapter has the port p open, once its file is mounted.
Opens(n, p) ==
  \/ p \in n.args \/ p \in n.own \/ p \in n.user
  \/ Reads(n) /\ p \in n.conf
  \/ \E k \in DOMAIN n.beside : n.beside[k] = p

\* Probes, metrics and the ports of the sidecars are in order.
Sane(n) ==
  /\ n.answers \in Nat
  /\ n.health = "ethereum" => Opens(n, n.answers)
  /\ n.live = 0 \/ n.health = "ethereum" \/ Opens(n, n.live)
  /\ n.start = 0 \/ Opens(n, n.start)
  /\ n.health \in {"tron", "hyperliquid"} \/ MetricsPort(n) = 0
     \/ Opens(n, MetricsPort(n))
  /\ \A k \in DOMAIN n.beside :
       /\ n.beside[k] \notin n.args \cup n.own \cup n.conf
       /\ \A j \in DOMAIN n.beside : j # k => n.beside[j] # n.beside[k]

\* The file is handed to the node, or not needed.
Handed(n) == n.read # "image"

\* The adapters that several chains share.
LEMMA SharedAdapters ==
  /\ Sane(opGethArgs) /\ Handed(opGethArgs)
  /\ Sane(opRethProtocolAdapter) /\ Handed(opRethProtocolAdapter)
  /\ Sane(zkStackProtocolAdapter) /\ Handed(zkStackProtocolAdapter)
  /\ Sane(nitroChain(8545, 8546)) /\ Handed(nitroChain(8545, 8546))
  /\ Sane(nitroChain(8547, 8548)) /\ Handed(nitroChain(8547, 8548))
  /\ Sane(nethermindNode(6060)) /\ Handed(nethermindNode(6060))
  /\ Sane(lighthouseBeaconArgs) /\ Handed(lighthouseBeaconArgs)
  /\ Sane(moonbeamArgs("moonbeam.json")) /\ Handed(moonbeamArgs("moonbeam.json"))
  /\ Sane(moonbeamArgs("moonriver.json")) /\ Handed(moonbeamArgs("moonriver.json"))
  /\ Sane(gethMetricsArgs)
<1> USE DEF Sane, Handed, Opens, Reads, MetricsPort, Node, Evm, HttpAndWs
<1>1. Sane(opGethArgs) /\ Handed(opGethArgs)
  BY DEF opGethArgs
<1>2. Sane(gethMetricsArgs)
  BY DEF opGethArgs, gethMetricsArgs
<1>3. Sane(opRethProtocolAdapter) /\ Handed(opRethProtocolAdapter)
  BY DEF opRethProtocolAdapter
<1>4. Sane(zkStackProtocolAdapter) /\ Handed(zkStackProtocolAdapter)
  BY DEF zkStackProtocolAdapter
<1>5. Sane(nitroChain(8545, 8546)) /\ Handed(nitroChain(8545, 8546))
  BY DEF nitroChain
<1>6. Sane(nitroChain(8547, 8548)) /\ Handed(nitroChain(8547, 8548))
  BY DEF nitroChain
<1>7. Sane(nethermindNode(6060)) /\ Handed(nethermindNode(6060))
  BY DEF nethermindNode
<1>8. Sane(lighthouseBeaconArgs) /\ Handed(lighthouseBeaconArgs)
  BY DEF lighthouseBeaconArgs
<1>9. Sane(moonbeamArgs("moonbeam.json")) /\ Handed(moonbeamArgs("moonbeam.json"))
  BY DEF moonbeamArgs
<1>10. Sane(moonbeamArgs("moonriver.json")) /\ Handed(moonbeamArgs("moonriver.json"))
  BY DEF moonbeamArgs
<1> HIDE DEF Sane, Handed
<1> QED
  BY <1>1, <1>2, <1>3, <1>4, <1>5, <1>6, <1>7, <1>8, <1>9, <1>10

\* The forks of geth.
LEMMA GethForks ==
  /\ Sane(Hemi) /\ Handed(Hemi)
  /\ Sane(Taiko) /\ Handed(Taiko)
  /\ Sane(Metis) /\ Handed(Metis)
  /\ Sane(BSC) /\ Handed(BSC)
  /\ Sane(Polygon) /\ Handed(Polygon)
  /\ Sane(Linea) /\ Handed(Linea)
  /\ Sane(Thundercore) /\ Handed(Thundercore)
  /\ Sane(Fantom) /\ Handed(Fantom)
  /\ Sane(Mantle) /\ Handed(Mantle)
  /\ Sane(Plasma) /\ Handed(Plasma)
  /\ Sane(Morph) /\ Handed(Morph)
  /\ Sane(Ronin)
  /\ Sane(Monad)
  /\ Sane(Telos)
  /\ Sane(Sonic)
  /\ Sane(Wemix)
<1> USE DEF Sane, Handed, Opens, Reads, MetricsPort, Node, Evm, HttpAndWs
<1>1. Sane(Hemi) /\ Handed(Hemi)
  BY DEF opGethArgs, Hemi
<1>2. Sane(Taiko) /\ Handed(Taiko)
  BY DEF opGethArgs, Taiko
<1>3. Sane(Metis) /\ Handed(Metis)
  BY DEF opGethArgs, Metis
<1>4. Sane(BSC) /\ Handed(BSC)
  BY DEF BSC
<1>5. Sane(Polygon) /\ Handed(Polygon)
  BY DEF Polygon
<1>6. Sane(Linea) /\ Handed(Linea)
  BY DEF Linea
<1>7. Sane(Thundercore) /\ Handed(Thundercore)
  BY DEF Thundercore
<1>8. Sane(Fantom) /\ Handed(Fantom)
  BY DEF Fantom
<1>9. Sane(Mantle) /\ Handed(Mantle)
  BY DEF Mantle
<1>10. Sane(Plasma) /\ Handed(Plasma)
  BY DEF Plasma
<1>11. Sane(Morph) /\ Handed(Morph)
  BY DEF Morph
<1>12. Sane(Ronin)
  BY DEF opGethArgs, gethMetricsArgs, Ronin
<1>13. Sane(Monad)
  BY DEF opGethArgs, gethMetricsArgs, Monad
<1>14. Sane(Telos)
  BY DEF opGethArgs, gethMetricsArgs, Telos
<1>15. Sane(Sonic)
  BY DEF opGethArgs, gethMetricsArgs, Sonic
<1>16. Sane(Wemix)
  BY DEF opGethArgs, gethMetricsArgs, Wemix
<1> HIDE DEF Sane, Handed
<1> QED
  BY <1>1, <1>2, <1>3, <1>4, <1>5, <1>6, <1>7, <1>8, <1>9, <1>10, <1>11,
     <1>12, <1>13, <1>14, <1>15, <1>16

\* The other EVM clients.
LEMMA OtherEvmClients ==
  /\ Sane(Base) /\ Handed(Base)
  /\ Sane(PolygonZkEVM) /\ Handed(PolygonZkEVM)
  /\ Sane(Klaytn) /\ Handed(Klaytn)
  /\ Sane(Rootstock) /\ Handed(Rootstock)
  /\ Sane(Harmony) /\ Handed(Harmony)
  /\ Sane(Berachain) /\ Handed(Berachain)
  /\ Sane(Haqq) /\ Handed(Haqq)
  /\ Sane(Mezo) /\ Handed(Mezo)
  /\ Sane(Aurora)
  /\ Sane(Cronos)
<1> USE DEF Sane, Handed, Opens, Reads, MetricsPort, Node, Evm, HttpAndWs
<1>1. Sane(Base) /\ Handed(Base)
  BY DEF opRethProtocolAdapter, Base
<1>2. Sane(PolygonZkEVM) /\ Handed(PolygonZkEVM)
  BY DEF PolygonZkEVM
<1>3. Sane(Klaytn) /\ Handed(Klaytn)
  BY DEF Klaytn
<1>4. Sane(Rootstock) /\ Handed(Rootstock)
  BY DEF Rootstock
<1>5. Sane(Harmony) /\ Handed(Harmony)
  BY DEF Harmony
<1>6. Sane(Berachain) /\ Handed(Berachain)
  BY DEF Berachain
<1>7. Sane(Haqq) /\ Handed(Haqq)
  BY DEF cosmosNode, Haqq
<1>8. Sane(Mezo) /\ Handed(Mezo)
  BY DEF cosmosNode, Mezo
<1>9. Sane(Aurora)
  BY DEF Aurora
<1>10. Sane(Cronos)
  BY DEF Cronos
<1> HIDE DEF Sane, Handed
<1> QED
  BY <1>1, <1>2, <1>3, <1>4, <1>5, <1>6, <1>7, <1>8, <1>9, <1>10

\* The clients with a protocol of their own.
LEMMA NativeClients ==
  /\ Sane(Litecoin) /\ Handed(Litecoin)
  /\ Sane(Dogecoin) /\ Handed(Dogecoin)
  /\ Sane(Dash) /\ Handed(Dash)
  /\ Sane(Polkadot) /\ Handed(Polkadot)
  /\ Sane(Kusama) /\ Handed(Kusama)
  /\ Sane(Cosmos) /\ Handed(Cosmos)
  /\ Sane(Kava) /\ Handed(Kava)
  /\ Sane(Moca) /\ Handed(Moca)
  /\ Sane(Evmos) /\ Handed(Evmos)
  /\ Sane(Dymension) /\ Handed(Dymension)
  /\ Sane(Starknet) /\ Handed(Starknet)
  /\ Sane(Solana) /\ Handed(Solana)
  /\ Sane(Filecoin) /\ Handed(Filecoin)
  /\ Sane(XRP) /\ Handed(XRP)
  /\ Sane(Aptos) /\ Handed(Aptos)
  /\ Sane(Stellar) /\ Handed(Stellar)
  /\ Sane(Avalanche) /\ Handed(Avalanche)
  /\ Sane(Cardano) /\ Handed(Cardano)
  /\ Sane(Near) /\ Handed(Near)
  /\ Sane(Sui) /\ Handed(Sui)
  /\ Sane(TRON) /\ Handed(TRON)
  /\ Sane(TON) /\ Handed(TON)
  /\ Sane(Hyperliquid)
<1> USE DEF Sane, Handed, Opens, Reads, MetricsPort, Node, Evm, HttpAndWs
<1>1. Sane(Litecoin) /\ Handed(Litecoin)
  BY DEF utxoProtocolAdapter, Litecoin
<1>2. Sane(Dogecoin) /\ Handed(Dogecoin)
  BY DEF utxoProtocolAdapter, Dogecoin
<1>3. Sane(Dash) /\ Handed(Dash)
  BY DEF utxoProtocolAdapter, Dash
<1>4. Sane(Polkadot) /\ Handed(Polkadot)
  BY DEF moonbeamArgs, Polkadot
<1>5. Sane(Kusama) /\ Handed(Kusama)
  BY DEF moonbeamArgs, Kusama
<1>6. Sane(Cosmos) /\ Handed(Cosmos)
  BY DEF cosmosNode, Cosmos
<1>7. Sane(Kava) /\ Handed(Kava)
  BY DEF cosmosNode, Kava
<1>8. Sane(Moca) /\ Handed(Moca)
  BY DEF cosmosNode, Moca
<1>9. Sane(Evmos) /\ Handed(Evmos)
  BY DEF cosmosNode, Moca, Evmos
<1>10. Sane(Dymension) /\ Handed(Dymension)
  BY DEF cosmosNode, Dymension
<1>11. Sane(Starknet) /\ Handed(Starknet)
  BY DEF Starknet
<1>12. Sane(Solana) /\ Handed(Solana)
  BY DEF Solana
<1>13. Sane(Filecoin) /\ Handed(Filecoin)
  BY DEF Filecoin
<1>14. Sane(XRP) /\ Handed(XRP)
  BY DEF XRP
<1>15. Sane(Aptos) /\ Handed(Aptos)
  BY DEF Aptos
<1>16. Sane(Stellar) /\ Handed(Stellar)
  BY DEF Stellar
<1>17. Sane(Avalanche) /\ Handed(Avalanche)
  BY DEF Avalanche
<1>18. Sane(Cardano) /\ Handed(Cardano)
  BY DEF Cardano
<1>19. Sane(Near) /\ Handed(Near)
  BY DEF Near
<1>20. Sane(Sui) /\ Handed(Sui)
  BY DEF Sui
<1>21. Sane(TRON) /\ Handed(TRON)
  BY DEF TRON
<1>22. Sane(TON) /\ Handed(TON)
  BY DEF TON
<1>23. Sane(Hyperliquid)
  BY DEF Hyperliquid
<1> HIDE DEF Sane, Handed
<1> QED
  BY <1>1, <1>2, <1>3, <1>4, <1>5, <1>6, <1>7, <1>8, <1>9, <1>10, <1>11,
     <1>12, <1>13, <1>14, <1>15, <1>16, <1>17, <1>18, <1>19, <1>20,
     <1>21, <1>22, <1>23

\* Bitcoin moves its ports with the network, the Ethereum clients their probe.
LEMMA BitcoinSane ==
  ASSUME NEW network
  PROVE  Sane(Bitcoin(network)) /\ Handed(Bitcoin(network))
<1> USE DEF Sane, Handed, Opens, Reads, MetricsPort, Node, utxoProtocolAdapter
<1>1. /\ Sane(utxoProtocolAdapter("bitcoin.conf", 18332, 18333))
      /\ Handed(utxoProtocolAdapter("bitcoin.conf", 18332, 18333))
  OBVIOUS
<1>2. /\ Sane(utxoProtocolAdapter("bitcoin.conf", 8332, 8333))
      /\ Handed(utxoProtocolAdapter("bitcoin.conf", 8332, 8333))
  OBVIOUS
<1> HIDE DEF Sane, Handed, utxoProtocolAdapter
<1> QED
  BY <1>1, <1>2 DEF Bitcoin

\* Ethereum, with each of its clients.
LEMMA EthereumSane ==
  ASSUME NEW client, NEW port
  PROVE  Sane(Ethereum(client, port)) /\ Handed(Ethereum(client, port))
<1> DEFINE live == IF port > 0 THEN port ELSE 8545
           With(a) == [a EXCEPT
             !.ports = [rpc |-> @.rpc, ws |-> @.ws, p2p |-> @.p2p,
                        metrics |-> @.metrics, engine |-> 8551],
             !.live = live, !.health = "ethereum"]
<1>1. ethClient(client) \in {gethArgs, rethArgs, erigonArgs, ethNethermind}
  BY DEF ethClient
<1>2. Ethereum(client, port) = With(ethClient(client))
  BY DEF Ethereum
<1> DEFINE
     Client(a) ==
       /\ DOMAIN a = DOMAIN Node /\ a.answers = 8545 /\ Opens(a, 8545)
       /\ a.start = 0 /\ Opens(a, a.ports.metrics) /\ a.beside = <<>>
       /\ a.read # "image"
<1> HIDE DEF live
<1>3. ASSUME NEW a, Client(a) PROVE Sane(With(a)) /\ Handed(With(a))
  BY <1>3 DEF Sane, Handed, Opens, Reads, MetricsPort, Node
<1> HIDE DEF With
<1>4. Client(gethArgs)
  <2> DEFINE e == Evm(30303, 6060)
  <2>1. /\ DOMAIN e = DOMAIN Node /\ e.answers = 8545 /\ e.start = 0
        /\ e.ports.metrics = 6060 /\ e.beside = <<>>
    BY DEF Node, Evm
  <2> HIDE DEF e
  <2>2. Client(opGethArgs)
    BY <2>1 DEF opGethArgs, e, Opens, Reads, Node, HttpAndWs
  <2> QED BY <2>2 DEF gethArgs, Opens, Reads, Node
<1> USE DEF Opens, Reads, Node, Evm, HttpAndWs
<1>5. Client(rethArgs)
  BY DEF rethArgs
<1>6. Client(erigonArgs)
  BY DEF erigonArgs
<1>7. Client(ethNethermind)
  BY DEF ethNethermind, nethermindNode
<1> HIDE DEF Client
<1> QED
  BY <1>1, <1>2, <1>3, <1>4, <1>5, <1>6, <1>7

\* What holds of every adapter of the registry.
Orderly(c, n) == Sane(n) /\ (Handed(n) \/ c \in WithoutPublicImage)

\* Every registered adapter is in order.
LEMMA RegistryOrderly == \A c \in DOMAIN registry : Orderly(c, registry[c])
<1>1. /\ Bob = opRethProtocolAdapter /\ Fraxtal = opRethProtocolAdapter
      /\ HashKey = opRethProtocolAdapter /\ Ink = opRethProtocolAdapter
      /\ Lisk = opRethProtocolAdapter /\ Mode = opRethProtocolAdapter
      /\ Optimism = opRethProtocolAdapter /\ Soneium = opRethProtocolAdapter
      /\ Superseed = opRethProtocolAdapter /\ Unichain = opRethProtocolAdapter
      /\ Worldchain = opRethProtocolAdapter /\ Zora = opRethProtocolAdapter
  BY DEF Bob, Fraxtal, HashKey, Ink, Lisk, Mode, Optimism, Soneium, Superseed,
     Unichain, Worldchain, Zora
<1>2. /\ Abstract = zkStackProtocolAdapter /\ CronosZkEVM = zkStackProtocolAdapter
      /\ Lens = zkStackProtocolAdapter /\ ZeroNetwork = zkStackProtocolAdapter
      /\ ZkSync = zkStackProtocolAdapter
  BY DEF Abstract, CronosZkEVM, Lens, ZeroNetwork, ZkSync
<1>3. /\ Arbitrum = nitroChain(8545, 8546) /\ Everclear = nitroChain(8547, 8548)
      /\ GravityAlpha = nitroChain(8547, 8548)
      /\ Playnance = nitroChain(8547, 8548) /\ Plume = nitroChain(8547, 8548)
  BY DEF Arbitrum, Everclear, GravityAlpha, Playnance, Plume
<1>4. /\ Gnosis = nethermindNode(6060) /\ Fuse = nethermindNode(6060)
      /\ EthereumBeacon = lighthouseBeaconArgs
      /\ GnosisBeacon = lighthouseBeaconArgs
      /\ Moonbeam = moonbeamArgs("moonbeam.json")
      /\ Moonriver = moonbeamArgs("moonriver.json")
  BY DEF Gnosis, Fuse, EthereumBeacon, GnosisBeacon, Moonbeam, Moonriver
<1>5. /\ EthereumClassic = opGethArgs /\ Core = opGethArgs /\ Celo = opGethArgs
      /\ Scroll = opGethArgs /\ Goat = opGethArgs /\ OpBNB = opGethArgs
      /\ ImmutableZkEVM = opGethArgs /\ Viction = opGethArgs
      /\ BlastChain = Taiko
  BY DEF EthereumClassic, Core, Celo, Scroll, Goat, OpBNB, ImmutableZkEVM,
     Viction, BlastChain, Taiko
<1>6. /\ BitTorrent = gethMetricsArgs /\ Shibarium = gethMetricsArgs
      /\ Katana = gethMetricsArgs /\ MegaETH = gethMetricsArgs
      /\ Zircuit = gethMetricsArgs /\ BobaEth = gethMetricsArgs
      /\ Doma = gethMetricsArgs /\ Kroma = gethMetricsArgs
      /\ Swell = Ronin /\ MantaPacific = Ronin
  BY DEF BitTorrent, Shibarium, Katana, MegaETH, Zircuit, BobaEth, Doma, Kroma,
     Swell, MantaPacific, Ronin
<1>7. /\ Osmosis = Kava /\ Sei = Kava /\ Axelar = Dymension
  BY DEF Osmosis, Sei, Kava, Axelar
<1>8. /\ Orderly("abstract", Abstract) /\ Orderly("aptos", Aptos)
      /\ Orderly("arbitrum", Arbitrum) /\ Orderly("aurora", Aurora)
      /\ Orderly("avalanche", Avalanche) /\ Orderly("axelar", Axelar)
      /\ Orderly("base", Base) /\ Orderly("berachain", Berachain)
      /\ Orderly("bittorrent", BitTorrent)
      /\ Orderly("blast", BlastChain) /\ Orderly("bob", Bob)
      /\ Orderly("boba_eth", BobaEth) /\ Orderly("bsc", BSC)
      /\ Orderly("cardano", Cardano) /\ Orderly("celo", Celo)
      /\ Orderly("core", Core) /\ Orderly("cosmos", Cosmos)
      /\ Orderly("cronos", Cronos)
      /\ Orderly("cronos_zkevm", CronosZkEVM) /\ Orderly("dash", Dash)
      /\ Orderly("dogecoin", Dogecoin) /\ Orderly("doma", Doma)
      /\ Orderly("dymension", Dymension)
      /\ Orderly("ethereum_beacon", EthereumBeacon)
      /\ Orderly("ethereum_classic", EthereumClassic)
  BY <1>1, <1>2, <1>3, <1>4, <1>5, <1>6, <1>7, SharedAdapters, GethForks,
     OtherEvmClients, NativeClients DEF Orderly, WithoutPublicImage
<1>9. /\ Orderly("everclear", Everclear) /\ Orderly("evmos", Evmos)
      /\ Orderly("fantom", Fantom) /\ Orderly("filecoin", Filecoin)
      /\ Orderly("fraxtal", Fraxtal) /\ Orderly("fuse", Fuse)
      /\ Orderly("gnosis", Gnosis)
      /\ Orderly("gnosis_beacon", GnosisBeacon) /\ Orderly("goat", Goat)
      /\ Orderly("gravity_alpha", GravityAlpha) /\ Orderly("haqq", Haqq)
      /\ Orderly("harmony", Harmony) /\ Orderly("hashkey", HashKey)
      /\ Orderly("hemi", Hemi) /\ Orderly("hyperliquid", Hyperliquid)
      /\ Orderly("immutable_zkevm", ImmutableZkEVM)
      /\ Orderly("ink", Ink) /\ Orderly("katana", Katana)
      /\ Orderly("kava", Kava) /\ Orderly("klaytn", Klaytn)
      /\ Orderly("kroma", Kroma) /\ Orderly("kusama", Kusama)
      /\ Orderly("lens", Lens) /\ Orderly("linea", Linea)
      /\ Orderly("lisk", Lisk)
  BY <1>1, <1>2, <1>3, <1>4, <1>5, <1>6, <1>7, SharedAdapters, GethForks,
     OtherEvmClients, NativeClients DEF Orderly, WithoutPublicImage
<1>10. /\ Orderly("litecoin", Litecoin)
      /\ Orderly("manta_pacific", MantaPacific)
      /\ Orderly("mantle", Mantle) /\ Orderly("megaeth", MegaETH)
      /\ Orderly("metis", Metis) /\ Orderly("mezo", Mezo)
      /\ Orderly("moca", Moca) /\ Orderly("mode", Mode)
      /\ Orderly("monad", Monad) /\ Orderly("moonbeam", Moonbeam)
      /\ Orderly("moonriver", Moonriver) /\ Orderly("morph", Morph)
      /\ Orderly("near", Near) /\ Orderly("opbnb", OpBNB)
      /\ Orderly("optimism", Optimism) /\ Orderly("osmosis", Osmosis)
      /\ Orderly("plasma", Plasma) /\ Orderly("playnance", Playnance)
      /\ Orderly("plume", Plume) /\ Orderly("polkadot", Polkadot)
      /\ Orderly("polygon", Polygon)
      /\ Orderly("polygon_zkevm", PolygonZkEVM)
      /\ Orderly("ronin", Ronin) /\ Orderly("rootstock", Rootstock)
      /\ Orderly("scroll", Scroll)
  BY <1>1, <1>2, <1>3, <1>4, <1>5, <1>6, <1>7, SharedAdapters, GethForks,
     OtherEvmClients, NativeClients DEF Orderly, WithoutPublicImage
<1>11. /\ Orderly("sei", Sei) /\ Orderly("shibarium", Shibarium)
      /\ Orderly("solana", Solana) /\ Orderly("soneium", Soneium)
      /\ Orderly("sonic", Sonic) /\ Orderly("starknet", Starknet)
      /\ Orderly("stellar", Stellar) /\ Orderly("sui", Sui)
      /\ Orderly("superseed", Superseed) /\ Orderly("swell", Swell)
      /\ Orderly("taiko", Taiko) /\ Orderly("telos", Telos)
      /\ Orderly("thundercore", Thundercore) /\ Orderly("ton", TON)
      /\ Orderly("tron", TRON) /\ Orderly("unichain", Unichain)
      /\ Orderly("viction", Viction) /\ Orderly("wemix", Wemix)
      /\ Orderly("worldchain", Worldchain) /\ Orderly("xrp", XRP)
      /\ Orderly("zero_network", ZeroNetwork)
      /\ Orderly("zircuit", Zircuit) /\ Orderly("zksync", ZkSync)
      /\ Orderly("zora", Zora)
  BY <1>1, <1>2, <1>3, <1>4, <1>5, <1>6, <1>7, SharedAdapters, GethForks,
     OtherEvmClients, NativeClients DEF Orderly, WithoutPublicImage
<1> DEFINE
     N1 == {"abstract", "aptos", "arbitrum", "aurora", "avalanche", "axelar",
                   "base", "berachain", "bittorrent", "blast", "bob", "boba_eth",
                   "bsc", "cardano", "celo", "core", "cosmos", "cronos",
                   "cronos_zkevm", "dash", "dogecoin", "doma", "dymension",
                   "ethereum_beacon", "ethereum_classic"}
     N2 == {"everclear", "evmos", "fantom", "filecoin", "fraxtal", "fuse",
                   "gnosis", "gnosis_beacon", "goat", "gravity_alpha", "haqq",
                   "harmony", "hashkey", "hemi", "hyperliquid", "immutable_zkevm",
                   "ink", "katana", "kava", "klaytn", "kroma", "kusama", "lens",
                   "linea", "lisk"}
     N3 == {"litecoin", "manta_pacific", "mantle", "megaeth", "metis", "mezo",
                   "moca", "mode", "monad", "moonbeam", "moonriver", "morph", "near",
                   "opbnb", "optimism", "osmosis", "plasma", "playnance", "plume",
                   "polkadot", "polygon", "polygon_zkevm", "ronin", "rootstock",
                   "scroll"}
     N4 == {"sei", "shibarium", "solana", "soneium", "sonic", "starknet",
                   "stellar", "sui", "superseed", "swell", "taiko", "telos",
                   "thundercore", "ton", "tron", "unichain", "viction", "wemix",
                   "worldchain", "xrp", "zero_network", "zircuit", "zksync", "zora"}
<1>12. DOMAIN registry = N1 \cup N2 \cup N3 \cup N4
  BY DEF registry
<1>13. \A c \in N1 : Orderly(c, registry[c])
  BY <1>8 DEF registry
<1>14. \A c \in N2 : Orderly(c, registry[c])
  BY <1>9 DEF registry
<1>15. \A c \in N3 : Orderly(c, registry[c])
  BY <1>10 DEF registry
<1>16. \A c \in N4 : Orderly(c, registry[c])
  BY <1>11 DEF registry
<1> HIDE DEF N1, N2, N3, N4
<1> QED
  BY <1>12, <1>13, <1>14, <1>15, <1>16

\* What holds of the adapter of every spec.
LEMMA GetOrderly == \A s \in Specs : Orderly(s.chain, Get(s))
<1> SUFFICES ASSUME NEW s \in Specs PROVE Orderly(s.chain, Get(s))
  OBVIOUS
<1>1. s.chain \in DOMAIN registry \union Archives \union {"bitcoin"}
  BY ProvisioningAssumption DEF Specs
<1>2. CASE s.chain \in Archives
  <2>1. Get(s) = Ethereum(s.client, s.port)
    BY <1>2 DEF Get, Archives
  <2> QED
    BY <2>1, EthereumSane DEF Orderly
<1>3. CASE s.chain = "bitcoin"
  <2>1. Get(s) = Bitcoin(s.network)
    BY <1>3 DEF Get, Archives
  <2> QED
    BY <2>1, BitcoinSane DEF Orderly
<1>4. CASE s.chain \in DOMAIN registry /\ s.chain \notin Archives \union {"bitcoin"}
  BY <1>4, RegistryOrderly DEF Get
<1> QED
  BY <1>1, <1>2, <1>3, <1>4
-----------------------------------------------------------------------------
(* The inductive invariant: an adapter is opaque from here on.             *)

\* A template that was rendered from a spec with an image.
Rendered(t) ==
  \E s \in Specs : /\ t.node = Get(s)
                   /\ t.image = resolveContainerImage(s)
                   /\ t.image # Empty

Past == {"configmap", "statefulset", "service", "upsert", "podmonitor", "status"}

SecretInv == secret.ok => secret.n > 0
ImageInv == pc # "idle" => resolveContainerImage(seen) # Empty
WorkloadInv == /\ sts # None => Rendered(sts.tmpl)
               /\ pod # None => Rendered(pod.tmpl)

Inv == TypeOK /\ SecretInv /\ ImageInv /\ WorkloadInv

\* The ports that a user may set.
LEMMA PortType == \A s \in Specs : Ports(s) \subseteq Nat
<1> SUFFICES ASSUME NEW s \in Specs PROVE Ports(s) \subseteq Nat
  OBVIOUS
<1>1. Get(s).answers \in Nat
  BY GetOrderly DEF Orderly, Sane
<1> QED
  BY <1>1 DEF Ports

\* A new ChainInstance has no children.
LEMMA InvInit == Init => Inv
<1> SUFFICES ASSUME Init PROVE Inv
  OBVIOUS
<1>0. PICK s \in Created : \E p \in Ports(s) :
        node = [spec |-> [s EXCEPT !.port = p], finalizer |-> "legacy" \in faults]
  BY DEF Init
<1>1. PICK p \in Ports(s) :
        node = [spec |-> [s EXCEPT !.port = p], finalizer |-> "legacy" \in faults]
  BY <1>0
<1>2. s \in Specs /\ p \in Nat
  <2>1. s \in Specs
    BY DEF Created, Specs
  <2> QED
    BY <2>1, PortType
<1>3. [s EXCEPT !.port = p] \in Specs
  BY <1>2 DEF Specs
<1>4. node \in [spec : Specs, finalizer : BOOLEAN]
  <2> DEFINE f == "legacy" \in faults
             q == [s EXCEPT !.port = p]
  <2>1. f \in BOOLEAN /\ node = [spec |-> q, finalizer |-> f] /\ q \in Specs
    BY <1>1, <1>3
  <2> HIDE DEF f, q
  <2> QED
    BY <2>1
<1>5. /\ faults \in Scenarios /\ events = 0 /\ pc = "idle" /\ seen = node.spec
      /\ creds = 0 /\ secret = NoSecret /\ minted = 0
      /\ cm = None /\ sts = None /\ svc = None /\ pod = None
  BY DEF Init
<1>6. pm = FALSE /\ status = [phase |-> "Pending", imageRequired |-> FALSE]
  BY DEF Init
<1>7. /\ pm \in BOOLEAN
      /\ status \in [phase : {"Pending", "Failed", "Degraded", "Running"},
                     imageRequired : BOOLEAN]
  BY <1>6
<1>8. /\ minted \in Nat /\ creds \in 0..minted
      /\ secret \in [n : 0..minted, ok : BOOLEAN]
  BY <1>5 DEF NoSecret
<1>9. events \in 0..MaxEvents /\ seen \in Specs
  BY <1>4, <1>5, ProvisioningAssumption
<1>10. TypeOK
  BY <1>4, <1>5, <1>7, <1>8, <1>9 DEF TypeOK
<1> QED
  BY <1>5, <1>10 DEF Inv, SecretInv, ImageInv, WorkloadInv, NoSecret

(* The steps of a reconcile.  The variables that a step leaves alone are   *)
(* dealt with once.                                                        *)

\* The part of the invariant about the reconcile itself.
LoopInv ==
  /\ pc \in {"idle", "secret", "create"} \cup Past
  /\ seen \in Specs
  /\ Get(seen).creds /\ pc \in Past => creds > 0
  /\ ImageInv

\* The part about the Secret.
CredsInv ==
  /\ minted \in Nat
  /\ secret \in [n : 0..minted, ok : BOOLEAN]
  /\ creds \in 0..minted
  /\ cm # None => cm.auth \in 0..minted
  /\ SecretInv

\* The part about the user's spec and the status.
UserInv ==
  /\ faults \in Scenarios
  /\ events \in 0..MaxEvents
  /\ node \in [spec : Specs, finalizer : BOOLEAN]
  /\ status \in [phase : {"Pending", "Failed", "Degraded", "Running"},
                 imageRequired : BOOLEAN]

\* The part about the workload.
ClusterInv ==
  /\ sts # None => DOMAIN sts = {"tmpl", "size"}
  /\ svc # None => svc.type \in {"ClusterIP", "NodePort"}
  /\ pm \in BOOLEAN
  /\ pod # None => DOMAIN pod = {"tmpl", "conf", "key"}
  /\ WorkloadInv

\* The invariant is the conjunction of its parts.
LEMMA InvParts == Inv <=> LoopInv /\ CredsInv /\ UserInv /\ ClusterInv
BY DEF Inv, TypeOK, LoopInv, CredsInv, UserInv, ClusterInv, Past

\* A step that leaves the variables of a part alone preserves that part.
LEMMA Frames ==
  /\ LoopInv /\ UNCHANGED <<pc, seen, creds>> => LoopInv'
  /\ CredsInv /\ UNCHANGED <<secret, minted, creds, cm>> => CredsInv'
  /\ UserInv /\ UNCHANGED <<faults, events, node, status>> => UserInv'
  /\ ClusterInv /\ UNCHANGED <<sts, svc, pm, pod>> => ClusterInv'
<1>1. LoopInv /\ UNCHANGED <<pc, seen, creds>> => LoopInv'
  BY DEF LoopInv, ImageInv
<1>2. CredsInv /\ UNCHANGED <<secret, minted, creds, cm>> => CredsInv'
  BY DEF CredsInv, SecretInv
<1>3. UserInv /\ UNCHANGED <<faults, events, node, status>> => UserInv'
  BY DEF UserInv
<1>4. ClusterInv /\ UNCHANGED <<sts, svc, pm, pod>> => ClusterInv'
  BY DEF ClusterInv, WorkloadInv
<1> QED
  BY <1>1, <1>2, <1>3, <1>4

\* The beginning of a reconcile.
LEMMA InvStart ==
  ASSUME LoopInv, CredsInv, UserInv, ClusterInv, UNCHANGED faults,
         StripFinalizer \/ markImageRequired \/ StartReconcile
  PROVE  LoopInv' /\ CredsInv' /\ UserInv' /\ ClusterInv'
<1>1. UNCHANGED <<faults, events, children, pod>>
  BY DEF StripFinalizer, markImageRequired, StartReconcile
<1>2. UNCHANGED <<secret, minted, cm, sts, svc, pm>>
  BY <1>1 DEF children
<1>3. ClusterInv'
  BY <1>1, <1>2, Frames
<1>4. CASE StripFinalizer
  <2>1. UNCHANGED <<pc, seen, creds, status>>
    BY <1>4 DEF StripFinalizer
  <2>2. node' \in [spec : Specs, finalizer : BOOLEAN]
    BY <1>4 DEF StripFinalizer, UserInv
  <2>3. UserInv'
    BY <1>1, <2>1, <2>2 DEF UserInv
  <2> QED
    BY <1>2, <1>3, <2>1, <2>3, Frames
<1>5. CASE markImageRequired
  <2>1. UNCHANGED <<node, pc, seen, creds>>
    BY <1>5 DEF markImageRequired
  <2>2. status' \in [phase : {"Pending", "Failed", "Degraded", "Running"},
                     imageRequired : BOOLEAN]
    BY <1>5 DEF markImageRequired
  <2>3. UserInv'
    BY <1>1, <2>1, <2>2 DEF UserInv
  <2> QED
    BY <1>2, <1>3, <2>1, <2>3, Frames
<1>6. CASE StartReconcile
  <2>1. /\ UNCHANGED <<node, status>> /\ seen' = node.spec /\ creds' = 0
        /\ pc' = "secret" /\ resolveContainerImage(node.spec) # Empty
    BY <1>6 DEF StartReconcile
  <2>2. node.spec \in Specs
    BY DEF UserInv
  <2>3. LoopInv'
    BY <2>1, <2>2 DEF LoopInv, ImageInv, Past
  <2>4. CredsInv'
    BY <1>2, <2>1 DEF CredsInv, SecretInv
  <2> QED
    BY <1>1, <1>3, <2>1, <2>3, <2>4, Frames
<1> QED
  BY <1>4, <1>5, <1>6

\* The Secret: it is read, and created if it does not exist.
LEMMA InvSecret ==
  ASSUME LoopInv, CredsInv, UserInv, ClusterInv, UNCHANGED faults,
         ensureRPCSecret \/ createRPCSecret
  PROVE  LoopInv' /\ CredsInv' /\ UserInv' /\ ClusterInv'
<1>1. UNCHANGED <<events, node, seen, cm, sts, svc, pm, pod, status>>
  BY DEF ensureRPCSecret, createRPCSecret, children
<1>2. UserInv' /\ ClusterInv'
  BY <1>1, Frames
<1>3. pc # "idle"
  BY DEF ensureRPCSecret, createRPCSecret
<1>4. minted \in Nat /\ secret.n \in 0..minted /\ creds \in 0..minted
  BY DEF CredsInv
<1>5. CASE /\ UNCHANGED <<secret, minted, creds>>
           /\ pc' \in {"idle", "create"} \/ (pc' = "configmap" /\ ~Get(seen).creds)
  <2>1. LoopInv'
    BY <1>1, <1>3, <1>5 DEF LoopInv, ImageInv, Past
  <2> QED
    BY <1>1, <1>2, <1>5, <2>1, Frames
<1>6. CASE UNCHANGED <<secret, minted>> /\ secret.ok /\ creds' = secret.n
           /\ pc' = "configmap"
  <2>1. LoopInv'
    BY <1>1, <1>3, <1>6 DEF LoopInv, ImageInv, Past, CredsInv, SecretInv
  <2>2. CredsInv'
    BY <1>1, <1>4, <1>6 DEF CredsInv, SecretInv
  <2> QED
    BY <1>2, <2>1, <2>2
<1>7. CASE minted' = minted + 1 /\ secret' = [n |-> minted + 1, ok |-> TRUE]
           /\ creds' = minted + 1 /\ pc' = "configmap"
  <2>1. LoopInv'
    BY <1>1, <1>3, <1>4, <1>7 DEF LoopInv, ImageInv, Past
  <2>2. secret' \in [n : 0..minted', ok : BOOLEAN] /\ secret'.n > 0
    BY <1>4, <1>7
  <2>3. CredsInv'
    BY <1>1, <1>4, <1>7, <2>2 DEF CredsInv, SecretInv
  <2> QED
    BY <1>2, <2>1, <2>3
<1>8. UseSecret => \/ pc' = "idle" /\ creds' = creds
                   \/ secret.ok /\ creds' = secret.n /\ pc' = "configmap"
  BY DEF UseSecret
<1>9. CASE ensureRPCSecret
  <2>1. secret' = secret /\ minted' = minted
    BY <1>9 DEF ensureRPCSecret, children
  <2>2. \/ ~Get(seen).creds /\ pc' = "configmap" /\ creds' = creds
        \/ pc' = "create" /\ creds' = creds
        \/ UseSecret
    BY <1>9 DEF ensureRPCSecret
  <2>3. CASE UseSecret
    BY <1>5, <1>6, <1>8, <2>1, <2>3
  <2>4. CASE pc' = "create" /\ creds' = creds
    BY <1>5, <2>1, <2>4
  <2>5. CASE ~Get(seen).creds /\ pc' = "configmap" /\ creds' = creds
    BY <1>5, <2>1, <2>5
  <2> QED
    BY <2>2, <2>3, <2>4, <2>5
<1>10. CASE createRPCSecret
  <2>1. CASE UseSecret /\ secret' = secret /\ minted' = minted
    BY <1>5, <1>6, <1>8, <2>1
  <2> QED
    BY <1>7, <1>10, <2>1 DEF createRPCSecret
<1> QED
  BY <1>9, <1>10

\* A step from one of the later stages of a reconcile to another one, or back
\* to the beginning.
LEMMA Onward ==
  ASSUME LoopInv, pc \in Past, pc' \in Past \cup {"idle"}, UNCHANGED <<seen, creds>>
  PROVE  LoopInv'
BY DEF LoopInv, ImageInv, Past

\* The other children.
LEMMA InvChildren ==
  ASSUME LoopInv, CredsInv, UserInv, ClusterInv, UNCHANGED faults,
         ensureConfigMap \/ ensureStatefulSet \/ ensureService \/ ensurePodMonitor
  PROVE  LoopInv' /\ CredsInv' /\ UserInv' /\ ClusterInv'
<1>1. /\ UNCHANGED <<events, node, seen, creds, secret, minted, pod, status>>
      /\ pc \in Past /\ pc' \in Past \cup {"idle"}
  BY DEF ensureConfigMap, ensureStatefulSet, ensureService, ensurePodMonitor, Past
<1>2. UserInv' /\ LoopInv'
  BY <1>1, Frames, Onward
<1>3. CASE ensureConfigMap
  <2>1. cm' = Config(seen, creds) /\ UNCHANGED <<sts, svc, pm>>
    BY <1>3 DEF ensureConfigMap
  <2>2. creds \in 0..minted /\ 0 \in 0..minted
    BY DEF CredsInv
  <2>3. cm'.auth \in 0..minted
    BY <2>1, <2>2 DEF Config
  <2>4. CredsInv'
    BY <1>1, <2>3 DEF CredsInv, SecretInv
  <2> QED
    BY <1>1, <1>2, <2>1, <2>4, Frames
<1>4. CASE ensureStatefulSet
  <2>1. UNCHANGED <<cm, svc, pm>>
    BY <1>4 DEF ensureStatefulSet
  <2>2. CredsInv'
    BY <1>1, <2>1, Frames
  <2>3. CASE sts' = sts
    BY <1>1, <1>2, <2>1, <2>2, <2>3, Frames
  <2>4. CASE sts' # sts
    <3>1. sts' = [tmpl |-> RenderPodTemplate(seen, Config(seen, creds)),
                  size |-> seen.size]
      BY <1>4, <2>4 DEF ensureStatefulSet
    <3>2. Rendered(RenderPodTemplate(seen, Config(seen, creds)))
      <4>1. seen \in Specs /\ resolveContainerImage(seen) # Empty
        BY <1>1 DEF LoopInv, ImageInv, Past
      <4> QED
        BY <4>1 DEF Rendered, RenderPodTemplate
    <3>3. DOMAIN sts' = {"tmpl", "size"} /\ Rendered(sts'.tmpl)
      BY <3>1, <3>2
    <3>4. ClusterInv'
      BY <1>1, <2>1, <3>3 DEF ClusterInv, WorkloadInv
    <3> QED
      BY <1>2, <2>2, <3>4
  <2> QED
    BY <2>3, <2>4
<1>5. CASE ensureService
  <2>1. UNCHANGED <<cm, sts, pm>> /\ svc' \in {None, svc, buildServicePorts(seen)}
    BY <1>5 DEF ensureService
  <2>2. buildServicePorts(seen).type \in {"ClusterIP", "NodePort"}
    BY DEF buildServicePorts
  <2>3. ClusterInv'
    BY <1>1, <2>1, <2>2 DEF ClusterInv, WorkloadInv
  <2> QED
    BY <1>1, <1>2, <2>1, <2>3, Frames
<1>6. CASE ensurePodMonitor
  <2>1. UNCHANGED <<cm, sts, svc>> /\ pm' = WantPodMonitor(seen)
    BY <1>6 DEF ensurePodMonitor
  <2>2. WantPodMonitor(seen) \in BOOLEAN
    BY DEF WantPodMonitor
  <2>3. pm' \in BOOLEAN
    BY <2>1, <2>2
  <2>4. ClusterInv'
    BY <1>1, <2>1, <2>3 DEF ClusterInv, WorkloadInv
  <2> QED
    BY <1>1, <1>2, <2>1, <2>4, Frames
<1> QED
  BY <1>3, <1>4, <1>5, <1>6

\* The end of a reconcile.
LEMMA InvStatus ==
  ASSUME LoopInv, CredsInv, UserInv, ClusterInv, UNCHANGED faults,
         refreshStatus \/ restartIfDegradedTooLong
  PROVE  LoopInv' /\ CredsInv' /\ UserInv' /\ ClusterInv'
<1>1. /\ UNCHANGED <<events, node, seen, creds, children>>
      /\ pc = "status" /\ pc' = "idle" /\ (pod' = pod \/ pod' = None)
  BY DEF refreshStatus, restartIfDegradedTooLong
<1>2. UNCHANGED <<secret, minted, cm, sts, svc, pm>>
  BY <1>1 DEF children
<1>3. LoopInv' /\ CredsInv'
  BY <1>1, <1>2, Frames, Onward DEF Past
<1>4. ClusterInv'
  BY <1>1, <1>2 DEF ClusterInv, WorkloadInv
<1>5. status' \in [phase : {"Pending", "Failed", "Degraded", "Running"},
                   imageRequired : BOOLEAN]
  <2>1. \E ph \in {"Running", "Degraded"} :
          status' = [phase |-> ph, imageRequired |-> FALSE]
    BY DEF refreshStatus, restartIfDegradedTooLong
  <2> QED
    BY <2>1
<1>6. UserInv'
  BY <1>1, <1>5 DEF UserInv
<1> QED
  BY <1>3, <1>4, <1>6

\* The pod is started, gets what it waits for, or goes away.
LEMMA InvPod ==
  ASSUME ClusterInv, UNCHANGED <<sts, svc, pm>>,
         \/ pod' = None
         \/ sts # None /\ pod' = [tmpl |-> sts.tmpl, conf |-> cm, key |-> Key]
         \/ pod # None /\ pod' = [pod EXCEPT !.key = secret.n]
         \/ pod # None /\ pod' = [pod EXCEPT !.conf = cm]
  PROVE  ClusterInv'
<1>1. CASE pod' = None
  BY <1>1 DEF ClusterInv, WorkloadInv
<1>2. CASE sts # None /\ pod' = [tmpl |-> sts.tmpl, conf |-> cm, key |-> Key]
  <2>1. DOMAIN pod' = {"tmpl", "conf", "key"} /\ pod'.tmpl = sts.tmpl
    BY <1>2
  <2> QED
    BY <1>2, <2>1 DEF ClusterInv, WorkloadInv
<1>3. CASE pod # None /\ (\/ pod' = [pod EXCEPT !.key = secret.n]
                          \/ pod' = [pod EXCEPT !.conf = cm])
  <2>1. DOMAIN pod' = {"tmpl", "conf", "key"} /\ pod'.tmpl = pod.tmpl
    BY <1>3 DEF ClusterInv
  <2> QED
    BY <1>3, <2>1 DEF ClusterInv, WorkloadInv
<1> QED
  BY <1>1, <1>2, <1>3

\* What the StatefulSet controller and the kubelet do.
LEMMA InvCluster ==
  ASSUME LoopInv, CredsInv, UserInv, ClusterInv, UNCHANGED faults, Cluster
  PROVE  LoopInv' /\ CredsInv' /\ UserInv' /\ ClusterInv'
<1>1. UNCHANGED <<events, node, pc, seen, creds, children, status>>
  BY DEF Cluster, StartPod, RollPod, StartExporter, RestartCrashing
<1>2. UNCHANGED <<secret, minted, cm, sts, svc, pm>>
  BY <1>1 DEF children
<1>3. ClusterInv'
  BY <1>2, InvPod DEF Cluster, StartPod, RollPod, StartExporter, RestartCrashing
<1> QED
  BY <1>1, <1>2, <1>3, Frames

\* The events.
LEMMA InvEvents ==
  ASSUME LoopInv, CredsInv, UserInv, ClusterInv, UNCHANGED faults, Events
  PROVE  LoopInv' /\ CredsInv' /\ UserInv' /\ ClusterInv'
<1>1. events' \in 0..MaxEvents
  BY ProvisioningAssumption
     DEF Events, Abort, EditSpec, EditSecret, DeleteChild, RestartPod, Event,
     UserInv
<1>2. CASE Abort
  <2>1. UNCHANGED <<node, seen, creds, children, pod, status>> /\ pc' = "idle"
    BY <1>2 DEF Abort
  <2>2. UNCHANGED <<secret, minted, cm, sts, svc, pm>>
    BY <2>1 DEF children
  <2>3. LoopInv'
    BY <2>1 DEF LoopInv, ImageInv, Past
  <2>4. UserInv'
    BY <1>1, <2>1 DEF UserInv
  <2> QED
    BY <2>1, <2>2, <2>3, <2>4, Frames
<1>3. CASE EditSpec
  <2>1. UNCHANGED <<pc, seen, creds, children, pod, status>>
    BY <1>3 DEF EditSpec
  <2>2. UNCHANGED <<secret, minted, cm, sts, svc, pm>>
    BY <2>1 DEF children
  <2>3. PICK s \in Edits(node.spec) : node' = [node EXCEPT !.spec = s]
                                      /\ s.client \in Clients(s.chain)
    BY <1>3 DEF EditSpec
  <2>4. node \in [spec : Specs, finalizer : BOOLEAN] /\ node.spec \in Specs
    BY DEF UserInv
  <2>5. s \in Specs
    <3> DEFINE old == node.spec
    <3>1. \/ s = [old EXCEPT !.image = ~@] \/ s = [old EXCEPT !.monitor = ~@]
          \/ \E c \in Clients(old.chain) : s = [old EXCEPT !.client = c]
          \/ \E n \in Ports(old) : s = [old EXCEPT !.port = n]
          \/ \E n \in {"mainnet", "testnet"} : s = [old EXCEPT !.network = n]
          \/ \E c \in Representatives : s = [old EXCEPT !.chain = c]
          \/ \E n \in 0..2 : s = [old EXCEPT !.size = n]
      BY <2>3 DEF Edits
    <3>2. /\ Clients(old.chain) \subseteq {Empty, "geth", "reth"}
          /\ Ports(old) \subseteq Nat /\ Representatives \subseteq Chains
          /\ 0..2 \subseteq Nat
      BY <2>4, PortType, ProvisioningAssumption DEF Clients
    <3>3. old.image \in BOOLEAN /\ old.monitor \in BOOLEAN
      BY <2>4 DEF Specs
    <3>4. (~old.image) \in BOOLEAN /\ (~old.monitor) \in BOOLEAN
      OBVIOUS
    <3> HIDE DEF old
    <3> QED
      BY <2>4, <3>1, <3>2, <3>3, <3>4, ZenonT(60) DEF Specs, old
  <2>6. node' \in [spec : Specs, finalizer : BOOLEAN]
    BY <2>3, <2>4, <2>5
  <2>7. UserInv'
    BY <1>1, <2>1, <2>6 DEF UserInv
  <2> QED
    BY <2>1, <2>2, <2>7, Frames
<1>4. CASE EditSecret
  <2>1. UNCHANGED <<node, pc, seen, creds, cm, sts, svc, pm, pod, status>>
    BY <1>4 DEF EditSecret
  <2>2. UserInv'
    BY <1>1, <2>1 DEF UserInv
  <2>3. CASE secret' = NoSecret /\ minted' = minted
    <3>1. secret' \in [n : 0..minted, ok : BOOLEAN] /\ ~secret'.ok
      BY <2>3 DEF NoSecret, CredsInv
    <3> QED
      BY <2>1, <2>2, <2>3, <3>1, Frames DEF CredsInv, SecretInv
  <2>4. CASE \E ok \in BOOLEAN : secret' = [n |-> minted + 1, ok |-> ok]
                                 /\ minted' = minted + 1
    <3>1. /\ secret' \in [n : 0..minted', ok : BOOLEAN] /\ secret'.n > 0
          /\ minted' \in Nat
      BY <2>4 DEF CredsInv
    <3>2. 0..minted \subseteq 0..minted'
      BY <2>4 DEF CredsInv
    <3>3. CredsInv'
      BY <2>1, <3>1, <3>2 DEF CredsInv, SecretInv
    <3> QED
      BY <2>1, <2>2, <3>3, Frames
  <2> QED
    BY <1>4, <2>3, <2>4 DEF EditSecret
<1>5. CASE DeleteChild
  <2>1. /\ UNCHANGED <<node, pc, seen, creds, secret, minted, pod, status>>
        /\ cm' \in {cm, None} /\ sts' \in {sts, None} /\ svc' \in {svc, None}
    BY <1>5 DEF DeleteChild
  <2>2. pm' = pm \/ pm' = FALSE
    BY <1>5 DEF DeleteChild
  <2>3. pm' \in BOOLEAN
    BY <2>2 DEF ClusterInv
  <2>4. UserInv'
    BY <1>1, <2>1 DEF UserInv
  <2>5. CredsInv'
    BY <2>1 DEF CredsInv, SecretInv
  <2>6. ClusterInv'
    BY <2>1, <2>3 DEF ClusterInv, WorkloadInv
  <2> QED
    BY <2>1, <2>4, <2>5, <2>6, Frames
<1>6. CASE RestartPod
  <2>1. UNCHANGED <<node, pc, seen, creds, children, status>>
    BY <1>6 DEF RestartPod
  <2>2. UNCHANGED <<secret, minted, cm, sts, svc, pm>>
    BY <2>1 DEF children
  <2>3. ClusterInv'
    BY <1>6, <2>2, InvPod DEF RestartPod
  <2>4. UserInv'
    BY <1>1, <2>1 DEF UserInv
  <2> QED
    BY <2>1, <2>2, <2>3, <2>4, Frames
<1> QED
  BY <1>2, <1>3, <1>4, <1>5, <1>6 DEF Events

\* The invariant holds in every state of every behaviour.
THEOREM Invariance == Spec => []Inv
<1>1. Inv /\ [Next]_<<vars, faults>> => Inv'
  <2> SUFFICES ASSUME Inv, [Next]_<<vars, faults>> PROVE Inv'
    OBVIOUS
  <2>1. LoopInv /\ CredsInv /\ UserInv /\ ClusterInv
    BY InvParts
  <2>2. LoopInv' /\ CredsInv' /\ UserInv' /\ ClusterInv'
    <3>1. CASE Next
      BY <2>1, <3>1, InvStart, InvSecret, InvChildren, InvStatus, InvCluster,
         InvEvents DEF Next, Step, Reconcile
    <3>2. CASE UNCHANGED <<vars, faults>>
      BY <2>1, <3>2, Frames DEF vars, children
    <3> QED
      BY <3>1, <3>2
  <2>3. (Inv <=> LoopInv /\ CredsInv /\ UserInv /\ ClusterInv)'
    BY InvParts, PTL
  <2> QED
    BY <2>2, <2>3
<1> QED
  BY <1>1, InvInit, PTL DEF Spec

\* Every variable keeps its type, and past the Secret a credentialed chain has
\* credentials, whatever the user, the cluster and the API server do.
THEOREM TypeCorrect == Spec => []TypeOK
BY Invariance, PTL DEF Inv

\* No StatefulSet is ever created or updated to have an empty image, with or
\* without the webhook.
THEOREM ImageBeforeWorkloadHolds == Spec => []ImageBeforeWorkload
<1>1. Inv => ImageBeforeWorkload
  BY DEF Inv, WorkloadInv, Rendered, ImageBeforeWorkload
<1> QED
  BY <1>1, Invariance, PTL

\* Only the user ever changes a Secret that exists.
THEOREM UserSecretKeptHolds == Spec => UserSecretKept
<1>1. Inv /\ [Next]_<<vars, faults>> =>
        [secret # NoSecret /\ secret' # secret => events' > events]_<<vars, faults>>
  <2> SUFFICES ASSUME Inv, Next, secret # NoSecret, secret' # secret
               PROVE  events' > events
    OBVIOUS
  <2>1. ~Reconcile
    BY DEF Reconcile, StripFinalizer, markImageRequired, StartReconcile,
       ensureRPCSecret, createRPCSecret, ensureConfigMap, ensureStatefulSet,
       ensureService, ensurePodMonitor, refreshStatus, restartIfDegradedTooLong,
       children
  <2>2. ~Cluster
    BY DEF Cluster, StartPod, RollPod, StartExporter, RestartCrashing, children
  <2>3. events' = events + 1 /\ events \in Nat
    BY <2>1, <2>2 DEF Next, Step, Events, Abort, EditSpec, EditSecret,
       DeleteChild, RestartPod, Event, Inv, TypeOK
  <2> QED
    BY <2>3
<1> QED
  BY <1>1, Invariance, PTL DEF Spec, UserSecretKept

\* A pod serves what its adapter opens: a file that only an image finds is found,
\* as a chain without a public image has one of the user.
LEMMA PodServesOwn ==
  ASSUME Inv, pod # None, pod.conf.file = pod.tmpl.node.file \/ ~Reads(pod.tmpl.node)
  PROVE  /\ Sane(pod.tmpl.node)
         /\ \A p : Opens(pod.tmpl.node, p) => p \in PodServes
<1> DEFINE n == pod.tmpl.node
<1>1. PICK s \in Specs : /\ n = Get(s)
                         /\ pod.tmpl.image = resolveContainerImage(s)
                         /\ pod.tmpl.image # Empty
  BY DEF Inv, WorkloadInv, Rendered
<1>2. Sane(n) /\ (Handed(n) \/ s.chain \in WithoutPublicImage)
  BY <1>1, GetOrderly DEF Orderly
<1>3. n.read = "image" => pod.tmpl.image = "override"
  <2>1. s.chain \in WithoutPublicImage => DefaultImageFor(s.chain, s.client) = Empty
    BY DEF DefaultImageFor, WithoutPublicImage, Archives
  <2> QED
    BY <1>1, <1>2, <2>1 DEF Handed, resolveContainerImage
<1> DEFINE file == IF n.read = "passed" \/ pod.tmpl.image = "override"
                     THEN pod.conf.file ELSE Empty
<1>4. PodServes = Serves(n, file)
  BY DEF PodServes
<1>5. Reads(n) => file = n.file
  BY <1>3 DEF Reads
<1> HIDE DEF n, file
<1>6. ASSUME NEW p, Opens(n, p) PROVE p \in Serves(n, file)
  BY <1>5, <1>6 DEF Opens, Serves, MainServes, Values
<1> QED
  BY <1>2, <1>4, <1>6 DEF n

\* The kubelet's probes are answered by every pod that runs on the configuration
\* of its template, and no two of its containers open the same port.
THEOREM ProbesAnsweredHolds == Spec => []ProbesAnswered
<1>1. Inv => ProbesAnswered
  <2> SUFFICES ASSUME Inv, Up, pod.conf.file = pod.tmpl.node.file
               PROVE  LET n == pod.tmpl.node
                      IN /\ n.health = "ethereum" => n.answers \in PodServes
                         /\ n.health # "ethereum" =>
                              {n.live, n.start} \ {0} \subseteq PodServes
                         /\ ~Clash(n, pod.conf.file)
    BY DEF ProbesAnswered
  <2> DEFINE n == pod.tmpl.node
  <2>1. Sane(n) /\ \A p : Opens(n, p) => p \in PodServes
    BY PodServesOwn DEF Up
  <2> HIDE DEF n
  <2>2. n.health = "ethereum" => n.answers \in PodServes
    BY <2>1 DEF Sane
  <2>3. n.health # "ethereum" => {n.live, n.start} \ {0} \subseteq PodServes
    BY <2>1 DEF Sane
  <2>4. ~Clash(n, pod.conf.file)
    BY <2>1 DEF Sane, Clash, MainServes, Values
  <2> QED
    BY <2>2, <2>3, <2>4 DEF n
<1> QED
  BY <1>1, Invariance, PTL

\* A PodMonitor stands for a pod that serves the port named metrics.
THEOREM MetricsScrapedHolds == Spec => []MetricsScraped
<1>1. Inv => MetricsScraped
  <2> SUFFICES ASSUME Inv, Settled, pm,
                      pod.tmpl.node.health \notin {"tron", "hyperliquid"},
                      "nowebhook" \in faults => pod.conf.file = pod.tmpl.node.file
               PROVE  MetricsPort(pod.tmpl.node) \in PodServes
    BY DEF MetricsScraped
  <2> DEFINE n == pod.tmpl.node
             s == node.spec
  <2>1. /\ cm = Config(s, IF Get(s).creds THEN secret.n ELSE 0)
        /\ sts.tmpl = RenderPodTemplate(s, cm)
        /\ pm = WantPodMonitor(s)
        /\ Up /\ pod.tmpl = sts.tmpl
        /\ pod.conf = cm \/ ~Reads(Get(s)) \/ "nowebhook" \in faults
    BY DEF Settled
  <2>2. n = Get(s) /\ MetricsPort(n) # 0
    <3>1. n = Get(s)
      BY <2>1 DEF RenderPodTemplate
    <3>2. WantPodMonitor(s)
      BY <2>1
    <3> QED
      BY <3>1, <3>2 DEF WantPodMonitor
  <2>3. pod.conf.file = n.file \/ ~Reads(n)
    <3>1. cm.file = Get(s).file
      BY <2>1 DEF Config
    <3> QED
      BY <2>1, <2>2, <3>1
  <2>4. Sane(n) /\ \A p : Opens(n, p) => p \in PodServes
    BY <2>1, <2>3, PodServesOwn DEF Up
  <2> HIDE DEF n
  <2> QED
    BY <2>2, <2>4 DEF Sane, n
<1> QED
  BY <1>1, Invariance, PTL
=============================================================================
