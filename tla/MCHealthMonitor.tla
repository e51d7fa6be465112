-------------------------- MODULE MCHealthMonitor --------------------------
(* The chains and what they meet. *)
EXTENDS HealthMonitor

S(c, n, f) == [chain |-> c, network |-> n, faults |-> f]

TwoCalls == {"bsc", "ethereum", "starknet", "polkadot", "filecoin", "sui"}
OneCall == {"ethereum-beacon", "bitcoin", "litecoin", "dash", "xrp", "aptos",
            "stellar", "cardano", "near", "solana", "tron", "ton",
            "hyperliquid", "cosmos"}
\* Those that share the code of another chain.
Twins == {"kusama", "dogecoin", "dymension", "kava", "evmos", "moca", "axelar",
          "sei", "osmosis"}

MCScenarios ==
  {S(c, "mainnet", {"slow", "down", "public"}) : c \in TwoCalls \cup OneCall}
  \cup {S(c, "mainnet", {"slow", "down"}) : c \in Twins}
  \cup {S("avalanche", "mainnet", {"slow"}), S("avalanche", "mainnet", {"down"})}

\* A Sepolia node, and a Cardano node.
MCForeign == {S("ethereum", "testnet", {}), S("cardano", "mainnet", {})}
=============================================================================
