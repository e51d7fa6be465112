----------------------------- MODULE MCUpgrade -----------------------------
(* Instances of Upgrade for TLC: images v1..v3, up to two clients.          *)
EXTENDS Upgrade

\* The adapter's default image of each client.
MCDefaultImage == [c \in Clients |-> IF c = "geth" THEN "v1" ELSE "v3"]
=============================================================================
