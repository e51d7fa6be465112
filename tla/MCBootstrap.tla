---------------------------- MODULE MCBootstrap ----------------------------
EXTENDS Bootstrap

(* Every script with the faults that it withstands. *)
WithstoodScenarios ==
  {[script |-> s, faults |-> Withstands[s]] : s \in DOMAIN Scripts}

(* A Cosmos node whose first start is interrupted. *)
InterruptedCosmos == {[script |-> "cosmos", faults |-> {"kill"}]}
=============================================================================
