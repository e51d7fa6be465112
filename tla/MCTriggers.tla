----------------------------- MODULE MCTriggers -----------------------------
EXTENDS Triggers

S(m, c, f) == [metric |-> m, series |-> c, faults |-> f]

(* Every metric alone with each fault, restarts also of two containers. *)
MCScenarios ==
  {S(m, {"node"}, f) :
     m \in Names, f \in {{"backend"}, {"gap"}, {"gap", "recreate"}}}
  \cup {S("crash_loop", {"node", "exporter"}, {})}
=============================================================================
