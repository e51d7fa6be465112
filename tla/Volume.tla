------------------------------- MODULE Volume -------------------------------
(***************************************************************************)
(* What a careful bootstrap promises: what the node needs is put on the    *)
(* volume piece by piece and never lost again, the node runs only when     *)
(* nothing is missing, and it does run, also after it was stopped.         *)
(***************************************************************************)
VARIABLES
  missing,   \* what the node still needs
  running    \* the node runs

Init == running = FALSE

Provide ==
  /\ \E rest \in SUBSET missing : rest # missing /\ missing' = rest
  /\ UNCHANGED running

Start ==
  /\ missing = {} /\ ~running
  /\ running' = TRUE
  /\ UNCHANGED missing

Stop ==
  /\ running
  /\ running' = FALSE
  /\ UNCHANGED missing

Next == Provide \/ Start \/ Stop

(* Every piece arrives in the end, and a complete volume is started. *)
Fairness ==
  /\ WF_<<missing, running>>(Provide)
  /\ WF_<<missing, running>>(Start)

Spec == Init /\ [][Next]_<<missing, running>> /\ Fairness
=============================================================================
