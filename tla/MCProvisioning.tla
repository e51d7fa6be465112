--------------------------- MODULE MCProvisioning ---------------------------
EXTENDS Provisioning

(* Every adapter without events; the representatives meet them. *)
AllChains == DOMAIN registry \union Archives \union {"bitcoin"}

SomeChains == {"ethereum", "bitcoin", "ton", "hemi"}

AllScenarios ==
  {{}, {"legacy", "error"}, {"nocrd", "delete", "error"},
   {"edit", "error", "restart"}, {"edit", "nowebhook"},
   {"secret", "error", "restart"}, {"secret", "delete"}, {"storage", "restart"}}
=============================================================================
