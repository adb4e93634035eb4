------------------------- MODULE MCOrchestrationLoop -------------------------
(* Budgets for TLC: a short and a long run, retrievals and verifications   *)
(* that run out, and verifications that are not limited.                   *)
EXTENDS RunTrust

MCLimits ==
  [steps : {3, 6}, tokens : {20}, retrievals : {0, 1}, verifies : {0, 2}]
=============================================================================
