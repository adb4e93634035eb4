--------------------------- MODULE MCPlanGeneration ---------------------------
(* PlanGeneration on a few hundred answers.                                 *)
EXTENDS PlanGeneration, PlanAnswers
=============================================================================
