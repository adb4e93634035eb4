---------------------------- MODULE MCGraphRunner ----------------------------
(***************************************************************************)
(* A small instance of GraphRunner.  Step 1 has a sub-plan of two          *)
(* sub-steps one after the other and an output contract, step 2 a verify   *)
(* gate, step 3 a contract, step 4 a gate; the others are plain steps.     *)
(* The estimates are such that two ready steps may or may not fit the      *)
(* budget, and that step 5, which only a replan can add, fits next to      *)
(* nothing else.                                                           *)
(***************************************************************************)
EXTENDS GraphRunner

MCEstimate    == [s \in StepIds |-> CASE s = 3 -> 7 [] s = 5 -> 20 [] OTHER -> 3]
MCCost        == [s \in StepIds |-> {MCEstimate[s]}]
MCVerifyAfter == {2, 4} \cap StepIds
MCHasContract == {1, 3} \cap StepIds
MCSubPlan     == [s \in StepIds |-> IF s = 1 THEN <<{}, {1}>> ELSE <<>>]
=============================================================================
