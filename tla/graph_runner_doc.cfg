CONSTANTS
  MaxSteps = 2
  MaxInitial = 2
  MaxNewSteps = 1
  Planners = {"llm"}
  MaxReplanAttempts = 3
  TokenBudget = 14
  Estimate <- MCEstimate
  Cost <- MCCost
  VerifyCost = {1}
  SubCost = {2}
  VerifyAfter <- MCVerifyAfter
  HasContract <- MCHasContract
  SubPlan <- MCSubPlan
SPECIFICATION Spec
INVARIANT VerifyFailureTriggersReplan
