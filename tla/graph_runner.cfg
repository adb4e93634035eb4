CONSTANTS
  MaxSteps = 6
  MaxInitial = 3
  MaxNewSteps = 2
  Planners = {"llm", "direct"}
  MaxReplanAttempts = 2
  TokenBudget = 14
  Estimate <- MCEstimate
  Cost <- MCCost
  VerifyCost = {1}
  SubCost = {2}
  VerifyAfter <- MCVerifyAfter
  HasContract <- MCHasContract
  SubPlan <- MCSubPlan
SPECIFICATION FairSpec
INVARIANTS
  DependencyOrder
  AtMostOnce
  CompletedWithEvidence
  OvershootBounded
  ProgressGuardSilent
  DeadlockOnlyFromCyclicReplan
PROPERTIES
  Termination
  ImplementsPlanExecution
