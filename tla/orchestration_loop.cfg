CONSTANTS
  Complexities = {"Trivial", "Low", "Medium"}
  Limits <- MCLimits
  Boosts = {0, 3, 20}
  Costs = {1, 16, 30}
SPECIFICATION FairSpec
INVARIANTS
  BudgetHeld
  StopsAfterThreeFailures
  CompletedOnGrounds
  StoppedTellsTheRun
  ResumedLowIsVerified
PROPERTIES
  Termination
CHECK_DEADLOCK FALSE
