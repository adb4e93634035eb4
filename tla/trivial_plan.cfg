CONSTANTS
  Answers <- PlanAnswersOf
  PlanTokens = 100
  TokenRange = 64
  Complexities = {"Medium"}
SPECIFICATION PlanningSpec
INVARIANTS
  DependenciesFirst
CHECK_DEADLOCK FALSE
