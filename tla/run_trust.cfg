CONSTANTS
  Complexities = {"Low"}
  Limits <- MCLimits
  Boosts = {3}
  Costs = {1}
SPECIFICATION Spec
INVARIANTS
  HighTrustIsEarned
CHECK_DEADLOCK FALSE
