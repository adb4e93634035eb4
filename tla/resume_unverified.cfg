CONSTANTS
  Complexities = {"Trivial"}
  Limits <- MCLimits
  Boosts = {3}
  Costs = {1}
SPECIFICATION Spec
INVARIANTS
  ResumeForcesVerification
CHECK_DEADLOCK FALSE
