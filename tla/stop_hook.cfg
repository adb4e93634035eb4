CONSTANTS
  MaxSeconds = 3
  MaxHooks = 2
SPECIFICATION HooksSpec
INVARIANT VerifiedAfterModified
CHECK_DEADLOCK FALSE
