CONSTANTS
  Handlers = {h1, h2}
  Sessions = {s1, s2, s3}
  Observed = {s1}
  MaxConcurrent = 1
  MaxHookEvents = 2
SPECIFICATION FairSpec
INVARIANTS
  AdmissionBounded
  RecordedThenDropped
  SavedFromFinalState
PROPERTIES
  StatusMovesForward
  StopEndsThread
