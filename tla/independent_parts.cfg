CONSTANTS
  Members <- MCMembers
  Steps = {1, 2, 3}
  NewSteps = {3}
  DependsOn <- MCDependsOn
  Assigned <- MCAssigned
  Skills <- MCSkills
  Needs <- MCNeeds
  Topology = "hub_spoke"
  Timeout = 1
  Grace = 1
  MaxClock = 3
  MaxMessages = 1
  MaxReservations = 2
  Requests = {r1, r2, r3}
  MaxPerSecond = 2
  MaxSecond = 2
  MaxCount = 5
  Delays <- MCDelays
  MaxControls = 4
  Sizes = {1, 3}
  Relevances = {20, 36}
  Ages = {0, 1, 2}
  Budgets = {4, 7, 20}
  Caps <- MCCaps
  FileLines = 5
  Actions = {1, 2, 3, 4}
  Graphs <- MCGraphs
  Durations = {1, 3}
  Unlisted = 9
  Claims = {c1, c2}
  Files = {f1, f2}
  MaxMissions = 2
  MaxTime = 4
  Unknown = Unknown
  Missing = Missing
  Torn = Torn
  RunData <- MCRunData
  Suites <- MCSuites
  Configs <- MCConfigs
  Keeps <- MCKeeps
  MaxCommands = 4
  MaxCrashes = 1
  MaxDay = 1
  Paths = {p1}
  MaxInvocations = 4
  MaxFaults = 2
  MaxSeconds = 4
  MaxHooks = 2
  Answers <- PlanAnswersOf
  PlanTokens = 100
  TokenRange = 64
  Complexities = {"Medium", "High"}
SPECIFICATION MCSpec
INVARIANTS
  LoadIsHeld
  RevokedStaysRetired
  OneEventAfterPause
  AdmittedBounded
  CopyKept
  TrailIsWhole
  AuditTellsTheBaseline
  NoTrustNoPromotion
  BestThatFits
  ScheduleOfTheGraph
  GivenUpStaysOut
  UntestedIsReported
  HarmlessWhereverCut
  AllowedOnEvidence
  PlannedAsAnswered
PROPERTIES
  DeadOnlyAfterSilence
  ReplayEnds
CHECK_DEADLOCK FALSE
