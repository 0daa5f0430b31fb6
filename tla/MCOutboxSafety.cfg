SPECIFICATION Spec
CONSTANTS
  r1 = r1
  r2 = r2
  NumJobs = 2
  Kind <- RankingAndUnsupported
  Vias <- BothVias
  Runs <- MCRuns
  MaxAttempts = 2
  Limit = 2
  MaxProbes = 1
  MaxFaults = 1
  MaxCrashes = 1
  MaxRequeues = 1
SYMMETRY Interchangeable
INVARIANTS
  ClaimExclusive
  RetryBudget
  SyncOnlyUnrecorded
  CompletedWasHandled
PROPERTIES
  QueueSpec
CHECK_DEADLOCK FALSE
