SPECIFICATION LiveSpec
CONSTANTS
  r1 = r1
  r2 = r2
  NumJobs = 2
  Kind <- RankingAndUnsupported
  Vias <- InternalOnly
  Runs <- MCRuns
  MaxAttempts = 2
  Limit = 1
  MaxProbes = 1
  MaxFaults = 1
  MaxCrashes = 1
  MaxRequeues = 0
PROPERTIES
  SettlesOrOrphaned
CHECK_DEADLOCK FALSE
