SPECIFICATION LiveSpec
CONSTANTS
  r1 = r1
  r2 = r2
  p1 = p1
  p2 = p2
  NoRun = NoRun
  Runs <- TwoRuns
  Packages <- TwoPackages
  MaxRestarts = 1
  MaxRequests = 3
INVARIANTS
  NoProcessIsLost
  RegistryTellsTheTruth
PROPERTIES
  EverythingEnds
CHECK_DEADLOCK FALSE
