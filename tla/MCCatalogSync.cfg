SPECIFICATION Spec
CONSTANTS
  j1 = j1
  j2 = j2
  s1 = s1
  s2 = s2
  s3 = s3
  none = none
  None = none
  Jobs <- TwoJobs
  Syncs <- ThreeSyncs
  MaxAttempts = 2
  Limit = 1
  IdOrder <- MCIdOrder
  Feeds <- MCFeeds
  Scenarios <- MCScenarios
SYMMETRY Interchangeable
INVARIANTS
  AliasesNeverDeadlock
  RecordsAreTrue
  IndexIsTrue
  BackfillIsComplete
CHECK_DEADLOCK FALSE
