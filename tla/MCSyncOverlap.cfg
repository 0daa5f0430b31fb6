SPECIFICATION Spec
CONSTANTS
  j1 = j1
  j2 = j2
  s1 = s1
  s2 = s2
  s3 = s3
  none = none
  None = none
  Jobs <- TwoJobs
  Syncs <- TwoSyncs
  MaxAttempts = 2
  Limit = 1
  IdOrder <- MCIdOrder
  Feeds <- MCFeeds
  Scenarios <- OverlapScenarios
INVARIANT
  FingerprintOfIndex
CHECK_DEADLOCK FALSE
