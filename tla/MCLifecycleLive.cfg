SPECIFICATION LiveSpec
CONSTANTS
  q1 = q1
  q2 = q2
  k1 = k1
  NoKey = NoKey
  NoOne = NoOne
  Requests <- TwoRequests
  NumScopes = 2
  Keys <- NoKeys
  MaxRequests = 2
  MaxFailures = 1
  MaxCrashes = 1
PROPERTIES
  EveryRequestAnswered
  EveryAttemptPublished
CHECK_DEADLOCK FALSE
