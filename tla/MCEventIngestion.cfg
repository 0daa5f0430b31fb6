SPECIFICATION LiveSpec
CONSTANTS
  q1 = q1
  q2 = q2
  e1 = e1
  e2 = e2
  e3 = e3
  e4 = e4
  NoEvent = NoEvent
  Events <- FourEvents
  Id <- FourIds
  Key <- FourKeys
  Hash <- FourHashes
  NumRules = 2
  Requests <- TwoRequests
  MaxSends = 4
  MaxCrashes = 2
INVARIANTS
  AcceptedOncePerKey
  AcceptedIsComplete
  RepliesAreTrue
PROPERTIES
  EveryEventIsAnnounced
CHECK_DEADLOCK FALSE
