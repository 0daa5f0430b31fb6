SPECIFICATION Spec
CONSTANTS
  q1 = q1
  q2 = q2
  k1 = k1
  NoKey = NoKey
  NoOne = NoOne
  Requests <- TwoRequests
  NumScopes = 2
  Keys <- OneKey
  MaxRequests = 3
  MaxFailures = 1
  MaxCrashes = 1
SYMMETRY Interchangeable
INVARIANTS
  TypeOK
  GaplessHistory
  RecordsAgree
  EventsAndRepliesAreTrue
  FilesFollowTheAttempt
  OncePerKeyInSequence
CHECK_DEADLOCK FALSE
