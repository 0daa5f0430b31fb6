SPECIFICATION Spec
CONSTANTS
  q1 = q1
  q2 = q2
  v1 = v1
  v2 = v2
  a1 = a1
  a2 = a2
  a3 = a3
  Unsigned = Unsigned
  Evaluators <- TwoEvaluators
  NumWindows = 2
  RunIds <- ThreeRunIds
  Metrics <- MCMetrics
  Required = 2
  RecentLimit = 3
  MaxEvaluations = 4
  Requests <- TwoRequests
  Copies = 2
  Claims <- MCClaims
  Skew = 0
  NonceTtl = 1
  NonceLimit = 2
  BlockTtl = 1
  Window = 0
  Budgets <- MCBudgets
SYMMETRY Interchangeable
INVARIANTS
  EnforcementIsEarned
  StoredOncePerRequest
  AnswersAreTrue
  ProjectionIsTheFold
  PermanentBlockIsCorroborated
CHECK_DEADLOCK FALSE
