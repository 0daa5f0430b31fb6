SPECIFICATION PlanningSpec
CONSTANT Cases <- AllCases
INVARIANTS
  ResolutionIsRight
  PlanForetellsVerification
CHECK_DEADLOCK FALSE
