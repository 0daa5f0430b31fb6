SPECIFICATION LiveSpec
CONSTANTS
  r1 = r1
  r2 = r2
  p1 = p1
  p2 = p2
  p3 = p3
  c1 = c1
  none = none
  Runs <- TwoRuns
  Packages = {p1, p2, p3}
  Permissions <- MCPermissions
  Undeclared = none
  Correlations = {c1}
  NoCorrelation = none
  Inputs <- MCInputs
  MaxEntries = 3
  Scenarios <- MCScenarios
INVARIANTS
  CountsAreTrue
  RowsAreTrue
  BlockedPlansDoNothing
  OnePlanPerKey
PROPERTY
  EveryRunCloses
CHECK_DEADLOCK FALSE
