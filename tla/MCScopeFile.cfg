SPECIFICATION LiveSpec
CONSTANTS
  o1 = o1
  o2 = o2
  o3 = o3
  p1 = p1
  p2 = p2
  Ops <- ThreeOps
  Packages <- TwoPackages
  MaxOps = 3
  MaxFaults = 2
  MaxEdits = 1
  MaxCrashes = 1
INVARIANTS
  OldOrNew
PROPERTIES
  ForeignIsLeftAlone
  EveryOperationAnswered
CHECK_DEADLOCK FALSE
