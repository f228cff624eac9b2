SPECIFICATION Spec
CONSTANTS
  MaxAttempts = 3
  Order <- ThreeItems
  Faults = FALSE
  MaxConducts = 1
INVARIANTS
  CutShortStillReports
CHECK_DEADLOCK FALSE
