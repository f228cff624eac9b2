SPECIFICATION FairSpec
CONSTANTS
  MaxAttempts = 3
  Order <- ThreeItems
  Faults = TRUE
  MaxConducts = 2
INVARIANTS
  TypeOK
  NeverLedgerViolation
  LetLieIsSaid
PROPERTIES
  AnswersStand
  ConductTerminates
CHECK_DEADLOCK FALSE
