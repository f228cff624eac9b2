CONSTANTS
  Items = {1, 2}
  Order <- MCOrder
  Classes = {"home"}
  ClassOf <- MCClassOf
  Options <- MCOptions
  Onset = 2
  EndOfTurn = 2
  MaxFrames = 6
  MaxBriefs = 1
  MaxLives = 2
  MaxLines = 1
  MaxFaults = 1
  Torn = Torn
SPECIFICATION Spec
INVARIANTS
  TypeOK
  ReportIsWhole
  TallyKeepsUp
  WindowIsTheTurn
PROPERTIES
  StopEnds
CHECK_DEADLOCK FALSE
