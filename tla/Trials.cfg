CONSTANTS
  Statements <- MCStatements
  Outputs <- MCOutputs
  MaxProposed = 5
  MaxFaults = 1
SPECIFICATION Spec
INVARIANTS
  TypeOK
  AnswerIsObserved
  RecordTellsThePass
PROPERTIES
  JobEnds
