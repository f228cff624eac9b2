SPECIFICATION Spec
CONSTANTS
  b1 = b1
  b2 = b2
  NoBrief = NoBrief
  Torn = Torn
  Guarded = TRUE
  Briefs <- MCBriefs
  Envelopes <- CoreEnvelopes
  Ceiling = 2
  Standing = "InGoodStanding"
  Interviewing = TRUE
  MaxPolls = 0
  IdleExit = 0
  MaxPollInstructions = 2
  MaxRecords = 4
  MaxLives = 2
INVARIANTS
  AcceptedOnce
CHECK_DEADLOCK FALSE
