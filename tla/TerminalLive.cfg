SPECIFICATION FairSpec
CONSTANTS
  b1 = b1
  b2 = b2
  NoBrief = NoBrief
  Torn = Torn
  Guarded = TRUE
  Briefs <- MCBriefs
  Envelopes <- WideEnvelopes
  Ceiling = 5
  Standing = "InGoodStanding"
  Interviewing = TRUE
  MaxPolls = 0
  IdleExit = 2
  MaxPollInstructions = 1
  MaxRecords = 4
  MaxLives = 1
PROPERTIES
  OutcomesReachTheFacade
CHECK_DEADLOCK FALSE
