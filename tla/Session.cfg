SPECIFICATION FairSpec
CONSTANTS
  k1 = k1
  k2 = k2
  NoKey = NoKey
  Torn = Torn
  Keys <- MCKeys
  Notes <- MCNotes
  MaxSeen = 2
  MaxShown = 3
  MaxLives = 2
  MaxDoorLives = 2
  MaxRivals = 1
INVARIANTS
  TypeOK
  OneSigner
  OneRefusalPerRestart
  NoStragglers
  RepeatsOnlyAfterTheRing
PROPERTIES
  HeardAgain
CHECK_DEADLOCK FALSE
