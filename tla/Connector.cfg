SPECIFICATION LiveSpec
CONSTANTS
  Services <- MCServices
  MaxMail = 5
  Stamp <- MCStamp
  Place <- MCPlace
  Sender <- MCSender
  Nobody <- MCNobody
  ChannelList <- MCChannels
  MaxBatch = 2
  MaxFaults = 1
INVARIANTS
  ConnectorTypeOK
  RepeatsAreFaults
  
PROPERTIES
  EventuallyAsked
CHECK_DEADLOCK FALSE
