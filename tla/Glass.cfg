SPECIFICATION FairSpec
CONSTANTS
  c1 = c1
  c2 = c2
  k1 = k1
  k2 = k2
  Keys = {k1, k2}
  NoKey = NoKey
  Conns = {c1, c2}
  Ghillie = Ghillie
  MaxLines = 2
INVARIANTS
  TypeOK
  AcknowledgedOnce
PROPERTIES
  MailboxSpec
  WaitingHears
CHECK_DEADLOCK FALSE
