CONSTANTS
  NumReactors = 2
  Fds = {3, 4}
  PipeSize = 1
  MaxHalves <- HalvesSent
  LongLines = {4}
  ResponseSize = 2
  SendBuffer = 1
SPECIFICATION FairSpec
INVARIANTS
  NoLostWakeup
  OwnedOnce
  AnswersOwnRequests
  ScanServesEachOnce
PROPERTY ConnectionsServed
