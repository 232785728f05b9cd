CONSTANTS
  n1 = n1
  n2 = n2
  c1 = c1
  None = None
  Clients = {c1}
  Offered <- NoDeletes
  Keys = {k1}
  Values = {v1}
  NodeList <- TwoNodes
  Pref <- PrefTwo
  Crashable = {n1}
  Hangable = {n1}
  Cuttable = {n2}
  MayEnd = FALSE
  MaxLate = 1
SPECIFICATION FairSpec
INVARIANTS
  TypeOK
  NoFalseSuspicion
  ErrorOnlyIfAllReplicasFailed
  AckAfterFanOut
  ErrorTraceOnlyIfCut
  AckedSurvives
PROPERTIES
  LinearizableAtPrimary
  EveryRequestAnswered
  CrashedStaysSuspected
  RecoveredStaysTrusted
