CONSTANTS
  n1 = n1
  n2 = n2
  c1 = c1
  None = None
  Clients = {c1}
  Offered <- SetsOnly
  Keys = {k1}
  Values = {v1}
  NodeList <- TwoNodes
  Pref <- PrefTwo
  Crashable = {n1, n2}
  Hangable = {}
  Cuttable = {}
  MayEnd = FALSE
  MaxLate = 0
SPECIFICATION AuditSpec
INVARIANT ErrorOnlyIfNoHealthyReplica
