CONSTANTS
  n1 = n1
  n2 = n2
  c1 = c1
  None = None
  Clients = {c1, c2}
  Offered <- SetsOnly
  Keys = {k1}
  Values = {v1, v2}
  NodeList <- TwoNodes
  Pref <- PrefTwo
  Crashable = {}
  Hangable = {}
  Cuttable = {}
  MayEnd = FALSE
  MaxLate = 0
SPECIFICATION Spec
INVARIANT ReplicasAgreeWhenIdle
