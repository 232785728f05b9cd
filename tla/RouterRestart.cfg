CONSTANTS
  n1 = n1
  n2 = n2
  c1 = c1
  None = None
  Clients = {c1, c2}
  Offered <- OneWriter
  Keys = {k1}
  Values = {v1}
  NodeList <- TwoNodes
  Pref <- PrefTwo
  Crashable = {n2}
  Hangable = {}
  Cuttable = {}
  MayEnd = TRUE
  MaxLate = 1
SPECIFICATION Spec
INVARIANT AckedSurvives
PROPERTY LinearizableAtPrimary
