CONSTANTS
  None = None
  Keys = {"k", "GET"}
  Values <- SomeValues
  MaxValueLen = 3
  MaxLineLen = 4
  Lines <- WellFormed
SPECIFICATION FairSpec
INVARIANTS
  ResponseIsOwn
  CleanWhenIdle
  NoProtocolError
PROPERTY RequestAnswered
