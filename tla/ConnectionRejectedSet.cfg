CONSTANTS
  None = None
  Keys = {"k"}
  Values <- SomeValues
  MaxValueLen = 3
  MaxLineLen = 4
  Lines <- AnySet
SPECIFICATION Spec
INVARIANT
  ResponseIsOwn
