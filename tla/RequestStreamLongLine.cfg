CONSTANTS
  None = None
  Keys = {"k"}
  Values <- SomeValues
  MaxValueLen = 2
  MaxLineLen = 3
  Items <- WithLongLine
  MaxItems = 2
SPECIFICATION FairSpec
PROPERTY ParseLoopEnds
CHECK_DEADLOCK FALSE
