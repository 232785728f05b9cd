CONSTANTS
  None = None
  Keys = {"k"}
  Values <- SomeValues
  MaxValueLen = 2
  MaxLineLen = 4
  Items <- EveryBranch
  MaxItems = 2
SPECIFICATION FairSpec
INVARIANTS
  OutcomesInOrder
  NothingStuck
  BufferBounded
CHECK_DEADLOCK FALSE
PROPERTY ParseLoopEnds
