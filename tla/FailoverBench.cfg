CONSTANTS
  w1 = w1
  w2 = w2
  Workers = {w1, w2}
  Duration = 4
  KillAt = 1
  Tail = 1
  Horizon = 5
  None = None
SPECIFICATION Spec
SYMMETRY WorkerSymmetry
INVARIANTS
  NoErrorBeforeKill
  OutageFlagged
CHECK_DEADLOCK FALSE
