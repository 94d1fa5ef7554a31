CONSTANTS
  Ptrs = {p1, p2, p3, p4}
  Sizes = {1, 2}
  NNC_ARENA_CAP = 2
  ZipNum = 1
  ZipDen = 2
  AllocBudget = 9
  NULL = NULL
  JUNK = JUNK
SYMMETRY Symmetry
SPECIFICATION Spec
INVARIANTS
  NoLeak
  HolesCounted
  PushInBounds
  ExitClean
CHECK_DEADLOCK FALSE
