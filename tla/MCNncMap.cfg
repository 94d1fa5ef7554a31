CONSTANTS
  Keys = {0, 1, 2, 3}
  Vals = {v1, v2}
  Nothing = Nothing
  InitCaps = {1, 2}
  Hashes <- MCHashes
  LoadNum = 7
  LoadDen = 10
  ScaleNum = 3
  ScaleDen = 2
  MaxCap = 6
  MaxNodes = 4
SPECIFICATION Spec
INVARIANTS
  WellPlaced
  LenCounts
  NodesOwned
PROPERTY
  ImplementsDict
CHECK_DEADLOCK FALSE
