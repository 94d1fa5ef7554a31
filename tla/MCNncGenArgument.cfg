CONSTANTS
  Cgts <- MCCgts
  GlobRegs <- MCGlobRegs
  IntPLocal <- MCIntPLocal
  IntPParam <- MCIntPParam
  MaxDepth = 2
  MaxArgs = 3
  Situations = {"argument"}
SPECIFICATION Spec
INVARIANT ArgumentsIntact
CHECK_DEADLOCK FALSE
