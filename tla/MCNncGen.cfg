CONSTANTS
  Cgts <- MCCgts
  GlobRegs <- MCGlobRegs
  IntPLocal <- MCIntPLocal
  IntPParam <- MCIntPParam
  MaxDepth = 2
  MaxArgs = 3
  Situations = {}
SPECIFICATION Spec
INVARIANTS OperandsIntact RegistersOwned ArgumentsIntact StackBalanced EvenCallsAligned
CHECK_DEADLOCK FALSE
