CONSTANTS
  NSources = 2
  NStmts = 2
  MaxErrors = 3
SPECIFICATION Spec
INVARIANTS
  SuccessMeansBuilt
  OnlyWholeSourcesWritten
PROPERTIES
  LinksFreshObjects
  CompileOnlyKeepsOutput
  AlwaysExits
