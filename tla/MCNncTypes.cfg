SPECIFICATION Spec
CONSTANTS
  Names <- MCNames
  Bodies <- MCBodies
  Uses <- MCUses
  Paths <- MCPaths
  MaxDepth = 16
INVARIANTS Returns AcceptsExactly ReadsExact
