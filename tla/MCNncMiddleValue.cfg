SPECIFICATION Spec
CONSTANTS
  WordSize = 32
  Programs <- MCValuePrograms
  Memory <- MCMemory
  Fuel = 8
INVARIANTS
  RunsAsSource
