SPECIFICATION Spec
CONSTANTS
  WordSize = 32
  Programs <- MCPrograms
  Memory <- MCMemory
  Fuel = 8
INVARIANTS
  RunsAsSource
  RangesCoverUses
  RunsInKept
PROPERTY
  Finishes
