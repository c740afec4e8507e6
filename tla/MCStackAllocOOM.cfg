SPECIFICATION OOMSpec
CONSTANTS
  InitialNBytes = 2
  Lens <- MCLens
  MaxBlocks = 3
  MaxNested = 1
INVARIANTS
  AllocReturnsMemory
CHECK_DEADLOCK FALSE
