SPECIFICATION ReuseSpec
CONSTANTS
  InitialNBytes = 2
  Lens <- MCLens
  MaxBlocks = 6
  MaxNested = 1
  MaxCalls = 4
INVARIANTS
  RepeatReusesMemory
  HeapOverheadBounded
CHECK_DEADLOCK FALSE
