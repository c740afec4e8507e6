SPECIFICATION SweepSpec
CONSTANTS
  InitialNBytes = 2
  Lens = {}
  MaxBlocks = 3
  MaxNested = 2
  VariSize = 1
  Objects = {}
  MaxTape = 3
  MaxVaris = 3
  MaxOperands = 2
  MaxAdj = 0
INVARIANTS
  NestedZeroingIsNested
CHECK_DEADLOCK FALSE
