SPECIFICATION SweepSpec
CONSTANTS
  InitialNBytes = 2
  Lens = {}
  MaxBlocks = 3
  MaxNested = 2
  VariSize = 1
  Objects = {}
  MaxTape = 3
  MaxVaris = 5
  MaxOperands = 2
  MaxAdj = 0
INVARIANTS
  GradientCorrect
  SweepsStayApart
CHECK_DEADLOCK FALSE
