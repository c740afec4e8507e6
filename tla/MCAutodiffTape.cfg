SPECIFICATION TapeSpec
CONSTANTS
  InitialNBytes = 2
  Lens <- MCLens
  MaxBlocks = 3
  MaxNested = 2
  VariSize = 1
  Objects = {o1, o2}
  MaxTape = 2
INVARIANTS
  TapeTypeOK
  NestedStacksInStep
  TapeInFrames
  VarisDistinct
  ObjectsOwnedOnce
PROPERTIES
  ImplementsNestedTape
CHECK_DEADLOCK FALSE
