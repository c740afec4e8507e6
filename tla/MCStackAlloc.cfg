SPECIFICATION Spec
CONSTANTS
  InitialNBytes = 2
  Lens <- MCLens
  MaxBlocks = 3
  MaxNested = 3
INVARIANTS
  TypeOK
  FramesOrdered
  NoOverlap
  LiveInsideBlocks
  LiveInStack
PROPERTIES
  RecoveredLeavesStack
  ImplementsArena
CHECK_DEADLOCK FALSE
