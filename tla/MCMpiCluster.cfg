CONSTANTS
  WorldSize = 3
  Ids <- MCIds
  Kinds <- MCKinds
  JobCounts = {2, 4}
  Sizes = {1, 2}
  Capacity = 2
  MaxCalls = 2
CHECK_DEADLOCK FALSE
SPECIFICATION Spec
INVARIANTS
  MpiTypeOK
  CollectivesMatch
  ChunksMatch
  CachesAgree
  VerdictExact
PROPERTIES
  CallsReturn
  WorkersStop
