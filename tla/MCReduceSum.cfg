CONSTANTS
  NumTerms = 5
  Grainsize = 1
  Threads <- MCThreads
  Caller = "main"
  Modes <- MCModes
  MaxDepth = 3
CHECK_DEADLOCK FALSE
SPECIFICATION Spec
INVARIANTS
  ReduceTypeOK
  ResultExact
  BodiesApart
  BodiesAlive
  ScopesMatchFunctions
PROPERTY CallEnds
