CONSTANTS
  main = main
  w = w
  m = m
  s1 = s1
  s2 = s2
  a1 = a1
  a2 = a2
  a3 = a3
  a4 = a4
  null = null
  Main = main
  NoTape = null
  Workers <- MCWorkers
  Masters <- MCMasters
  Scopes <- MCScopes
  Storages <- MCStorages
  NumObservers = 2
  MaxObjects = 2
SPECIFICATION Spec
SYMMETRY MCSymmetry
INVARIANT MainInitialized
