SPECIFICATION Spec
CONSTANTS
  Matrices = {m1, m2, m3}
  Buffers = {b1, b2, b3}
  Commands = {c1, c2, c3}
  MaxArguments = 2
  MaxForgotten = 0
  PendingIndices = TRUE
  None = None
SYMMETRY Symmetry
INVARIANTS
  WriteCompletedBeforeRead
