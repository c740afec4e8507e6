SPECIFICATION Spec
CONSTANTS
  Matrices = {m1, m2, m3}
  Buffers = {b1, b2, b3}
  Commands = {c1, c2, c3}
  MaxArguments = 2
  MaxForgotten = 1
  PendingIndices = FALSE
  None = None
SYMMETRY Symmetry
INVARIANTS
  EventsTypeOK
  ConflictsOrdered
  NoUseAfterRelease
  EventsCover
