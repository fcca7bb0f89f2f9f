SPECIFICATION Spec
CONSTANTS
  Streams = {s1, s2, s3}
  None = None
  SeveralPages = FALSE
  MaxPauses = 1
  MaxRestarts = 0
  MaxLosses = 0
INVARIANTS ShownIsStored
SYMMETRY Symmetry
CHECK_DEADLOCK FALSE
