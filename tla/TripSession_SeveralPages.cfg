SPECIFICATION Spec
CONSTANTS
  Streams = {s1, s2, s3}
  None = None
  SeveralPages = TRUE
  MaxPauses = 1
  MaxRestarts = 1
  MaxLosses = 0
INVARIANTS RegistrySound StoredUnlessPaused
SYMMETRY Symmetry
CHECK_DEADLOCK FALSE
