SPECIFICATION Spec
CONSTANTS
  Streams = {s1, s2, s3}
  None = None
  SeveralPages = FALSE
  MaxPauses = 2
  MaxRestarts = 2
  MaxLosses = 1
INVARIANTS CancelFindsStream TurnsOrdered ShownIsListed
PROPERTY HoldsConversation
SYMMETRY Symmetry
CHECK_DEADLOCK FALSE
