SPECIFICATION Spec
CONSTANTS
  MaxRounds = 3
  MaxPrompts = 2
INVARIANT NeverSilentlyDegrade
CHECK_DEADLOCK FALSE
