SPECIFICATION Spec
CONSTANTS
  Messages = {"agent_done", "complete"}
  MaxFrames = 3
INVARIANTS GivenAsSent NothingHeldBack
CHECK_DEADLOCK FALSE
