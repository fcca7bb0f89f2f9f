SPECIFICATION Spec
CONSTANTS
  Calls = {1, 2, 3}
  Sessions = {"S1", "S2"}
  Agents = {"visa", "reviews"}
  SessionOf <- MCSessionOf
  AgentOf <- MCAgentOf
  Layers <- MCLayers
  Threads = {"t1", "t2"}
  Attempts = 2
INVARIANTS
  UsageConserved
  SummaryComplete
