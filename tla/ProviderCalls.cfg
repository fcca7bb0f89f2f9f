SPECIFICATION Spec
CONSTANTS
  Calls = {1, 2, 3, 4}
  Providers = {"google", "tavily", "serpapi"}
  Requests = {"flights", "hotels", "place", "rental", "visa", "taxi"}
  Scenarios <- MCScenarios
  Concurrency = 2
  MaxRetries = 1
  Retention = 0
  MaxClock = 1
INVARIANTS
  PermitsConserved
  ReplayFaithful
PROPERTIES
  GivesUpOnlyAtLimit
  CallsEnd
CHECK_DEADLOCK FALSE
