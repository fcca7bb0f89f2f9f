SPECIFICATION FairSpec
CONSTANTS
  None = None
  MaxRequests = 3
  MaxStops = 2
INVARIANTS
  TypeOK
  OneStream
  BusyIsServed
  ResponsesMatchPrompts
PROPERTIES
  RequestsReachTheirSession
  PlanningEnds
CHECK_DEADLOCK FALSE
