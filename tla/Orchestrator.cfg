SPECIFICATION AnsweredSpec
CONSTANTS
  MaxRounds = 2
  Fields <- MCFields
  Models <- MCModels
INVARIANTS
  TypeOK
  
  SteadyAnswersKept
  SteadyConfirmedNotAsked
PROPERTIES
  KeepsPromise
  Settles
CHECK_DEADLOCK FALSE
