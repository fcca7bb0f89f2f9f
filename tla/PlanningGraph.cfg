SPECIFICATION FairSpec
CONSTANTS
  MaxRounds = 3
  MaxPrompts = 2
INVARIANTS
  TypeOK
  NoSupplyWithoutRoute
  NoConcurrentWriters
  SingleFiring
  FinalCompileComplete
  FirstNeverMixes
  RoundsBounded
PROPERTIES
  PromptSettles
  NeverStuck
CHECK_DEADLOCK FALSE
