SPECIFICATION CompilerSpec
CONSTANTS
  Places <- MCPlaces
  CountryOf <- MCCountryOf
  NoCountry = NoCountry
  Hints = {0, 4}
  MaxStops = 3
  MaxDays = 6
  MaxGateways = 2
  MaxGatewayOptions = 1
  Venues <- MCVenues
  FoundAt <- MCFoundAt
  Destination = "trip"
  Hours <- MCHours
  Departs = 6
  Minutes <- MCMinutes
  Menu <- MCMenu
  MaxPicks = 3
  Busy <- MCBusy
  MaxPerSlot = 2
  MaxIterations = 3
INVARIANTS
  NightsAddUp
  LegsMakeATour
  OpenByTheClock
  PicksAccountedFor
  DaysFollowRoute
CHECK_DEADLOCK FALSE
