SPECIFICATION CompilerSpec
CONSTANTS
  Places <- MCPlaces
  CountryOf <- MCCountryOf
  NoCountry = NoCountry
  Hints = {0}
  MaxStops = 1
  MaxDays = 2
  MaxGateways = 0
  MaxGatewayOptions = 1
  Venues <- MCVenues
  FoundAt <- MCFoundAt
  Destination = "trip"
  Hours <- MCHours
  Departs = 6
  Minutes <- MCMinutes
  Menu <- MCMenu
  MaxPicks = 1
  Busy <- MCBusy
  MaxPerSlot = 2
  MaxIterations = 3
INVARIANTS
  OpenOnItsDay
CHECK_DEADLOCK FALSE
