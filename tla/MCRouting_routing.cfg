SPECIFICATION Spec
CONSTANTS
  Commands = {"a"}
  Gateways = {"8000", "8123"}
  Endpoints = {"unset", "own", "proxy"}
  NoUrl = "unset"
  OneAtATime = TRUE
  Crashes = TRUE
  EditsInFlight = TRUE
  EditsUrl = FALSE
  MaxCalls = 6
  MaxEdits = 3
CHECK_DEADLOCK FALSE
INVARIANTS
  WayBack
PROPERTIES
  SettledEditsSurvive
  NoTrace
  ImplementsSwitch
