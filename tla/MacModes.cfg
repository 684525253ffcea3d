SPECIFICATION Spec
CONSTANTS
  MaxFaults = 1
  Backlog = 1
  MaxActs = 2
  Inputs = {"proxy", "vpn", "start", "stop", "sleep"}
  Remembered <- NothingOrBoth
  Installed = {TRUE, FALSE}
INVARIANTS
  ModesAgree
PROPERTIES
  RememberedUntilAsked
  StartupResolves
CHECK_DEADLOCK FALSE
