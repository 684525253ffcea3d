SPECIFICATION Spec
CONSTANTS
  None = None
  Networks = {"A", "B"}
  Machines <- AllMachines
  Settings <- OnAndOff
  MaxMoves = 2
  MaxActs = 2
INVARIANTS
  ChainSound
  RefsExist
  TrafficGoesRight
  HelperAgrees
  NetworkSound
  ProfilesTravel
PROPERTIES
  NetworkHeard
CHECK_DEADLOCK FALSE
