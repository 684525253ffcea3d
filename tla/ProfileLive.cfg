SPECIFICATION FairSpec
CONSTANTS
  A = A
  t1 = t1
  t2 = t2
  None = None
  Profiles = {A}
  Threads = {t1, t2}
  Remembered = {None, A}
  UserActions = {"start", "restart", "stop", "exit"}
  MaxEvents = 3
  MaxDeaths = 2
  Attempts = 1
PROPERTIES
  
  WaitersEnd
CHECK_DEADLOCK FALSE
