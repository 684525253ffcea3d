SPECIFICATION Spec
CONSTANTS
  A = A
  t1 = t1
  t2 = t2
  None = None
  Profiles = {A}
  Threads = {t1, t2}
  Remembered = {None}
  UserActions = {"start", "stop"}
  MaxEvents = 2
  MaxDeaths = 0
  Attempts = 1
INVARIANTS
  StopAlwaysAborts
