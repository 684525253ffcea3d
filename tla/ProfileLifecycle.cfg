SPECIFICATION Spec
CONSTANTS
  A = A
  t1 = t1
  t2 = t2
  None = None
  Profiles = {A}
  Threads = {t1, t2}
  Remembered = {None, A}
  UserActions = {"start", "restart", "stop", "exit"}
  MaxEvents = 4
  MaxDeaths = 4
  Attempts = 2
SYMMETRY Symmetry
INVARIANTS
  LocksPair
  RestAgrees
