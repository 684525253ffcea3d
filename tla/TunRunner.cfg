SPECIFICATION AllSpec
CONSTANTS
  server = server
  other = other
  Starters = {server}
  Stoppers = {other}
  MaxGen = 6
  SlowCreate = TRUE
  CloseMayFail = TRUE
  c1 = c1
  c2 = c2
  Conns = {c1, c2}
  None = None
  Sig = Sig
  Self = Self
  Commands = {"tun_start", "tun_stop"}
  Enders = {Sig}
  MaxReqs = 2
INVARIANTS
  SlotSound
PROPERTIES
  StopTakesDown
  SlotSpec
  DeadManFires
  Answered
