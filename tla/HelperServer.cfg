SPECIFICATION Spec
CONSTANTS
  c1 = c1
  c2 = c2
  Conns = {c1, c2}
  None = None
  Sig = Sig
  Self = Self
  Commands = {"tun_start", "tun_stop", "apply", "restore", "uninstall"}
  Enders = {Sig, Self}
  MaxReqs = 3
  CloseMayFail = TRUE
  RestoreMayFail = TRUE
SYMMETRY Symmetry
INVARIANTS
  TunHasLiveOwner
  LeasesHold
  ShutdownIsFinal
