SPECIFICATION FairSpec
CONSTANTS
  A = A
  None = None
  Profiles = {A}
  NoReachDelay = 2
  NetworkMax = 2
  CoreGrace = 2
  RunMax = 5
  Dedupe = 4
  RetryDelays <- Delays
  Longest = 2
  SubsMax = 4
  MaxWakes = 2
  MaxDeaths = 2
INVARIANTS
  Owners
PROPERTIES
  StopDuringRunSticks
  AttemptsAreSpaced
  HandedBack
