SPECIFICATION FairSpec
CONSTANTS
  s1 = s1
  s2 = s2
  l1 = l1
  l2 = l2
  l3 = l3
  Services = {s1, s2}
  Lists = {l1, l2, l3}
  ClientLists = {l1, l2}
  Unknown = Unknown
  NoSnap = NoSnap
  MaxFaults = 2
  MaxApplies = 2
  MaxCrashes = 2
  MaxEdits = 1
  RollbackMayFail = TRUE
  StoreMayFail = TRUE
  AllReadable = FALSE
INVARIANTS
  RecordSuffices
PROPERTIES
  RecoveryCompletes
