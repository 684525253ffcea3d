SPECIFICATION FairSpec
CONSTANTS
  Parts = {"app", "core", "dll"}
  Cleared = {"dll"}
  Routes = {"archive", "mac", "appimage"}
  Versions = {0, 1, 2, 3}
  Unfit = {2}
  MaxFaults = 1
  MaxInstalls = 2
  Checks = {k1, k2}
  Downloads = {d1, d2}
  Releases <- History
  First = {1, 2}
  MaxSessions = 2
INVARIANTS
  DownloadSound
  ProgramSurvives
PROPERTIES
  InstallSound
  DialogEnds
CHECK_DEADLOCK FALSE
