SPECIFICATION AllSpec
CONSTANTS
  a = a
  b = b
  t1 = t1
  t2 = t2
  None = None
  Threads = {t1, t2}
  Answers <- SomeAnswers
  Start0 <- StartFile
  MaxEdits = 2
  MaxRestarts = 1
  MaxCalls = 4
  MayMeet = FALSE
  Routes = {"Default", "Other"}
  MaxSettings = 6
  Stored <- TwoRules
  MaxRuleEdits = 4
  MaxTouches = 2
  MaxReqs = 4
  MaxDeeds = 5
INVARIANTS
  StoreSound
  UpdateSound
  SettingsSound
PROPERTIES
  ChainEnds
CHECK_DEADLOCK FALSE
