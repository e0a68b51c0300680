CONSTANTS
  a1 = a1
  a2 = a2
  s1 = s1
  AsyncJob = {a1}
  SyncJob = {}
  AudioJob = {}
  Maintainer = {}
  MaxSlots = 1
  MaxRecords = 1
  AfterJobs = 1
  VramFloor = TRUE
  HasStopCmd = TRUE
  MaxFaults = 1
  ThreadsFail = FALSE
SPECIFICATION Spec
PROPERTY WatchdogSparesPrompts
