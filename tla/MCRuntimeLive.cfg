CONSTANTS
  a1 = a1
  a2 = a2
  s1 = s1
  AsyncJob = {a1}
  SyncJob = {}
  AudioJob = {}
  Maintainer = {"preflight"}
  MaxSlots = 1
  MaxRecords = 1
  AfterJobs = 1
  VramFloor = TRUE
  HasStopCmd = TRUE
  MaxFaults = 0
  ThreadsFail = FALSE
SPECIFICATION FairSpec
PROPERTY StartedJobsFinish
