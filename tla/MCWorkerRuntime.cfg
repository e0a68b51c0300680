CONSTANTS
  a1 = a1
  a2 = a2
  s1 = s1
  AsyncJob = {a1, a2}
  SyncJob = {s1}
  AudioJob = {a2, s1}
  Maintainer = {"preflight"}
  MaxSlots = 1
  MaxRecords = 2
  AfterJobs = 1
  VramFloor = FALSE
  HasStopCmd = TRUE
  MaxFaults = 0
  ThreadsFail = TRUE
SPECIFICATION MCSpec
INVARIANTS
  TypeOK
  CompletedIsRendered
  IdleMeansIdle
  AcceptedJobsFindSlots
PROPERTY RecycleSparesPrompts
