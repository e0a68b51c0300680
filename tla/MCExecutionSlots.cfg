CONSTANTS
  Job = {j1, j2, j3}
  MaxSlots = 2
  AfterJobs = 1
  VramFloor = TRUE
  ThreadsFail = TRUE
SPECIFICATION FairSlotsSpec
INVARIANTS
  SlotsConserved
  ActiveIsExact
  RecycleIsExclusive
PROPERTIES
  ImplementsGate
  EveryJobLeaves
  WatchdogReturns
