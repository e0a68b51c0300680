CONSTANTS
  c1 = c1
  c2 = c2
  c3 = c3
  w1 = w1
  w2 = w2
  Caller = {c1, c2, c3}
  Worker = {w1, w2}
  WorkerOf <- MCWorkerOf
  RoleOf <- MCRoleOf
  HasProvisioner = TRUE
  NumFiles = 2
  Checked = {2}
  Flat = {1}
  MaxCrashes = 1
  Asset = {model}
  MaxCards = 2
  Resident = {"vllm"}
  Plan <- MCPlan
  Broadcast <- MCBroadcast
  MaxAttempts = 2
  MaxLosses = 1
SPECIFICATION MCSpec
INVARIANTS
  StoresTypeOK
  ReadyIsVerified
  InstalledOnce
  DownloadIsReported
  WarmIsOnDisk
  UnloadedIsExcused
  StagedIsPlanned
  MarkedIsWhole
PROPERTIES
  ReadyStaysReady
  FilesKept
