CONSTANTS
  Job = {j1, j2, j3, j4, j5}
  MaxSlots = 2
  MaxRecords = 3
  ThreadsFail = TRUE
  Run = {r1, r2}
  a = a
  b = b
  Content = {a, b}
  FitKinds = {"written"}
  CallerName <- MCCallerName
SPECIFICATION MCSpec
INVARIANTS
  RegistryBounded
  NoResultDropped
  RendersWhatWasObserved
PROPERTY RecentResultsSurvive
