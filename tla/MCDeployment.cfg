SPECIFICATION MCSpec
CONSTANTS
  r1 = r1
  r2 = r2
  c1 = c1
  c2 = c2
  Release = {r1, r2}
  Code = {c1, c2}
  Main = main
  Sibling = {gpu1}
  None = none
  MaxFaults = 2
  HandFaults = 1
SYMMETRY Symmetry
INVARIANTS
  DeploymentTypeOK
  BootIsProven
  AlwaysAService
  UndoneIsClean
  TreesInUseStay
  RollbackRetryable
  DoneIsInForce
  FailedIsUndone
PROPERTIES
  ImplementsSwitch
  PromotedInForce
  DispatchAfterPromotion
CHECK_DEADLOCK FALSE
