SPECIFICATION SecureSpec
CONSTANTS
  Release = {r1}
  Main = main
  Sibling = {gpu1}
  None = none
  MaxFaults = 1
INVARIANT CutoverRerunAccepted
CHECK_DEADLOCK FALSE
