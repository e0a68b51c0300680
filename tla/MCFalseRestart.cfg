CONSTANTS
  Job = {j1, j2}
  Restarter = {j1, j2}
  HasStopCmd = TRUE
  MaxFaults = 0
SPECIFICATION PromptSpec
INVARIANT DetectedRestartsHappened
