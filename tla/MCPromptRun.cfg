CONSTANTS
  Job = {j1, j2}
  Restarter = {j1, j2}
  HasStopCmd = TRUE
  MaxFaults = 1
SPECIFICATION FairPromptSpec
INVARIANTS
  OwnOutput
  SingleLivePrompt
PROPERTY EveryBodyEnds
