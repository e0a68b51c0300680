CONSTANTS
  Asset = {model}
  MaxCards = 2
  Resident = {"vllm"}
  Plan <- MCPlan
  Broadcast <- MCBroadcast
  MaxAttempts = 2
  MaxLosses = 1
SPECIFICATION PairSpec
INVARIANT IsolationKept
