CONSTANTS
  Actors = {"orchestrator", "context", "risk", "policy", "explain", "aggregate", "review", "dlq-ops", "orchestrator-2"}
  Serves <- MCServes
  Reviews = {}
  Verdicts = {"ALLOW"}
  NoTag = NoTag
  RetryLimits = {2}
  Databases = {"PostgreSQL"}
  MaxRaises = 0
  MaxInterruptions = 2
  MaxReplays = 0
  MaxBusy = 2
SPECIFICATION Spec
INVARIANTS ForksBounded TrailConnected LatestIsFinal
CHECK_DEADLOCK FALSE
