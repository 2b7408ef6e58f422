CONSTANTS
  Actors = {"orchestrator", "context", "risk", "policy", "explain", "aggregate", "review", "dlq-ops"}
  Serves <- MCServes
  Reviews = {}
  Verdicts = {"ALLOW"}
  NoTag = NoTag
  RetryLimits = {2}
  Databases = {"PostgreSQL"}
  MaxRaises = 1
  MaxInterruptions = 0
  MaxReplays = 0
  MaxBusy = 2
SPECIFICATION Spec
INVARIANTS OneFinal
CHECK_DEADLOCK FALSE
