CONSTANTS
  Actors = {"orchestrator", "context", "risk", "policy", "explain", "aggregate", "review", "dlq-ops", "reviewer"}
  Serves <- MCServes
  Reviews = {v1}
  Verdicts = {"REVIEW"}
  NoTag = NoTag
  RetryLimits = {2}
  Databases = {"PostgreSQL"}
  MaxRaises = 0
  MaxInterruptions = 0
  MaxReplays = 0
  MaxBusy = 2
SPECIFICATION Spec
INVARIANTS ReviewSucceeds
CHECK_DEADLOCK FALSE
