CONSTANTS
  Actors = {"orchestrator", "context", "risk", "policy", "explain", "aggregate", "review", "dlq-ops", "operator"}
  Serves <- MCServes
  Reviews = {}
  Verdicts = {"ALLOW", "REVIEW"}
  NoTag = NoTag
  RetryLimits = {1, 2}
  Databases = {"PostgreSQL"}
  MaxRaises = 1
  MaxInterruptions = 0
  MaxReplays = 1
  MaxBusy = 1
SPECIFICATION FairSpec
INVARIANTS TypeOK SettledIsComplete ReadsFindResults DrainedIsResolved
PROPERTIES ImplementsLifecycle NeverStuck AnnouncedIsRecorded
CHECK_DEADLOCK FALSE
