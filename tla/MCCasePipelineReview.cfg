CONSTANTS
  Actors = {"orchestrator", "orchestrator-2", "dlq-ops", "reviewer"}
  Serves <- MCServes
  Reviews = {v1}
  Verdicts = {"REVIEW"}
  NoTag = NoTag
  RetryLimits = {2}
  Databases = {"PostgreSQL", "FakeDB"}
  MaxRaises = 2
  MaxInterruptions = 1
  MaxReplays = 0
  MaxBusy = 2
SPECIFICATION FairSpec
INVARIANTS FinalsAreBacked FinalsBounded AnswerIsDurable RefusedReviewLeavesNothing
PROPERTIES AcceptedReviewFinalizes
CHECK_DEADLOCK FALSE
