CONSTANTS
  Roots = {"fresh"}
  Consumers = {c1, c2}
  MaxRetryAttempts = 2
  FirstAttempt <- MCFirstAttempt
  ReadCount = 1
  PublishLimit = 1
  MaxFaults = 0
SPECIFICATION Spec
INVARIANTS HandledAtMostOnce
