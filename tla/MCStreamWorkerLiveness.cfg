CONSTANTS
  Roots = {"fresh", "replayed"}
  Consumers = {c1, c2}
  MaxRetryAttempts = 2
  FirstAttempt <- MCFirstAttempt
  ReadCount = 1
  PublishLimit = 1
  MaxFaults = 1
SPECIFICATION FairSpec
PROPERTIES EventuallySettled 
