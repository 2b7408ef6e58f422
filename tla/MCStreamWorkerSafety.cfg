CONSTANTS
  Roots = {"fresh"}
  Consumers = {c1, c2}
  MaxRetryAttempts = 2
  FirstAttempt <- MCFirstAttempt
  ReadCount = 2
  PublishLimit = 2
  MaxFaults = 1
SPECIFICATION Spec
SYMMETRY ReplicaSymmetry
INVARIANTS TypeOK NoLostWork RootAccounted AttemptsExhausted RedeliveryBounded DeadLettersBounded
PROPERTIES ImplementsDelivery
