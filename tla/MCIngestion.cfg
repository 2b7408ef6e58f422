CONSTANTS
  Requests = {q1, q2, q3}
  Keys = {"k1", "k2"}
  Payloads = {"p1", "p2"}
  NoPayload = NoPayload
  MaxFaults = 2
SPECIFICATION FairSpec
INVARIANTS TypeOK OneCaseCreated AnswersAgree FaultsStrand
PROPERTIES AcceptedFlows
CHECK_DEADLOCK FALSE
