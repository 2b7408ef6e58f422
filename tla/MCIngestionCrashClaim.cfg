CONSTANTS
  Requests = {q1, q2}
  Keys = {"k1", "k2"}
  Payloads = {"p1", "p2"}
  NoPayload = NoPayload
  MaxFaults = 1
SPECIFICATION FairSpec
PROPERTIES AcceptedFlowsDespiteCrash
CHECK_DEADLOCK FALSE
