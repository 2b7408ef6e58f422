CONSTANTS
  Replicas = {r1, r2}
  Settings <- MCSettings
  Entries = {e1, e2, bad}
  Malformed = {bad}
  ReadCount = 2
  Clients = {k1}
  LimitSetting = 2
  WindowSetting = 1
  MaxClock = 2
  MaxOutages = 1
  MaxStops = 1
SPECIFICATION FairSpec
INVARIANTS TypeOK NothingSkipped RestartsReplayNothing WindowBound RefusalDeserved FleetBound
PROPERTY ConsumptionGoesOn
CHECK_DEADLOCK FALSE
