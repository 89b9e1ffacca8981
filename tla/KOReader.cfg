SPECIFICATION KOSpec
CONSTANTS
  Value = {"x"}
  Absent = "absent"
  Norm <- MCNorm
  Similarity <- MCSimilarity
  Input <- MCInput
  MaxCalls = 2
  QueueCap = 1
  MaxFaults = 1
  User = {"u"}
  Push <- MCPush
  Traffic <- MCTraffic
  MaxRequests = 3
  AlarmAt = 2
INVARIANTS
  ServerInv
  PushesAnsweredTruly
  HealthTellsFailures
  ReadsItsPushes
PROPERTIES
  LoweredByOverlapOnly
CHECK_DEADLOCK FALSE
