SPECIFICATION FairSpec
CONSTANTS
  Value = {"x"}
  Absent = "absent"
  Norm <- MCNorm
  Similarity <- MCSimilarity
  Input <- MCInput
  MaxCalls = 2
  QueueCap = 1
  MaxFaults = 1
PROPERTIES
  EveryCallReturns
CHECK_DEADLOCK FALSE
