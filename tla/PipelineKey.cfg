SPECIFICATION Spec
CONSTANTS
  Value = {"x"}
  Absent = "absent"
  Norm <- MCNorm
  Similarity <- MCSimilarity
  Input <- MCInput
  MaxCalls = 2
  QueueCap = 1
  MaxFaults = 0
INVARIANT
  KeyScoresAsLadder
CHECK_DEADLOCK FALSE
