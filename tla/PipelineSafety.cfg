SPECIFICATION Spec
CONSTANTS
  Value = {"x"}
  Absent = "absent"
  Norm <- MCNorm
  Similarity <- MCSimilarity
  Input <- MCInput
  MaxCalls = 3
  QueueCap = 2
  MaxFaults = 1
INVARIANTS
  TypeOK
  AnsweredTruly
  Judged
  CanonicalIsLatest
  OneBookPerIdentifier
  KeyStaysWithBook
  IInv
PROPERTIES
  NoBackslide
CHECK_DEADLOCK FALSE
