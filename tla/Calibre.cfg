SPECIFICATION Spec
CONSTANTS
  Book = {"b"}
  Payloads <- MCPayloads
  Fields = {"progress", "mode"}
  MaxFaults = 1
  MaxEdits = 1
INVARIANTS
  CalibreInv
  AcknowledgedIsAccounted
  
  PollSound
  
PROPERTIES
  GatesAgreeWithEngine
  QueueDrains
CHECK_DEADLOCK FALSE
