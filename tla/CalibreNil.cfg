SPECIFICATION Spec
CONSTANTS
  Book = {"b"}
  Payloads <- PipelinePayloads
  Fields = {"progress", "mode", "position"}
  MaxFaults = 0
  MaxEdits = 0
INVARIANTS
  NilMeansWritten
CHECK_DEADLOCK FALSE
