SPECIFICATION Spec
CONSTANTS
  User = {"u"}
  Path = {"b:ook", "b_ook", "notes"}
  Body = {"45.2%", "100.3%", "", "broken"}
  Empty = ""
  Broken = "broken"
  Nil = Nil
  Suffix <- MCSuffix
  Safe <- MCSafe
  Tenths <- MCTenths
  MaxUploads = 2
  MaxFaults = 2
INVARIANTS
  ArchiveInv
  ReadableIsArchived
  FailureHasACause
  ObservedOnce
PROPERTIES
  StoreSpec
CHECK_DEADLOCK FALSE
