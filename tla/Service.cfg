SPECIFICATION Spec
CONSTANTS
  Pages <- MCPages
  Forms <- MCForms
  Hosts <- MCHosts
  Adapter = {"koreader", "moon"}
  MaxStarts = 2
  MaxWrites = 3
  MaxFaults = 1
  MaxLines = 4
  Nil = Nil
  NoFile = NoFile
  Torn = Torn
INVARIANTS
  ServiceInv
  SetupSurvives
PROPERTIES
  StopCompletes
CHECK_DEADLOCK FALSE
