SPECIFICATION Spec
CONSTANTS
  koreader = koreader
  moon = moon
  Source = {koreader, moon}
  Target = {koreader, moon}
  MaxEvents = 2
  MaxAttempts = 2
  MaxRetries = 2
  MaxFaults = 2
INVARIANTS
  TypeOK
  ConflictHoldsBack
  DeliveredAtMostAsked
  AttemptsBounded
  GivenUpExhausted
  RunningIsHeld
  IInv
  OvertakenForCause
SYMMETRY TargetSymmetry
CHECK_DEADLOCK FALSE
