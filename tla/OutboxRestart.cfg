SPECIFICATION FairSpec
CONSTANTS
  koreader = koreader
  moon = moon
  Source = {koreader}
  Target = {moon}
  MaxEvents = 1
  MaxAttempts = 2
  MaxRetries = 0
  MaxFaults = 1
PROPERTY RunningReclaimed
CHECK_DEADLOCK FALSE
