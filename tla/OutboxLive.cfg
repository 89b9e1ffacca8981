SPECIFICATION FairSpec
CONSTANTS
  koreader = koreader
  moon = moon
  Source = {koreader, moon}
  Target = {koreader, moon}
  MaxEvents = 2
  MaxAttempts = 2
  MaxRetries = 1
  MaxFaults = 0
PROPERTIES
  JobsSettle
  ResolvedUnblocks
  DeliverySpec
CHECK_DEADLOCK FALSE
