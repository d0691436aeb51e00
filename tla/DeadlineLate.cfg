SPECIFICATION Spec
CONSTANTS
  Requests <- Asked
  Workers = {1, 2}
  MaxAttempts = 2
  Lease = 2
  RetryDelay = 1
  DraftTTL = 2
  MaxTime = 7
  MaxPlans = 2
  MaxDrafts = 1
  MaxEvents = 3
PROPERTY OnlyABurstIsSkipped
CHECK_DEADLOCK FALSE
