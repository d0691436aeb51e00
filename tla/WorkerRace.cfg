CONSTANTS
  w1 = w1
  w2 = w2
  Workers = {w1, w2}
  Reminders = {1}
  Repeating = {1}
  Interval = 4
  DueTimes = {1, 2}
  SeriesEnd = 8
  MaxTime = 16
  MaxFaults = 2
  BatchSize = 1
  MaxAttempts = 2
  LeaseDuration = 7
  SendTimeout = 1
  SafetyMargin = 5
  RetryBase = 1
  RetryMax = 2
  RetryAfters = {3}
  PollInterval = 1
  StepBound = 1
SPECIFICATION Spec
SYMMETRY WorkerSymmetry
INVARIANTS
  TypeOK
  SendExclusion
  DuplicateNeedsLoss
  IdentityIsReal
  CancelStopsSends
PROPERTIES
  ImplementsContract
