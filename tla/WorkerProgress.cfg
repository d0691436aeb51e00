CONSTANTS
  w1 = w1
  Workers = {w1}
  Reminders = {1}
  Repeating = {}
  Interval = 20
  DueTimes = {1}
  SeriesEnd = 25
  MaxTime = 32
  MaxFaults = 2
  BatchSize = 1
  MaxAttempts = 2
  LeaseDuration = 7
  SendTimeout = 1
  SafetyMargin = 5
  RetryBase = 1
  RetryMax = 2
  RetryAfters = {3}
  PollInterval = 1
  StepBound = 1
SPECIFICATION FairSpec
PROPERTIES
  EveryOccurrenceSettles
