CONSTANTS
  Rules = {"fixed"}
  FirstTimes = {1}
  EditRules = {}
  Interval = 1
  AfterDays = 1
  Delays = {1}
  SeriesEnd = 4
  MaxAttempts = 1
  MaxTime = 4
  MaxEvents = 2
SPECIFICATION Spec
CHECK_DEADLOCK FALSE
PROPERTIES
  SentCardIsLive
