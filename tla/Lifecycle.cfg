CONSTANTS
  Rules = {"none", "fixed", "relative"}
  FirstTimes = {2}
  EditRules = {"none", "fixed"}
  Interval = 1
  AfterDays = 1
  Delays = {1}
  SeriesEnd = 4
  MaxAttempts = 2
  MaxTime = 3
  MaxEvents = 5
SPECIFICATION Spec
CHECK_DEADLOCK FALSE
INVARIANTS
  TypeOK
  CancelEndsFamily
PROPERTIES
  PressesRetireCards
  ListsGoStale
  SettledIsFinal
  SnoozedPairsEndTogether
