SPECIFICATION Spec
CONSTANTS
  Workers = {1}
  Periods = {"morning", "evening"}
  Zones = {0, 3}
  MaxAttempts = 2
  Null = Null
PROPERTY SeededIsScheduled
