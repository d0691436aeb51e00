SPECIFICATION Spec
CONSTANTS
  Tasks = {t1, t2}
  Slots = 1
  MaxMessages = 3
  MaxDrafts = 1
  MaxRepeats = 0
  MaxRevision = 2
  Null = Null
INVARIANT ContextMatches
CHECK_DEADLOCK FALSE
