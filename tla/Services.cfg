SPECIFICATION Spec
CONSTANTS
  Null = Null
  Reminders = {1, 2}
  Day = 4
  Quiet = {3}
  Interval = 1
  Cooldown = 2
  MaxDeliveries = 2
  MaxAttempts = 2
  Lease = 2
CONSTRAINT ClockGoesOn
INVARIANTS TypeOK HeldWhileSending DuplicateNeedsDoubt OneFlow UsedOnce DigestOnce ChainHolds
PROPERTIES ObservationsInOrder AlertsSettle KeepsPolling DigestsKeepComing CyclesEnd
CHECK_DEADLOCK FALSE
