SPECIFICATION Spec
CONSTANTS
  Requests <- Asked
  Workers = {1, 2}
  MaxAttempts = 2
  Lease = 2
  RetryDelay = 1
  DraftTTL = 2
  MaxTime = 6
  MaxPlans = 2
  MaxDrafts = 1
  MaxEvents = 4
INVARIANTS TypeOK PlanAndRowAgree FinalizeFindsItsStep SentOnce
PROPERTIES MessagesFollowThePlan PlansRunOut
CHECK_DEADLOCK FALSE
