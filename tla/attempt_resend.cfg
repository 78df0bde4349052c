SPECIFICATION Spec
CONSTANTS
  Requests = {"a", "b"}
  Targets = {"t1", "t2"}
  Family <- MCFamily
  max_attempts = 2
  max_concurrency = 1
  max_parked_requests = 1
  max_recovery_waiters = 1
  MaxRounds = 2
  Scenes <- MCLost
INVARIANT NoSecondAnswer
CHECK_DEADLOCK FALSE
