SPECIFICATION PartSpec
CONSTANTS
  Requests = {"a", "b"}
  Targets = {"t1", "t2"}
  Family <- MCFamily
  max_attempts = 2
  max_concurrency = 1
  max_parked_requests = 1
  max_recovery_waiters = 1
  MaxRounds = 2
  Scenes <- MCRequestScenes
  RouteTargets = {1, 2, 3}
  ProviderOf <- MCProviderOf
  HostOf <- MCHostOf
  RouteScenes <- MCRequestRoutes
  MaxRecords = 2
  StreamScenes <- MCStreamScenes
  MaxWire = 4
INVARIANTS HoldsExact PaidForWork NoSecondAnswer  OneVoice 
PROPERTY EveryRequestEnds
CHECK_DEADLOCK FALSE
