SPECIFICATION PartSpec
CONSTANTS
  Requests = {"a1", "b1"}
  Scopes = {"tenant", "target"}
  Tenants = {"a", "b"}
  TenantOf <- MCTenantOf
  ClassOf <- MCTwoClasses
  ChainOf <- MCChain
  Limits <- MCNarrow
  FirstLimits <- MCFirst
  MaxPublications = 1
  RateLimited = {"target"}
  MemoryTight = TRUE
  Hurried = {"a1", "b1"}
  Threads = {r1, r2}
  min_samples = 2
  failure_threshold_percent = 50
  window_millis = 1
  base_cooldown_millis = 1
  max_cooldown_millis = 2
  half_open_probes = 1
  half_open_successes_to_close = 2
  PROBE_LEASE = 2
  MAX_SHIFT = 2
  U32_MAX = 3
  MaxLag = 1
  None = None
  Past = Past
INVARIANTS SlotsAccounted LineIsLive ProbeSlotsExact
PROPERTIES StaleResultsIgnored EveryRequestAnswered NeverRefusedForGood
