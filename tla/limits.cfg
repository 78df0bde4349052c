SPECIFICATION PartSpec
CONSTANTS
  Requests = {"a1", "a2", "a3", "b1"}
  Scopes = {"target"}
  Tenants = {"a", "b"}
  TenantOf <- MCTenantOf
  ClassOf <- MCSameClass
  ChainOf <- MCOneTarget
  Limits <- MCOneSlot
  FirstLimits <- MCFirst
  MaxPublications = 0
  RateLimited = {}
  MemoryTight = FALSE
  Hurried = {"a2", "b1"}
  U64_MAX = 3000
  Shapes <- MCRetuned
  Amounts = {1, 2, 5}
  Steps = {400, 1000}
  MaxTime = 3000
  MaxOps = 3
  Payers = {"free", "early", "late"}
  Cost <- MCCost
  budget = 3
  period = 1
  max_concurrency = 2
  SPEND_MAX = 4
  MaxTicks = 2
  Spenders = {r1, r2}
  Estimates = {3}
  Usages = {1, 9}
  Allowances = {4, Unlimited}
  Unlimited = Unlimited
  Operators = {op}
  Deliveries = {d1, d2}
  Payments = {pay}
  CreditTokens = {2}
  MAX_TOKENS = 12
  draw_tokens = 2
  None = None
  MaxReserves = 2
  MaxRevision = 3
  MaxRestarts = 1
  Synchronous = {"song", "image"}
  Jobs = {"clip"}
  bytes <- MCBytes
  Class <- MCClass
  Targets = {"yue", "h3"}
  TargetOf <- MCTargetOf
  Capacities = {4, 2}
  MAX_CLAIMS = 2
  Ticking = TRUE
  Watched = TRUE
  Impatient = {"image"}
SYMMETRY Symmetry
INVARIANTS TenantDelay RateHonoured  DurablyCovered NothingForgiven WithinAllowance CreditOnce
  
