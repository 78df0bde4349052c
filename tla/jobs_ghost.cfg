SPECIFICATION Spec
CONSTANTS
  Jobs <- MCJobs
  Workers = {"w1", "w2"}
  TenantOf <- MCTenantOf
  PrincipalOf <- MCPrincipalOf
  AliasOf <- MCAliasOf
  BatchJobs = {"remix", "bulk"}
  ArtifactJobs = {"song", "remix"}
  Locality <- MCLocality
  MaxPerTenant <- MCTenantCap
  MaxPerPrincipal <- MCPrincipalCap
  MaxQueued = 2
  MaxQueuedBatch = 1
  MaxAttempts = 2
  MaxParked = 1
  SpoolRoom = 1
  Waits = {"activation"}
  Scenes <- MCOneCancel
INVARIANT VisibleIsReal
CHECK_DEADLOCK FALSE
