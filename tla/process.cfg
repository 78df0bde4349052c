SPECIFICATION PartSpec
CONSTANTS
  Procs = {p1, p2, p3}
  Ghost = ghost
  NoFile = nofile
  StaleFiles = {"lock", "claim"}
  HardLinks = FALSE
  MayShutDown = TRUE
  CrashAt = {"fill", "fillClaim", "sweep", "recheck", "remove", "recreate", "refill", "unclaim", "holding", "drop"}
  MaxAppends = 3
  checkpoint_interval = 2
  Faults = {"oversize", "write", "sync", "cut", "rename"}
  Clients = {"c1", "c2"}
  ListenerOf <- MCListenerOf
  HasMetrics = TRUE
  max_connections = 1
  max_requests_per_connection = 2
  MaxPieces = 3
  Sockets = {1, 2, 3}
  Calls = {1, 2}
  PoolKey <- MCPoolKey
  Idempotent = {2}
  Scripts <- MCScripts
  max_idle_per_key = 1
  max_idle_total = 1
  WireScenes <- MCWireScenes
  MaxRead = 2
  max_buffer_bytes = 6
  max_event_bytes = 3
  max_field_name_bytes = 2
  max_chunk_line_bytes = 3
  max_trailer_bytes = 6
  max_body_bytes = 3
INVARIANTS QuietExclusion AlwaysStartable  WhatLeavesIsTrue HonestStop ExchangeSound FramingExact
PROPERTIES NeverWedges  StopsInTheEnd
CHECK_DEADLOCK FALSE
