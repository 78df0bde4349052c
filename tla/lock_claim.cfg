SPECIFICATION Spec
CONSTANTS
  Procs = {p1, p2}
  Ghost = ghost
  NoFile = nofile
  StaleFiles = {"lock", "claim"}
  HardLinks = TRUE
  MayShutDown = FALSE
  CrashAt = {}
SYMMETRY Symmetry
INVARIANT SingleWriter
