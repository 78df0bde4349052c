SPECIFICATION StoreSpec
CONSTANTS
  MaxAppends = 4
  checkpoint_interval = 0
  Faults = {"sync", "reset"}
INVARIANT AlwaysStartable
CHECK_DEADLOCK FALSE
