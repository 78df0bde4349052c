CONSTANTS
  a = a
  b = b
  r1 = r1
  r2 = r2
  r3 = r3
  Deployments = {a, b}
  Requests = {r1, r2, r3}
  house = house
  Memory <- MCMemory
  Pool = 1
  max_activations_per_hour = 2
  activation_min_demand = 2
  MAX_QUEUED_PER_CAPABILITY = 2
  MaxRounds = 1
  Scenes <- MCScenes
SPECIFICATION FairSpec
INVARIANTS BooksAgree
PROPERTIES AllLetGo
CHECK_DEADLOCK FALSE
