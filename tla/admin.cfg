SPECIFICATION PartSpec
CONSTANTS
  Callers = {"ann", "bob", "ci"}
  KeyCallers = {"ci"}
  PrincipalOf <- MCPrincipalOf
  AccountableOf <- MCAccountableOf
  Bound <- MCBound
  Placed <- MCPlaced
  Broken = {"typo"}
  Subject = {"file", "wider"}
  File = "file"
  None = None
  Star = Star
  history_limit = 2
  capacity = 2
  Scenes <- MCScenes
  Wide = Wide
  Never = Never
  KeyScenes <- MCKeyScenes
  Attempts = {a1, a2, a3}
  MAX_PASSWORD_FAILURES = 1
  PASSWORD_LOCKOUT_WINDOW_MILLIS = 1
  MAX_CONCURRENT_PASSWORD_CHECKS = 1
  MAX_ANONYMOUS_AUDITS_PER_WINDOW = 1
  ANONYMOUS_AUDIT_WINDOW_MILLIS = 1
  MaxFailed = 3
  MaxClock = 2
  Mixes <- MCMixes
SYMMETRY Alike
INVARIANTS NumberedAndRecorded ActsOnCurrentRoles  
CHECK_DEADLOCK FALSE
