SPECIFICATION KeySpec
CONSTANTS
  Wide = Wide
  Never = Never
  KeyScenes <- MCStillborn
INVARIANT RevokedStaysRevoked
CHECK_DEADLOCK FALSE
