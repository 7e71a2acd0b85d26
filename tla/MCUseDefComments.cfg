SPECIFICATION MCSpec
CONSTANTS
  Modules <- OneTest
  MaxDepth = 60
  Rounds = 20
  MaxCalls = 6
INVARIANT AsCommented
CHECK_DEADLOCK FALSE
