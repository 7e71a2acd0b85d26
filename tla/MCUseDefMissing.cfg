SPECIFICATION MCSpec
CONSTANTS
  Modules <- Missing
  MaxDepth = 40
  Rounds = 20
  MaxCalls = 4
INVARIANT Sound
CHECK_DEADLOCK FALSE
