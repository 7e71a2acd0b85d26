SPECIFICATION MCSpec
CONSTANTS
  Modules <- OneLine
  MaxDepth = 40
  Rounds = 20
  MaxCalls = 4
INVARIANT LinesUnique
CHECK_DEADLOCK FALSE
