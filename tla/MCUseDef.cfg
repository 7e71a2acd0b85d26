SPECIFICATION MCSpec
CONSTANTS
  Modules <- MCModules
  MaxDepth = 60
  Rounds = 20
  MaxCalls = 6
INVARIANTS TypeOK VisitedIsTraced SelectedIsOpen TargetsFound NothingSpurious Sound
PROPERTIES ImplementsAbstract Terminates
CHECK_DEADLOCK FALSE
