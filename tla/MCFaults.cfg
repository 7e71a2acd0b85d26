SPECIFICATION FairSpec
CONSTANTS
  ByteBase = 256
  CharSize = 1
  IntSize = 2
  PtrSize = 3
  WordBits = 16
  Programs <- MCFaultPrograms
  Decl <- MCDecl
  FnName <- MCFnName
  Arena = {64, 96, 128}
  ArenaEnd = 160
  Junk = {0, 201}
  MayFail = {TRUE, FALSE}
INVARIANTS
  NeverWrong
  HeapAccounted
  ExceptionsCaught
CHECK_DEADLOCK FALSE
