SPECIFICATION FairSpec
CONSTANTS
  ByteBase = 256
  CharSize = 1
  IntSize = 2
  PtrSize = 3
  WordBits = 16
  Programs <- MCPrograms
  Decl <- MCDecl
  FnName <- MCFnName
  Arena = {64, 96, 128, 160}
  ArenaEnd = 192
  Junk = {201}
  MayFail = {FALSE}
INVARIANTS
  TypeOK
  RunsLikeC
  FramesMatchCalls
  HeapAccounted
  OperandsBound
PROPERTIES
  CallerFramesUntouched
  Terminates
CHECK_DEADLOCK FALSE
