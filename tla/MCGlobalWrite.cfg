SPECIFICATION FairSpec
CONSTANTS
  ByteBase = 256
  CharSize = 1
  IntSize = 2
  PtrSize = 3
  WordBits = 16
  Programs <- GlobalPrograms
  Decl <- MCDecl
  FnName <- MCFnName
  Arena = {64, 96, 128}
  ArenaEnd = 160
  Junk = {0, 201}
  MayFail = {FALSE}
INVARIANT RunsLikeC
CHECK_DEADLOCK FALSE
