SPECIFICATION FairSpec
CONSTANTS
  b1 = b1
  b2 = b2
  b3 = b3
  i1 = i1
  i2 = i2
  i3 = i3
  i4 = i4
  d = d
  arg = arg
  Block <- MCBlock
  Inst <- MCInst
  Value <- MCValue
  Functions <- AllFunctions
  Addresses <- MCAddresses
INVARIANTS
  IInv
  ExactByPaths
PROPERTIES
  Monotone
  Advances
  Terminates
CHECK_DEADLOCK FALSE
