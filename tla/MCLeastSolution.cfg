SPECIFICATION Spec
CONSTANTS
  b1 = b1
  b2 = b2
  b3 = b3
  i1 = i1
  i2 = i2
  i3 = i3
  i4 = i4
  d = d
  arg = arg
  Block <- MCBlock
  Inst <- SmallInst
  Value <- SmallValue
  Functions <- SmallFunctions
  Addresses <- SmallAddresses
INVARIANTS
  SolvedWhenDone
  BelowAllSolutions
PROPERTIES
  ImplementsAbstract
CHECK_DEADLOCK FALSE
