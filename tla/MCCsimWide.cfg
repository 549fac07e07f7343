CONSTANTS
  param_s = 2
  param_b = 2
  UintBits = 3
  Addr <- WideBytes
  paramE = 1
  Null = Null
  MaxAccesses = 3
SPECIFICATION HSpec
PROPERTY ImplementsLRU
