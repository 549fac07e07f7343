CONSTANTS
  param_s = 1
  param_b = 1
  UintBits = 3
  Addr <- FirstBytes
  paramE = 3
  Null = Null
  MaxAccesses = 6
SPECIFICATION HSpec
INVARIANTS
  TypeOK
  ListsWellFormed
  CountersBalance
  ModifyEndsInHit
  LinesAreFreed
  ListIsRecency
PROPERTY ImplementsLRU
