CONSTANTS
  param_s = 1
  param_b = 1
  UintBits = 3
  Addr <- FirstBytes
  paramE = 2
  Null = Null
  MaxAccesses = 3
SPECIFICATION HSpec
INVARIANT ReleasesWhatWasAllocated
