CONSTANTS
  W = 32
  M = 23
  TEST_RANGE = 2
  Rand <- RandWords
  MayLoop = {}
  OptNames = {}
  OptRatings = {}
  OptValues = {}
  Ints <- SomeInts
  Floats <- SomeFloats
  MaxOptions = 0
  MaxExpiries = 0
SPECIFICATION Spec
INVARIANT FullMarksMeanCorrect
