CONSTANTS
  W = 32
  M = 23
  TEST_RANGE = 1
  Rand <- RandWords
  MayLoop = {"isTmax", "floatScale2"}
  OptNames <- GivenNames
  OptRatings <- GivenRatings
  OptValues <- GivenValues
  Ints <- SomeInts
  Floats <- SomeFloats
  MaxOptions = 2
  MaxExpiries = 1
SPECIFICATION FairSpec
INVARIANTS
  TypeOK
  PointsAreEarned
  IntegerMarksAreRight
  FloatMarksAreWrongWhereKnown
PROPERTIES
  TestsEnd
  ErrorsAreOfTheAlarm
