CONSTANTS
  MAXJOBS = 3
  MAXJID = 8
  Pids = {1, 2, 3, 4}
  NoPid <- NoProcess
  MAXLINE = 9
  MAXARGS = 3
  INT_MAX = 3
  LONG_MAX = 31
  MaxTyped = 4
  Inputs <- SomeInputs
  Lists <- SomeLists
SPECIFICATION Spec
INVARIANTS
  TypeOK
  WholeLinesAreEvaluated
  ArgumentsAreTheWords
  ShortLinesAreSafe
PROPERTY ArgumentSelectsItsJob
