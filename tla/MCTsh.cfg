CONSTANTS
  p1 = p1
  p2 = p2
  Pids = {p1, p2}
  NoPid = NoPid
  MAXJOBS = 2
  MAXJID = 8
  JidCap = 3
SYMMETRY Symmetry
SPECIFICATION Spec
INVARIANTS
  TypeOK
  ForegroundIsAwaited
  JobsTrackChildren
  NoNoticeIsLost
  StopIsRecorded
  JidsDistinct
  NothingLeftBlocked
  NoNullJob
  IInv
PROPERTIES
  KeyboardOnlyForeground
  WaitsForForeground
  ImplementsJobControl
