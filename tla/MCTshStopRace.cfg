CONSTANTS
  p1 = p1
  p2 = p2
  Pids = {p1, p2}
  NoPid = NoPid
  MAXJOBS = 2
  MAXJID = 8
  JidCap = 2
SPECIFICATION Spec
INVARIANT ListedStopsAreReal
