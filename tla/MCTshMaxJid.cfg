CONSTANTS
  p1 = p1
  p2 = p2
  Pids = {p1, p2}
  NoPid = NoPid
  MAXJOBS = 2
  MAXJID = 2
  JidCap = 3
SPECIFICATION Spec
INVARIANT JidsStayBelowMax
