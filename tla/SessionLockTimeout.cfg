SPECIFICATION Spec
CONSTANTS
  p1 = p1
  p2 = p2
  p3 = p3
  t1 = t1
  t2 = t2
  t3 = t3
  t4 = t4
  Absent = Absent
  Torn = Torn
  None = None
  Pid <- ThreePids
  Token <- FourTokens
  MaxBirth = 1
  Unreadable = FALSE
  Hidden = FALSE
PROPERTIES
  TimeoutMeansLiveOwner
CHECK_DEADLOCK FALSE
