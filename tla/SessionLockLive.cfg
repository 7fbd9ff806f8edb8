SPECIFICATION FairSpec
CONSTANTS
  p1 = p1
  p2 = p2
  p3 = p3
  t1 = t1
  t2 = t2
  t3 = t3
  t4 = t4
  Absent = Absent
  Torn = Torn
  None = None
  Pid <- TwoPids
  Token <- ThreeTokens
  MaxBirth = 2
  Unreadable = TRUE
  Hidden = TRUE
INVARIANTS
  MutualExclusion
  HolderOwnsFile
PROPERTIES
  
  CallsEnd
  AbandonedLockIsReclaimed
CHECK_DEADLOCK FALSE
