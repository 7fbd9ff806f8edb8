SPECIFICATION Spec
CONSTANTS
  s1 = s1
  c1 = c1
  d1 = d1
  Session <- OneSession
  Client <- OneClient
  Digest <- OneDigest
  KeepLast = 0
  MaxCommands = 2
  Collector = Collector
  None = None
  Absent = Absent
CHECK_DEADLOCK FALSE
PROPERTY RecentCompletionKept
