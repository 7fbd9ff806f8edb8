SPECIFICATION MCSpec
CONSTANTS
  Focus = {"storage", "evidence", "deltas", "bundles"}
  s1 = s1
  s2 = s2
  c1 = c1
  d1 = d1
  Session <- TwoSessions
  Client <- OneClient
  Digest <- OneDigest
  KeepLast = 1
  MaxCommands = 2
  Ttl = 1
  MaxNow = 2
  MaxDocs = 3
  MaxRuns = 2
  MaxAttempts = 2
  LastKey = 3
  Depth = 3
  Documents <- ThreeDeep
  Interval = 3
  RetainEvents = 1
  MaxSeq = 3
  MaxBundles = 2
  Collector = Collector
  None = None
  Absent = Absent
SYMMETRY Symmetry
CHECK_DEADLOCK FALSE
INVARIANTS LockedInPlace  EvidenceHolds HistoryRestores
PROPERTIES ActiveKept
