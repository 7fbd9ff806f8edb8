SPECIFICATION MCSpec
CONSTANTS
  Focus = {"edits", "evaluation", "writing", "retrieval", "install"}
  h1 = h1
  h2 = h2
  ana = ana
  bo = bo
  a = a
  b = b
  c1 = c1
  c2 = c2
  v1 = v1
  v2 = v2
  Hook <- TwoHooks
  Agent <- TwoAgents
  Source <- TwoSources
  MaxEdits = 2
  MaxChanges = 3
  None = None
  FireTrials = 2
  QuietTrials = 1
  Forbidding = {2}
  Workers = 2
  Scripts <- HostSessions
  BlockTrials = 1
  MaxAttempts = 2
  Margin = 9
  Floor = 5
  MaxFalse = 5
  Commit <- TwoReleases
  Version <- ReleaseVersions
  MaxRuns = 2
  Writer = {1, 2}
  Memory <- MemoryRecords
  Scope = "p"
  Limits = {1, 2}
  MaxWrites = 3
  MaxNow = 1
SYMMETRY Symmetry
CHECK_DEADLOCK FALSE
INVARIANTS
  ChainHolds ActivationIsMeasured MemoryHolds InstallIsTransaction

  
