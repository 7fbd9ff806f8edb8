SPECIFICATION MCSpec
CONSTANTS
  Focus = {"batch", "plan", "live", "rollouts", "packets", "capabilities", "studies", "reports", "context", "witness", "retags"}
  None = None
  c1 = c1
  c2 = c2
  t1 = t1
  t2 = t2
  t3 = t3
  v1 = v1
  v2 = v2
  d1 = d1
  d2 = d2
  x = x
  y = y
  Dir <- TwoDirs
  Config <- TwoConfigs
  LastJob = 2
  MaxStarts = 3
  LastUnit = 3
  Path <- Paths
  Input <- AllInputs
  Carried <- TwoPackets
  LastRep = 1
  MaxVersions = 1
  Task = {"s", "t"}
  Child = {"p", "q"}
  MaxSpawns = 2
  MaxWaits = 2
  MaxFinals = 2
  Capability = {"c", "d"}
  Implementation = {"i", "j"}
  EventList <- EventLists
  MaxTransitions = 4
  MaxRewrites = 1
  Experiment = {"x", "y"}
  Hypothesis = {"h"}
  EvidenceId = {"v"}
  MaxPlans = 1
  MaxResults = 2
  Hypotheses <- HypothesisReports
  Issues <- IssueReports
  Passes <- PassReports
  MaxReports = 3
  ItemId = {"a", "b", "c", "other"}
  Character = {"k", "w", " "}
  Query = {"k"}
  Blank = {" "}
  Offers <- Offerings
  Budgets <- SmallBudgets
  Processings <- OtherProcessors
  Answers <- OtherSelectors
  MaxProcessors = 1
  MaxMarks = 2
  PacketName = {"a", "b", "c", "d."}
  FileName = {"x", "y"}
  PacketPlans <- MarkdownPlans
  Surfaces = {"code", "tests"}
  Commit <- TwoCommits
  Tree <- ThreeTrees
  Tag <- TwoTags
  Checkouts <- CheckoutsOf
  Version <- Versions
  Offline = 1
  Live = 1
  MaxMoves = 2
  MaxTags = 1
  MaxReceipts = 1
CHECK_DEADLOCK FALSE
INVARIANTS JobCalledOnce BundleIsEarned   TelemetryIsBound   ReleaseIsWitnessed
