SPECIFICATION Spec
CONSTANTS
  c1 = c1
  r1 = r1
  r2 = r2
  s1 = s1
  s2 = s2
  ana = ana
  Ana = Ana
  bo = bo
  test = test
  other = other
  None = None
  Criterion <- OneCriterion
  Runner <- OneRunner
  Source <- TwoSources
  Command <- TwoCommands
  Agent <- Pair
  Fold <- PairFold
  MaxAttempts = 1
  Altered = FALSE
SYMMETRY Symmetry
PROPERTIES
  RedBindsDefectiveSource
