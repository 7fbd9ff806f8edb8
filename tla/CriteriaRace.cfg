SPECIFICATION Spec
CONSTANTS
  c1 = c1
  r1 = r1
  r2 = r2
  s1 = s1
  s2 = s2
  ana = ana
  Ana = Ana
  bo = bo
  test = test
  other = other
  None = None
  Criterion <- OneCriterion
  Runner <- TwoRunners
  Source <- TwoSources
  Command <- TwoCommands
  Agent <- Spellings
  Fold <- CaseFold
  MaxAttempts = 2
  Altered = TRUE
SYMMETRY SpellingSymmetry
INVARIANTS
  
  ReceiptIsOfThisAttempt
  
  StatusMatchesGate
PROPERTIES
  CompletedIsFrozen
  EvidenceWrittenOnce
