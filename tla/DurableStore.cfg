SPECIFICATION Spec
CONSTANTS
  v1 = v1
  v2 = v2
  r1 = r1
  NoFile = NoFile
  Unreadable = Unreadable
  Nothing = Nothing
  Broken = Broken
  Conflict = Conflict
  NoSession = NoSession
  Val <- TwoValues
  Reader <- OneReader
  Interval = 3
  MaxEvents = 2
  MaxRetained = 2
  MaxSeq = 3
SYMMETRY Symmetry
INVARIANTS
  SessionLoads
  LedgerLeads
  UnlockedReadsAreCurrent
PROPERTIES
  SaveSettles
  ImplementsDurableSession
