SPECIFICATION FairSpec
CONSTANTS
  p1 = p1
  p2 = p2
  p3 = p3
  r1 = r1
  r2 = r2
  v1 = v1
  v2 = v2
  k1 = k1
  k2 = k2
  ana = ana
  bo = bo
  None = None
  Packet <- OnePacket
  Check <- TwoChecks
  Agent <- TwoAgents
  Runner <- TwoRunners
  Content <- TwoContents
  MaxAttempts = 2
INVARIANTS
  
  OneProcessPerCheck
PROPERTIES
  CheckEnds
