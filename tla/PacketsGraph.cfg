SPECIFICATION Spec
CONSTANTS
  p1 = p1
  p2 = p2
  p3 = p3
  r1 = r1
  r2 = r2
  v1 = v1
  v2 = v2
  k1 = k1
  k2 = k2
  ana = ana
  bo = bo
  None = None
  Packet <- ThreePackets
  Check <- OneCheck
  Agent <- OneAgent
  Runner <- OneRunner
  Content <- OneContent
  MaxAttempts = 2
SYMMETRY PacketSymmetry
INVARIANTS
  BuiltOnCompleted
  CompleteSessionIsDone
  FrontierFindsDescendants
CHECK_DEADLOCK FALSE
