SPECIFICATION FairSpec
CONSTANTS
  k1 = k1
  k2 = k2
  k3 = k3
  c1 = c1
  q1 = q1
  q2 = q2
  e1 = e1
  e2 = e2
  s1 = s1
  s2 = s2
  Creds = {k1, k2}
  InitialKeys = {k1}
  InitialClients = {}
  Sessions = {s1}
  NewSessions = {}
  Requests = {q1}
  Evictions = {e1, e2}
  MaxPasses = 2
  MaxRotations = 1
  MaxTime = 1
  None = None
PROPERTIES
  EvictionEnds
CHECK_DEADLOCK FALSE
