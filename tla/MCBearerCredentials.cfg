SPECIFICATION Spec
CONSTANTS
  k1 = k1
  k2 = k2
  k3 = k3
  c1 = c1
  q1 = q1
  q2 = q2
  e1 = e1
  e2 = e2
  s1 = s1
  s2 = s2
  Creds = {k1, k2, k3, c1}
  InitialKeys = {k1}
  InitialClients = {c1}
  Sessions = {s1, s2}
  NewSessions = {s2}
  Requests = {q1, q2}
  Evictions = {e1}
  MaxPasses = 2
  MaxRotations = 1
  MaxTime = 0
  None = None
SYMMETRY Interchangeable
INVARIANTS
  TypeOK
  NoOldCredentialSurvives
  OneSuccessor
CHECK_DEADLOCK FALSE
