SPECIFICATION Spec
CONSTANTS
  a = a
  b = b
  o1 = o1
  o2 = o2
  admin = admin
  owner = owner
  Users = {a, b}
  Orgs = {o1, o2}
  Roles = {admin, owner}
  Requests = {q1, q2, q3}
  Kinds <- AllKinds
  InitialGrants <- TwoSuperadmins
  Exclusive = TRUE
  NoBan = NoBan
SYMMETRY Symmetry
INVARIANTS
  TypeOK
  CountedGrantsStay
  NoUnverifiedBanLeft
  ASuperadminSurvives
CHECK_DEADLOCK FALSE
