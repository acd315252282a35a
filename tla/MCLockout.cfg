SPECIFICATION Spec
CONSTANTS
  a = a
  b = b
  o1 = o1
  o2 = o2
  admin = admin
  owner = owner
  Users = {a, b}
  Orgs = {o1, o2}
  Roles = {admin}
  Requests = {q1, q2, q3}
  Kinds = {"ban", "org_update"}
  InitialGrants <- SameOrganization
  Exclusive = TRUE
  NoBan = NoBan
INVARIANTS
  NeverLockedOut
CHECK_DEADLOCK FALSE
