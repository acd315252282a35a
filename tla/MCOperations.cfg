SPECIFICATION OperationsSpec
CONSTANTS
  root = root
  admin = admin
  o1 = o1
  o2 = o2
  su = su
  manager = manager
  stray = stray
  copy = copy
  g1 = g1
  superuser = superuser
  administer = administer
  exporting = exporting
  one = one
  two = two
  Users = {root, admin}
  Orgs = {o1, o2}
  Roles = {su, manager, stray, copy}
  Groups = {g1}
  Keys = {superuser, administer, exporting}
  Superuser = superuser
  Administer = administer
  Global = Global
  RoleOrg <- Owners
  GroupOrg <- GroupOwners
  SeedRoles = {su, manager, stray}
  SeedPerms <- Seeded
  SeedAssigned <- Assigned
  Actors = {root, admin}
  Tasks = {one, two}
  MaxTasks = 3

  ann = ann
  bob = bob
  cy = cy
  borrowing = borrowing
  People = {ann, bob, cy}
  Tenants = {o1, o2}
  Borrows = {borrowing}
  Worlds <- Situations
  NoOne = NoOne
  MaxBorrowed = 2
  MaxChanges = 2

  Instances = {one, two}
  Capacity = 2
  Refill = 1
  Stale = 2
  Cooldown = 1
  MaxLead = 2
  MaxTime = 3
  MaxFaults = 2
  NoBucket = NoBucket

  earlier = earlier
  main = main
  branch = branch
  prod = prod
  scratch = scratch
  Commits = {earlier, main, branch}
  Main = {earlier, main}
  Files = {1, 2, 3, 4}
  Text <- Texts
  Folds <- FoldedInto
  FoldText <- Sections
  Databases = {prod, scratch}
  Production = prod
  Seed <- Ledgers
  Absent = Absent
  Unknown = Unknown
  Runs = {one, two}
  NoRun = NoRun
  NoCommit = NoCommit
  MaxRuns = 3
  MaxMoves = 2

  Operators = {one, two}
  Minutes = {1, 2}
  MaxLogins = 2
  MaxDeploys = 3
SYMMETRY Symmetry
INVARIANTS
  OperationsTypeOK
  NoEscalation
  NoDormantGrant
  BorrowedSessionsBounded
  FloorHeld
  ServedSchemaIsThere
  ServedLoginStands
PROPERTIES
  BoundedRevocation
CHECK_DEADLOCK FALSE
