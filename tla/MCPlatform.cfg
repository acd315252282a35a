SPECIFICATION PlatformSpec
CONSTANTS
  one = one
  two = two
  alpha = alpha
  beta = beta
  left = left
  right = right

  acme = acme
  globex = globex
  Orgs = {acme, globex}
  Requests = {one, two}
  AdminBans = {"timed"}
  Decisions = {"active", "suspended"}
  Edits = {"active", "blocked"}
  MaxCalls = 3
  MaxEdits = 1
  hired = hired
  Invites = {hired}
  OrgOf <- InvitedTo
  AutoOrgs = {acme}
  NoInvite = NoInvite

  Organizations = {acme, globex}
  Names = {"x", "y"}
  Forms = {one, two}
  NoRecord = NoRecord
  MaxSaves = 4

  crm = crm
  Apps = {crm}
  Tickets = {one, two}
  Consumers = {alpha, beta}
  Sweepers = {left, right}
  NoApp = NoApp
  NoTicket = NoTicket
  MaxStatus = 3

  bot1 = bot1
  bot2 = bot2
  Agents = {bot1, bot2}
  Approvers = {one, two}
  NoAgent = NoAgent
  Quota = 1

  Rows = {1, 2, 3, 4, 5}
  SortValues = {2, 3}
  Null = Null
  Owner <- RowOwners
  Hits = {1, 3, 4, 5}
  JoinHits = {2}
  Holding = {1, 4}
  Views <- Offered
  Seeds <- Tables
  PAGE_SIZE = 2
  MAX_EXPORT_ROWS = 4
  WalkPage = 2
  CATALOG_MAX_ITEMS = 5
  MAX_WALKS = 2
  MaxWrites = 2
  Unborn = Unborn
  Gone = Gone

  GridUsers = {1, 2, 3}
  Self = 1
  SignedUp = {2, 3}
  SearchHits = {1, 2}
  GridPage = 1
  MAX_BULK_IDS = 2
  MaxGridMoves = 2
  MaxBatches = 1
  MaxOthers = 1
SYMMETRY Symmetry
INVARIANTS
  PlatformTypeOK
  NoStrandedMembership
  BanIsAdministrators
  ErasedStaysDeleted
  HeldForApprover
  OneDefaultOrganization
  SavedAsShown
  SweptAppSignedOut
  QuotaHeld
  AgentStandsWhole
  ExportIsTheView
  CatalogWhole
  ActsOnWhatWasChosen
PROPERTIES
  OnlyAdministratorsLift
  InvitationsAreOneShot
  HandoffsAreOneShot
CHECK_DEADLOCK FALSE
