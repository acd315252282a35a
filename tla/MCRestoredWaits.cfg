SPECIFICATION SignUpSpec
CONSTANTS
  o1 = o1
  o2 = o2
  r1 = r1
  r2 = r2
  i1 = i1
  Orgs = {o1}
  Requests = {r1, r2}
  AdminBans = {"timed"}
  Decisions = {"active", "suspended"}
  Edits = {"active", "blocked"}
  MaxCalls = 4
  MaxEdits = 0
  Invites = {}
  OrgOf <- InvitedTo
  AutoOrgs = {o1}
  NoInvite = NoInvite
SYMMETRY Interchangeable
INVARIANT RestoredWaitsForApprover
CHECK_DEADLOCK FALSE
