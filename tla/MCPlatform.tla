----------------------------- MODULE MCPlatform -----------------------------
(***************************************************************************)
(* What users, applications, agents and administrators do to the platform: *)
(* its parts that share no state with each other, in one model.  A         *)
(* behaviour exercises one part, chosen in the initial state; the others   *)
(* stay in one initial state of theirs.  As no action of a part reads a    *)
(* variable of another, the interleavings of two parts would show nothing  *)
(* that each part alone does not.                                          *)
(***************************************************************************)
EXTENDS SignUp, Organizations, SsoHandoff, McpAgents, AdminLists, UserGrid, TLC

CONSTANTS acme, globex, hired, crm, alpha, beta, left, right, bot1, bot2,
          one, two  \* requests, tabs, handoffs or approvals

VARIABLE part  \* the part whose steps this behaviour has

platformVars == <<signUpVars, orgVars, ssoVars, mcpVars, listVars, gridVars, part>>

Parts == {"accounts", "organizations", "sso", "mcp", "lists", "grid"}
-----------------------------------------------------------------------------
InvitedTo == [i \in Invites |-> acme]

(* Every list under at most one filter, exported or walked as a catalog:     *)
(* rows of acme, of globex and of no organization, one yet to be created, with     *)
(* equal and null sort keys.                                                 *)
RowOwners == [r \in Rows |-> CASE r = 2 -> {globex} [] r = 3 -> {} [] OTHER -> {acme}]

Query == [resource : Resources, scope : {"all", "none", acme}, q : BOOLEAN, column : {{}, {"on"}, {"bogus"}},
          org : {{}, {acme}, {"global"}}, kinds : {{}, {"org"}}, permission : BOOLEAN,
          ascending : BOOLEAN, nullable : BOOLEAN, reader : {"export", "walk"}]

Filters(v) == {f \in {"q", "column", "org", "kinds", "permission"} :
  CASE f = "q" -> v.q [] f = "column" -> v.column # {} [] f = "org" -> v.org # {}
    [] f = "kinds" -> v.kinds # {} [] f = "permission" -> v.permission}

Offered == {v \in Query :
  /\ Cardinality(Filters(v)) <= 1
  /\ (v.kinds # {} \/ v.permission) => v.resource = "roles"
  /\ v.org # {} => v.resource \in {"audit", "roles", "memberships", "enterprise-apps"}
  /\ v.column # {} => v.resource \notin {"roles", "permissions"}
  /\ v.reader = "walk" => v.resource \in {"roles", "permissions", "memberships"} /\ ~v.q /\ v.scope # "none"
  /\ v.nullable => \/ v.resource \in {"users", "audit", "memberships"}
                   \/ v.resource = "permissions" /\ v.reader = "walk"}

Row(k, c) == [key |-> k, column |-> c]
Tables == {<<Row(2, "on"), Row(3, "on"), Row(2, "off"), Row(3, "on"), Unborn>>,
           <<Row(3, "on"), Row(Null, "on"), Row(3, "on"), Row(Null, "off"), Unborn>>}

FirstView == [resource |-> "users", scope |-> "all", q |-> FALSE, column |-> {}, org |-> {},
              kinds |-> {}, permission |-> FALSE, ascending |-> TRUE, nullable |-> FALSE,
              reader |-> "export"]
-----------------------------------------------------------------------------
(* A part that is not the one exercised is left in one initial state. *)
PlatformInit ==
  /\ part \in Parts
  /\ SignUpInit
  /\ part # "accounts" => account = "none" /\ ban = "none" /\ invite = [i \in Invites |-> "none"]
  /\ OrganizationsInit
  /\ part # "organizations" =>
       orgs = [o \in Organizations |-> IF o = acme THEN [name |-> "x", isDefault |-> TRUE] ELSE NoRecord]
  /\ SsoInit
  /\ part # "sso" => app = [a \in Apps |-> "available"]
  /\ McpInit
  /\ part # "mcp" => mode = "open"
  /\ ListsInit
  /\ part # "lists" => view = FirstView
  /\ GridInit

SignUpStep ==
  /\ part = "accounts" /\ SignUpNext
  /\ UNCHANGED <<orgVars, ssoVars, mcpVars, listVars, gridVars, part>>

OrganizationsStep ==
  /\ part = "organizations" /\ OrganizationsNext
  /\ UNCHANGED <<signUpVars, ssoVars, mcpVars, listVars, gridVars, part>>

SsoStep ==
  /\ part = "sso" /\ SsoNext
  /\ UNCHANGED <<signUpVars, orgVars, mcpVars, listVars, gridVars, part>>

McpStep ==
  /\ part = "mcp" /\ McpNext
  /\ UNCHANGED <<signUpVars, orgVars, ssoVars, listVars, gridVars, part>>

ListsStep ==
  /\ part = "lists" /\ ListsNext
  /\ UNCHANGED <<signUpVars, orgVars, ssoVars, mcpVars, gridVars, part>>

GridStep ==
  /\ part = "grid" /\ GridNext
  /\ UNCHANGED <<signUpVars, orgVars, ssoVars, mcpVars, listVars, part>>

PlatformNext == SignUpStep \/ OrganizationsStep \/ SsoStep \/ McpStep \/ ListsStep \/ GridStep

PlatformSpec == PlatformInit /\ [][PlatformNext]_platformVars

(* The state of the part exercised keeps its type; the others do not move. *)
PlatformTypeOK ==
  CASE part = "accounts" -> SignUpTypeOK
    [] part = "organizations" -> OrganizationsTypeOK
    [] part = "sso" -> SsoTypeOK
    [] part = "mcp" -> McpTypeOK
    [] part = "lists" -> ListsTypeOK
    [] part = "grid" -> GridTypeOK

(* The two of anything are interchangeable. *)
Symmetry == Permutations({one, two})
=============================================================================
