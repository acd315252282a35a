------------------------------- MODULE Console -------------------------------
(***************************************************************************)
(* Who holds which permission in which organization, as the administrator  *)
(* console edits it: roles and their permissions, role assignments, groups *)
(* with their roles and members, memberships and the permission catalogue. *)
(*                                                                         *)
(* A route reads its caller's access and what the edit would confer or     *)
(* take away, on the pool, and writes afterwards in a statement or a       *)
(* transaction of its own; nothing is held in between, so other requests   *)
(* run there.  Checks that a route makes inside its transaction are        *)
(* conjuncts of the writing action.  A refusal, an error or a crash ends   *)
(* a request without effect at either point.                               *)
(*                                                                         *)
(* Callers are browser sessions: a bearer credential's scopes only narrow  *)
(* what its caller holds.  One key, Administer, stands for the permissions *)
(* that admit a caller to the routes.  REVOKE-2 is in LastSuperadmin.      *)
(***************************************************************************)
EXTENDS Naturals, FiniteSets

CONSTANTS Users, Orgs, Roles, Groups, Keys,
          Superuser, Administer,    \* two of the keys
          Global,                   \* owner of the roles of no organization
          RoleOrg, GroupOrg,        \* owners of roles and groups
          SeedRoles, SeedPerms,     \* roles there are at first, and what they grant
          SeedAssigned,             \* role assignments there are at first
          Actors,                   \* users who call the routes
          Tasks,                    \* requests that can be in flight at once
          MaxTasks                  \* bound: requests made

ASSUME ConsoleAssumption ==
  /\ {Superuser, Administer} \subseteq Keys
  /\ RoleOrg \in [Roles -> Orgs \cup {Global}] /\ Global \notin Orgs
  /\ GroupOrg \in [Groups -> Orgs]
  /\ SeedRoles \subseteq Roles /\ SeedPerms \in [Roles -> SUBSET Keys]
  /\ SeedAssigned \subseteq {x \in Users \X Orgs \X SeedRoles : RoleOrg[x[3]] \in {x[2], Global}}
  /\ Actors \subseteq Users
  /\ MaxTasks \in Nat

VARIABLES
  catalogue,    \* app_permissions
  roles,        \* app_roles
  perms,        \* app_role_permissions, by role
  assigned,     \* app_user_roles: user, organization, role
  groups,       \* app_groups
  groupRoles,   \* app_group_roles: group, role
  groupMembers, \* app_group_memberships: group, user
  joined,       \* app_organization_memberships: user, organization -> status
  task,         \* what each request is about to write
  tasks,        \* requests still to come (bound)
  vested,       \* keys each organization's members were given legitimately (history)
  late          \* users and organizations granted something after they had parted (history)

directory == <<catalogue, roles, perms, assigned, groups, groupRoles, groupMembers, joined>>
consoleVars == <<directory, task, tasks, vested, late>>

Operations == {"assign_role", "revoke_role", "create_role", "duplicate_role", "edit_permissions",
               "delete_role", "create_group", "delete_group", "edit_group_roles",
               "add_group_members", "remove_group_members", "add_membership", "set_memberships",
               "remove_memberships", "create_permission", "delete_permission"}

(* A request that is not under way. *)
Rest == [op |-> "rest", held |-> {}, arg |-> <<>>, parted |-> {}, outrun |-> FALSE, blessed |-> FALSE]

ConsoleTypeOK ==
  /\ catalogue \subseteq Keys /\ roles \subseteq Roles
  /\ perms \in [Roles -> SUBSET catalogue]
  /\ assigned \subseteq Users \X Orgs \X roles
  /\ groups \subseteq Groups
  /\ groupRoles \subseteq {x \in groups \X roles : RoleOrg[x[2]] = GroupOrg[x[1]]}
  /\ groupMembers \subseteq groups \X Users
  /\ joined \in [Users \X Orgs -> {"none", "active", "inactive"}]
  /\ tasks \in 0..MaxTasks
  /\ DOMAIN task = Tasks
  /\ \A t \in Tasks : /\ task[t].op \in Operations \cup {"rest"}
                     /\ task[t].held \subseteq Keys
  /\ vested \in [Orgs -> SUBSET Keys] /\ late \subseteq Users \X Orgs
-----------------------------------------------------------------------------
(* What a user is granted in an organization, directly and through groups,   *)
(* and what counts while the membership is active (permissionKeysHeldInOrg). *)

GrantedRoles(u, o) ==
  {r \in roles : \/ <<u, o, r>> \in assigned
                 \/ \E g \in groups : /\ GroupOrg[g] = o
                                      /\ <<g, r>> \in groupRoles /\ <<g, u>> \in groupMembers}

PermissionKeysForRoles(rs) == UNION {perms[r] : r \in rs}

PermissionKeysForGroup(g) == PermissionKeysForRoles({r \in roles : <<g, r>> \in groupRoles})

Granted(u, o) == PermissionKeysForRoles(GrantedRoles(u, o))

HeldInOrg(u, o) == IF joined[<<u, o>>] = "active" THEN Granted(u, o) ELSE {}

(* The superuser marker counts in every organization. *)
Held(u, o) == HeldInOrg(u, o) \cup
  (IF \E p \in Orgs : Superuser \in HeldInOrg(u, p) THEN {Superuser} ELSE {})

IsSuperadmin(held) == Superuser \in held

(* canAccessOrg, for a resource of org p and a caller acting in o. *)
CanAccessOrg(held, o, p) == IsSuperadmin(held) \/ p = o

(* The conferral bound (AUTHZ-3) and its mirror on removal (REVOKE-1). *)
Unheld(held, keys) == IF IsSuperadmin(held) THEN {} ELSE keys \ held

(* targetOutranksActor *)
Outranks(u, held, o) ==
  /\ ~IsSuperadmin(held)
  /\ \/ \E p \in Orgs : Superuser \in HeldInOrg(u, p)
     \/ ~(Held(u, o) \subseteq held)

ConsoleInit ==
  /\ catalogue = Keys /\ roles = SeedRoles
  /\ perms = [r \in Roles |-> IF r \in SeedRoles THEN SeedPerms[r] ELSE {}]
  /\ assigned = SeedAssigned
  /\ groups \in SUBSET Groups /\ groupRoles = {}
  /\ joined = [x \in Users \X Orgs |->
                 IF \E a \in SeedAssigned : a[1] = x[1] /\ a[2] = x[2] THEN "active" ELSE "none"]
  /\ groupMembers \in SUBSET {x \in groups \X Users : joined[<<x[2], GroupOrg[x[1]]>>] = "active"}
  /\ task = [t \in Tasks |-> Rest]
  /\ tasks = MaxTasks
  /\ vested = [o \in Orgs |-> UNION {Granted(u, o) : u \in Users}]
  /\ late = {}
-----------------------------------------------------------------------------
(* Requests *)

(* requireAdminPermission, for a caller holding these keys. *)
Admitted(held) == Administer \in held \/ IsSuperadmin(held)

(* The reads of the route pass: the request goes on to write. *)
Checked(t, held, op, arg) ==
  /\ task' = [task EXCEPT ![t] = [op |-> op, held |-> held, arg |-> arg,
                                  parted |-> {}, outrun |-> FALSE, blessed |-> FALSE]]
  /\ tasks' = tasks - 1
  /\ UNCHANGED <<directory, vested, late>>

(* The write.  What the others have read is out of date from now on.  A      *)
(* superadmin's word makes legitimate what it grants, and what the requests  *)
(* that it overtakes, and those that they overtake, go on to grant.          *)
Written(t) ==
  LET sovereign == IsSuperadmin(task[t].held) \/ task[t].blessed
  IN /\ task' = [s \in Tasks |->
                   CASE s = t -> Rest
                     [] s # t /\ task[s] = Rest -> Rest
                     [] OTHER -> [task[s] EXCEPT !.outrun = TRUE, !.blessed = @ \/ sovereign,
                                    !.parted = @ \cup {x \in Users \X Orgs : joined'[x] = "none"}]]
     /\ vested' = IF sovereign
                    THEN [o \in Orgs |-> vested[o] \cup UNION {Granted(u, o)' : u \in Users}]
                    ELSE vested
     /\ UNCHANGED tasks

(* us are granted something in o, where they were members when the route looked. *)
Receives(t, us, o) == late' = late \cup ((us \X {o}) \cap task[t].parted)

(* A refusal inside the transaction, an error or a crash. *)
Ends(t) ==
  /\ task[t] # Rest
  /\ task' = [task EXCEPT ![t] = Rest]
  /\ UNCHANGED <<directory, tasks, vested, late>>
-----------------------------------------------------------------------------
(* Role assignments: users/[id]/app-roles *)

AssignRoleCheck(t, held, o) ==
  \E u \in Users, p \in Orgs, r \in roles :
    /\ CanAccessOrg(held, o, p) /\ CanAccessOrg(held, o, RoleOrg[r])
    /\ RoleOrg[r] \in {p, Global}
    /\ Unheld(held, perms[r]) = {}
    /\ joined[<<u, p>>] = "active"
    /\ Checked(t, held, "assign_role", <<u, p, r>>)

AssignRole(t) ==
  LET x == task[t].arg
  IN /\ task[t].op = "assign_role"
     /\ x[3] \in roles
     /\ assigned' = assigned \cup {x}
     /\ Receives(t, {x[1]}, x[2])
     /\ UNCHANGED <<catalogue, roles, perms, groups, groupRoles, groupMembers, joined>>
     /\ Written(t)

RevokeRoleCheck(t, held, o) ==
  \E x \in assigned :
    /\ CanAccessOrg(held, o, x[2]) /\ CanAccessOrg(held, o, RoleOrg[x[3]])
    /\ Unheld(held, perms[x[3]]) = {}
    /\ Checked(t, held, "revoke_role", x)

RevokeRole(t) ==
  /\ task[t].op = "revoke_role"
  /\ assigned' = assigned \ {task[t].arg}
  /\ UNCHANGED <<catalogue, roles, perms, groups, groupRoles, groupMembers, joined, late>>
  /\ Written(t)
-----------------------------------------------------------------------------
(* Roles and their permissions *)

CreateRoleCheck(t, held, o) ==
  \E r \in Roles \ roles :
    /\ CanAccessOrg(held, o, RoleOrg[r])
    /\ Checked(t, held, "create_role", r)

CreateRole(t) ==
  /\ task[t].op = "create_role"
  /\ task[t].arg \notin roles
  /\ roles' = roles \cup {task[t].arg}
  /\ UNCHANGED <<catalogue, perms, assigned, groups, groupRoles, groupMembers, joined, late>>
  /\ Written(t)

(* A copy belongs to the organization of its source. *)
DuplicateRoleCheck(t, held, o) ==
  \E r \in roles, new \in Roles \ roles :
    /\ RoleOrg[new] = RoleOrg[r] /\ CanAccessOrg(held, o, RoleOrg[r])
    /\ Unheld(held, perms[r]) = {}
    /\ Checked(t, held, "duplicate_role", <<r, new>>)

(* It copies what the source grants by now; a source deleted since has nothing. *)
DuplicateRole(t) ==
  LET r == task[t].arg[1]
      new == task[t].arg[2]
  IN /\ task[t].op = "duplicate_role"
     /\ new \notin roles
     /\ roles' = roles \cup {new}
     /\ perms' = [perms EXCEPT ![new] = perms[r]]
     /\ UNCHANGED <<catalogue, assigned, groups, groupRoles, groupMembers, joined, late>>
     /\ Written(t)

(* POST *)
GrantPermissionCheck(t, held, o) ==
  \E r \in roles, k \in catalogue :
    /\ CanAccessOrg(held, o, RoleOrg[r])
    /\ Unheld(held, {k}) = {}
    /\ Checked(t, held, "edit_permissions", <<r, {k}, {}>>)

(* DELETE *)
RevokePermissionCheck(t, held, o) ==
  \E r \in roles, k \in catalogue :
    /\ CanAccessOrg(held, o, RoleOrg[r])
    /\ Unheld(held, {k}) = {}
    /\ Checked(t, held, "edit_permissions", <<r, {}, {k}>>)

(* The editor's PATCH: both at once. *)
EditPermissionsCheck(t, held, o) ==
  \E r \in roles, add, remove \in catalogue :
    /\ add # remove
    /\ CanAccessOrg(held, o, RoleOrg[r])
    /\ Unheld(held, {add, remove}) = {}
    /\ Checked(t, held, "edit_permissions", <<r, {add}, {remove}>>)

EditPermissions(t) ==
  LET x == task[t].arg
  IN /\ task[t].op = "edit_permissions"
     /\ x[1] \in roles \/ x[2] = {}
     /\ x[2] \subseteq catalogue
     /\ perms' = [perms EXCEPT ![x[1]] = (@ \cup x[2]) \ x[3]]
     /\ UNCHANGED <<catalogue, roles, assigned, groups, groupRoles, groupMembers, joined, late>>
     /\ Written(t)

DeleteRoleCheck(t, held, o) ==
  \E r \in roles : /\ CanAccessOrg(held, o, RoleOrg[r])
                   /\ Checked(t, held, "delete_role", r)

(* assertRoleNotInUse, under the lock on the role. *)
RoleInUse(r) == (\E x \in assigned : x[3] = r) \/ \E x \in groupRoles : x[2] = r

DeleteRole(t) ==
  LET r == task[t].arg
  IN /\ task[t].op = "delete_role"
     /\ ~RoleInUse(r)
     /\ roles' = roles \ {r}
     /\ perms' = [perms EXCEPT ![r] = {}]
     /\ groupRoles' = {x \in groupRoles : x[2] # r}
     /\ UNCHANGED <<catalogue, assigned, groups, groupMembers, joined, late>>
     /\ Written(t)
-----------------------------------------------------------------------------
(* Groups *)

CreateGroupCheck(t, held, o) ==
  \E g \in Groups \ groups :
    /\ CanAccessOrg(held, o, GroupOrg[g])
    /\ Checked(t, held, "create_group", g)

CreateGroup(t) ==
  /\ task[t].op = "create_group"
  /\ groups' = groups \cup {task[t].arg}
  /\ UNCHANGED <<catalogue, roles, perms, assigned, groupRoles, groupMembers, joined, late>>
  /\ Written(t)

DeleteGroupCheck(t, held, o) ==
  \E g \in groups :
    /\ CanAccessOrg(held, o, GroupOrg[g])
    /\ Unheld(held, PermissionKeysForGroup(g)) = {}
    /\ Checked(t, held, "delete_group", g)

(* Its roles and members go with it. *)
DeleteGroup(t) ==
  LET g == task[t].arg
  IN /\ task[t].op = "delete_group"
     /\ groups' = groups \ {g}
     /\ groupRoles' = {x \in groupRoles : x[1] # g}
     /\ groupMembers' = {x \in groupMembers : x[1] # g}
     /\ UNCHANGED <<catalogue, roles, perms, assigned, joined, late>>
     /\ Written(t)

(* POST *)
GrantGroupRoleCheck(t, held, o) ==
  \E g \in groups, r \in roles :
    /\ CanAccessOrg(held, o, GroupOrg[g])
    /\ RoleOrg[r] = GroupOrg[g]
    /\ Unheld(held, perms[r]) = {}
    /\ Checked(t, held, "edit_group_roles", <<g, {r}, {}>>)

(* DELETE *)
RevokeGroupRoleCheck(t, held, o) ==
  \E g \in groups, r \in roles :
    /\ CanAccessOrg(held, o, GroupOrg[g])
    /\ Unheld(held, perms[r]) = {}
    /\ Checked(t, held, "edit_group_roles", <<g, {}, {r}>>)

(* Mutant: the role added is not measured. *)
EditGroupRolesCheck_Unbounded(t, held, o) ==
  \E g \in groups, add, remove \in roles :
    /\ add # remove /\ CanAccessOrg(held, o, GroupOrg[g])
    /\ RoleOrg[add] = GroupOrg[g]
    /\ Unheld(held, perms[remove]) = {}
    /\ Checked(t, held, "edit_group_roles", <<g, {add}, {remove}>>)

(* The editor's PATCH *)
EditGroupRolesCheck(t, held, o) ==
  \E g \in groups, add, remove \in roles :
    /\ add # remove /\ CanAccessOrg(held, o, GroupOrg[g])
    /\ RoleOrg[add] = GroupOrg[g]
    /\ Unheld(held, PermissionKeysForRoles({add, remove})) = {}
    /\ Checked(t, held, "edit_group_roles", <<g, {add}, {remove}>>)

EditGroupRoles(t) ==
  LET x == task[t].arg
  IN /\ task[t].op = "edit_group_roles"
     /\ x[2] # {} => x[1] \in groups /\ x[2] \subseteq roles
     /\ groupRoles' = (groupRoles \cup ({x[1]} \X x[2])) \ ({x[1]} \X x[3])
     /\ UNCHANGED <<catalogue, roles, perms, assigned, groups, groupMembers, joined, late>>
     /\ Written(t)

(* groups/[id]/members: of the users named, the ones who are members there. *)
AddGroupMembersCheck(t, held, o) ==
  \E g \in groups, us \in SUBSET Users :
    /\ CanAccessOrg(held, o, GroupOrg[g])
    /\ Unheld(held, PermissionKeysForGroup(g)) = {}
    /\ us # {} /\ \A u \in us : joined[<<u, GroupOrg[g]>>] = "active"
    /\ Checked(t, held, "add_group_members", <<g, us>>)

(* users/[id]/groups *)
JoinGroupCheck(t, held, o) ==
  \E g \in groups, u \in Users :
    /\ CanAccessOrg(held, o, GroupOrg[g])
    /\ Unheld(held, PermissionKeysForGroup(g)) = {}
    /\ joined[<<u, GroupOrg[g]>>] = "active"
    /\ Checked(t, held, "add_group_members", <<g, {u}>>)

AddGroupMembers(t) ==
  LET g == task[t].arg[1]
      us == task[t].arg[2]
  IN /\ task[t].op = "add_group_members"
     /\ g \in groups
     /\ groupMembers' = groupMembers \cup ({g} \X us)
     /\ Receives(t, us, GroupOrg[g])
     /\ UNCHANGED <<catalogue, roles, perms, assigned, groups, groupRoles, joined>>
     /\ Written(t)

(* groups/[id]/members *)
RemoveGroupMembersCheck(t, held, o) ==
  \E g \in groups, us \in SUBSET Users :
    /\ us # {} /\ CanAccessOrg(held, o, GroupOrg[g])
    /\ Unheld(held, PermissionKeysForGroup(g)) = {}
    /\ Checked(t, held, "remove_group_members", <<g, us>>)

(* users/[id]/groups *)
LeaveGroupCheck(t, held, o) ==
  \E g \in groups, u \in Users :
    /\ CanAccessOrg(held, o, GroupOrg[g])
    /\ Unheld(held, PermissionKeysForGroup(g)) = {}
    /\ Checked(t, held, "remove_group_members", <<g, {u}>>)

RemoveGroupMembers(t) ==
  /\ task[t].op = "remove_group_members"
  /\ groupMembers' = groupMembers \ ({task[t].arg[1]} \X task[t].arg[2])
  /\ UNCHANGED <<catalogue, roles, perms, assigned, groups, groupRoles, joined, late>>
  /\ Written(t)
-----------------------------------------------------------------------------
(* Memberships: users/[id]/memberships, of one user, and                     *)
(* organizations/[id]/members, of several at once                            *)

AddMembershipCheck(t, held, o) ==
  \E u \in Users, p \in Orgs, s \in {"active", "inactive"} :
    /\ CanAccessOrg(held, o, p)
    /\ joined[<<u, p>>] = "none"
    /\ Checked(t, held, "add_membership", <<u, p, s>>)

AddMembership(t) ==
  LET x == task[t].arg
  IN /\ task[t].op = "add_membership"
     /\ joined[<<x[1], x[2]>>] = "none"
     /\ joined' = [joined EXCEPT ![<<x[1], x[2]>>] = x[3]]
     /\ UNCHANGED <<catalogue, roles, perms, assigned, groups, groupRoles, groupMembers, late>>
     /\ Written(t)

SetMembershipCheck(t, held, o) ==
  \E u \in Users, p \in Orgs, s \in {"active", "inactive"} :
    /\ CanAccessOrg(held, o, p)
    /\ joined[<<u, p>>] \notin {"none", s}
    /\ ~Outranks(u, held, o)
    /\ Checked(t, held, "set_memberships", <<{u}, p, s>>)

(* refuseOutrankedMembers: one member that outranks the caller refuses them all. *)
SetMembersCheck(t, held, o) ==
  \E us \in SUBSET Users, p \in Orgs, s \in {"active", "inactive"} :
    /\ us # {} /\ CanAccessOrg(held, o, p)
    /\ \A u \in us : joined[<<u, p>>] \notin {"none", s} /\ ~Outranks(u, held, o)
    /\ Checked(t, held, "set_memberships", <<us, p, s>>)

(* Those that are still there. *)
SetMemberships(t) ==
  LET x == task[t].arg
      there == {u \in x[1] : joined[<<u, x[2]>>] # "none"}
  IN /\ task[t].op = "set_memberships"
     /\ joined' = [y \in Users \X Orgs |-> IF y \in there \X {x[2]} THEN x[3] ELSE joined[y]]
     /\ UNCHANGED <<catalogue, roles, perms, assigned, groups, groupRoles, groupMembers, late>>
     /\ Written(t)

RemoveMembershipCheck(t, held, o) ==
  \E u \in Users, p \in Orgs :
    /\ CanAccessOrg(held, o, p)
    /\ joined[<<u, p>>] # "none"
    /\ ~Outranks(u, held, o)
    /\ Checked(t, held, "remove_memberships", <<{u}, p>>)

RemoveMembersCheck(t, held, o) ==
  \E us \in SUBSET Users, p \in Orgs :
    /\ us # {} /\ CanAccessOrg(held, o, p)
    /\ \A u \in us : joined[<<u, p>>] # "none" /\ ~Outranks(u, held, o)
    /\ Checked(t, held, "remove_memberships", <<us, p>>)

(* Mutant: the grants that go are not measured. *)
RemovalRefused_Never(t, us, o) == FALSE

(* REVOKE-1 on exactly the rows that the transaction deleted. *)
RemovalRefused(t, us, o) == \E u \in us : Unheld(task[t].held, Granted(u, o)) # {}

(* Mutant: the memberships of groups stay. *)
RemoveMemberships_GroupsStay(t) ==
  LET us == task[t].arg[1]
      o == task[t].arg[2]
  IN /\ task[t].op = "remove_memberships"
     /\ ~RemovalRefused(t, us, o)
     /\ assigned' = {x \in assigned : x[1] \notin us \/ x[2] # o}
     /\ joined' = [y \in Users \X Orgs |-> IF y \in us \X {o} THEN "none" ELSE joined[y]]
     /\ UNCHANGED <<catalogue, roles, perms, groups, groupRoles, groupMembers, late>>
     /\ Written(t)

(* F-12: the roles and group memberships held there go with the membership. *)
RemoveMemberships(t) ==
  LET us == task[t].arg[1]
      o == task[t].arg[2]
  IN /\ task[t].op = "remove_memberships"
     /\ ~RemovalRefused(t, us, o)
     /\ assigned' = {x \in assigned : x[1] \notin us \/ x[2] # o}
     /\ groupMembers' = {x \in groupMembers : x[2] \notin us \/ GroupOrg[x[1]] # o}
     /\ joined' = [y \in Users \X Orgs |-> IF y \in us \X {o} THEN "none" ELSE joined[y]]
     /\ UNCHANGED <<catalogue, roles, perms, groups, groupRoles, late>>
     /\ Written(t)
-----------------------------------------------------------------------------
(* The catalogue: superadmins only *)

CreatePermissionCheck(t, held, o) ==
  \E k \in Keys \ catalogue :
    /\ IsSuperadmin(held)
    /\ Checked(t, held, "create_permission", k)

CreatePermission(t) ==
  /\ task[t].op = "create_permission"
  /\ catalogue' = catalogue \cup {task[t].arg}
  /\ UNCHANGED <<roles, perms, assigned, groups, groupRoles, groupMembers, joined, late>>
  /\ Written(t)

DeletePermissionCheck(t, held, o) ==
  \E k \in catalogue :
    /\ IsSuperadmin(held)
    /\ Checked(t, held, "delete_permission", k)

(* assertPermissionNotInUse, under the lock on the permission. *)
DeletePermission(t) ==
  /\ task[t].op = "delete_permission"
  /\ \A r \in roles : task[t].arg \notin perms[r]
  /\ catalogue' = catalogue \ {task[t].arg}
  /\ UNCHANGED <<roles, perms, assigned, groups, groupRoles, groupMembers, joined, late>>
  /\ Written(t)
-----------------------------------------------------------------------------
Check(t, held, o) ==
  \/ AssignRoleCheck(t, held, o) \/ RevokeRoleCheck(t, held, o)
  \/ CreateRoleCheck(t, held, o) \/ DuplicateRoleCheck(t, held, o) \/ DeleteRoleCheck(t, held, o)
  \/ GrantPermissionCheck(t, held, o) \/ RevokePermissionCheck(t, held, o) \/ EditPermissionsCheck(t, held, o)
  \/ CreateGroupCheck(t, held, o) \/ DeleteGroupCheck(t, held, o)
  \/ GrantGroupRoleCheck(t, held, o) \/ RevokeGroupRoleCheck(t, held, o) \/ EditGroupRolesCheck(t, held, o)
  \/ AddGroupMembersCheck(t, held, o) \/ JoinGroupCheck(t, held, o)
  \/ RemoveGroupMembersCheck(t, held, o) \/ LeaveGroupCheck(t, held, o)
  \/ AddMembershipCheck(t, held, o)
  \/ SetMembershipCheck(t, held, o) \/ SetMembersCheck(t, held, o)
  \/ RemoveMembershipCheck(t, held, o) \/ RemoveMembersCheck(t, held, o)
  \/ CreatePermissionCheck(t, held, o) \/ DeletePermissionCheck(t, held, o)

Write(t) ==
  \/ AssignRole(t) \/ RevokeRole(t)
  \/ CreateRole(t) \/ DuplicateRole(t) \/ EditPermissions(t) \/ DeleteRole(t)
  \/ CreateGroup(t) \/ DeleteGroup(t) \/ EditGroupRoles(t)
  \/ AddGroupMembers(t) \/ RemoveGroupMembers(t)
  \/ AddMembership(t) \/ SetMemberships(t) \/ RemoveMemberships(t)
  \/ CreatePermission(t) \/ DeletePermission(t)

ConsoleNext ==
  \E t \in Tasks :
    \/ Write(t) \/ Ends(t)
    \/ /\ task[t] = Rest /\ tasks > 0
       /\ \E a \in Actors, o \in Orgs :
            LET held == Held(a, o) IN Admitted(held) /\ Check(t, held, o)

ConsoleSpec == ConsoleInit /\ [][ConsoleNext]_consoleVars
-----------------------------------------------------------------------------
(* Correctness *)

(* AUTHZ-3.  No sequence of edits, by any administrators in any order and    *)
(* however stale what they checked, lets the members of an organization be   *)
(* granted a permission that none of them had been granted before and no     *)
(* superadmin gave: roles, copies of roles, groups and memberships are no    *)
(* detour.                                                                   *)
NoEscalation == \A o \in Orgs, u \in Users : Granted(u, o) \subseteq vested[o]

HasGrant(u, o) ==
  \/ \E x \in assigned : x[1] = u /\ x[2] = o
  \/ \E x \in groupMembers : x[2] = u /\ GroupOrg[x[1]] = o

(* F-12.  Nobody keeps grants in an organization they are no member of,      *)
(* which would come back to life with a later membership: a removal takes    *)
(* them all, and only a grant that was checked before the removal and        *)
(* written after it stays behind.                                            *)
NoDormantGrant ==
  \A u \in Users, o \in Orgs :
    joined[<<u, o>>] = "none" /\ HasGrant(u, o) => <<u, o>> \in late

(* F-154.  "A role is granted only to an ACTIVE member of the assignment's   *)
(* org, the rule every grant path shares": what somebody is granted in an    *)
(* organization he got as its member, and F-12 takes it when he leaves.      *)
GrantedOnlyToMembers ==
  \A u \in Users, o \in Orgs : HasGrant(u, o) => joined[<<u, o>>] # "none"

(* REVOKE-1.  What a write takes from anyone's grants its caller held, was a *)
(* superadmin, or had looked before another write; the removal of a          *)
(* membership measures what it deletes, and has no such excuse.              *)
BoundedRevocation ==
  [][\A t \in Tasks : task[t] # Rest /\ task'[t] = Rest =>
       LET lost == UNION {Granted(u, o) \ Granted(u, o)' : u \in Users, o \in Orgs}
       IN \/ IsSuperadmin(task[t].held) \/ lost \subseteq task[t].held
          \/ task[t].outrun /\ task[t].op # "remove_memberships"]_consoleVars
=============================================================================
