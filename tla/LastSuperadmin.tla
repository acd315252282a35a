--------------------------- MODULE LastSuperadmin ---------------------------
(***************************************************************************)
(* REVOKE-2: no administrative request may leave the platform without an   *)
(* account that can sign in as a global superuser.                         *)
(*                                                                         *)
(* A grant <<u, o, r>> is a row of app_user_roles.  It counts while the    *)
(* membership of u in o, the organization o and the account u are active,  *)
(* the role r carries `superuser` and u is not banned.  Every route that   *)
(* can end a grant reads the counting grants FOR UPDATE and refuses when   *)
(* its own removal covers all of them.  A ban is written by Better Auth on *)
(* its own connection, so the ban and soft-delete routes are sagas: they   *)
(* ban first, check afterwards and undo a ban the check refuses.           *)
(*                                                                         *)
(* PostgreSQL runs at READ COMMITTED: the grant read takes a snapshot when *)
(* the statement starts, then locks the rows it found, waits for whoever   *)
(* holds one and drops a row that no longer qualifies (EvalPlanQual).  A   *)
(* grant that appears after the snapshot is not seen.                      *)
(*                                                                         *)
(* Requests are one-shot processes.  A request that removes nothing is one *)
(* step; the others are one step per statement or transaction.             *)
(***************************************************************************)
EXTENDS FiniteSets

CONSTANTS Users, Orgs, Roles,
          Requests,        \* one HTTP request each
          Kinds,           \* the operations the requests of a run may ask for
          InitialGrants,   \* app_user_roles before the first request
          Exclusive,       \* TRUE: no two requests in flight about one account
          NoBan            \* the value of a Better Auth user that is not banned

Grants == Users \X Orgs \X Roles

(* The routes whose transaction reads the grants and may refuse. *)
RemovalKinds == {"role_revoke", "role_strip", "member_update", "member_remove",
                 "org_update", "status_change"}
(* The routes that ban first and check afterwards. *)
SagaKinds == {"ban", "soft_delete"}
(* The routes that can only add grants; approve still takes the read's locks. *)
GrantKinds == {"approve", "restore", "unban", "role_assign", "role_grant",
               "member_add", "member_activate", "org_activate",
               "accept_invitation"}
AllKinds == RemovalKinds \cup SagaKinds \cup GrantKinds

ASSUME ConstantsAssumption ==
  /\ Kinds \subseteq AllKinds
  /\ InitialGrants \subseteq Grants
  /\ InitialGrants # {}
  /\ Exclusive \in BOOLEAN
  /\ NoBan \notin Requests

VARIABLES
  assigned,     \* app_user_roles
  membership,   \* app_organization_memberships.status, "none" without a row
  orgActive,    \* organizations whose status is active
  carriers,     \* roles whose permissions include `superuser`
  account,      \* app_users.status
  ban,          \* Better Auth user.banned: the request that wrote the ban
  lapsed,       \* bans whose banExpires has passed
  pc,           \* where each request is
  kind,         \* what each request does
  users,        \* the accounts it is about
  orgs,         \* the organizations it is about (the scope of a status change)
  wide,         \* a status change that also sets the account status
  removal,      \* the SuperuserGrantRemoval it is measured by
  seen,         \* the rows of the grant read's statement snapshot
  held,         \* the rows the read returned, locked until the transaction ends
  prev          \* the ban a saga replaced (previousBan)

db == <<assigned, membership, orgActive, carriers, account, ban, lapsed>>
asked == <<kind, users, orgs, wide, prev>>
guard == <<removal, seen, held>>
vars == <<db, pc, asked, guard>>

Statuses == {"active", "pending_approval", "blocked", "deactivated"}

(* Where a request can be.  "locked" is the only place that holds row      *)
(* locks; "crashed" also stands for a failed compensation.                 *)
Finished == {"ok", "refused", "crashed"}
InTransaction == {"opened", "reading", "locked"}
InFlight == InTransaction \cup {"accepted", "before", "undoing", "unbanned"}

(* SuperuserGrantRemoval: what a request is about to destroy. *)
Removals == [assignments : SUBSET Grants, roleIds : SUBSET Roles,
             memberships : SUBSET (Users \X Orgs),
             organizationIds : SUBSET Orgs, appUserIds : SUBSET Users]

NoRemoval == [assignments |-> {}, roleIds |-> {}, memberships |-> {},
              organizationIds |-> {}, appUserIds |-> {}]

TypeOK ==
  /\ assigned \subseteq Grants
  /\ membership \in [Users \X Orgs -> {"none", "active", "inactive"}]
  /\ orgActive \subseteq Orgs
  /\ carriers \subseteq Roles
  /\ account \in [Users -> Statuses]
  /\ ban \in [Users -> Requests \cup {NoBan}]
  /\ lapsed \subseteq Requests
  /\ pc \in [Requests -> {"idle"} \cup InFlight \cup Finished]
  /\ kind \in [Requests -> AllKinds \cup {"none"}]
  /\ users \in [Requests -> SUBSET Users]
  /\ orgs \in [Requests -> SUBSET Orgs]
  /\ wide \in [Requests -> BOOLEAN]
  /\ prev \in [Requests -> Requests \cup {NoBan}]
  /\ removal \in [Requests -> Removals]
  /\ seen \in [Requests -> SUBSET Grants]
  /\ held \in [Requests -> SUBSET Grants]
-----------------------------------------------------------------------------
(* What counts *)

InForce(b) == b # NoBan /\ b \notin lapsed

(* The row joins of activeGlobalSuperuserGrants, the ban aside. *)
Confers(g) ==
  /\ g \in assigned
  /\ membership[<<g[1], g[2]>>] = "active"
  /\ g[2] \in orgActive
  /\ g[3] \in carriers
  /\ account[g[1]] = "active"

(* activeGlobalSuperuserGrants with the bans of `disregarded` read as absent *)
GrantsDisregarding(disregarded) ==
  {g \in Grants : Confers(g) /\ (InForce(ban[g[1]]) => g[1] \in disregarded)}

ActiveGrants == GrantsDisregarding({})

(* A saga's read disregards the ban it has itself just applied. *)
Disregarded(r) == IF kind[r] \in SagaKinds THEN users[r] ELSE {}

CountedBy(r) == GrantsDisregarding(Disregarded(r))

GrantIsRemoved(g, rem) ==
  \/ g[3] \in rem.roleIds
  \/ g[2] \in rem.organizationIds
  \/ g[1] \in rem.appUserIds
  \/ g \in rem.assignments
  \/ <<g[1], g[2]>> \in rem.memberships

(* Nothing to protect when there is no grant; otherwise refuse a removal   *)
(* that covers every one.                                                  *)
StripsLastGlobalSuperuser(grants, rem) ==
  grants # {} /\ \A g \in grants : GrantIsRemoved(g, rem)

-----------------------------------------------------------------------------
(* Row locks.  A row is named by the grants it is part of: the membership   *)
(* row of (u, o) by the grants of u in o, the account and Better Auth rows  *)
(* of u by the grants of u, and so on.                                      *)

OfUser(us) == {g \in Grants : g[1] \in us}
OfOrg(os) == {g \in Grants : g[2] \in os}
OfRole(rs) == {g \in Grants : g[3] \in rs}

(* No other transaction has locked a row of one of these grants. *)
Free(r, grants) ==
  \A q \in Requests \ {r} : pc[q] = "locked" => held[q] \cap grants = {}

ShareARow(g, h) == g[1] = h[1] \/ g[2] = h[2] \/ g[3] = h[3]

(* Every row of the snapshot can be locked now. *)
Lockable(r) ==
  \A q \in Requests \ {r} : pc[q] = "locked" =>
     \A g \in seen[r], h \in held[q] : ~ShareARow(g, h)
-----------------------------------------------------------------------------
Init ==
  /\ assigned = InitialGrants
  /\ membership = [m \in Users \X Orgs |->
                     IF \E r \in Roles : <<m[1], m[2], r>> \in InitialGrants
                       THEN "active" ELSE "none"]
  /\ orgActive = Orgs
  /\ carriers = Roles
  /\ account = [u \in Users |-> "active"]
  /\ ban = [u \in Users |-> NoBan]
  /\ lapsed = {}
  /\ pc = [r \in Requests |-> "idle"]
  /\ kind = [r \in Requests |-> "none"]
  /\ users = [r \in Requests |-> {}]
  /\ orgs = [r \in Requests |-> {}]
  /\ wide = [r \in Requests |-> FALSE]
  /\ prev = [r \in Requests |-> NoBan]
  /\ removal = [r \in Requests |-> NoRemoval]
  /\ seen = [r \in Requests |-> {}]
  /\ held = [r \in Requests |-> {}]

(* The workload: with Exclusive, a request about an account starts only    *)
(* when no other request about that account is in flight.                  *)
May(r, k, us) ==
  /\ pc[r] = "idle"
  /\ k \in Kinds
  /\ Exclusive => \A q \in Requests : pc[q] \in InFlight => users[q] \cap us = {}

Begin(r, k, us, os, where) ==
  /\ May(r, k, us)
  /\ pc' = [pc EXCEPT ![r] = where]
  /\ kind' = [kind EXCEPT ![r] = k]
  /\ users' = [users EXCEPT ![r] = us]
  /\ orgs' = [orgs EXCEPT ![r] = os]
  /\ UNCHANGED <<prev, seen, held>>

-----------------------------------------------------------------------------
(* Requests that name what they remove: the removal is built from the       *)
(* request and from rows read before the transaction.                       *)

(* DELETE /users/[id]/app-roles *)
RoleRevokeBegin(r, g) ==
  /\ g \in assigned
  /\ Begin(r, "role_revoke", {g[1]}, {g[2]}, "opened")
  /\ removal' = [removal EXCEPT ![r] = [NoRemoval EXCEPT !.assignments = {g}]]
  /\ UNCHANGED <<db, wide>>

(* DELETE and PATCH /roles/[id]/permissions that drop `superuser` *)
RoleStripBegin(r, role) ==
  /\ role \in carriers
  /\ Begin(r, "role_strip", {}, {}, "opened")
  /\ removal' = [removal EXCEPT ![r] = [NoRemoval EXCEPT !.roleIds = {role}]]
  /\ UNCHANGED <<db, wide>>

(* PATCH (to a status other than active) and DELETE of memberships, by user *)
(* or, for several users of one organization, by organization.              *)
MembersBegin(r, k, us, o) ==
  /\ us # {} /\ \A u \in us : membership[<<u, o>>] # "none"
  /\ Begin(r, k, us, {o}, "opened")
  /\ removal' = [removal EXCEPT ![r] =
                   [NoRemoval EXCEPT !.memberships = us \X {o}]]
  /\ UNCHANGED <<db, wide>>

(* PATCH /organizations/[id] that leaves active *)
OrgUpdateBegin(r, o) ==
  /\ o \in orgActive
  /\ Begin(r, "org_update", {}, {o}, "opened")
  /\ removal' = [removal EXCEPT ![r] = [NoRemoval EXCEPT !.organizationIds = {o}]]
  /\ UNCHANGED <<db, wide>>

(* performAdminStatusChange: whether the account status follows is decided *)
(* before the transaction, from whether the user is shared with an          *)
(* organization outside the actor's scope.                                  *)
Shared(u, os) == \E o \in Orgs \ os : membership[<<u, o>>] # "none"

StatusChangeBegin(r, u, os) ==
  /\ \E o \in os : membership[<<u, o>>] # "none"
  /\ Begin(r, "status_change", {u}, os, "accepted")
  /\ wide' = [wide EXCEPT ![r] = ~Shared(u, os)]
  /\ UNCHANGED <<db, removal>>

(* membershipCascadeStripsLastGlobalSuperuser reads the memberships in      *)
(* scope, the first statement of the transaction.                           *)
StatusCascadeRead(r) ==
  /\ pc[r] = "accepted" /\ kind[r] = "status_change"
  /\ pc' = [pc EXCEPT ![r] = "opened"]
  /\ removal' = [removal EXCEPT ![r] = [NoRemoval EXCEPT !.memberships =
        {m \in users[r] \X orgs[r] : membership[m] # "none"}]]
  /\ UNCHANGED <<db, asked, seen, held>>

(* approve and reactivate: the grant read is there for its locks only. *)
ApproveBegin(r, u, os) ==
  /\ \E o \in os : membership[<<u, o>>] # "none"
  /\ Begin(r, "approve", {u}, os, "opened")
  /\ wide' = [wide EXCEPT ![r] = ~Shared(u, os)]
  /\ UNCHANGED <<db, removal>>
-----------------------------------------------------------------------------
(* The ban and soft-delete sagas *)

(* POST /users/[id]/ban refuses a deactivated account; a repeated          *)
(* soft-delete is accepted.                                                *)
SagaBegin(r, k, u) ==
  /\ k = "ban" => account[u] # "deactivated"
  /\ Begin(r, k, {u}, {}, "accepted")
  /\ UNCHANGED <<db, wide, removal>>

(* banBetterAuthUser reads the user, and with it the ban it will replace. *)
BanReadBefore(r) ==
  /\ pc[r] = "accepted" /\ kind[r] \in SagaKinds
  /\ \E u \in users[r] :
       prev' = [prev EXCEPT ![r] = IF InForce(ban[u]) THEN ban[u] ELSE NoBan]
  /\ pc' = [pc EXCEPT ![r] = "before"]
  /\ UNCHANGED <<db, kind, users, orgs, wide, guard>>

(* Mistake: `user` missing from the FOR UPDATE OF list, so a ban does not wait. *)
BanApply_NoWait(r) ==
  /\ pc[r] = "before"
  /\ ban' = [u \in Users |-> IF u \in users[r] THEN r ELSE ban[u]]
  /\ removal' = [removal EXCEPT ![r] = [NoRemoval EXCEPT !.appUserIds = users[r]]]
  /\ pc' = [pc EXCEPT ![r] = "opened"]
  /\ UNCHANGED <<assigned, membership, orgActive, carriers, account, lapsed,
                 asked, seen, held>>

(* The ban itself, which waits for the Better Auth row. *)
BanApply(r) ==
  /\ pc[r] = "before"
  /\ Free(r, OfUser(users[r]))
  /\ ban' = [u \in Users |-> IF u \in users[r] THEN r ELSE ban[u]]
  /\ removal' = [removal EXCEPT ![r] = [NoRemoval EXCEPT !.appUserIds = users[r]]]
  /\ pc' = [pc EXCEPT ![r] = "opened"]
  /\ UNCHANGED <<assigned, membership, orgActive, carriers, account, lapsed,
                 asked, seen, held>>

(* Mistake: the refusal is answered without the compensation. *)
BanUndo_KeepsBan(r) ==
  /\ pc[r] = "undoing"
  /\ pc' = [pc EXCEPT ![r] = "refused"]
  /\ UNCHANGED <<db, asked, guard>>

(* restoreBetterAuthBan: the ban the saga replaced, unless it has expired. *)
BanUndo(r) ==
  /\ pc[r] = "undoing"
  /\ Free(r, OfUser(users[r]))
  /\ ban' = [u \in Users |->
               IF u \notin users[r] THEN ban[u]
               ELSE IF InForce(prev[r]) THEN prev[r] ELSE NoBan]
  /\ pc' = [pc EXCEPT ![r] = "refused"]
  /\ UNCHANGED <<assigned, membership, orgActive, carriers, account, lapsed,
                 asked, guard>>

(* A temporary ban runs out, not before the request that applied it ends:    *)
(* the shortest ban is a second, the check follows at once.                  *)
BanLapses(q) ==
  /\ kind[q] = "ban" /\ pc[q] \in Finished /\ q \notin lapsed
  /\ \E u \in users[q] : ban[u] = q
  /\ lapsed' = lapsed \cup {q}
  /\ UNCHANGED <<assigned, membership, orgActive, carriers, account, ban,
                 pc, asked, guard>>
-----------------------------------------------------------------------------
(* The guarded transaction *)

(* The statement snapshot of the grant read. *)
GrantRead(r) ==
  /\ pc[r] = "opened"
  /\ seen' = [seen EXCEPT ![r] = CountedBy(r)]
  /\ pc' = [pc EXCEPT ![r] = "reading"]
  /\ UNCHANGED <<db, asked, removal, held>>

(* Mistake: the lock names app_user_roles alone, so the other relations of  *)
(* the join are taken from the statement snapshot (no recheck).             *)
GrantLock_NoRecheck(r) ==
  /\ pc[r] = "reading"
  /\ Lockable(r)
  /\ held' = [held EXCEPT ![r] = seen[r] \cap assigned]
  /\ seen' = [seen EXCEPT ![r] = {}]
  /\ pc' = [pc EXCEPT ![r] = "locked"]
  /\ UNCHANGED <<db, asked, removal>>

(* Its row locks: it waits for every holder, then re-evaluates. *)
GrantLock(r) ==
  /\ pc[r] = "reading"
  /\ Lockable(r)
  /\ held' = [held EXCEPT ![r] = seen[r] \cap CountedBy(r)]
  /\ seen' = [seen EXCEPT ![r] = {}]
  /\ pc' = [pc EXCEPT ![r] = "locked"]
  /\ UNCHANGED <<db, asked, removal>>

Strips(r) == StripsLastGlobalSuperuser(held[r], removal[r])

(* A status change is refused for a deactivated account, use_restore. *)
MustUseRestore(r) ==
  /\ kind[r] \in {"status_change", "approve"}
  /\ \E u \in users[r] : account[u] = "deactivated"

Refused(r) == Strips(r) \/ MustUseRestore(r)

(* The transaction rolls back, refused or on any database error: nothing of *)
(* it stays and its locks are gone.                                         *)
RollBack(r) ==
  /\ pc[r] = "locked" /\ kind[r] \notin SagaKinds
  /\ pc' = [pc EXCEPT ![r] = "refused"]
  /\ UNCHANGED <<db, asked, guard>>

(* A saga whose check refuses the ban, or fails outright, undoes the ban. *)
SagaRefused(r) ==
  /\ pc[r] \in InTransaction /\ kind[r] \in SagaKinds
  /\ pc' = [pc EXCEPT ![r] = "undoing"]
  /\ UNCHANGED <<db, asked, guard>>

(* The process dies, or the undo of a ban fails, between two committed      *)
(* writes of a saga or a restore: what it has committed stays.  (A crash in *)
(* any other request is a rollback.)                                        *)
Crash(r) ==
  /\ pc[r] \in InFlight /\ kind[r] \in SagaKinds \cup {"restore"}
  /\ pc' = [pc EXCEPT ![r] = "crashed"]
  /\ UNCHANGED <<db, asked, guard>>

(* The write of an accepted request k, once the rows it writes are free. *)
Commits(r, k, written) ==
  /\ pc[r] = "locked" /\ kind[r] = k
  /\ ~Refused(r)
  /\ Free(r, written)
  /\ pc' = [pc EXCEPT ![r] = "ok"]
  /\ UNCHANGED <<asked, guard>>

RoleRevokeCommit(r) ==
  /\ Commits(r, "role_revoke", removal[r].assignments)
  /\ assigned' = assigned \ removal[r].assignments
  /\ UNCHANGED <<membership, orgActive, carriers, account, ban, lapsed>>

RoleStripCommit(r) ==
  /\ Commits(r, "role_strip", OfRole(removal[r].roleIds))
  /\ carriers' = carriers \ removal[r].roleIds
  /\ UNCHANGED <<assigned, membership, orgActive, account, ban, lapsed>>

(* Memberships that have a row get the status; no row is inserted. *)
SetMemberships(us, os, status) ==
  [m \in Users \X Orgs |->
     IF m[1] \in us /\ m[2] \in os /\ membership[m] # "none"
       THEN status ELSE membership[m]]

MemberUpdateCommit(r) ==
  /\ Commits(r, "member_update", OfUser(users[r]) \cap OfOrg(orgs[r]))
  /\ membership' = SetMemberships(users[r], orgs[r], "inactive")
  /\ UNCHANGED <<assigned, orgActive, carriers, account, ban, lapsed>>

(* F-12: the grants held in the organization go with the membership. *)
MemberRemoveCommit(r) ==
  /\ Commits(r, "member_remove", OfUser(users[r]) \cap OfOrg(orgs[r]))
  /\ membership' = SetMemberships(users[r], orgs[r], "none")
  /\ assigned' = assigned \ (OfUser(users[r]) \cap OfOrg(orgs[r]))
  /\ UNCHANGED <<orgActive, carriers, account, ban, lapsed>>

OrgUpdateCommit(r) ==
  /\ Commits(r, "org_update", OfOrg(orgs[r]))
  /\ orgActive' = orgActive \ orgs[r]
  /\ UNCHANGED <<assigned, membership, carriers, account, ban, lapsed>>

StatusChangeCommit(r) ==
  /\ Commits(r, "status_change", OfUser(users[r]))
  /\ membership' = SetMemberships(users[r], orgs[r], "inactive")
  /\ account' = [u \in Users |-> IF wide[r] /\ u \in users[r]
                                   THEN "blocked" ELSE account[u]]
  /\ UNCHANGED <<assigned, orgActive, carriers, ban, lapsed>>

(* An org-scoped approval of a shared user only lifts pending_approval. *)
ApproveCommit(r) ==
  /\ Commits(r, "approve", OfUser(users[r]))
  /\ membership' = SetMemberships(users[r], orgs[r], "active")
  /\ account' = [u \in Users |->
        IF u \in users[r] /\ (wide[r] \/ account[u] = "pending_approval")
          THEN "active" ELSE account[u]]
  /\ UNCHANGED <<assigned, orgActive, carriers, ban, lapsed>>

(* guardAppliedBan found another grant: the ban stands. *)
BanConfirm(r) ==
  /\ Commits(r, "ban", {})
  /\ UNCHANGED db

(* Mistake: the cascade writes the account's status to the memberships. *)
SoftDeleteCommit_OneStatus(r) ==
  /\ Commits(r, "soft_delete", OfUser(users[r]))
  /\ membership' = SetMemberships(users[r], Orgs, "deactivated")
  /\ account' = [u \in Users |-> IF u \in users[r] THEN "deactivated" ELSE account[u]]
  /\ UNCHANGED <<assigned, orgActive, carriers, ban, lapsed>>

(* The cascade of a soft-delete, in the transaction of its check. *)
SoftDeleteCommit(r) ==
  /\ Commits(r, "soft_delete", OfUser(users[r]))
  /\ membership' = SetMemberships(users[r], Orgs, "inactive")
  /\ account' = [u \in Users |-> IF u \in users[r] THEN "deactivated" ELSE account[u]]
  /\ UNCHANGED <<assigned, orgActive, carriers, ban, lapsed>>
-----------------------------------------------------------------------------
(* Restore: the deactivated check is on a row read beforehand, then the ban, *)
(* then an unconditional write.  Restored memberships come back              *)
(* pending_approval or as they were, never active, so they do not change     *)
(* here.  Which ban comes back is left open.                                 *)

RestoreBegin(r, u) ==
  /\ account[u] = "deactivated"
  /\ Begin(r, "restore", {u}, {}, "accepted")
  /\ UNCHANGED <<db, wide, removal>>

RestoreBan(r) ==
  /\ pc[r] = "accepted" /\ kind[r] = "restore"
  /\ Free(r, OfUser(users[r]))
  /\ \/ ban' = [u \in Users |-> IF u \in users[r] THEN NoBan ELSE ban[u]]
     \/ ban' = ban
  /\ pc' = [pc EXCEPT ![r] = "unbanned"]
  /\ UNCHANGED <<assigned, membership, orgActive, carriers, account, lapsed,
                 asked, guard>>

RestoreCommit(r) ==
  /\ pc[r] = "unbanned"
  /\ Free(r, OfUser(users[r]))
  /\ account' = [u \in Users |->
                   IF u \in users[r] THEN "pending_approval" ELSE account[u]]
  /\ pc' = [pc EXCEPT ![r] = "ok"]
  /\ UNCHANGED <<assigned, membership, orgActive, carriers, ban, lapsed,
                 asked, guard>>
-----------------------------------------------------------------------------
(* Requests of one statement, which can only add grants; one that would     *)
(* change no row is left out.  An insert takes key-share locks on the        *)
(* account and organization it references.                                   *)

Single(r, k, us, os, touched) ==
  /\ Begin(r, k, us, os, "ok")
  /\ Free(r, touched)
  /\ UNCHANGED <<wide, removal>>

(* POST /users/[id]/unban *)
Unban(r, u) ==
  /\ account[u] # "deactivated" /\ ban[u] # NoBan
  /\ Single(r, "unban", {u}, {}, OfUser({u}))
  /\ ban' = [ban EXCEPT ![u] = NoBan]
  /\ UNCHANGED <<assigned, membership, orgActive, carriers, account, lapsed>>

(* POST /users/[id]/app-roles, for an active member *)
RoleAssign(r, g) ==
  /\ g \notin assigned /\ membership[<<g[1], g[2]>>] = "active"
  /\ Single(r, "role_assign", {g[1]}, {g[2]}, OfUser({g[1]}) \cup OfOrg({g[2]}))
  /\ assigned' = assigned \cup {g}
  /\ UNCHANGED <<membership, orgActive, carriers, account, ban, lapsed>>

(* POST and PATCH /roles/[id]/permissions that add `superuser` *)
RoleGrant(r, role) ==
  /\ role \notin carriers
  /\ Single(r, "role_grant", {}, {}, OfRole({role}))
  /\ carriers' = carriers \cup {role}
  /\ UNCHANGED <<assigned, membership, orgActive, account, ban, lapsed>>

(* POST of a membership, with whatever status the request names *)
MemberAdd(r, u, o, status) ==
  /\ membership[<<u, o>>] = "none"
  /\ Single(r, "member_add", {u}, {o}, OfUser({u}) \cup OfOrg({o}))
  /\ membership' = [membership EXCEPT ![<<u, o>>] = status]
  /\ UNCHANGED <<assigned, orgActive, carriers, account, ban, lapsed>>

(* PATCH of memberships to active, which reads no grants *)
MemberActivate(r, us, o) ==
  /\ us # {} /\ \A u \in us : membership[<<u, o>>] = "inactive"
  /\ Single(r, "member_activate", us, {o}, OfUser(us) \cap OfOrg({o}))
  /\ membership' = SetMemberships(us, {o}, "active")
  /\ UNCHANGED <<assigned, orgActive, carriers, account, ban, lapsed>>

(* PATCH /organizations/[id] to active *)
OrgActivate(r, o) ==
  /\ o \notin orgActive
  /\ Single(r, "org_activate", {}, {o}, OfOrg({o}))
  /\ orgActive' = orgActive \cup {o}
  /\ UNCHANGED <<assigned, membership, carriers, account, ban, lapsed>>

(* consumeInvitation: membership, account and role in one transaction.  An  *)
(* inactive membership may be the pending one the invitation activates or a *)
(* blocked one it leaves alone, and then withholds the role.                *)
AcceptInvitation(r, g) ==
  LET m == <<g[1], g[2]>> IN
  /\ g[2] \in orgActive
  /\ Single(r, "accept_invitation", {g[1]}, {g[2]},
            OfUser({g[1]}) \cup OfOrg({g[2]}))
  /\ account' = [account EXCEPT ![g[1]] =
                   IF @ = "pending_approval" THEN "active" ELSE @]
  /\ \/ /\ membership' = [membership EXCEPT ![m] = "active"]
        /\ assigned' \in {assigned, assigned \cup {g}}
     \/ /\ membership[m] = "inactive"
        /\ UNCHANGED <<membership, assigned>>
  /\ UNCHANGED <<orgActive, carriers, ban, lapsed>>
-----------------------------------------------------------------------------
(* The actor's scope: its own organization, or every one. *)
Scopes == {{o} : o \in Orgs} \cup {Orgs}

Starts(r) ==
  \/ \E g \in Grants : RoleRevokeBegin(r, g)
  \/ \E role \in Roles : RoleStripBegin(r, role)
  \/ \E k \in {"member_update", "member_remove"}, us \in SUBSET Users, o \in Orgs :
        MembersBegin(r, k, us, o)
  \/ \E o \in Orgs : OrgUpdateBegin(r, o)
  \/ \E u \in Users, os \in Scopes : StatusChangeBegin(r, u, os) \/ ApproveBegin(r, u, os)
  \/ \E k \in SagaKinds, u \in Users : SagaBegin(r, k, u)
  \/ \E u \in Users : RestoreBegin(r, u)

Singles(r) ==
  \/ \E u \in Users : Unban(r, u)
  \/ \E g \in Grants : RoleAssign(r, g) \/ AcceptInvitation(r, g)
  \/ \E role \in Roles : RoleGrant(r, role)
  \/ \E u \in Users, o \in Orgs, s \in {"active", "inactive"} : MemberAdd(r, u, o, s)
  \/ \E us \in SUBSET Users, o \in Orgs : MemberActivate(r, us, o)
  \/ \E o \in Orgs : OrgActivate(r, o)

Commit(r) ==
  \/ RoleRevokeCommit(r) \/ RoleStripCommit(r) \/ MemberUpdateCommit(r)
  \/ MemberRemoveCommit(r) \/ OrgUpdateCommit(r) \/ StatusChangeCommit(r)
  \/ ApproveCommit(r) \/ BanConfirm(r) \/ SoftDeleteCommit(r)

Proceeds(r) ==
  \/ StatusCascadeRead(r) \/ BanReadBefore(r) \/ BanApply(r) \/ BanUndo(r)
  \/ BanLapses(r) \/ GrantRead(r) \/ GrantLock(r) \/ RollBack(r) \/ SagaRefused(r)
  \/ Crash(r) \/ RestoreBan(r) \/ RestoreCommit(r)

Next == \E r \in Requests : Starts(r) \/ Singles(r) \/ Proceeds(r) \/ Commit(r)

Spec == Init /\ [][Next]_vars
-----------------------------------------------------------------------------
(* Properties *)

(* What a guarded transaction counted still counts when it writes: no other *)
(* request, and no ban, can end a grant the read returned while its locks   *)
(* are held.  (The FOR UPDATE OF list of activeGlobalSuperuserGrants.)      *)
CountedGrantsStay ==
  \A r \in Requests : pc[r] = "locked" => held[r] \subseteq CountedBy(r)

(* A ban in place is the ban of a request that answered success, of one     *)
(* still on its way to confirm or undo it, or of one that crashed: "a ban   *)
(* nobody could verify is never left in place" (guardAppliedBan).           *)
NoUnverifiedBanLeft ==
  \A u \in Users : ban[u] # NoBan =>
     /\ pc[ban[u]] # "refused"
     /\ u \in users[ban[u]]

(* A ban that will be undone if its check refuses it, over no earlier ban. *)
Provisional(u) ==
  /\ ban[u] \in Requests
  /\ pc[ban[u]] \notin Finished
  /\ ~InForce(prev[ban[u]])

(* The grants that count, or will count again if a pending ban is refused. *)
Surviving ==
  {g \in Grants : Confers(g) /\ (~InForce(ban[g[1]]) \/ Provisional(g[1]))}

(* A request that passed the guard because its read returned no grant. *)
DecidedOnEmptyRead(r) ==
  /\ pc[r] = "ok"
  /\ kind[r] \in RemovalKinds \cup SagaKinds
  /\ held[r] = {}

SagaCrashed(r) == pc[r] = "crashed" /\ kind[r] \in SagaKinds

(* REVOKE-2: as long as no accepted request was let through by an empty     *)
(* grant read and no ban saga died half-way, a grant survives whatever      *)
(* removals, bans, deletions and restores ran concurrently.                 *)
ASuperadminSurvives ==
  (\A r \in Requests : ~DecidedOnEmptyRead(r) /\ ~SagaCrashed(r)) => Surviving # {}

(* REVOKE-2 without the proviso on empty reads: with nothing in flight and  *)
(* no crash, some account can sign in as superadmin, "so the platform       *)
(* cannot be suspended into a lockout" (userIsGlobalSuperuser).             *)
NeverLockedOut ==
  (\A r \in Requests : pc[r] \in {"idle", "ok", "refused"}) => ActiveGrants # {}
-----------------------------------------------------------------------------
(* The inductive invariant of an exclusive workload *)

(* Requests in flight are about different accounts. *)
Apart ==
  \A q, r \in Requests : q # r /\ pc[q] \in InFlight /\ pc[r] \in InFlight =>
     users[q] \cap users[r] = {}

(* A ban is in place between its saga's ban and its undo. *)
Banning == InTransaction \cup {"undoing"}

IsSagaOf(q, u) == kind[q] \in SagaKinds /\ u \in users[q]

(* Whose the bans in place are. *)
BansAreSagas ==
  /\ \A u \in Users : ban[u] # NoBan =>
        IsSagaOf(ban[u], u) /\ pc[ban[u]] \in Banning \cup {"ok", "crashed"}
  /\ \A r \in lapsed : pc[r] \in Finished

(* What a saga remembers of the ban it replaces, and that its own is in place. *)
SagasAreOrderly ==
  \A r \in Requests :
    /\ pc[r] \in {"before", "undoing"} => kind[r] \in SagaKinds
    /\ kind[r] \in SagaKinds => \A u, v \in users[r] : u = v
    /\ kind[r] \in SagaKinds /\ pc[r] \in Banning \cup {"before"} =>
         \A u \in users[r] :
            /\ prev[r] # NoBan => /\ IsSagaOf(prev[r], u)
                                  /\ pc[prev[r]] \in {"ok", "crashed"}
            /\ pc[r] = "before" => prev[r] \in {NoBan, ban[u]}
            /\ pc[r] # "before" => ban[u] = r

(* The removal a transaction is measured by covers what it will write. *)
RemovalCoversWrites ==
  \A r \in Requests :
    /\ pc[r] \in InTransaction =>
         /\ kind[r] \in SagaKinds => users[r] \subseteq removal[r].appUserIds
         /\ kind[r] \in {"member_update", "member_remove"} =>
              users[r] \X orgs[r] \subseteq removal[r].memberships
         /\ kind[r] = "org_update" => orgs[r] \subseteq removal[r].organizationIds
         /\ kind[r] = "status_change" =>
              \A u \in users[r], o \in orgs[r] :
                 membership[<<u, o>>] # "none" => <<u, o>> \in removal[r].memberships
    /\ pc[r] \in InFlight /\ kind[r] = "status_change" /\ wide[r] =>
         \A u \in users[r], o \in Orgs \ orgs[r] : membership[<<u, o>>] = "none"

(* A restore still finds the account deactivated when it writes. *)
RestoresAreOfDeleted ==
  \A r \in Requests :
    /\ pc[r] = "unbanned" => kind[r] = "restore"
    /\ pc[r] \in InFlight /\ kind[r] = "restore" =>
         \A u \in users[r] : account[u] = "deactivated"

(* Together: with one request in flight per account, the bookkeeping of the  *)
(* sagas and the removals match what is in the database.                     *)
ExclusiveBookkeeping ==
  /\ Apart /\ BansAreSagas /\ SagasAreOrderly
  /\ RemovalCoversWrites /\ RestoresAreOfDeleted

=============================================================================
