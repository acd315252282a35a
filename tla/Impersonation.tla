--------------------------- MODULE Impersonation ---------------------------
(***************************************************************************)
(* Sessions that an administrator opens as somebody else.  The row belongs *)
(* to the borrowed identity; impersonatedBy names the administrator.       *)
(*                                                                         *)
(* The route compares ranks, statement by statement, and then lets Better  *)
(* Auth open the session; from there on only the reach of the impersonator *)
(* is looked at, on every request, while memberships, grants, statuses and *)
(* bans change.  The organization a session acts in is named by an         *)
(* unsigned cookie: it may be any that getUserAccessContext admits.        *)
(*                                                                         *)
(* Bearer callers are refused by the route (isOrgBound holds for all of    *)
(* them) and left out.  So is who may ban or grant.                        *)
(***************************************************************************)
EXTENDS Naturals, Sequences, FiniteSets

CONSTANTS People,
          Tenants,
          Borrows,    \* POSTs to users/[id]/impersonate in flight
          Worlds,     \* memberships and grants to start with
          NoOne,
          MaxBorrowed, \* bound: borrowed sessions at a time
          MaxChanges   \* bound: steps of anyone else

ASSUME ImpersonationAssumption ==
  /\ NoOne \notin People /\ {MaxBorrowed, MaxChanges} \subseteq Nat
  /\ \A w \in Worlds : /\ w.enrolled \in [People \X Tenants -> {"none", "active", "suspended"}]
                       /\ w.granted \subseteq People \X Tenants \X {"impersonate", "superuser"}
                       /\ w.tenants \subseteq Tenants

VARIABLES
  enrolled,   \* app_organization_memberships: status, by person and tenant
  granted,    \* the permissions a person's roles confer in a tenant
  tenants,    \* organizations that are active
  inactive,   \* people whose account is blocked, suspended or pending
  banned,     \* people banned in Better Auth
  sessions,   \* session rows, own and borrowed
  borrow,     \* each POST: how far it is and what it read
  sweep,      \* the containment under way, its statements to come, and whether it can be whole
  changes,    \* what is left of MaxChanges
  contained   \* the last sweep that ended well, since the last sign-in (history)

access == <<enrolled, granted, tenants, inactive, banned>>
borrowVars == <<access, sessions, borrow, sweep, changes, contained>>

Permissions == {"impersonate", "superuser"}
Someone == People \cup {NoOne}

(* Of a session: whose it is, who borrowed it; and, as history, the human    *)
(* at the browser, whether ranks were compared, whether they have shifted    *)
(* since, and whether a sweep passed it while it was being opened.           *)
Own(p) == [user |-> p, by |-> NoOne, human |-> p, judged |-> FALSE, shifted |-> FALSE, late |-> FALSE]

(* What deletes sessions names the user or the borrower of a row. *)
Row(s) == <<s.user, s.by>>

NoBorrow == [at |-> "rest", cookie |-> Own(NoOne), target |-> NoOne, powers |-> {}, cross |-> FALSE]
NoSweep == [who |-> NoOne, kind |-> "none", todo |-> <<>>, whole |-> TRUE]

SessionRows == [user : Someone, by : Someone, human : Someone,
                judged : BOOLEAN, shifted : BOOLEAN, late : BOOLEAN]

BorrowTypeOK ==
  /\ enrolled \in [People \X Tenants -> {"none", "active", "suspended"}]
  /\ granted \subseteq People \X Tenants \X Permissions
  /\ tenants \subseteq Tenants /\ inactive \subseteq People /\ banned \subseteq People
  /\ sessions \subseteq SessionRows
  /\ borrow \in [Borrows -> [at : {"rest", "union", "shared", "standing", "ready", "opening"},
                             cookie : SessionRows, target : Someone,
                             powers : SUBSET Permissions, cross : BOOLEAN]]
  /\ sweep \in [who : Someone, kind : {"none", "ban", "revoke_all", "reset"},
                todo : Seq({"ban", "own", "borrowed"}), whole : BOOLEAN]
  /\ changes \in 0..MaxChanges
  /\ contained \in [People -> {"none", "ban", "revoke_all", "reset"}]

BorrowInit ==
  /\ \E w \in Worlds : enrolled = w.enrolled /\ granted = w.granted /\ tenants = w.tenants
  /\ inactive = {} /\ banned = {}
  /\ sessions = {Own(p) : p \in People}
  /\ borrow = [q \in Borrows |-> NoBorrow] /\ sweep = NoSweep
  /\ changes = MaxChanges /\ contained = [p \in People |-> "none"]
-----------------------------------------------------------------------------
(* Access *)

Member(p, o) == enrolled[<<p, o>>] = "active"

HeldIn(p, o) == {k \in Permissions : <<p, o, k>> \in granted}

(* userIsGlobalSuperuser: by a grant in any active tenant. *)
GlobalSuperuser(p) == \E o \in tenants : Member(p, o) /\ "superuser" \in HeldIn(p, o)

(* The permissions of an access context: the marker stands for all. *)
Power(p, o) == HeldIn(p, o) \cup IF GlobalSuperuser(p) THEN Permissions ELSE {}

(* listActiveOrganizationIdsForBetterAuthUser *)
ActiveTenants(p) == {o \in tenants : Member(p, o) /\ p \notin inactive}

(* listImpersonationReachableOrgIds: a ban is decided before anything else.  *)
(* A superuser is not confined.                                              *)
Reachable(p) ==
  CASE p \in banned -> {}
    [] p \notin banned /\ GlobalSuperuser(p) /\ p \notin inactive -> Tenants
    [] OTHER -> ActiveTenants(p)

(* getUserAccessContext on a session: where the cookie can take it. *)
Resolves(s) == ActiveTenants(s.user) \cap IF s.by = NoOne THEN Tenants ELSE Reachable(s.by)
-----------------------------------------------------------------------------
(* POST users/[id]/impersonate *)

BorrowStep(q, from, to) ==
  /\ borrow[q].at = from
  /\ borrow' = [borrow EXCEPT ![q].at = to]
  /\ UNCHANGED <<access, sessions, sweep, changes, contained>>

Borrowed == {s \in sessions : s.by # NoOne}

RoomToBorrow == Cardinality(Borrowed) < MaxBorrowed

(* The guard, and F-02: not from a borrowed session.  The target is one the  *)
(* caller may see (resolveTargetUser).                                       *)
ImpersonateGuard(q, s, v) ==
  /\ borrow[q].at = "rest" /\ RoomToBorrow
  /\ s.by = NoOne
  /\ v # s.user
  /\ \E o \in Resolves(s) :
       LET powers == Power(s.user, o)
           cross == "superuser" \in powers IN
       /\ "impersonate" \in powers
       /\ cross \/ enrolled[<<v, o>>] # "none"
       /\ borrow' = [borrow EXCEPT ![q] = [at |-> IF cross THEN "standing" ELSE "union", cookie |-> s,
                                           target |-> v, powers |-> powers, cross |-> cross]]
  /\ UNCHANGED <<access, sessions, sweep, changes, contained>>

(* permissionKeysHeldInAnyOrg: whether or not the tenant is active (F-09). *)
HeldInAnyOrg(p) == UNION {HeldIn(p, o) : o \in {t \in Tenants : Member(p, t)}}

(* IMP-1: all the target holds anywhere, against what the caller holds in    *)
(* the tenant the guard resolved.                                            *)
CompareUnion(q) ==
  /\ BorrowStep(q, "union", "shared")
  /\ HeldInAnyOrg(borrow[q].target) \subseteq borrow[q].powers

(* Mutant: only tenants that are active are compared. *)
SharedTenants_ActiveOnly(p, v) == {o \in tenants : Member(p, o) /\ Member(v, o)}

(* permissionKeysByActiveOrg of both: suspended tenants count. *)
SharedTenants(p, v) == {o \in Tenants : Member(p, o) /\ Member(v, o)}

(* IMP-2: tenant by tenant. *)
CompareShared(q) ==
  LET p == borrow[q].cookie.user
      v == borrow[q].target IN
  /\ BorrowStep(q, "shared", "standing")
  /\ \A o \in SharedTenants(p, v) : HeldIn(v, o) \subseteq HeldIn(p, o)

(* F-148: the borrowed session would be admitted somewhere. *)
CheckStanding(q) ==
  /\ BorrowStep(q, "standing", "ready")
  /\ Resolves([Own(borrow[q].target) EXCEPT !.by = borrow[q].cookie.user]) # {}

(* impersonateBetterAuthUser: Better Auth reads the cookie's row (one that   *)
(* is gone has ended the request, see Deleting) ...                          *)
VendorReads(q) == BorrowStep(q, "ready", "opening")

(* ... and inserts the session; its hook refuses a banned target. *)
VendorOpens(q) ==
  LET b == borrow[q] IN
  /\ b.at = "opening" /\ b.target \notin banned
  /\ sessions' = sessions \cup
       {[user |-> b.target, by |-> b.cookie.user, human |-> b.cookie.human,
         judged |-> ~b.cross, shifted |-> b.cookie.shifted, late |-> b.cookie.late]}
  /\ borrow' = [borrow EXCEPT ![q] = NoBorrow]
  /\ UNCHANGED <<access, sweep, changes, contained>>

(* A refusal, an error or a crash. *)
BorrowEnds(q) ==
  /\ borrow[q].at # "rest"
  /\ borrow' = [borrow EXCEPT ![q] = NoBorrow]
  /\ UNCHANGED <<access, sessions, sweep, changes, contained>>

(* DELETE users/[id]/impersonate, or the cap of one hour (readSession,       *)
(* rejectClosedAuthEndpoints): the borrowed row goes.                        *)
StopImpersonating(s) ==
  /\ s.by # NoOne
  /\ sessions' = sessions \ {s}
  /\ borrow' = [q \in Borrows |-> IF borrow[q].at # "opening" /\ borrow[q].cookie = s
                                    THEN NoBorrow ELSE borrow[q]]
  /\ UNCHANGED <<access, sweep, changes, contained>>
-----------------------------------------------------------------------------
(* Containment: banBetterAuthUser, revokeAllBetterAuthUserSessions (also a   *)
(* password set by an administrator) and onPasswordReset.                    *)

Statements(kind) ==
  CASE kind = "ban" -> <<"ban", "own", "borrowed">>
    [] kind = "revoke_all" -> <<"own", "borrowed">>
    [] kind = "reset" -> <<"borrowed", "own">>

SweepStarts(p, kind) ==
  /\ sweep = NoSweep /\ changes > 0
  /\ kind = "ban" => p \notin banned
  /\ sweep' = [who |-> p, kind |-> kind, todo |-> Statements(kind), whole |-> TRUE]
  /\ changes' = changes - 1
  /\ UNCHANGED <<access, sessions, borrow, contained>>

(* Rows are deleted: a request with such a cookie gets no further than       *)
(* Better Auth's read of it; one that is past that is late.                  *)
Deleting(rows) ==
  /\ sessions' = {s \in sessions : Row(s) \notin rows}
  /\ borrow' = [q \in Borrows |->
       IF Row(borrow[q].cookie) \notin rows THEN borrow[q]
       ELSE IF borrow[q].at = "opening" THEN [borrow[q] EXCEPT !.cookie.late = TRUE] ELSE NoBorrow]

(* deleteUserSessions by userId, revokeSessionsImpersonatedBy by impersonatedBy. *)
RowsOf(p, statement) == IF statement = "own" THEN {p} \X Someone ELSE People \X {p}

(* After the last statement the caller is told that it worked. *)
SweptAfter(whole) ==
  LET left == Tail(sweep.todo) IN
  IF left # <<>> THEN /\ sweep' = [sweep EXCEPT !.todo = left, !.whole = whole]
                      /\ UNCHANGED contained
  ELSE /\ sweep' = NoSweep
       /\ contained' = IF whole THEN [contained EXCEPT ![sweep.who] = sweep.kind] ELSE contained

SweepStatement ==
  /\ sweep # NoSweep
  /\ \/ /\ Head(sweep.todo) = "ban"
        /\ banned' = banned \cup {sweep.who}
        /\ UNCHANGED <<sessions, borrow>>
     \/ /\ Head(sweep.todo) # "ban"
        /\ Deleting(RowsOf(sweep.who, Head(sweep.todo)))
        /\ UNCHANGED banned
  /\ SweptAfter(sweep.whole)
  /\ UNCHANGED <<enrolled, granted, tenants, inactive, changes>>

(* A statement fails: an administrator's call throws; the reset hook logs it *)
(* and goes on.                                                              *)
SweepFails ==
  /\ sweep # NoSweep
  /\ IF sweep.kind = "reset" THEN SweptAfter(FALSE) ELSE sweep' = NoSweep /\ UNCHANGED contained
  /\ UNCHANGED <<access, sessions, borrow, changes>>

(* endBorrowedSessionsAfterOwnSweep: signing out one's other sessions, never *)
(* from a borrowed one (IMP-3), ends what one has borrowed.                  *)
OwnSweep(p) ==
  /\ Own(p) \in sessions
  /\ Deleting(RowsOf(p, "borrowed"))
  /\ UNCHANGED <<access, sweep, changes, contained>>
-----------------------------------------------------------------------------
(* Everyone else *)

Change == changes > 0 /\ changes' = changes - 1 /\ UNCHANGED sweep

(* Ranks shift under a comparison: somebody borrowed gains, or a borrower    *)
(* loses or comes into a tenant that was not compared.                       *)
Shifting(gains, loses) ==
  LET shifted(s, v) == [s EXCEPT !.shifted = @ \/ v \in gains \/ s.human \in loses] IN
  /\ sessions' = {IF s.by = NoOne THEN s ELSE shifted(s, s.user) : s \in sessions}
  /\ borrow' = [q \in Borrows |-> IF borrow[q].at = "rest" THEN borrow[q]
                                  ELSE [borrow[q] EXCEPT !.cookie = shifted(@, borrow[q].target)]]
  /\ UNCHANGED contained

RoleGranted(p, o, k) ==
  /\ Change /\ enrolled[<<p, o>>] # "none" /\ <<p, o, k>> \notin granted
  /\ granted' = granted \cup {<<p, o, k>>}
  /\ Shifting({p}, {})
  /\ UNCHANGED <<enrolled, tenants, inactive, banned>>

RoleRevoked(p, o, k) ==
  /\ Change /\ <<p, o, k>> \in granted
  /\ granted' = granted \ {<<p, o, k>>}
  /\ Shifting({}, {p})
  /\ UNCHANGED <<enrolled, tenants, inactive, banned>>

MembershipActivated(p, o) ==
  /\ Change /\ ~Member(p, o)
  /\ enrolled' = [enrolled EXCEPT ![<<p, o>>] = "active"]
  /\ Shifting({p}, {p})
  /\ UNCHANGED <<granted, tenants, inactive, banned>>

MembershipSuspended(p, o) ==
  /\ Change /\ Member(p, o)
  /\ enrolled' = [enrolled EXCEPT ![<<p, o>>] = "suspended"]
  /\ UNCHANGED <<granted, tenants, inactive, banned, sessions, borrow, contained>>

(* A tenant, an account and a ban go back and forth without shifting ranks. *)
TenantToggled(o) ==
  /\ Change
  /\ tenants' = (tenants \ {o}) \cup ({o} \ tenants)
  /\ UNCHANGED <<enrolled, granted, inactive, banned, sessions, borrow, contained>>

AccountToggled(p) ==
  /\ Change
  /\ inactive' = (inactive \ {p}) \cup ({p} \ inactive)
  /\ UNCHANGED <<enrolled, granted, tenants, banned, sessions, borrow, contained>>

Unbanned(p) ==
  /\ Change /\ p \in banned
  /\ banned' = banned \ {p}
  /\ UNCHANGED <<enrolled, granted, tenants, inactive, sessions, borrow, contained>>

(* A sign-in, with the new password after a reset, is not what a sweep ends. *)
SignIn(p) ==
  /\ changes > 0 /\ changes' = changes - 1
  /\ p \notin banned
  /\ sessions' = sessions \cup {Own(p)}
  /\ sweep' = IF sweep.who = p THEN [sweep EXCEPT !.whole = FALSE] ELSE sweep
  /\ contained' = [contained EXCEPT ![p] = "none"]
  /\ UNCHANGED <<access, borrow>>
-----------------------------------------------------------------------------
Impersonate(q) ==
  \/ \E s \in sessions, v \in People : ImpersonateGuard(q, s, v)
  \/ CompareUnion(q) \/ CompareShared(q) \/ CheckStanding(q)
  \/ VendorReads(q) \/ VendorOpens(q) \/ BorrowEnds(q)

Contain ==
  \/ \E p \in People, kind \in {"ban", "revoke_all", "reset"} : SweepStarts(p, kind)
  \/ SweepStatement \/ SweepFails

Elsewhere(p) ==
  \/ \E o \in Tenants, k \in Permissions : RoleGranted(p, o, k) \/ RoleRevoked(p, o, k)
  \/ \E o \in Tenants : MembershipActivated(p, o) \/ MembershipSuspended(p, o)
  \/ AccountToggled(p) \/ Unbanned(p) \/ SignIn(p) \/ OwnSweep(p)

BorrowNext ==
  \/ \E q \in Borrows : Impersonate(q)
  \/ \E s \in sessions : StopImpersonating(s)
  \/ Contain
  \/ \E p \in People : Elsewhere(p)
  \/ \E o \in Tenants : TenantToggled(o)

BorrowSpec == BorrowInit /\ [][BorrowNext]_borrowVars
-----------------------------------------------------------------------------
(* Correctness *)

(* A borrowed session goes nowhere the human behind it could not go as       *)
(* themselves, now: after any chain of impersonations, bans, suspensions and *)
(* lost memberships (listImpersonationReachableOrgIds, F-02, F-08).          *)
ReachIsTheHumans == \A s \in Borrowed : Resolves(s) \subseteq Reachable(s.human)

(* IMP-2.  Where it goes it has no permission the human lacks there, unless  *)
(* the human was a superuser when it was opened, or one of the two was       *)
(* granted, stripped of or admitted to something since the comparison: a     *)
(* tenant, an account or a ban that comes back mid-session changes nothing.  *)
RankIsTheHumans ==
  \A s \in Borrowed : s.judged /\ ~s.shifted =>
    \A o \in Resolves(s) : Power(s.user, o) \subseteq Power(s.human, o)

(* F-08.  Once an administrator's ban or sign-out of an account is done, the *)
(* account drives no session, its own or borrowed, except one that Better    *)
(* Auth was inserting while the sweep passed.                                *)
ContainedIsOut ==
  \A s \in sessions : contained[s.human] \in {"ban", "revoke_all"} => s.late

(* A borrowed session is bounded by its borrower: in reach, in rank and by   *)
(* what ends the borrower's own sessions (users/[id]/impersonate,            *)
(* impersonation-reach.server.ts, impersonation-sessions.server.ts).         *)
BorrowedSessionsBounded == ReachIsTheHumans /\ RankIsTheHumans /\ ContainedIsOut
=============================================================================
