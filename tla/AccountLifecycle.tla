-------------------------- MODULE AccountLifecycle --------------------------
(***************************************************************************)
(* One account through ban, soft-delete, restore, erasure and re-approval: *)
(* its app_users status, its ban in Better Auth, its memberships with the  *)
(* snapshot a soft-delete takes of them, and the audit row from which a    *)
(* restore learns the ban the soft-delete replaced.                        *)
(*                                                                         *)
(* A request reads the account, then writes in one or more transactions;   *)
(* the ban is written over Better Auth's own connection.  Nothing holds    *)
(* the account between these steps, so requests interleave at each.  A     *)
(* request is free to end at any of them (a refusal, an error, a crash).   *)
(*                                                                         *)
(* Who may act (rank, reach, shared accounts) is decided by reads this     *)
(* module leaves out: its actors are administrators who may.               *)
(***************************************************************************)
EXTENDS Naturals, FiniteSets

CONSTANTS Orgs,       \* organizations
          Requests,   \* requests that can be in flight at once
          AdminBans,  \* the bans an administrator imposes
          Decisions,  \* the statuses an administrator gives a user
          Edits,      \* the statuses an administrator gives a membership
          MaxCalls,   \* bound: requests made
          MaxEdits    \* bound: steps of one statement, by anyone

ASSUME LifecycleAssumption ==
  /\ IsFiniteSet(Orgs) /\ Orgs # {}
  /\ AdminBans \subseteq {"indefinite", "timed"}
  /\ Decisions \subseteq {"active", "blocked", "suspended"}
  /\ Edits \subseteq {"active", "pending_approval", "blocked", "suspended"}
  /\ MaxCalls \in Nat /\ MaxEdits \in Nat

VARIABLES
  account,  \* app_users.status, "none" before the row exists
  erased,   \* the row carries the erasure pseudonym
  ban,      \* the ban on the Better Auth user
  lapsed,   \* the expiry of a timed ban has passed
  member,   \* app_organization_memberships of the account, by organization
  record,   \* priorBan of the latest admin.user.soft_deleted row
  req,      \* what each request does and has read
  calls,    \* requests still to come (bound)
  edits,    \* single statements still to come (bound)
  imposed,  \* the ban administrators last decided on (history)
  owed,     \* memberships a soft-delete took, not yet approved again (history)
  stale,    \* a request wrote on a status read before a deletion, restore or erasure (history)
  torn      \* a saga stopped half-way, or two wrote the ban at once (history)

row == <<account, erased>>
bans == <<ban, lapsed, record>>
history == <<imposed, owed, stale, torn>>
bound == <<calls, edits>>
vars == <<row, bans, member, req, bound, history>>

AccountStatus == {"active", "pending_approval", "blocked", "suspended", "deactivated"}
MembershipStatus == {"active", "pending_approval", "blocked", "suspended"}
Bans == {"none", "indefinite", "timed", "deletion"}

(* Requests that write the ban; each reads it before. *)
BanWriters == {"carry", "ban", "cascade", "undo", "record", "prior_ban", "unban", "revive",
               "admin_ban", "guard", "ban_undo"}

Places == {"idle", "erase", "status", "provision", "consume", "accept", "reevaluate"}
            \cup BanWriters

(* Requests that go on to write on the strength of a status they read. *)
Relying == {"prior_ban", "unban", "revive", "consume", "accept", "reevaluate"}

Idle == [pc |-> "idle", seen |-> "none", prev |-> "none", prior |-> "none",
         orgs |-> {}, wide |-> FALSE, outrun |-> FALSE]

TypeOK ==
  /\ account \in AccountStatus \cup {"none"} /\ erased \in BOOLEAN
  /\ ban \in Bans /\ lapsed \in BOOLEAN
  /\ member \in [Orgs -> [status : MembershipStatus \cup {"none"},
                          snapshot : MembershipStatus \cup {"none"},
                          signup : BOOLEAN]]
  /\ record \in Bans
  /\ req \in [Requests -> [pc : Places, seen : AccountStatus \cup {"none"},
                           prev : Bans, prior : Bans \cup {"replaced"},
                           orgs : SUBSET Orgs, wide : BOOLEAN, outrun : BOOLEAN]]
  /\ calls \in 0..MaxCalls /\ edits \in 0..MaxEdits
  /\ imposed \in Bans \ {"deletion"} /\ owed \subseteq Orgs
  /\ stale \in BOOLEAN /\ torn \in BOOLEAN

NoMembership == [status |-> "none", snapshot |-> "none", signup |-> FALSE]

(* Before the sign-up, or any time after. *)
Init ==
  /\ \/ account = "none" /\ member = [o \in Orgs |-> NoMembership]
     \/ /\ account \in {"active", "pending_approval"}
        /\ member \in [Orgs -> {NoMembership, [status |-> account, snapshot |-> "none",
                                             signup |-> TRUE]}]
        /\ \E o \in Orgs : member[o].status # "none"
  /\ erased = FALSE
  /\ ban \in {"none"} \cup AdminBans /\ imposed = ban
  /\ lapsed = FALSE /\ record = "none"
  /\ req = [r \in Requests |-> Idle]
  /\ calls = MaxCalls /\ edits = MaxEdits
  /\ owed = {} /\ stale = FALSE /\ torn = FALSE
-----------------------------------------------------------------------------
(* Requests *)

(* What a request read is out of date once one of these commits. *)
Outrun(except) ==
  [r \in Requests |-> IF r # except /\ req[r].pc \in Relying
                        THEN [req[r] EXCEPT !.outrun = TRUE] ELSE req[r]]

Start(r, next) ==
  /\ req[r].pc = "idle" /\ calls > 0
  /\ req' = [req EXCEPT ![r] = next]
  /\ calls' = calls - 1 /\ UNCHANGED edits

(* A step of a request that is under way. *)
At(r, pc) == req[r].pc = pc /\ UNCHANGED bound

(* A step of one statement. *)
Statement == edits > 0 /\ edits' = edits - 1 /\ UNCHANGED calls

(* Another request that writes the ban is in flight. *)
BanContended(r) == \E q \in Requests \ {r} : req[q].pc \in BanWriters

Ends(r) == req' = [req EXCEPT ![r] = Idle]

(* A refusal, an error or a crash.  A saga that has written the ban and not  *)
(* yet the rest, or the rest and not yet its record, is torn.                *)
Dies(r) ==
  /\ req[r].pc # "idle"
  /\ Ends(r) /\ UNCHANGED bound
  /\ torn' = (torn \/ req[r].pc \in {"cascade", "undo", "record", "revive", "guard", "ban_undo"})
  /\ UNCHANGED <<row, bans, member, imposed, owed, stale>>
-----------------------------------------------------------------------------
(* The ban *)

(* isBanActive: an expiry in the past ends a ban. *)
InForce(b) == IF b = "timed" /\ lapsed THEN "none" ELSE b

(* Bound: timed bans expire once, and none is imposed after. *)
BanLapses ==
  /\ Statement
  /\ ~lapsed /\ "timed" \in {ban, imposed}
  /\ lapsed' = TRUE
  /\ UNCHANGED <<row, ban, record, member, req, history>>

(* restoreBetterAuthBan: put a ban back, or lift it when it has expired. *)
RestoreBetterAuthBan(b) == ban' = InForce(b)
-----------------------------------------------------------------------------
(* Soft-delete: DELETE users/[id] and the bulk action *)

(* resolveTargetUser, and carriedPriorBan: of an account read as deactivated *)
(* already, the recorded prior ban is carried over.                          *)
SoftDeleteRead(r) ==
  /\ account # "none"
  /\ Start(r, [Idle EXCEPT !.pc = IF account = "deactivated" THEN "carry" ELSE "ban",
                           !.prior = "replaced"])
  /\ torn' = (torn \/ BanContended(r))
  /\ UNCHANGED <<row, bans, member, imposed, owed, stale>>

CarriedPriorBan(r) ==
  /\ At(r, "carry")
  /\ req' = [req EXCEPT ![r].prior = record, ![r].pc = "ban"]
  /\ UNCHANGED <<row, bans, member, history>>

(* Mutant: of a first deletion no prior ban is filled in. *)
BanForSoftDelete_Undefined(r) ==
  /\ At(r, "ban")
  /\ ban' = "deletion"
  /\ req' = [req EXCEPT ![r].prev = InForce(ban), ![r].pc = "cascade"]
  /\ UNCHANGED <<row, lapsed, record, member, history>>

(* banForSoftDelete: the deletion's own ban goes over the one in force, which *)
(* is the one to record unless an earlier deletion's record is carried.       *)
BanForSoftDelete(r) ==
  /\ At(r, "ban")
  /\ ban' = "deletion"
  /\ req' = [req EXCEPT ![r].prev = InForce(ban), ![r].pc = "cascade",
                        ![r].prior = IF @ = "replaced" THEN InForce(ban) ELSE @]
  /\ UNCHANGED <<row, lapsed, record, member, history>>

Snapshotted(m) ==
  IF m.status \in {"none", "blocked"} THEN m
  ELSE [m EXCEPT !.snapshot = m.status, !.status = "blocked"]

(* The transaction: the account deactivated, every membership that is not    *)
(* blocked already snapshotted and blocked.                                  *)
SoftDeleteCascade(r) ==
  /\ At(r, "cascade")
  /\ account' = "deactivated"
  /\ member' = [o \in Orgs |-> Snapshotted(member[o])]
  /\ owed' = owed \cup {o \in Orgs : member[o].status \in {"active", "pending_approval"}}
  /\ req' = [Outrun(r) EXCEPT ![r].pc = "record"]
  /\ UNCHANGED <<erased, bans, imposed, stale, torn>>

(* REVOKE-2 refuses, or the transaction fails: the ban is undone. *)
SoftDeleteRefused(r) ==
  /\ At(r, "cascade")
  /\ req' = [req EXCEPT ![r].pc = "undo"]
  /\ UNCHANGED <<row, bans, member, history>>

SoftDeleteUndo(r) ==
  /\ At(r, "undo")
  /\ RestoreBetterAuthBan(req[r].prev)
  /\ Ends(r)
  /\ UNCHANGED <<row, lapsed, record, member, history>>

(* finishSoftDelete: the audit row, whether or not the credentials could be revoked. *)
FinishSoftDelete(r) ==
  /\ At(r, "record")
  /\ record' = req[r].prior
  /\ Ends(r)
  /\ UNCHANGED <<row, ban, lapsed, member, history>>
-----------------------------------------------------------------------------
(* Restore *)

(* Mutant: an erased account may be restored. *)
RestoreRead_Erased(r) ==
  /\ account = "deactivated"
  /\ Start(r, [Idle EXCEPT !.pc = "prior_ban"])
  /\ torn' = (torn \/ BanContended(r))
  /\ UNCHANGED <<row, bans, member, imposed, owed, stale>>

(* Only a deactivated account that is not erased. *)
RestoreRead(r) ==
  /\ account = "deactivated" /\ ~erased
  /\ Start(r, [Idle EXCEPT !.pc = "prior_ban"])
  /\ torn' = (torn \/ BanContended(r))
  /\ UNCHANGED <<row, bans, member, imposed, owed, stale>>

RecordedPriorBan(r) ==
  /\ At(r, "prior_ban")
  /\ req' = [req EXCEPT ![r].prior = record, ![r].pc = "unban"]
  /\ UNCHANGED <<row, bans, member, history>>

(* Mutant: a restore lifts whatever ban there is. *)
RestoreBan_Lifts(r) ==
  /\ At(r, "unban")
  /\ RestoreBetterAuthBan("none")
  /\ req' = [req EXCEPT ![r].pc = "revive"]
  /\ UNCHANGED <<row, lapsed, record, member, history>>

RestoreBan(r) ==
  /\ At(r, "unban")
  /\ RestoreBetterAuthBan(req[r].prior)
  /\ req' = [req EXCEPT ![r].pc = "revive"]
  /\ UNCHANGED <<row, lapsed, record, member, history>>

(* Mutant: only what was active comes back. *)
Released_ActiveOnly(m) ==
  IF m.snapshot # "active" THEN m ELSE [m EXCEPT !.status = "pending_approval"]

(* restoreSnapshottedMemberships: an active membership comes back pending,   *)
(* and a pending one keeps its snapshot as the mark that it was held back.   *)
Released(m) ==
  IF m.snapshot = "none" THEN m
  ELSE [m EXCEPT !.status = IF m.snapshot = "active" THEN "pending_approval" ELSE m.snapshot,
                 !.snapshot = IF @ \in {"active", "pending_approval"} THEN @ ELSE "none"]

(* The transaction; it does not read the status again. *)
RestoreCommit(r) ==
  /\ At(r, "revive")
  /\ account' = "pending_approval"
  /\ member' = [o \in Orgs |-> Released(member[o])]
  /\ stale' = (stale \/ req[r].outrun)
  /\ req' = [Outrun(r) EXCEPT ![r] = Idle]
  /\ UNCHANGED <<erased, bans, imposed, owed, torn>>
-----------------------------------------------------------------------------
(* Erasure *)

EraseRead(r) ==
  /\ account = "deactivated"
  /\ Start(r, [Idle EXCEPT !.pc = "erase"])
  /\ UNCHANGED <<row, bans, member, history>>

(* app_users_pseudonymise locks the row and checks the status again. *)
EraseCommit(r) ==
  /\ At(r, "erase")
  /\ account = "deactivated"
  /\ erased' = TRUE
  /\ req' = [Outrun(r) EXCEPT ![r] = Idle]
  /\ UNCHANGED <<account, bans, member, history>>
-----------------------------------------------------------------------------
(* Ban and unban *)

(* A soft-deleted account is left to restore. *)
BanRead(r) ==
  /\ account \notin {"none", "deactivated"}
  /\ Start(r, [Idle EXCEPT !.pc = "admin_ban"])
  /\ torn' = (torn \/ BanContended(r))
  /\ UNCHANGED <<row, bans, member, imposed, owed, stale>>

AdminBan(r) ==
  /\ At(r, "admin_ban")
  /\ \E b \in AdminBans \ (IF lapsed THEN {"timed"} ELSE {}) :
       /\ ban' = b
       /\ req' = [req EXCEPT ![r].prev = InForce(ban), ![r].prior = b, ![r].pc = "guard"]
  /\ UNCHANGED <<row, lapsed, record, member, history>>

(* guardAppliedBan keeps the ban, or undoes it. *)
GuardPasses(r) ==
  /\ At(r, "guard")
  /\ imposed' = req[r].prior
  /\ Ends(r)
  /\ UNCHANGED <<row, bans, member, owed, stale, torn>>

GuardRefuses(r) ==
  /\ At(r, "guard")
  /\ req' = [req EXCEPT ![r].pc = "ban_undo"]
  /\ UNCHANGED <<row, bans, member, history>>

BanUndo(r) ==
  /\ At(r, "ban_undo")
  /\ RestoreBetterAuthBan(req[r].prev)
  /\ Ends(r)
  /\ UNCHANGED <<row, lapsed, record, member, history>>

Unban(r) ==
  /\ At(r, "admin_ban")
  /\ ban' = "none" /\ imposed' = "none"
  /\ Ends(r)
  /\ UNCHANGED <<row, lapsed, record, member, owed, stale, torn>>
-----------------------------------------------------------------------------
(* Approval *)

(* performAdminStatusChange: a superadmin acts on every membership; an org   *)
(* admin on the membership in their own organization, and on the account     *)
(* unless it is shared with another one, which is read before the transaction. *)
StatusRead(r) ==
  /\ account # "none"
  /\ \E orgs \in {Orgs} \cup {{o} : o \in {p \in Orgs : member[p].status # "none"}} :
       Start(r, [Idle EXCEPT !.pc = "status", !.orgs = orgs,
                   !.wide = orgs = Orgs \/ \A o \in Orgs \ orgs : member[o].status = "none"])
  /\ UNCHANGED <<row, bans, member, history>>

(* Approve, reactivate, block or suspend: refused for a deactivated account  *)
(* under the row's lock.  A status set here is a decision, and clears the snapshot. *)
StatusCommit(r) ==
  /\ At(r, "status")
  /\ account # "deactivated"
  /\ \E s \in Decisions :
       /\ account' = IF req[r].wide \/ (s = "active" /\ account = "pending_approval")
                       THEN s ELSE account
       /\ member' = [o \in Orgs |-> IF o \in req[r].orgs /\ member[o].status # "none"
                                      THEN [member[o] EXCEPT !.status = s, !.snapshot = "none"]
                                      ELSE member[o]]
  /\ owed' = owed \ req[r].orgs
  /\ Ends(r)
  /\ UNCHANGED <<erased, bans, imposed, stale, torn>>
-----------------------------------------------------------------------------
(* Memberships, edited one by one by users/[id]/memberships and              *)
(* organizations/[id]/members; neither asks whether the account is deleted.  *)

MembershipAdd(o) ==
  /\ Statement
  /\ account # "none" /\ member[o].status = "none"
  /\ \E s \in Edits : member' = [member EXCEPT ![o] = [NoMembership EXCEPT !.status = s]]
  /\ UNCHANGED <<row, bans, req, history>>

MembershipPatch(o) ==
  /\ Statement
  /\ member[o].status # "none"
  /\ \E s \in Edits :
       member' = [member EXCEPT ![o].status = s, ![o].snapshot = "none"]
  /\ owed' = owed \ {o}
  /\ UNCHANGED <<row, bans, req, imposed, stale, torn>>

MembershipRemove(o) ==
  /\ Statement
  /\ member[o].status # "none"
  /\ member' = [member EXCEPT ![o] = NoMembership]
  /\ owed' = owed \ {o}
  /\ UNCHANGED <<row, bans, req, imposed, stale, torn>>
-----------------------------------------------------------------------------
SoftDelete(r) ==
  \/ SoftDeleteRead(r) \/ CarriedPriorBan(r) \/ BanForSoftDelete(r) \/ SoftDeleteCascade(r)
  \/ SoftDeleteRefused(r) \/ SoftDeleteUndo(r) \/ FinishSoftDelete(r)

Restore(r) == RestoreRead(r) \/ RecordedPriorBan(r) \/ RestoreBan(r) \/ RestoreCommit(r)

Ban(r) == BanRead(r) \/ AdminBan(r) \/ GuardPasses(r) \/ GuardRefuses(r) \/ BanUndo(r) \/ Unban(r)

Status(r) == StatusRead(r) \/ StatusCommit(r)

-----------------------------------------------------------------------------
(* Correctness *)

(* No membership is stranded: one that a soft-delete blocked is blocked only *)
(* while the account is deactivated, so a restore or an administrator's      *)
(* decision always brings it back (restoreSnapshottedMemberships against     *)
(* every order of deletions, restores and edits).                            *)
NoStrandedMembership ==
  \A o \in Orgs : member[o].status = "blocked" /\ member[o].snapshot # "none"
                    => account = "deactivated"

(* F-57.  When no request that writes the ban is in flight, and none was     *)
(* torn or ran against another, the ban on an account that is not deleted is *)
(* the one administrators last decided on: a deletion's own ban goes with    *)
(* the deletion, and the ban it replaced comes back unless it has expired.   *)
BanIsAdministrators ==
  /\ ~torn /\ \A r \in Requests : req[r].pc \notin BanWriters
  /\ account # "deactivated"
  => InForce(ban) = InForce(imposed)

(* F-151.  An erased account stays deleted, unless a request wrote on a      *)
(* status that it had read before the erasure (restore does not check again). *)
ErasedStaysDeleted == erased => account = "deactivated" \/ stale

(* F-152.  A membership a soft-delete took is not active again until an      *)
(* administrator, or its own organization's invitation, approved it: neither *)
(* restore nor a sign-in re-evaluation activates it, unless that one wrote   *)
(* on what it had read before the deletion.                                  *)
HeldForApprover == \A o \in owed : member[o].status = "active" => stale
=============================================================================
