------------------------------- MODULE SignUp -------------------------------
(***************************************************************************)
(* How an account comes to be and becomes active: provisioning on sign-up  *)
(* and sign-in, the re-evaluation of a pending account at each sign-in,    *)
(* and invitations, composed with the account's lifecycle.                 *)
(*                                                                         *)
(* The person and the address are one, so an invitation's address matches  *)
(* the account's.  A link whose token a resend has replaced finds nothing, *)
(* so tokens are not told apart.                                           *)
(***************************************************************************)
EXTENDS AccountLifecycle

CONSTANTS Invites,   \* rows of app_organization_invitations
          OrgOf,     \* the inviting organization of each
          AutoOrgs,  \* organizations whose policy activates this sign-up
          NoInvite

ASSUME SignUpAssumption ==
  /\ OrgOf \in [Invites -> Orgs]
  /\ AutoOrgs \subseteq Orgs
  /\ NoInvite \notin Invites

VARIABLES
  invite,   \* status of each row, "none" before the insert
  expired,  \* rows past expires_at
  inviter,  \* "full": has standing and may confer the role; "invites": standing only
  open,     \* organizations with status active
  granted,  \* organizations where the invited role was granted
  token,    \* the invitation each request carries
  confers,  \* inviterMayConferRole as each request read it
  winners   \* which claims were honoured, by invitation (history)

signup == <<invite, expired, inviter, open, granted, token, confers, winners>>
signUpVars == <<vars, signup>>

SignUpTypeOK ==
  /\ TypeOK
  /\ invite \in [Invites -> {"none", "pending", "accepted", "revoked"}]
  /\ expired \subseteq Invites /\ open \subseteq Orgs /\ granted \subseteq Orgs
  /\ inviter \in {"full", "invites", "none"}
  /\ token \in [Requests -> Invites \cup {NoInvite}]
  /\ confers \in [Requests -> BOOLEAN]
  /\ winners \in [Invites -> SUBSET Requests]

SignUpInit ==
  /\ Init
  /\ invite \in [Invites -> {"none", "pending"}] 
  /\ expired \in SUBSET {i \in Invites : invite[i] = "pending"}
  /\ inviter = "full" /\ open = Orgs /\ granted = {}
  /\ token = [r \in Requests |-> NoInvite]
  /\ confers = [r \in Requests |-> FALSE]
  /\ winners = [i \in Invites |-> {}]
-----------------------------------------------------------------------------
(* Invitations *)

(* createInvitation: one pending row per organization and address. *)
CreateInvitation(i) ==
  /\ Statement
  /\ invite[i] = "none" /\ ~erased
  /\ \A j \in Invites : OrgOf[j] = OrgOf[i] => invite[j] # "pending"
  /\ inviter # "none"
  /\ invite' = [invite EXCEPT ![i] = "pending"]
  /\ UNCHANGED <<row, bans, member, req, history, expired, inviter, open, granted, token, confers, winners>>

RevokeInvitation(i) ==
  /\ Statement
  /\ invite[i] = "pending"
  /\ invite' = [invite EXCEPT ![i] = "revoked"]
  /\ UNCHANGED <<row, bans, member, req, history, expired, inviter, open, granted, token, confers, winners>>

Expires(i) ==
  /\ Statement
  /\ invite[i] = "pending" /\ i \notin expired
  /\ expired' = expired \cup {i}
  /\ UNCHANGED <<row, bans, member, req, history, invite, inviter, open, granted, token, confers, winners>>

(* regenerateInvitationToken: a new link and a new term, while pending. *)
RegenerateInvitationToken(i) ==
  /\ Statement
  /\ invite[i] = "pending" /\ i \in expired
  /\ expired' = expired \ {i}
  /\ UNCHANGED <<row, bans, member, req, history, invite, inviter, open, granted, token, confers, winners>>

(* findValidInvitationByToken *)
Valid(i) == invite[i] = "pending" /\ i \notin expired /\ OrgOf[i] \in open

(* enforceInviterStanding, failing: the invitation is void. *)
Voided(i) == [invite EXCEPT ![i] = IF @ = "pending" THEN "revoked" ELSE @]

(* The inviter is demoted, banned or deleted; an organization is suspended   *)
(* or comes back.                                                            *)
InviterLoses ==
  /\ Statement
  /\ inviter # "none"
  /\ inviter' \in (IF inviter = "full" THEN {"invites", "none"} ELSE {"none"})
  /\ UNCHANGED <<row, bans, member, req, history, invite, expired, open, granted, token, confers, winners>>

OrganizationToggles(o) ==
  /\ Statement
  /\ open' = IF o \in open THEN open \ {o} ELSE open \cup {o}
  /\ UNCHANGED <<row, bans, member, req, history, invite, expired, inviter, granted, token, confers, winners>>
-----------------------------------------------------------------------------
(* Provisioning *)

(* decideInitialStatus of the organization's policy. *)
DecideInitialStatus(o, invited) ==
  IF invited \/ o \in AutoOrgs THEN "active" ELSE "pending_approval"

(* provisionUserFromAuth before its transaction: the organization is the     *)
(* invitation's, or the hinted, mapped or default one.                       *)
ProvisionInvited(r, i) ==
  /\ account = "none" /\ Valid(i) /\ inviter # "none"
  /\ Start(r, [Idle EXCEPT !.pc = "provision", !.orgs = {OrgOf[i]}, !.seen = "active"])
  /\ token' = [token EXCEPT ![r] = i]
  /\ UNCHANGED <<row, bans, member, history, invite, expired, inviter, open, granted, confers, winners>>

(* No invitation, or one whose inviter lost their standing, which voids it. *)
ProvisionUninvited(r, o) ==
  /\ account = "none"
  /\ Start(r, [Idle EXCEPT !.pc = "provision", !.orgs = {o},
                           !.seen = DecideInitialStatus(o, FALSE)])
  /\ \/ UNCHANGED invite
     \/ inviter = "none" /\ \E i \in Invites : Valid(i) /\ invite' = Voided(i)
  /\ UNCHANGED <<row, bans, member, history, expired, inviter, open, granted, token, confers, winners>>

(* The transaction: both inserts leave a row that is already there alone,    *)
(* and the status found or written goes on to the invitation.                *)
ProvisionCommit(r) ==
  /\ At(r, "provision")
  /\ account' = IF account = "none" THEN req[r].seen ELSE account
  /\ member' = [o \in Orgs |->
                  IF o \in req[r].orgs /\ member[o].status = "none"
                    THEN [status |-> req[r].seen, snapshot |-> "none", signup |-> TRUE]
                    ELSE member[o]]
  /\ IF token[r] = NoInvite
       THEN Ends(r)
       ELSE req' = [req EXCEPT ![r] = [Idle EXCEPT !.pc = "consume", !.seen = account',
                                                   !.outrun = @]]
  /\ UNCHANGED <<erased, bans, history, signup>>
-----------------------------------------------------------------------------
(* Accepting an invitation: the accept route, and the end of a provisioning *)

AcceptRead(r, i) ==
  /\ account # "none" /\ ~erased /\ Valid(i)
  /\ Start(r, [Idle EXCEPT !.pc = "consume", !.seen = account])
  /\ token' = [token EXCEPT ![r] = i]
  /\ UNCHANGED <<row, bans, member, history, invite, expired, inviter, open, granted, confers, winners>>

Leaves(r) ==
  /\ token' = [token EXCEPT ![r] = NoInvite]
  /\ confers' = [confers EXCEPT ![r] = FALSE]

(* consumeInvitation before its transaction: an eligible status, as read     *)
(* earlier, then the inviter's standing, then what the inviter may confer.   *)
ConsumeChecks(r) ==
  /\ At(r, "consume")
  /\ req[r].seen \in {"active", "pending_approval"} /\ inviter # "none"
  /\ req' = [req EXCEPT ![r].pc = "accept"]
  /\ confers' = [confers EXCEPT ![r] = inviter = "full"]
  /\ UNCHANGED <<row, bans, member, history, invite, expired, inviter, open, granted, token, winners>>

ConsumeRefused(r) ==
  /\ At(r, "consume")
  /\ IF req[r].seen \in {"active", "pending_approval"}
       THEN inviter = "none" /\ invite' = Voided(token[r])
       ELSE UNCHANGED invite
  /\ Ends(r) /\ Leaves(r)
  /\ UNCHANGED <<row, bans, member, history, expired, inviter, open, granted, winners>>

(* Mutant: the flip does not ask for a pending row. *)
ConsumeCommit_Unguarded(r) ==
  LET i == token[r]
      o == OrgOf[i]
  IN /\ At(r, "accept")
     /\ o \in open
     /\ invite' = [invite EXCEPT ![i] = "accepted"]
     /\ winners' = [winners EXCEPT ![i] = @ \cup {r}]
     /\ Ends(r) /\ Leaves(r)
     /\ UNCHANGED <<row, bans, member, history, expired, inviter, open, granted>>

(* Its transaction.  A pending membership is activated, a missing one        *)
(* created; a blocked or suspended one stays.  The role needs the membership *)
(* active, and an inviter who might confer it.                               *)
ConsumeCommit(r) ==
  LET i == token[r]
      o == OrgOf[i]
      activated == CASE member[o].status = "none" ->
                          [status |-> "active", snapshot |-> "none", signup |-> FALSE]
                     [] member[o].status = "pending_approval" ->
                          [member[o] EXCEPT !.status = "active", !.snapshot = "none"]
                     [] OTHER -> member[o]
  IN /\ At(r, "accept")
     /\ invite[i] = "pending" /\ o \in open
     /\ invite' = [invite EXCEPT ![i] = "accepted"]
     /\ winners' = [winners EXCEPT ![i] = @ \cup {r}]
     /\ member' = [member EXCEPT ![o] = activated]
     /\ owed' = IF activated # member[o] THEN owed \ {o} ELSE owed
     /\ account' = IF account = "pending_approval" THEN "active" ELSE account
     /\ granted' = IF confers[r] /\ activated.status = "active" THEN granted \cup {o} ELSE granted
     /\ stale' = (stale \/ req[r].outrun)
     /\ Ends(r) /\ Leaves(r)
     /\ UNCHANGED <<erased, bans, imposed, torn, expired, inviter, open>>

(* Someone else used or revoked it, or the organization was suspended. *)
ConsumeLate(r) ==
  /\ At(r, "accept")
  /\ invite[token[r]] # "pending" \/ OrgOf[token[r]] \notin open
  /\ Ends(r) /\ Leaves(r)
  /\ UNCHANGED <<row, bans, member, history, invite, expired, inviter, open, granted, winners>>
-----------------------------------------------------------------------------
(* Re-evaluation at sign-in *)

(* Mutant: memberships that a restore holds back are evaluated too. *)
ReevaluateRead_HeldToo(r) ==
  LET orgs == {o \in AutoOrgs : member[o].status = "pending_approval" /\ member[o].signup}
  IN /\ account = "pending_approval" /\ orgs # {} /\ InForce(ban) = "none"
     /\ Start(r, [Idle EXCEPT !.pc = "reevaluate", !.orgs = orgs])
     /\ UNCHANGED <<row, bans, member, history, signup>>

(* reevaluatePendingActivation: pending memberships of a pending account     *)
(* that sign-up made and no restore holds back, where the policy activates.  *)
ReevaluateRead(r) ==
  LET orgs == {o \in AutoOrgs : /\ member[o].status = "pending_approval"
                                /\ member[o].snapshot = "none" /\ member[o].signup}
  IN /\ account = "pending_approval" /\ orgs # {} /\ InForce(ban) = "none"
     /\ Start(r, [Idle EXCEPT !.pc = "reevaluate", !.orgs = orgs])
     /\ UNCHANGED <<row, bans, member, history, signup>>

(* Mutant: the rows read as pending are activated without asking again. *)
ReevaluateCommit_Unconditional(r) ==
  /\ At(r, "reevaluate")
  /\ account' = "active"
  /\ member' = [o \in Orgs |-> IF o \in req[r].orgs
                                 THEN [member[o] EXCEPT !.status = "active"] ELSE member[o]]
  /\ stale' = (stale \/ req[r].outrun)
  /\ Ends(r)
  /\ UNCHANGED <<erased, bans, imposed, owed, torn, signup>>

(* The transaction asks of each row that it is pending, and no more. *)
ReevaluateCommit(r) ==
  /\ At(r, "reevaluate")
  /\ account' = IF account = "pending_approval" THEN "active" ELSE account
  /\ member' = [o \in Orgs |-> IF o \in req[r].orgs /\ member[o].status = "pending_approval"
                                 THEN [member[o] EXCEPT !.status = "active"] ELSE member[o]]
  /\ stale' = (stale \/ req[r].outrun)
  /\ Ends(r)
  /\ UNCHANGED <<erased, bans, imposed, owed, torn, signup>>
-----------------------------------------------------------------------------
(* app_users_pseudonymise also revokes the address's pending invitations. *)
Erase(r) ==
  /\ EraseCommit(r)
  /\ invite' = [i \in Invites |-> IF invite[i] = "pending" THEN "revoked" ELSE invite[i]]
  /\ UNCHANGED <<expired, inviter, open, granted, token, confers, winners>>

(* Removing a membership removes the roles held through it. *)
RemoveMember(o) ==
  /\ MembershipRemove(o)
  /\ granted' = granted \ {o}
  /\ UNCHANGED <<invite, expired, inviter, open, token, confers, winners>>

DiesInvited(r) ==
  /\ Dies(r) /\ Leaves(r)
  /\ UNCHANGED <<invite, expired, inviter, open, granted, winners>>

Lifecycle(r) == SoftDelete(r) \/ Restore(r) \/ Ban(r) \/ Status(r) \/ EraseRead(r)

Consume(r) == ConsumeChecks(r) \/ ConsumeRefused(r) \/ ConsumeCommit(r) \/ ConsumeLate(r)

Provision(r) ==
  \/ ProvisionCommit(r)
  \/ \E i \in Invites : ProvisionInvited(r, i)
  \/ \E o \in Orgs : ProvisionUninvited(r, o)

SignUpNext ==
  \/ \E r \in Requests :
       \/ Lifecycle(r) /\ UNCHANGED signup
       \/ Erase(r) \/ DiesInvited(r)
       \/ Provision(r) \/ Consume(r) \/ ReevaluateRead(r) \/ ReevaluateCommit(r)
       \/ \E i \in Invites : AcceptRead(r, i)
  \/ \E o \in Orgs :
       \/ (MembershipAdd(o) \/ MembershipPatch(o)) /\ UNCHANGED signup
       \/ RemoveMember(o) \/ OrganizationToggles(o)
  \/ \E i \in Invites :
       \/ CreateInvitation(i) \/ RevokeInvitation(i)
       \/ Expires(i) \/ RegenerateInvitationToken(i)
  \/ BanLapses /\ UNCHANGED signup
  \/ InviterLoses

SignUpSpec == SignUpInit /\ [][SignUpNext]_signUpVars
-----------------------------------------------------------------------------
(* Correctness *)

(* The bans of a blocked or suspended person are lifted by administrators    *)
(* only: a membership or an account goes from blocked, suspended or          *)
(* deactivated to active by a status change or a membership edit, never by   *)
(* an accepted invitation, a sign-in or a provisioning that read an earlier  *)
(* status.                                                                   *)
OnlyAdministratorsLift ==
  [][/\ account \in {"blocked", "suspended", "deactivated"} /\ account' = "active"
           => \E r \in Requests : StatusCommit(r)
     /\ \A o \in Orgs :
          member[o].status \in {"blocked", "suspended"} /\ member'[o].status = "active"
            => MembershipPatch(o) \/ \E r \in Requests : StatusCommit(r)]_signUpVars

(* What F-152 says: no sign-up policy activates what a restore left for an   *)
(* approver.                                                                 *)
RestoredWaitsForApprover == \A o \in owed : member[o].status # "active"

GrantOf == [none |-> "none", pending |-> "offered", accepted |-> "taken", revoked |-> "withdrawn"]

Shot == INSTANCE OneShot WITH Grants <- Invites, Claimants <- Requests,
                              grant <- [i \in Invites |-> GrantOf[invite[i]]]

(* Each invitation is a single-use grant: of the provisionings and accept    *)
(* requests that found it valid, one at most is given the membership, and a  *)
(* used, revoked or voided one never comes back, whatever a resend, an       *)
(* erasure or a suspended organization does in between.                      *)
InvitationsAreOneShot == Shot!Spec
=============================================================================
