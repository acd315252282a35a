----------------------- MODULE LastSuperadminProofs -----------------------
(* Proofs about LastSuperadmin: types, and what the row locks protect. *)
EXTENDS LastSuperadmin, TLAPS

(* Type correctness: every handler of LastSuperadmin writes values of the   *)
(* columns' and the request's types.                                        *)
THEOREM TypeCorrect == Spec => []TypeOK
<1> USE ConstantsAssumption
<1>1. Init => TypeOK
  BY DEF Init, TypeOK, Statuses, NoRemoval, Removals, AllKinds
<1>2. TypeOK /\ [Next]_vars => TypeOK'
  <2> SUFFICES ASSUME TypeOK, [Next]_vars PROVE TypeOK'
    OBVIOUS
  <2> USE DEF TypeOK, Statuses, Finished, InFlight, InTransaction, AllKinds
  <2>1. CASE UNCHANGED vars
    BY <2>1 DEF vars, db, asked, guard
  <2>2. ASSUME NEW r \in Requests, Starts(r) PROVE TypeOK'
    <3> USE DEF Begin, May, db, asked, guard, Removals, NoRemoval
    <3>1. ASSUME NEW g \in Grants, RoleRevokeBegin(r, g) PROVE TypeOK'
      BY <3>1 DEF RoleRevokeBegin, Grants, RemovalKinds
    <3>2. ASSUME NEW role \in Roles, RoleStripBegin(r, role) PROVE TypeOK'
      BY <3>2 DEF RoleStripBegin, RemovalKinds
    <3>3. ASSUME NEW k \in {"member_update", "member_remove"},
                 NEW us \in SUBSET Users, NEW o \in Orgs, MembersBegin(r, k, us, o)
          PROVE TypeOK'
      BY <3>3 DEF MembersBegin, RemovalKinds
    <3>4. ASSUME NEW o \in Orgs, OrgUpdateBegin(r, o) PROVE TypeOK'
      BY <3>4 DEF OrgUpdateBegin, RemovalKinds
    <3>5. ASSUME NEW u \in Users, NEW os \in Scopes, StatusChangeBegin(r, u, os)
          PROVE TypeOK'
      BY <3>5 DEF StatusChangeBegin, Scopes, Shared, RemovalKinds
    <3>6. ASSUME NEW u \in Users, NEW os \in Scopes, ApproveBegin(r, u, os)
          PROVE TypeOK'
      BY <3>6 DEF ApproveBegin, Scopes, Shared, GrantKinds
    <3>7. ASSUME NEW k \in SagaKinds, NEW u \in Users, SagaBegin(r, k, u)
          PROVE TypeOK'
      BY <3>7 DEF SagaBegin, SagaKinds
    <3>8. ASSUME NEW u \in Users, RestoreBegin(r, u) PROVE TypeOK'
      BY <3>8 DEF RestoreBegin, GrantKinds
    <3>9. QED
      BY <2>2, <3>1, <3>2, <3>3, <3>4, <3>5, <3>6, <3>7, <3>8 DEF Starts
  <2>3. ASSUME NEW r \in Requests, Singles(r) PROVE TypeOK'
    <3> USE DEF Single, Begin, May, db, asked, guard, GrantKinds
    <3>1. ASSUME NEW u \in Users, Unban(r, u) PROVE TypeOK'
      BY <3>1 DEF Unban
    <3>2. ASSUME NEW g \in Grants, RoleAssign(r, g) PROVE TypeOK'
      BY <3>2 DEF RoleAssign, Grants
    <3>3. ASSUME NEW g \in Grants, AcceptInvitation(r, g) PROVE TypeOK'
      BY <3>3 DEF AcceptInvitation, Grants
    <3>4. ASSUME NEW role \in Roles, RoleGrant(r, role) PROVE TypeOK'
      BY <3>4 DEF RoleGrant
    <3>5. ASSUME NEW u \in Users, NEW o \in Orgs, NEW s \in {"active", "inactive"},
                 MemberAdd(r, u, o, s)
          PROVE TypeOK'
      BY <3>5 DEF MemberAdd
    <3>6. ASSUME NEW us \in SUBSET Users, NEW o \in Orgs, MemberActivate(r, us, o)
          PROVE TypeOK'
      BY <3>6 DEF MemberActivate, SetMemberships
    <3>7. ASSUME NEW o \in Orgs, OrgActivate(r, o) PROVE TypeOK'
      BY <3>7 DEF OrgActivate
    <3>8. QED
      <4> HIDE DEF TypeOK
      <4> QED
        BY <2>3, <3>1, <3>2, <3>3, <3>4, <3>5, <3>6, <3>7 DEF Singles
  <2>4. ASSUME NEW r \in Requests, Proceeds(r) PROVE TypeOK'
    <3> USE DEF db, asked, guard
    <3>1. CASE StatusCascadeRead(r)
      BY <3>1 DEF StatusCascadeRead, Removals, NoRemoval
    <3>2. CASE BanReadBefore(r)
      BY <3>2 DEF BanReadBefore
    <3>3. CASE BanApply(r)
      BY <3>3 DEF BanApply, Removals, NoRemoval
    <3>4. CASE BanUndo(r)
      BY <3>4 DEF BanUndo
    <3>5. CASE BanLapses(r)
      BY <3>5 DEF BanLapses
    <3>6. CASE GrantRead(r)
      BY <3>6 DEF GrantRead, CountedBy, GrantsDisregarding
    <3>7. CASE GrantLock(r)
      BY <3>7 DEF GrantLock
    <3>8. CASE RollBack(r) \/ SagaRefused(r) \/ Crash(r)
      BY <3>8 DEF RollBack, SagaRefused, Crash
    <3>9. CASE RestoreBan(r)
      BY <3>9 DEF RestoreBan
    <3>10. CASE RestoreCommit(r)
      BY <3>10 DEF RestoreCommit
    <3>11. QED
      BY <2>4, <3>1, <3>2, <3>3, <3>4, <3>5, <3>6, <3>7, <3>8, <3>9, <3>10
      DEF Proceeds
  <2>5. ASSUME NEW r \in Requests, Commit(r) PROVE TypeOK'
    <3> USE DEF Commits, db, asked, guard, SetMemberships
    <3>1. CASE RoleRevokeCommit(r)
      BY <3>1 DEF RoleRevokeCommit
    <3>2. CASE RoleStripCommit(r)
      BY <3>2 DEF RoleStripCommit
    <3>3. CASE MemberUpdateCommit(r)
      BY <3>3 DEF MemberUpdateCommit
    <3>4. CASE MemberRemoveCommit(r)
      BY <3>4 DEF MemberRemoveCommit
    <3>5. CASE OrgUpdateCommit(r)
      BY <3>5 DEF OrgUpdateCommit
    <3>6. CASE StatusChangeCommit(r)
      BY <3>6 DEF StatusChangeCommit
    <3>7. CASE ApproveCommit(r)
      BY <3>7 DEF ApproveCommit
    <3>8. CASE BanConfirm(r)
      BY <3>8 DEF BanConfirm
    <3>9. CASE SoftDeleteCommit(r)
      BY <3>9 DEF SoftDeleteCommit
    <3>10. QED
      BY <2>5, <3>1, <3>2, <3>3, <3>4, <3>5, <3>6, <3>7, <3>8, <3>9 DEF Commit
  <2>6. QED
    BY <2>1, <2>2, <2>3, <2>4, <2>5 DEF Next
<1>3. QED
  BY <1>1, <1>2, PTL DEF Spec
-----------------------------------------------------------------------------
(* A request about which nothing changed still counts a grant whose rows    *)
(* still confer it and whose account no new ban is in force on.             *)
LEMMA StillCounted ==
  ASSUME NEW q \in Requests, NEW g \in CountedBy(q),
         kind'[q] = kind[q], users'[q] = users[q],
         Confers(g)', InForce(ban[g[1]])' => InForce(ban[g[1]])
  PROVE  g \in CountedBy(q)'
  BY DEF CountedBy, GrantsDisregarding, Disregarded

(* A counted grant names an account, an organization and a role.            *)
LEMMA GrantParts ==
  ASSUME NEW g \in Grants
  PROVE  /\ g = <<g[1], g[2], g[3]>>
         /\ g[1] \in Users /\ g[2] \in Orgs /\ g[3] \in Roles
         /\ <<g[1], g[2]>> \in Users \X Orgs
  BY DEF Grants

(* A step that leaves the database alone and locks no rows disturbs nobody. *)
LEMMA NoWriteKeepsGrants ==
  ASSUME TypeOK, CountedGrantsStay, NEW r \in Requests,
         UNCHANGED <<db, held>>,
         \A q \in Requests : pc'[q] = "locked" =>
            /\ q # r /\ pc[q] = "locked"
            /\ kind'[q] = kind[q] /\ users'[q] = users[q]
  PROVE  CountedGrantsStay'
  <1> SUFFICES ASSUME NEW q \in Requests, pc'[q] = "locked", NEW g \in held[q]
               PROVE  g \in CountedBy(q)'
    BY DEF CountedGrantsStay
  <1>1. g \in CountedBy(q)
    BY DEF CountedGrantsStay
  <1>2. Confers(g)' /\ (InForce(ban[g[1]])' => InForce(ban[g[1]]))
    BY <1>1 DEF CountedBy, GrantsDisregarding, Confers, InForce, db
  <1> QED
    BY <1>1, <1>2, StillCounted

(* A grant read by a guarded transaction keeps counting until it ends: every *)
(* handler that could end it waits for the row locks of the read.           *)
THEOREM CountedGrantsKept == Spec => []CountedGrantsStay
<1> USE ConstantsAssumption
<1>1. Init => CountedGrantsStay
  BY DEF Init, CountedGrantsStay
<1>2. TypeOK /\ CountedGrantsStay /\ [Next]_vars => CountedGrantsStay'
  <2> SUFFICES ASSUME TypeOK, CountedGrantsStay, [Next]_vars
               PROVE  CountedGrantsStay'
    OBVIOUS
  <2>1. CASE UNCHANGED vars
    <3>1. ASSUME NEW q \in Requests PROVE CountedBy(q)' = CountedBy(q)
      BY <2>1 DEF vars, db, asked, CountedBy, GrantsDisregarding, Disregarded,
                  Confers, InForce
    <3> QED
      BY <2>1, <3>1 DEF vars, guard, CountedGrantsStay
  <2>2. ASSUME NEW r \in Requests, Starts(r) PROVE CountedGrantsStay'
    <3> USE DEF Starts, RoleRevokeBegin, RoleStripBegin, MembersBegin,
                OrgUpdateBegin, StatusChangeBegin, ApproveBegin, SagaBegin,
                RestoreBegin, Begin
    <3>1. UNCHANGED <<db, held>>
      BY <2>2
    <3>2. \A q \in Requests : pc'[q] = "locked" =>
             /\ q # r /\ pc[q] = "locked"
             /\ kind'[q] = kind[q] /\ users'[q] = users[q]
      BY <2>2 DEF TypeOK
    <3> QED
      BY <3>1, <3>2, NoWriteKeepsGrants
  <2>3. ASSUME NEW r \in Requests, Singles(r) \/ Proceeds(r) \/ Commit(r),
               NEW q \in Requests, q # r, pc[q] = "locked", NEW g \in held[q]
        PROVE  g \in CountedBy(q)'
    <3>1. g \in CountedBy(q) /\ g \in Grants
      BY <2>3 DEF CountedGrantsStay, TypeOK
    <3>2. Confers(g) /\ g[1] \in Users /\ g[2] \in Orgs /\ g[3] \in Roles
      BY <3>1, GrantParts DEF CountedBy, GrantsDisregarding
    <3>3. kind'[q] = kind[q] /\ users'[q] = users[q]
      <4>1. CASE Singles(r)
        BY <4>1, <2>3 DEF TypeOK, Singles, Unban, RoleAssign, AcceptInvitation,
              RoleGrant, MemberAdd, MemberActivate, OrgActivate, Single, Begin
      <4>2. CASE Proceeds(r)
        BY <4>2, <2>3 DEF Proceeds, asked, StatusCascadeRead, BanReadBefore,
              BanApply, BanUndo, BanLapses, GrantRead, GrantLock, RollBack,
              SagaRefused, Crash, RestoreBan, RestoreCommit
      <4>3. CASE Commit(r)
        BY <4>3, <2>3 DEF Commit, Commits, asked, RoleRevokeCommit,
              RoleStripCommit, MemberUpdateCommit, MemberRemoveCommit,
              OrgUpdateCommit, StatusChangeCommit, ApproveCommit, BanConfirm,
              SoftDeleteCommit
      <4> QED
        BY <2>3, <4>1, <4>2, <4>3
    <3>4. \A written : Free(r, written) => g \notin written
      BY <2>3 DEF Free
    <3>5. Confers(g)' /\ (InForce(ban[g[1]])' => InForce(ban[g[1]]))
      <4> USE <3>1, <3>2, <3>4 DEF OfUser, OfOrg, OfRole
      <4> DEFINE Goal == /\ Confers(g)'
                         /\ InForce(ban[g[1]])' => InForce(ban[g[1]])
      <4>1. CASE Singles(r)
        <5> USE DEF TypeOK, Confers, InForce, Single
        <5>1. ASSUME NEW u \in Users, Unban(r, u) PROVE Goal
          BY <5>1 DEF Unban
        <5>2. ASSUME NEW h \in Grants, RoleAssign(r, h) PROVE Goal
          BY <5>2 DEF RoleAssign
        <5>3. ASSUME NEW h \in Grants, AcceptInvitation(r, h) PROVE Goal
          <6>1. g[1] # h[1] /\ g \notin OfUser({h[1]})
            BY <5>3 DEF AcceptInvitation
          <6> QED
            BY <6>1, <5>3, GrantParts DEF AcceptInvitation
        <5>4. ASSUME NEW role \in Roles, RoleGrant(r, role) PROVE Goal
          BY <5>4 DEF RoleGrant
        <5>5. ASSUME NEW u \in Users, NEW o \in Orgs, NEW s \in {"active", "inactive"},
                     MemberAdd(r, u, o, s)
              PROVE  Goal
          BY <5>5, GrantParts DEF MemberAdd
        <5>6. ASSUME NEW us \in SUBSET Users, NEW o \in Orgs, MemberActivate(r, us, o)
              PROVE  Goal
          BY <5>6, GrantParts DEF MemberActivate, SetMemberships
        <5>7. ASSUME NEW o \in Orgs, OrgActivate(r, o) PROVE Goal
          BY <5>7 DEF OrgActivate
        <5> HIDE DEF Goal, TypeOK, Confers, InForce, Single
        <5>8. Goal
          BY <4>1, <5>1, <5>2, <5>3, <5>4, <5>5, <5>6, <5>7 DEF Singles
        <5> QED
          BY <5>8 DEF Goal
      <4>2. CASE Proceeds(r)
        <5> USE DEF Confers, InForce, TypeOK
        <5>1. CASE \/ StatusCascadeRead(r) \/ BanReadBefore(r) \/ GrantRead(r)
                   \/ GrantLock(r) \/ RollBack(r) \/ SagaRefused(r) \/ Crash(r)
          BY <5>1 DEF db, StatusCascadeRead, BanReadBefore, GrantRead, GrantLock,
                      RollBack, SagaRefused, Crash
        <5>2. CASE BanApply(r) \/ BanUndo(r)
          BY <5>2 DEF BanApply, BanUndo
        <5>3. CASE BanLapses(r)
          BY <5>3 DEF BanLapses
        <5>4. CASE RestoreBan(r) \/ RestoreCommit(r)
          BY <5>4 DEF RestoreBan, RestoreCommit
        <5> QED
          BY <4>2, <5>1, <5>2, <5>3, <5>4 DEF Proceeds
      <4>3. CASE Commit(r)
        <5> USE GrantParts DEF Confers, InForce, TypeOK, Commits, SetMemberships
        <5>1. CASE RoleRevokeCommit(r)
          BY <5>1 DEF RoleRevokeCommit
        <5>2. CASE RoleStripCommit(r)
          BY <5>2 DEF RoleStripCommit
        <5>3. CASE MemberUpdateCommit(r)
          BY <5>3 DEF MemberUpdateCommit
        <5>4. CASE MemberRemoveCommit(r)
          BY <5>4 DEF MemberRemoveCommit
        <5>5. CASE OrgUpdateCommit(r)
          BY <5>5 DEF OrgUpdateCommit
        <5>6. CASE StatusChangeCommit(r)
          BY <5>6 DEF StatusChangeCommit
        <5>7. CASE ApproveCommit(r)
          BY <5>7 DEF ApproveCommit
        <5>8. CASE BanConfirm(r)
          BY <5>8 DEF BanConfirm, db
        <5>9. CASE SoftDeleteCommit(r)
          BY <5>9 DEF SoftDeleteCommit
        <5> QED
          BY <4>3, <5>1, <5>2, <5>3, <5>4, <5>5, <5>6, <5>7, <5>8, <5>9 DEF Commit
      <4> QED
        BY <2>3, <4>1, <4>2, <4>3
    <3> QED
      BY <3>1, <3>3, <3>5, StillCounted
  <2>4. ASSUME NEW r \in Requests, Singles(r) \/ Proceeds(r) \/ Commit(r),
               ~GrantLock(r)
        PROVE  CountedGrantsStay'
    <3>1. \A q \in Requests : pc'[q] = "locked" => q # r /\ pc[q] = "locked"
      <4>1. CASE Singles(r)
        BY <4>1 DEF TypeOK, Singles, Unban, RoleAssign, AcceptInvitation,
              RoleGrant, MemberAdd, MemberActivate, OrgActivate, Single, Begin
      <4>2. CASE Proceeds(r)
        BY <4>2, <2>4 DEF TypeOK, Proceeds, StatusCascadeRead, BanReadBefore,
              BanApply, BanUndo, BanLapses, GrantRead, RollBack, SagaRefused,
              Crash, RestoreBan, RestoreCommit, Finished
      <4>3. CASE Commit(r)
        BY <4>3 DEF TypeOK, Commit, Commits, RoleRevokeCommit,
              RoleStripCommit, MemberUpdateCommit, MemberRemoveCommit,
              OrgUpdateCommit, StatusChangeCommit, ApproveCommit, BanConfirm,
              SoftDeleteCommit
      <4> QED
        BY <2>4, <4>1, <4>2, <4>3
    <3>2. held' = held
      <4>1. CASE Singles(r)
        BY <4>1 DEF Singles, Unban, RoleAssign, AcceptInvitation,
              RoleGrant, MemberAdd, MemberActivate, OrgActivate, Single, Begin
      <4>2. CASE Proceeds(r)
        BY <4>2, <2>4 DEF Proceeds, guard, StatusCascadeRead, BanReadBefore,
              BanApply, BanUndo, BanLapses, GrantRead, RollBack, SagaRefused,
              Crash, RestoreBan, RestoreCommit
      <4>3. CASE Commit(r)
        BY <4>3 DEF guard, Commit, Commits, RoleRevokeCommit,
              RoleStripCommit, MemberUpdateCommit, MemberRemoveCommit,
              OrgUpdateCommit, StatusChangeCommit, ApproveCommit, BanConfirm,
              SoftDeleteCommit
      <4> QED
        BY <2>4, <4>1, <4>2, <4>3
    <3> QED
      BY <2>3, <2>4, <3>1, <3>2 DEF CountedGrantsStay
  <2>5. ASSUME NEW r \in Requests, GrantLock(r) PROVE CountedGrantsStay'
    <3>1. \A q \in Requests : CountedBy(q)' = CountedBy(q)
      BY <2>5 DEF GrantLock, db, asked, CountedBy, GrantsDisregarding,
                  Disregarded, Confers, InForce
    <3> QED
      BY <2>5, <3>1 DEF GrantLock, CountedGrantsStay, TypeOK
  <2> QED
    BY <2>1, <2>2, <2>4, <2>5 DEF Next, Proceeds
<1> QED
  BY <1>1, <1>2, TypeCorrect, PTL DEF Spec
=============================================================================
