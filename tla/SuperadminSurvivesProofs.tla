--------------------- MODULE SuperadminSurvivesProofs ---------------------
(* Proofs about LastSuperadmin when no two requests in flight are about one *)
(* account: the saga bookkeeping, and from it REVOKE-2.                     *)
EXTENDS LastSuperadminProofs

Step(r) == Starts(r) \/ Singles(r) \/ Proceeds(r) \/ Commit(r)

(* A step of one request leaves the variables of every other one alone.     *)
LEMMA OthersKept ==
  ASSUME TypeOK, NEW r \in Requests, Step(r), NEW q \in Requests, q # r
  PROVE  /\ pc'[q] = pc[q] /\ kind'[q] = kind[q] /\ users'[q] = users[q]
         /\ orgs'[q] = orgs[q] /\ wide'[q] = wide[q] /\ prev'[q] = prev[q]
         /\ removal'[q] = removal[q] /\ held'[q] = held[q]
<1> USE DEF TypeOK, asked, guard
<1>1. CASE Starts(r)
  BY <1>1 DEF Starts, RoleRevokeBegin, RoleStripBegin, MembersBegin,
              OrgUpdateBegin, StatusChangeBegin, ApproveBegin, SagaBegin,
              RestoreBegin, Begin
<1>2. CASE Singles(r)
  BY <1>2 DEF Singles, Unban, RoleAssign, AcceptInvitation, RoleGrant,
              MemberAdd, MemberActivate, OrgActivate, Single, Begin
<1>3. CASE Proceeds(r)
  BY <1>3 DEF Proceeds, StatusCascadeRead, BanReadBefore, BanApply, BanUndo,
              BanLapses, GrantRead, GrantLock, RollBack, SagaRefused, Crash,
              RestoreBan, RestoreCommit
<1>4. CASE Commit(r)
  BY <1>4 DEF Commit, Commits, RoleRevokeCommit, RoleStripCommit,
              MemberUpdateCommit, MemberRemoveCommit, OrgUpdateCommit,
              StatusChangeCommit, ApproveCommit, BanConfirm, SoftDeleteCommit
<1> QED
  BY <1>1, <1>2, <1>3, <1>4 DEF Step

(* A request of one statement starts and commits at once, and is no saga.  *)
LEMMA SinglesCommitAtOnce ==
  ASSUME NEW r \in Requests, Singles(r)
  PROVE  \E k \in GrantKinds \ (SagaKinds \cup {"restore"}) :
           \E us, os : Begin(r, k, us, os, "ok")
<1> DEFINE SingleKinds == GrantKinds \ (SagaKinds \cup {"restore"})
           AtOnce == \E k \in SingleKinds : \E us, os : Begin(r, k, us, os, "ok")
<1>1. ASSUME NEW k \in SingleKinds, NEW us, NEW os, NEW touched,
             Single(r, k, us, os, touched)
      PROVE  AtOnce
  BY <1>1, Zenon DEF Single
<1>2. {"unban", "role_assign", "accept_invitation", "role_grant", "member_add",
       "member_activate", "org_activate"} \subseteq SingleKinds
  BY DEF GrantKinds, SagaKinds
<1> HIDE DEF SingleKinds, AtOnce
<1>3. ASSUME NEW u \in Users, Unban(r, u) PROVE AtOnce
  BY <1>1, <1>2, <1>3, Zenon DEF Unban
<1>4. ASSUME NEW g \in Grants, RoleAssign(r, g) PROVE AtOnce
  BY <1>1, <1>2, <1>4, Zenon DEF RoleAssign
<1>5. ASSUME NEW g \in Grants, AcceptInvitation(r, g) PROVE AtOnce
  BY <1>1, <1>2, <1>5, Zenon DEF AcceptInvitation
<1>6. ASSUME NEW role \in Roles, RoleGrant(r, role) PROVE AtOnce
  BY <1>1, <1>2, <1>6, Zenon DEF RoleGrant
<1>7. ASSUME NEW u \in Users, NEW o \in Orgs, NEW s \in {"active", "inactive"},
             MemberAdd(r, u, o, s)
      PROVE  AtOnce
  BY <1>1, <1>2, <1>7, Zenon DEF MemberAdd
<1>8. ASSUME NEW us \in SUBSET Users, NEW o \in Orgs, MemberActivate(r, us, o)
      PROVE  AtOnce
  BY <1>1, <1>2, <1>8, Zenon DEF MemberActivate
<1>9. ASSUME NEW o \in Orgs, OrgActivate(r, o) PROVE AtOnce
  BY <1>1, <1>2, <1>9, Zenon DEF OrgActivate
<1>10. AtOnce
  BY <1>3, <1>4, <1>5, <1>6, <1>7, <1>8, <1>9, Zenon DEF Singles
<1> QED
  BY <1>10 DEF AtOnce, SingleKinds

(* A request starts once, from idle and, in an exclusive workload, about    *)
(* accounts no other request is about; from then on what it is about stays. *)
LEMMA OwnControl ==
  ASSUME TypeOK, NEW r \in Requests, Step(r)
  PROVE  \/ /\ Starts(r) \/ Singles(r)
            /\ pc[r] = "idle"
            /\ Exclusive => \A q \in Requests : pc[q] \in InFlight =>
                               users[q] \cap users'[r] = {}
         \/ /\ Proceeds(r) \/ Commit(r)
            /\ kind'[r] = kind[r] /\ users'[r] = users[r] /\ orgs'[r] = orgs[r]
            /\ wide'[r] = wide[r]
            /\ \/ pc[r] \in InFlight
               \/ BanLapses(r) /\ pc'[r] = pc[r] /\ pc[r] \in Finished
<1> USE DEF TypeOK, asked
<1>1. CASE Starts(r)
  BY <1>1 DEF Starts, RoleRevokeBegin, RoleStripBegin, MembersBegin,
              OrgUpdateBegin, StatusChangeBegin, ApproveBegin, SagaBegin,
              RestoreBegin, Begin, May
<1>2. CASE Singles(r)
  <2>1. PICK k, us, os : Begin(r, k, us, os, "ok")
    BY <1>2, SinglesCommitAtOnce
  <2>2. users'[r] = us
    BY <2>1 DEF Begin
  <2>3. QED
    BY <1>2, <2>1, <2>2 DEF Begin, May
<1>3. CASE Proceeds(r)
  BY <1>3 DEF Proceeds, StatusCascadeRead, BanReadBefore, BanApply, BanUndo,
              BanLapses, GrantRead, GrantLock, RollBack, SagaRefused, Crash,
              RestoreBan, RestoreCommit, InFlight, InTransaction
<1>4. CASE Commit(r)
  BY <1>4 DEF Commit, Commits, RoleRevokeCommit, RoleStripCommit,
              MemberUpdateCommit, MemberRemoveCommit, OrgUpdateCommit,
              StatusChangeCommit, ApproveCommit, BanConfirm, SoftDeleteCommit,
              InFlight, InTransaction
<1> QED
  BY <1>1, <1>2, <1>3, <1>4 DEF Step

(* Only a request about an account changes its ban, status or memberships.  *)
LEMMA OnlyOwnAccounts ==
  ASSUME TypeOK, NEW r \in Requests, Step(r), NEW u \in Users, u \notin users'[r]
  PROVE  /\ ban'[u] = ban[u] /\ account'[u] = account[u]
         /\ \A o \in Orgs : membership'[<<u, o>>] = membership[<<u, o>>]
<1> USE DEF TypeOK, db, asked
<1>1. CASE Starts(r)
  BY <1>1 DEF Starts, RoleRevokeBegin, RoleStripBegin, MembersBegin,
              OrgUpdateBegin, StatusChangeBegin, ApproveBegin, SagaBegin,
              RestoreBegin
<1>2. CASE Singles(r)
  <2> USE DEF Single, Begin
  <2>1. ASSUME NEW v \in Users, Unban(r, v) PROVE users'[r] = {v}
    BY <2>1 DEF Unban
  <2>2. ASSUME NEW v \in Users, Unban(r, v) PROVE ban'[u] = ban[u]
    BY <2>1, <2>2 DEF Unban
  <2>3. ASSUME NEW g \in Grants, AcceptInvitation(r, g)
        PROVE  /\ account'[u] = account[u]
               /\ \A o \in Orgs : membership'[<<u, o>>] = membership[<<u, o>>]
    <3>1. users'[r] = {g[1]}
      BY <2>3 DEF AcceptInvitation
    <3> QED
      BY <2>3, <3>1, GrantParts DEF AcceptInvitation
  <2>4. ASSUME NEW v \in Users, NEW p \in Orgs, NEW s \in {"active", "inactive"},
               MemberAdd(r, v, p, s)
        PROVE  \A o \in Orgs : membership'[<<u, o>>] = membership[<<u, o>>]
    <3>1. users'[r] = {v}
      BY <2>4 DEF MemberAdd
    <3> QED
      BY <2>4, <3>1 DEF MemberAdd
  <2>5. ASSUME NEW us \in SUBSET Users, NEW p \in Orgs, MemberActivate(r, us, p)
        PROVE  \A o \in Orgs : membership'[<<u, o>>] = membership[<<u, o>>]
    <3>1. users'[r] = us
      BY <2>5 DEF MemberActivate
    <3> QED
      BY <2>5, <3>1 DEF MemberActivate, SetMemberships
  <2> QED
    <3> HIDE DEF TypeOK, Single
    <3> QED
      BY <1>2, <2>2, <2>3, <2>4, <2>5 DEF Singles, Unban, RoleAssign, RoleGrant,
         MemberAdd, MemberActivate, OrgActivate, AcceptInvitation
<1>3. CASE Proceeds(r)
  BY <1>3 DEF Proceeds, StatusCascadeRead, BanReadBefore, BanApply, BanUndo,
              BanLapses, GrantRead, GrantLock, RollBack, SagaRefused, Crash,
              RestoreBan, RestoreCommit
<1>4. CASE Commit(r)
  BY <1>4 DEF Commit, Commits, RoleRevokeCommit, RoleStripCommit,
              MemberUpdateCommit, MemberRemoveCommit, OrgUpdateCommit,
              StatusChangeCommit, ApproveCommit, BanConfirm, SoftDeleteCommit,
              SetMemberships
<1> QED
  BY <1>1, <1>2, <1>3, <1>4 DEF Step

(* What others do never touches the accounts a request in flight is about.  *)
LEMMA AccountsKept ==
  ASSUME TypeOK, Exclusive, Apart, NEW r \in Requests, Step(r),
         NEW q \in Requests, q # r, pc[q] \in InFlight, NEW u \in users[q]
  PROVE  /\ ban'[u] = ban[u] /\ account'[u] = account[u]
         /\ \A o \in Orgs : membership'[<<u, o>>] = membership[<<u, o>>]
<1>1. u \in Users
  BY DEF TypeOK
<1>2. CASE u \notin users'[r]
  BY <1>1, <1>2, OnlyOwnAccounts
<1>3. CASE u \in users'[r]
  <2>1. BanLapses(r)
    BY <1>3, OwnControl DEF Apart
  <2> QED
    BY <2>1 DEF BanLapses
<1> QED
  BY <1>2, <1>3
-----------------------------------------------------------------------------
(* Each part of ExclusiveBookkeeping is preserved. *)

(* Two requests in flight stay about different accounts.                    *)
LEMMA ApartKept ==
  ASSUME TypeOK, Exclusive, Apart, NEW r \in Requests, Step(r)
  PROVE  Apart'
<1> SUFFICES ASSUME NEW p \in Requests, NEW q \in Requests, p # q,
                    pc'[p] \in InFlight, pc'[q] \in InFlight
             PROVE  users'[p] \cap users'[q] = {}
  BY DEF Apart
<1>1. CASE p # r /\ q # r
  BY <1>1, OthersKept DEF Apart
<1>2. ASSUME NEW s \in Requests, s # r, pc'[s] \in InFlight, pc'[r] \in InFlight
      PROVE  users'[s] \cap users'[r] = {}
  <2>1. pc[s] \in InFlight /\ users'[s] = users[s]
    BY <1>2, OthersKept
  <2> QED
    BY <1>2, <2>1, OwnControl DEF Apart, Finished, InFlight, InTransaction
<1> QED
  BY <1>1, <1>2

(* The ban of every account stays that of a saga about it, which has not    *)
(* undone it; only finished requests have a ban that has lapsed.            *)
LEMMA BansAreSagasKept ==
  ASSUME TypeOK, Exclusive, ExclusiveBookkeeping, NEW r \in Requests, Step(r)
  PROVE  BansAreSagas'
<1> USE ConstantsAssumption DEF ExclusiveBookkeeping
<1>1. \A s \in Requests : pc[s] \in Finished => pc'[s] = pc[s]
  BY OthersKept, OwnControl DEF Finished, InFlight, InTransaction
<1>2. \A s \in lapsed' : pc'[s] \in Finished
  <2>1. lapsed' = lapsed \/ BanLapses(r)
    BY DEF Step, Starts, RoleRevokeBegin, RoleStripBegin, MembersBegin,
       OrgUpdateBegin, StatusChangeBegin, ApproveBegin, SagaBegin, RestoreBegin,
       Singles, Unban, RoleAssign, AcceptInvitation, RoleGrant, MemberAdd,
       MemberActivate, OrgActivate, Proceeds, StatusCascadeRead, BanReadBefore,
       BanApply, BanUndo, GrantRead, GrantLock, RollBack, SagaRefused, Crash,
       RestoreBan, RestoreCommit, Commit, RoleRevokeCommit, RoleStripCommit,
       MemberUpdateCommit, MemberRemoveCommit, OrgUpdateCommit,
       StatusChangeCommit, ApproveCommit, BanConfirm, SoftDeleteCommit, db
  <2> QED
    BY <1>1, <2>1 DEF BanLapses, BansAreSagas, TypeOK
<1>3. ASSUME NEW u \in Users, ban'[u] # NoBan
      PROVE  /\ IsSagaOf(ban[u], u)'
             /\ pc'[ban'[u]] \in Banning \cup {"ok", "crashed"}
  <2>1. CASE ban'[u] # ban[u]
    <3>1. u \in users'[r]
      BY <2>1, OnlyOwnAccounts
    <3>2. \/ BanApply(r) /\ ban'[u] = r
          \/ BanUndo(r) /\ ban'[u] = prev[r]
      <4>1. ~Starts(r)
        BY <2>1 DEF Starts, RoleRevokeBegin, RoleStripBegin, MembersBegin,
           OrgUpdateBegin, StatusChangeBegin, ApproveBegin, SagaBegin,
           RestoreBegin, db
      <4>2. ~Singles(r)
        BY <1>3, <2>1 DEF Singles, Unban, RoleAssign, AcceptInvitation, RoleGrant,
           MemberAdd, MemberActivate, OrgActivate, TypeOK
      <4>3. ~Commit(r)
        BY <2>1 DEF Commit, RoleRevokeCommit, RoleStripCommit,
           MemberUpdateCommit, MemberRemoveCommit, OrgUpdateCommit,
           StatusChangeCommit, ApproveCommit, BanConfirm, SoftDeleteCommit, db
      <4> QED
        BY <1>3, <2>1, <4>1, <4>2, <4>3 DEF Step, Proceeds, StatusCascadeRead,
           BanReadBefore, BanApply, BanUndo, BanLapses, GrantRead, GrantLock,
           RollBack, SagaRefused, Crash, RestoreBan, RestoreCommit, db
    <3>3. CASE BanApply(r) /\ ban'[u] = r
      BY <3>1, <3>3 DEF BanApply, SagasAreOrderly, IsSagaOf, asked, Banning,
                        InTransaction, TypeOK
    <3>4. CASE BanUndo(r) /\ ban'[u] = prev[r]
      <4>1. /\ prev[r] \in Requests /\ IsSagaOf(prev[r], u)
            /\ pc[prev[r]] \in {"ok", "crashed"}
        BY <1>3, <3>1, <3>4 DEF BanUndo, SagasAreOrderly, asked, Banning, TypeOK
      <4>2. prev[r] # r
        BY <3>4, <4>1 DEF BanUndo
      <4> QED
        BY <3>4, <4>1, <4>2, OthersKept DEF IsSagaOf
    <3> QED
      BY <3>2, <3>3, <3>4
  <2>2. CASE ban'[u] = ban[u]
    <3> DEFINE q == ban[u]
    <3>1. /\ q \in Requests /\ IsSagaOf(q, u)
          /\ pc[q] \in Banning \cup {"ok", "crashed"}
      BY <1>3, <2>2 DEF BansAreSagas, TypeOK
    <3>2. CASE q # r
      BY <2>2, <3>1, <3>2, OthersKept DEF IsSagaOf
    <3>3. CASE q = r
      <4>1. IsSagaOf(q, u)' /\ (Proceeds(r) \/ Commit(r))
        BY <2>2, <3>1, <3>3, OwnControl DEF IsSagaOf, Banning, InTransaction
      <4>2. ~BanUndo(r)
        BY <1>3, <2>2, <3>1, <3>3 DEF BanUndo, SagasAreOrderly, Banning,
                                      IsSagaOf, TypeOK, InForce
      <4>3. pc'[r] \in Banning \cup {"ok", "crashed"}
        <5>1. CASE Commit(r)
          BY <5>1 DEF Commit, Commits, RoleRevokeCommit, RoleStripCommit,
             MemberUpdateCommit, MemberRemoveCommit, OrgUpdateCommit,
             StatusChangeCommit, ApproveCommit, BanConfirm, SoftDeleteCommit, TypeOK
        <5>2. CASE Proceeds(r)
          BY <5>2, <3>1, <3>3, <4>2 DEF Proceeds, StatusCascadeRead, BanReadBefore,
             BanApply, BanLapses, GrantRead, GrantLock, RollBack, SagaRefused,
             Crash, RestoreBan, RestoreCommit, Banning, InTransaction, IsSagaOf,
             SagaKinds, TypeOK
        <5> QED
          BY <4>1, <5>1, <5>2
      <4> QED
        BY <2>2, <3>3, <4>1, <4>3
    <3> QED
      BY <3>2, <3>3
  <2> QED
    BY <2>1, <2>2
<1> QED
  BY <1>2, <1>3 DEF BansAreSagas

(* A request that starts has not banned yet, and a saga is about one account. *)
LEMMA StartShape ==
  ASSUME TypeOK, NEW r \in Requests, Starts(r)
  PROVE  /\ pc'[r] \in {"opened", "accepted"}
         /\ kind'[r] \in SagaKinds =>
              pc'[r] = "accepted" /\ \A u, v \in users'[r] : u = v
<1> USE DEF Begin, SagaKinds, TypeOK
<1>1. ASSUME NEW k \in SagaKinds, NEW w \in Users, SagaBegin(r, k, w)
      PROVE  pc'[r] = "accepted" /\ users'[r] = {w}
  BY <1>1 DEF SagaBegin
<1>2. ASSUME ~\E k \in SagaKinds, w \in Users : SagaBegin(r, k, w)
      PROVE  pc'[r] \in {"opened", "accepted"} /\ kind'[r] \notin SagaKinds
  BY <1>2 DEF Starts, RoleRevokeBegin, RoleStripBegin, MembersBegin,
     OrgUpdateBegin, StatusChangeBegin, ApproveBegin, RestoreBegin
<1> QED
  BY <1>1, <1>2

(* A request of one statement is no saga.                                   *)
LEMMA SingleShape ==
  ASSUME TypeOK, NEW r \in Requests, Singles(r)
  PROVE  pc'[r] = "ok" /\ kind'[r] \in GrantKinds \ (SagaKinds \cup {"restore"})
<1>1. PICK k, us, os : /\ k \in GrantKinds \ (SagaKinds \cup {"restore"})
                        /\ Begin(r, k, us, os, "ok")
  BY SinglesCommitAtOnce
<1>2. QED
  BY <1>1 DEF Begin, TypeOK

(* What a saga remembers of the ban it replaced stays true of that ban.     *)
LEMMA SagasAreOrderlyKept ==
  ASSUME TypeOK, Exclusive, ExclusiveBookkeeping, NEW r \in Requests, Step(r)
  PROVE  SagasAreOrderly'
<1> USE ConstantsAssumption DEF ExclusiveBookkeeping
<1> DEFINE
  Orderly(q) ==
    /\ pc[q] \in {"before", "undoing"} => kind[q] \in SagaKinds
    /\ kind[q] \in SagaKinds => \A u, v \in users[q] : u = v
    /\ kind[q] \in SagaKinds /\ pc[q] \in Banning \cup {"before"} =>
         \A u \in users[q] :
            /\ prev[q] # NoBan => /\ IsSagaOf(prev[q], u)
                                  /\ pc[prev[q]] \in {"ok", "crashed"}
            /\ pc[q] = "before" => prev[q] \in {NoBan, ban[u]}
            /\ pc[q] # "before" => ban[u] = q
<1>1. ASSUME NEW q \in Requests, q # r PROVE Orderly(q)'
  <2>1. /\ pc'[q] = pc[q] /\ kind'[q] = kind[q] /\ users'[q] = users[q]
        /\ prev'[q] = prev[q] /\ Orderly(q)
    BY <1>1, OthersKept DEF SagasAreOrderly
  <2>2. ASSUME NEW u \in users[q], kind[q] \in SagaKinds,
               pc[q] \in Banning \cup {"before"}
        PROVE  /\ ban'[u] = ban[u]
               /\ prev[q] # NoBan => /\ IsSagaOf(prev[q], u)'
                                     /\ pc'[prev[q]] \in {"ok", "crashed"}
    <3>1. pc[q] \in InFlight
      BY <2>2 DEF Banning, InFlight
    <3>2. ban'[u] = ban[u]
      BY <1>1, <2>2, <3>1, AccountsKept
    <3>3. ASSUME prev[q] # NoBan
          PROVE  IsSagaOf(prev[q], u)' /\ pc'[prev[q]] \in {"ok", "crashed"}
      <4>1. /\ prev[q] \in Requests /\ IsSagaOf(prev[q], u)
            /\ pc[prev[q]] \in {"ok", "crashed"}
        BY <2>1, <2>2, <3>3 DEF TypeOK
      <4>2. CASE prev[q] # r
        BY <2>1, <4>1, <4>2, OthersKept DEF IsSagaOf
      <4>3. CASE prev[q] = r
        BY <2>1, <4>1, <4>3, OwnControl DEF IsSagaOf, InFlight, InTransaction
      <4> QED
        BY <4>2, <4>3
    <3> QED
      BY <3>2, <3>3
  <2> QED
    BY <2>1, <2>2 DEF IsSagaOf
<1>2. Orderly(r)'
  <2>0. Orderly(r)
    BY DEF SagasAreOrderly
  <2>1. CASE Starts(r)
    BY <2>1, StartShape DEF Banning, InTransaction
  <2>2. CASE Singles(r)
    BY <2>2, SingleShape
  <2>3. CASE Commit(r)
    BY <2>0, <2>3 DEF Commit, Commits, asked, RoleRevokeCommit, RoleStripCommit,
       MemberUpdateCommit, MemberRemoveCommit, OrgUpdateCommit,
       StatusChangeCommit, ApproveCommit, BanConfirm, SoftDeleteCommit,
       Banning, InTransaction, TypeOK
  <2>4. CASE BanReadBefore(r)
    <3>1. PICK w \in users[r] :
             prev' = [prev EXCEPT ![r] = IF InForce(ban[w]) THEN ban[w] ELSE NoBan]
      BY <2>4 DEF BanReadBefore
    <3>2. \A u \in users[r] : u = w
      BY <2>0, <2>4 DEF BanReadBefore
    <3>3. w \in Users /\ prev'[r] \in {NoBan, ban[w]}
      BY <3>1 DEF TypeOK
    <3>4. ASSUME ban[w] # NoBan
          PROVE  /\ IsSagaOf(ban[w], w)' /\ pc'[ban[w]] \in {"ok", "crashed"}
      <4>1. /\ ban[w] \in Requests /\ IsSagaOf(ban[w], w)
            /\ pc[ban[w]] \in Banning \cup {"ok", "crashed"}
        BY <3>3, <3>4 DEF BansAreSagas, TypeOK
      <4>2. ban[w] # r
        BY <2>4, <4>1 DEF BanReadBefore, Banning, InTransaction
      <4>3. pc[ban[w]] \notin InFlight
        BY <2>4, <4>1, <4>2 DEF BanReadBefore, Apart, IsSagaOf, InFlight
      <4>4. pc[ban[w]] \in {"ok", "crashed"}
        BY <4>1, <4>3 DEF Banning, InFlight
      <4> QED
        BY <2>4, <4>1, <4>2, <4>4 DEF BanReadBefore, IsSagaOf, TypeOK, db
    <3> QED
      BY <2>0, <2>4, <3>1, <3>2, <3>3, <3>4
         DEF BanReadBefore, Banning, InTransaction, db, TypeOK, IsSagaOf
  <2>5. CASE BanApply(r)
    <3>1. /\ kind' = kind /\ users' = users /\ prev' = prev
          /\ pc[r] = "before" /\ pc'[r] = "opened"
          /\ \A u \in users[r] : ban'[u] = r
      BY <2>5 DEF BanApply, asked, TypeOK
    <3>2. ASSUME prev[r] # NoBan
          PROVE  prev[r] \in Requests /\ (prev[r] # r => pc'[prev[r]] = pc[prev[r]])
      BY <2>5, <3>2 DEF BanApply, TypeOK
    <3> QED
      BY <2>0, <3>1, <3>2 DEF IsSagaOf, Banning, InTransaction
  <2>6. CASE BanUndo(r)
    BY <2>0, <2>6 DEF BanUndo, asked, Banning, InTransaction, TypeOK
  <2>7. CASE \/ StatusCascadeRead(r) \/ BanLapses(r) \/ GrantRead(r)
             \/ GrantLock(r) \/ RollBack(r) \/ SagaRefused(r) \/ Crash(r)
             \/ RestoreBan(r) \/ RestoreCommit(r)
    <3>1. kind' = kind /\ users' = users /\ prev' = prev
      BY <2>7 DEF StatusCascadeRead, BanLapses, GrantRead, GrantLock, RollBack,
         SagaRefused, Crash, RestoreBan, RestoreCommit, asked
    <3>2. CASE pc'[r] \notin Banning
      <4>1. pc'[r] # "before"
        BY <2>7 DEF StatusCascadeRead, BanLapses, GrantRead, GrantLock, RollBack,
           SagaRefused, Crash, RestoreBan, RestoreCommit, TypeOK, Finished
      <4> QED
        BY <2>0, <3>1, <3>2, <4>1 DEF Banning
    <3>3. CASE pc'[r] \in Banning /\ kind[r] \notin SagaKinds
      BY <2>0, <2>7, <3>1, <3>3 DEF StatusCascadeRead, BanLapses, GrantRead,
         GrantLock, RollBack, SagaRefused, Crash, RestoreBan, RestoreCommit,
         Banning, InTransaction, TypeOK, SagaKinds, Finished
    <3>4. CASE pc'[r] \in Banning /\ kind[r] \in SagaKinds
      <4>1. /\ pc[r] \in Banning /\ ban' = ban
            /\ \A q \in Requests : q # r => pc'[q] = pc[q]
        BY <2>7, <3>4 DEF StatusCascadeRead, BanLapses, GrantRead, GrantLock,
           RollBack, SagaRefused, Crash, RestoreBan, RestoreCommit, db, Banning,
           InTransaction, TypeOK, SagaKinds, Finished
      <4>2. prev[r] # NoBan /\ users[r] # {} => prev[r] \in Requests /\ prev[r] # r
        BY <2>0, <3>4, <4>1 DEF Banning, InTransaction, TypeOK
      <4> QED
        BY <2>0, <3>1, <3>4, <4>1, <4>2 DEF IsSagaOf, Banning, InTransaction
    <3> QED
      BY <3>2, <3>3, <3>4
  <2> QED
    <3> HIDE DEF Orderly
    <3> QED
      BY <2>1, <2>2, <2>3, <2>4, <2>5, <2>6, <2>7 DEF Step, Proceeds
<1> QED
  BY <1>1, <1>2 DEF SagasAreOrderly

(* The removal a guarded transaction is measured by still covers its write. *)
LEMMA RemovalCoversWritesKept ==
  ASSUME TypeOK, Exclusive, ExclusiveBookkeeping, NEW r \in Requests, Step(r)
  PROVE  RemovalCoversWrites'
<1> USE DEF ExclusiveBookkeeping
<1> DEFINE
  Covered(q) ==
    /\ kind[q] \in SagaKinds => users[q] \subseteq removal[q].appUserIds
    /\ kind[q] \in {"member_update", "member_remove"} =>
         users[q] \X orgs[q] \subseteq removal[q].memberships
    /\ kind[q] = "org_update" => orgs[q] \subseteq removal[q].organizationIds
    /\ kind[q] = "status_change" =>
         \A u \in users[q], o \in orgs[q] :
            membership[<<u, o>>] # "none" => <<u, o>> \in removal[q].memberships
  Whole(q) ==
    kind[q] = "status_change" /\ wide[q] =>
      \A u \in users[q], o \in Orgs \ orgs[q] : membership[<<u, o>>] = "none"
<1>0. ASSUME NEW q \in Requests
      PROVE  /\ pc[q] \in InTransaction => Covered(q)
             /\ pc[q] \in InFlight => Whole(q)
  BY DEF RemovalCoversWrites
<1>1. ASSUME NEW q \in Requests, q # r
      PROVE  /\ pc'[q] \in InTransaction => Covered(q)'
             /\ pc'[q] \in InFlight => Whole(q)'
  <2>1. /\ pc'[q] = pc[q] /\ kind'[q] = kind[q] /\ users'[q] = users[q]
        /\ orgs'[q] = orgs[q] /\ wide'[q] = wide[q] /\ removal'[q] = removal[q]
    BY <1>1, OthersKept
  <2>2. pc[q] \in InFlight => \A u \in users[q], o \in Orgs :
                                 membership'[<<u, o>>] = membership[<<u, o>>]
    BY <1>1, AccountsKept
  <2> QED
    BY <1>0, <1>1, <2>1, <2>2 DEF InFlight, TypeOK
<1>2. pc'[r] \in InFlight => Whole(r)'
  <2>1. CASE Starts(r)
    <3>1. ASSUME NEW u \in Users, NEW os \in Scopes, StatusChangeBegin(r, u, os)
          PROVE  Whole(r)'
      BY <3>1 DEF StatusChangeBegin, Begin, Shared, TypeOK, db
    <3>2. ASSUME ~\E u \in Users, os \in Scopes : StatusChangeBegin(r, u, os)
          PROVE  kind'[r] # "status_change"
      BY <2>1, <3>2 DEF Starts, RoleRevokeBegin, RoleStripBegin, MembersBegin,
         OrgUpdateBegin, ApproveBegin, SagaBegin, RestoreBegin, Begin, TypeOK,
         SagaKinds
    <3> QED
      BY <3>1, <3>2
  <2>2. CASE Singles(r)
    BY <2>2, SingleShape DEF InFlight, InTransaction
  <2>3. CASE Commit(r)
    BY <2>3 DEF Commit, Commits, RoleRevokeCommit, RoleStripCommit,
       MemberUpdateCommit, MemberRemoveCommit, OrgUpdateCommit,
       StatusChangeCommit, ApproveCommit, BanConfirm, SoftDeleteCommit,
       InFlight, InTransaction, TypeOK
  <2>4. CASE Proceeds(r)
    <3>1. /\ membership' = membership /\ kind' = kind /\ users' = users
          /\ orgs' = orgs /\ wide' = wide
          /\ pc'[r] \in InFlight => pc[r] \in InFlight
      BY <2>4 DEF Proceeds, StatusCascadeRead, BanReadBefore, BanApply, BanUndo,
         BanLapses, GrantRead, GrantLock, RollBack, SagaRefused, Crash,
         RestoreBan, RestoreCommit, InFlight, InTransaction, TypeOK, db, asked,
         Finished
    <3> QED
      BY <1>0, <3>1
  <2> QED
    <3> HIDE DEF Whole
    <3> QED
      BY <2>1, <2>2, <2>3, <2>4 DEF Step
<1>3. pc'[r] \in InTransaction => Covered(r)'
  <2>1. CASE Starts(r)
    <3> USE DEF Begin, TypeOK, NoRemoval, Removals, SagaKinds, InTransaction
    <3>1. ASSUME NEW k \in {"member_update", "member_remove"},
                 NEW us \in SUBSET Users, NEW o \in Orgs, MembersBegin(r, k, us, o)
          PROVE  Covered(r)'
      BY <3>1 DEF MembersBegin
    <3>2. ASSUME NEW o \in Orgs, OrgUpdateBegin(r, o) PROVE Covered(r)'
      BY <3>2 DEF OrgUpdateBegin
    <3>3. ASSUME NEW u \in Users, NEW os \in Scopes,
                 StatusChangeBegin(r, u, os) \/ RestoreBegin(r, u)
          PROVE  pc'[r] = "accepted"
      BY <3>3 DEF StatusChangeBegin, RestoreBegin
    <3>4. ASSUME NEW k \in SagaKinds, NEW u \in Users, SagaBegin(r, k, u)
          PROVE  pc'[r] = "accepted"
      BY <3>4 DEF SagaBegin
    <3>5. ASSUME \/ \E g \in Grants : RoleRevokeBegin(r, g)
                 \/ \E role \in Roles : RoleStripBegin(r, role)
                 \/ \E u \in Users, os \in Scopes : ApproveBegin(r, u, os)
          PROVE  kind'[r] \in {"role_revoke", "role_strip", "approve"}
      BY <3>5 DEF RoleRevokeBegin, RoleStripBegin, ApproveBegin
    <3>6. ASSUME kind'[r] \in {"role_revoke", "role_strip", "approve"}
          PROVE  Covered(r)'
      BY <3>6
    <3>7. ASSUME NEW u \in Users, RestoreBegin(r, u) PROVE pc'[r] = "accepted"
      BY <3>7 DEF RestoreBegin
    <3> HIDE DEF Covered, Begin, TypeOK, NoRemoval, Removals, SagaKinds
    <3> QED
      BY <2>1, <3>1, <3>2, <3>3, <3>4, <3>5, <3>6, <3>7 DEF Starts
  <2>2. CASE Singles(r)
    BY <2>2, SingleShape DEF InTransaction
  <2>3. CASE Commit(r)
    BY <2>3 DEF Commit, Commits, RoleRevokeCommit, RoleStripCommit,
       MemberUpdateCommit, MemberRemoveCommit, OrgUpdateCommit,
       StatusChangeCommit, ApproveCommit, BanConfirm, SoftDeleteCommit,
       InTransaction, TypeOK
  <2>4. CASE StatusCascadeRead(r)
    <3>1. /\ kind'[r] = "status_change"
          /\ users' = users /\ orgs' = orgs /\ membership' = membership
          /\ removal'[r].memberships =
               {m \in users[r] \X orgs[r] : membership[m] # "none"}
      BY <2>4 DEF StatusCascadeRead, asked, db, TypeOK, Removals, NoRemoval
    <3> QED
      BY <3>1 DEF SagaKinds
  <2>5. CASE BanApply(r)
    <3>1. kind'[r] \in SagaKinds /\ users' = users /\ removal'[r].appUserIds = users[r]
      BY <2>5 DEF BanApply, asked, TypeOK, Removals, NoRemoval, SagasAreOrderly
    <3> QED
      BY <3>1 DEF SagaKinds
  <2>6. CASE Proceeds(r) /\ ~StatusCascadeRead(r) /\ ~BanApply(r)
    <3>1. /\ membership' = membership /\ kind' = kind /\ users' = users
          /\ orgs' = orgs /\ removal' = removal
          /\ pc'[r] \in InTransaction => pc[r] \in InTransaction
      BY <2>6 DEF Proceeds, BanReadBefore, BanUndo,
         BanLapses, GrantRead, GrantLock, RollBack, SagaRefused, Crash,
         RestoreBan, RestoreCommit, InTransaction, TypeOK, db, asked, guard,
         Finished
    <3> QED
      BY <1>0, <3>1
  <2> QED
    <3> HIDE DEF Covered
    <3> QED
      BY <2>1, <2>2, <2>3, <2>4, <2>5, <2>6 DEF Step
<1>4. ASSUME NEW q \in Requests
      PROVE  /\ pc'[q] \in InTransaction => Covered(q)'
             /\ pc'[q] \in InFlight => Whole(q)'
  BY <1>1, <1>2, <1>3
<1> QED
  BY <1>4 DEF RemovalCoversWrites

(* A restore in flight keeps finding its account deactivated.               *)
LEMMA RestoresAreOfDeletedKept ==
  ASSUME TypeOK, Exclusive, ExclusiveBookkeeping, NEW r \in Requests, Step(r)
  PROVE  RestoresAreOfDeleted'
<1> USE DEF ExclusiveBookkeeping
<1> DEFINE
  OfDeleted(q) ==
    /\ pc[q] = "unbanned" => kind[q] = "restore"
    /\ pc[q] \in InFlight /\ kind[q] = "restore" =>
         \A u \in users[q] : account[u] = "deactivated"
<1>0. ASSUME NEW q \in Requests PROVE OfDeleted(q)
  BY DEF RestoresAreOfDeleted
<1>1. ASSUME NEW q \in Requests, q # r PROVE OfDeleted(q)'
  <2>1. pc'[q] = pc[q] /\ kind'[q] = kind[q] /\ users'[q] = users[q]
    BY <1>1, OthersKept
  <2>2. pc[q] \in InFlight => \A u \in users[q] : account'[u] = account[u]
    BY <1>1, AccountsKept
  <2> QED
    BY <1>0, <1>1, <2>1, <2>2
<1>2. OfDeleted(r)'
  <2>1. CASE Starts(r)
    <3>1. ASSUME NEW w \in Users, RestoreBegin(r, w) PROVE OfDeleted(r)'
      BY <3>1 DEF RestoreBegin, Begin, TypeOK, db
    <3>2. ASSUME ~\E w \in Users : RestoreBegin(r, w) PROVE kind'[r] # "restore"
      BY <2>1, <3>2 DEF Starts, RoleRevokeBegin, RoleStripBegin, MembersBegin,
         OrgUpdateBegin, StatusChangeBegin, ApproveBegin, SagaBegin, Begin,
         TypeOK, SagaKinds
    <3> QED
      BY <2>1, <3>1, <3>2, StartShape
  <2>2. CASE Singles(r)
    BY <2>2, SingleShape
  <2>3. CASE Commit(r)
    BY <2>3 DEF Commit, Commits, RoleRevokeCommit, RoleStripCommit,
       MemberUpdateCommit, MemberRemoveCommit, OrgUpdateCommit,
       StatusChangeCommit, ApproveCommit, BanConfirm, SoftDeleteCommit,
       InFlight, InTransaction, TypeOK
  <2>4. CASE RestoreCommit(r)
    BY <2>4 DEF RestoreCommit, InFlight, InTransaction, TypeOK
  <2>5. CASE Proceeds(r) /\ ~RestoreCommit(r)
    <3>1. /\ account' = account /\ kind' = kind /\ users' = users
          /\ pc'[r] \in InFlight => pc[r] \in InFlight
          /\ pc'[r] = "unbanned" => kind[r] = "restore"
      BY <2>5, <1>0 DEF Proceeds, StatusCascadeRead, BanReadBefore, BanApply, BanUndo,
         BanLapses, GrantRead, GrantLock, RollBack, SagaRefused, Crash,
         RestoreBan, InFlight, InTransaction, TypeOK, db, asked, Finished
    <3> QED
      BY <1>0, <3>1
  <2> QED
    <3> HIDE DEF OfDeleted
    <3> QED
      BY <2>1, <2>2, <2>3, <2>4, <2>5 DEF Step
<1> QED
  BY <1>1, <1>2 DEF RestoresAreOfDeleted
-----------------------------------------------------------------------------
(* With one request in flight per account, what sagas and guarded           *)
(* transactions remember matches the database.                              *)
THEOREM BookkeepingHolds ==
  ASSUME Exclusive
  PROVE  Spec => []ExclusiveBookkeeping
<1> USE ConstantsAssumption
<1>1. Init => ExclusiveBookkeeping
  BY DEF Init, ExclusiveBookkeeping, Apart, BansAreSagas, SagasAreOrderly,
         RemovalCoversWrites, RestoresAreOfDeleted, InFlight, InTransaction,
         SagaKinds
<1>2. TypeOK /\ ExclusiveBookkeeping /\ [Next]_vars => ExclusiveBookkeeping'
  <2> SUFFICES ASSUME TypeOK, ExclusiveBookkeeping, [Next]_vars
               PROVE  ExclusiveBookkeeping'
    OBVIOUS
  <2>1. CASE UNCHANGED vars
    BY <2>1 DEF vars, db, asked, guard, ExclusiveBookkeeping, Apart, BansAreSagas,
       SagasAreOrderly, IsSagaOf, RemovalCoversWrites, RestoresAreOfDeleted
  <2>2. ASSUME NEW r \in Requests, Step(r) PROVE ExclusiveBookkeeping'
    <3>1. Apart'
      BY <2>2, ApartKept DEF ExclusiveBookkeeping
    <3> QED
      BY <2>2, <3>1, BansAreSagasKept, SagasAreOrderlyKept,
         RemovalCoversWritesKept, RestoresAreOfDeletedKept DEF ExclusiveBookkeeping
  <2> QED
    BY <2>1, <2>2 DEF Next, Step
<1> QED
  BY <1>1, <1>2, TypeCorrect, PTL DEF Spec

(* A refused ban is never left in place: guardAppliedBan's compensation is  *)
(* sound when no other request about the account is in flight.              *)
THEOREM UnverifiedBansGo ==
  ASSUME Exclusive
  PROVE  Spec => []NoUnverifiedBanLeft
<1>1. ExclusiveBookkeeping => NoUnverifiedBanLeft
  BY DEF ExclusiveBookkeeping, BansAreSagas, IsSagaOf, NoUnverifiedBanLeft,
         Banning, InTransaction
<1> QED
  BY <1>1, BookkeepingHolds, PTL
-----------------------------------------------------------------------------
(* A surviving grant survives a step that leaves its rows and its account's *)
(* ban alone, and neither ends nor rereads the saga of that ban.            *)
LEMMA SurvivesStep ==
  ASSUME TypeOK, NEW r \in Requests, Step(r), NEW g \in Surviving, Confers(g)',
         ban'[g[1]] = ban[g[1]], lapsed \subseteq lapsed',
         ban[g[1]] = r => pc'[r] \notin Finished /\ prev'[r] = prev[r]
  PROVE  g \in Surviving'
<1>1. g \in Grants /\ (~InForce(ban[g[1]]) \/ Provisional(g[1]))
  BY DEF Surviving
<1>2. CASE ~InForce(ban[g[1]])
  BY <1>1, <1>2 DEF InForce, Surviving
<1>3. CASE Provisional(g[1])
  <2>1. pc'[ban[g[1]]] \notin Finished /\ prev'[ban[g[1]]] = prev[ban[g[1]]]
    BY <1>3, OthersKept DEF Provisional
  <2> QED
    BY <1>1, <1>3, <2>1 DEF Provisional, InForce, Surviving
<1> QED
  BY <1>1, <1>2, <1>3

(* Once a request was let through by an empty read, or a saga died, that    *)
(* stays so: the proviso of ASuperadminSurvives holds before if it holds    *)
(* after.                                                                   *)
LEMMA ProvisoHeldBefore ==
  ASSUME TypeOK, NEW r \in Requests, Step(r),
         \A q \in Requests : ~DecidedOnEmptyRead(q)' /\ ~SagaCrashed(q)'
  PROVE  \A q \in Requests : ~DecidedOnEmptyRead(q) /\ ~SagaCrashed(q)
<1> SUFFICES ASSUME NEW q \in Requests, pc[q] \in {"ok", "crashed"}
             PROVE  /\ DecidedOnEmptyRead(q)' = DecidedOnEmptyRead(q)
                    /\ SagaCrashed(q)' = SagaCrashed(q)
  BY DEF DecidedOnEmptyRead, SagaCrashed
<1>1. pc'[q] = pc[q] /\ kind'[q] = kind[q] /\ held'[q] = held[q]
  <2>1. CASE q # r
    BY <2>1, OthersKept
  <2>2. CASE q = r
    BY <2>2, OwnControl DEF InFlight, InTransaction, BanLapses, guard
  <2> QED
    BY <2>1, <2>2
<1> QED
  BY <1>1 DEF DecidedOnEmptyRead, SagaCrashed

(* A request that starts, or can only add grants, ends none.                *)
LEMMA AddingSurvives ==
  ASSUME TypeOK, ExclusiveBookkeeping, NEW r \in Requests, Starts(r) \/ Singles(r),
         NEW g \in Surviving
  PROVE  g \in Surviving'
<1> USE ConstantsAssumption
<1>1. Step(r) /\ pc[r] = "idle"
  BY OwnControl DEF Step, InFlight, InTransaction, Finished, Starts, Singles,
     RoleRevokeBegin, RoleStripBegin, MembersBegin, OrgUpdateBegin,
     StatusChangeBegin, ApproveBegin, SagaBegin, RestoreBegin, Unban, RoleAssign,
     AcceptInvitation, RoleGrant, MemberAdd, MemberActivate, OrgActivate, Single,
     Begin, May
<1>2. g \in Grants /\ Confers(g) /\ g[1] \in Users
  BY GrantParts DEF Surviving
<1>3. ban[g[1]] # r
  BY <1>1, <1>2 DEF ExclusiveBookkeeping, BansAreSagas, Banning, InTransaction
<1>4. CASE Starts(r)
  <2>1. UNCHANGED db
    BY <1>4 DEF Starts, RoleRevokeBegin, RoleStripBegin, MembersBegin,
       OrgUpdateBegin, StatusChangeBegin, ApproveBegin, SagaBegin, RestoreBegin
  <2> QED
    BY <1>1, <1>2, <1>3, <2>1, SurvivesStep DEF db, Confers
<1>5. CASE Singles(r)
  <2>1. Confers(g)' /\ lapsed' = lapsed
    <3> USE <1>2, GrantParts DEF Confers, TypeOK
    <3>1. ASSUME NEW u \in Users, Unban(r, u) PROVE Confers(g)' /\ lapsed' = lapsed
      BY <3>1 DEF Unban
    <3>2. ASSUME NEW h \in Grants, RoleAssign(r, h) PROVE Confers(g)' /\ lapsed' = lapsed
      BY <3>2 DEF RoleAssign
    <3>3. ASSUME NEW h \in Grants, AcceptInvitation(r, h)
          PROVE  Confers(g)' /\ lapsed' = lapsed
      BY <3>3 DEF AcceptInvitation
    <3>4. ASSUME NEW role \in Roles, RoleGrant(r, role)
          PROVE  Confers(g)' /\ lapsed' = lapsed
      BY <3>4 DEF RoleGrant
    <3>5. ASSUME NEW u \in Users, NEW o \in Orgs, NEW s \in {"active", "inactive"},
                 MemberAdd(r, u, o, s)
          PROVE  Confers(g)' /\ lapsed' = lapsed
      BY <3>5 DEF MemberAdd
    <3>6. ASSUME NEW us \in SUBSET Users, NEW o \in Orgs, MemberActivate(r, us, o)
          PROVE  Confers(g)' /\ lapsed' = lapsed
      BY <3>6 DEF MemberActivate, SetMemberships
    <3>7. ASSUME NEW o \in Orgs, OrgActivate(r, o)
          PROVE  Confers(g)' /\ lapsed' = lapsed
      BY <3>7 DEF OrgActivate
    <3> HIDE DEF Confers, TypeOK
    <3> QED
      BY <1>5, <3>1, <3>2, <3>3, <3>4, <3>5, <3>6, <3>7 DEF Singles
  <2>2. ban'[g[1]] \in {ban[g[1]], NoBan}
    BY <1>2, <1>5 DEF Singles, Unban, RoleAssign, AcceptInvitation, RoleGrant,
       MemberAdd, MemberActivate, OrgActivate, TypeOK
  <2>3. CASE ban'[g[1]] = NoBan
    BY <1>2, <2>1, <2>3 DEF Surviving, InForce
  <2>4. CASE ban'[g[1]] = ban[g[1]]
    BY <1>1, <1>3, <2>1, <2>4, SurvivesStep
  <2> QED
    BY <2>2, <2>3, <2>4
<1> QED
  BY <1>4, <1>5

(* The bans, their undoing, the restores and the guarded reads end no       *)
(* surviving grant: a ban under way is provisional.                         *)
LEMMA ProceedingSurvives ==
  ASSUME TypeOK, Exclusive, ExclusiveBookkeeping, NEW r \in Requests, Proceeds(r),
         ~SagaCrashed(r)', NEW g \in Surviving
  PROVE  g \in Surviving'
<1> USE ConstantsAssumption DEF ExclusiveBookkeeping
<1>1. Step(r)
  BY DEF Step
<1>2. g \in Grants /\ Confers(g) /\ g[1] \in Users
  BY GrantParts DEF Surviving
<1>3. ban[g[1]] = r => g[1] \in users[r] /\ kind[r] \in SagaKinds
                       /\ pc[r] \in Banning \cup {"ok", "crashed"}
  BY <1>2 DEF BansAreSagas, IsSagaOf
<1>4. CASE BanApply(r)
  <2>1. Confers(g)' /\ lapsed' = lapsed
    BY <1>2, <1>4 DEF BanApply, Confers
  <2>2. CASE g[1] \notin users[r]
    BY <1>1, <1>2, <1>3, <1>4, <2>1, <2>2, SurvivesStep DEF BanApply
  <2>3. CASE g[1] \in users[r]
    <3>1. ~Provisional(g[1])
      <4> SUFFICES ASSUME Provisional(g[1]) PROVE FALSE
        OBVIOUS
      <4>1. /\ ban[g[1]] \in Requests /\ g[1] \in users[ban[g[1]]]
            /\ pc[ban[g[1]]] \in Banning
        BY <1>2 DEF Provisional, BansAreSagas, IsSagaOf, Finished
      <4>2. ban[g[1]] # r
        BY <1>4, <4>1 DEF BanApply, Banning, InTransaction
      <4> QED
        BY <1>4, <2>3, <4>1, <4>2 DEF Apart, BanApply, InFlight, Banning
    <3>2. ~InForce(ban[g[1]])
      BY <3>1 DEF Surviving
    <3>3. ~InForce(prev[r])
      BY <1>4, <2>3, <3>2 DEF SagasAreOrderly, BanApply, InForce
    <3>4. ban'[g[1]] = r /\ pc'[r] = "opened" /\ prev' = prev
      BY <1>2, <1>4, <2>3 DEF BanApply, asked, TypeOK
    <3> QED
      BY <1>2, <2>1, <3>3, <3>4 DEF Surviving, Provisional, InForce, Finished
  <2> QED
    BY <2>2, <2>3
<1>5. CASE BanUndo(r)
  <2>1. Confers(g)' /\ lapsed' = lapsed
    BY <1>2, <1>5 DEF BanUndo, Confers
  <2>2. CASE g[1] \notin users[r]
    BY <1>1, <1>2, <1>3, <1>5, <2>1, <2>2, SurvivesStep DEF BanUndo
  <2>3. CASE g[1] \in users[r]
    <3>1. ban[g[1]] = r /\ r \notin lapsed
      BY <1>5, <2>3 DEF BanUndo, SagasAreOrderly, BansAreSagas, Banning, Finished
    <3>2. ~InForce(prev[r])
      BY <3>1 DEF Surviving, InForce, Provisional
    <3>3. ban'[g[1]] = NoBan
      BY <1>2, <1>5, <2>3, <3>2 DEF BanUndo
    <3> QED
      BY <1>2, <2>1, <3>3 DEF Surviving, InForce
  <2> QED
    BY <2>2, <2>3
<1>6. CASE RestoreBan(r)
  <2>1. Confers(g)' /\ lapsed' = lapsed /\ ban[g[1]] # r
    BY <1>2, <1>3, <1>6 DEF RestoreBan, Confers, SagaKinds
  <2>2. ban'[g[1]] \in {ban[g[1]], NoBan}
    BY <1>2, <1>6 DEF RestoreBan
  <2>3. CASE ban'[g[1]] = NoBan
    BY <1>2, <2>1, <2>3 DEF Surviving, InForce
  <2> QED
    BY <1>1, <2>1, <2>2, <2>3, SurvivesStep
<1>7. CASE RestoreCommit(r)
  <2>1. kind[r] = "restore" /\ \A u \in users[r] : account[u] = "deactivated"
    BY <1>7 DEF RestoreCommit, RestoresAreOfDeleted, InFlight
  <2>2. g[1] \notin users[r] /\ ban[g[1]] # r
    BY <1>2, <1>3, <2>1 DEF Confers, SagaKinds
  <2>3. Confers(g)' /\ ban' = ban /\ lapsed' = lapsed
    BY <1>2, <1>7, <2>2 DEF RestoreCommit, Confers
  <2> QED
    BY <1>1, <2>2, <2>3, SurvivesStep
<1>8. CASE BanReadBefore(r)
  <2>1. UNCHANGED db /\ ban[g[1]] # r
    BY <1>3, <1>8 DEF BanReadBefore, Banning, InTransaction
  <2> QED
    BY <1>1, <1>2, <2>1, SurvivesStep DEF db, Confers
<1>9. CASE BanLapses(r)
  <2>1. Confers(g)' /\ ban' = ban /\ lapsed \subseteq lapsed' /\ UNCHANGED <<pc, prev>>
    BY <1>2, <1>9 DEF BanLapses, Confers, asked
  <2> QED
    BY <1>2, <2>1 DEF Surviving, Provisional, InForce
<1>10. CASE \/ StatusCascadeRead(r) \/ GrantRead(r) \/ GrantLock(r)
            \/ RollBack(r) \/ SagaRefused(r) \/ Crash(r)
  <2>1. Confers(g)' /\ UNCHANGED db /\ UNCHANGED asked
    BY <1>2, <1>10 DEF StatusCascadeRead, GrantRead, GrantLock, RollBack,
       SagaRefused, Crash, Confers, db
  <2>2. ban[g[1]] = r => pc'[r] \notin Finished
    BY <1>3, <1>10, <2>1 DEF StatusCascadeRead, GrantRead, GrantLock, RollBack,
       SagaRefused, Crash, Finished, SagaCrashed, TypeOK, asked
  <2> QED
    BY <1>1, <2>1, <2>2, SurvivesStep DEF db, asked
<1> QED
  BY <1>4, <1>5, <1>6, <1>7, <1>8, <1>9, <1>10 DEF Proceeds

(* An approval takes no grant away.                                         *)
LEMMA ApprovalSurvives ==
  ASSUME TypeOK, ExclusiveBookkeeping, NEW r \in Requests, ApproveCommit(r),
         NEW g \in Surviving
  PROVE  g \in Surviving'
<1>1. g \in Grants /\ Confers(g) /\ g[1] \in Users /\ <<g[1], g[2]>> \in Users \X Orgs
  BY GrantParts DEF Surviving
<1>2. ban[g[1]] # r
  BY <1>1, ConstantsAssumption DEF ExclusiveBookkeeping, BansAreSagas, IsSagaOf,
     ApproveCommit, Commits, SagaKinds
<1>3. Confers(g)' /\ ban' = ban /\ lapsed' = lapsed
  BY <1>1 DEF ApproveCommit, Confers, SetMemberships
<1> QED
  BY <1>2, <1>3, SurvivesStep DEF Step, Commit

(* A guarded request that read a grant leaves one: the removal covers its   *)
(* write, so the grant that made the check pass is out of the write's reach. *)
LEMMA GuardedSurvives ==
  ASSUME TypeOK, CountedGrantsStay, ExclusiveBookkeeping, NEW r \in Requests,
         Commit(r), ~ApproveCommit(r), ~DecidedOnEmptyRead(r)'
  PROVE  Surviving' # {}
<1> USE DEF ExclusiveBookkeeping
<1>1. /\ pc[r] = "locked" /\ ~Strips(r) /\ pc'[r] = "ok" /\ held' = held
      /\ kind' = kind /\ kind[r] \in RemovalKinds \cup SagaKinds
  BY DEF Commit, Commits, Refused, RoleRevokeCommit, RoleStripCommit,
     MemberUpdateCommit, MemberRemoveCommit, OrgUpdateCommit, StatusChangeCommit,
     BanConfirm, SoftDeleteCommit, TypeOK, asked, guard, RemovalKinds, SagaKinds
<1>2. held[r] # {}
  BY <1>1 DEF DecidedOnEmptyRead
<1>3. PICK g \in held[r] : ~GrantIsRemoved(g, removal[r])
  BY <1>1, <1>2 DEF Strips, StripsLastGlobalSuperuser
<1>4. /\ g \in Grants /\ Confers(g)
      /\ InForce(ban[g[1]]) => kind[r] \in SagaKinds /\ g[1] \in users[r]
  BY <1>1, <1>3 DEF CountedGrantsStay, CountedBy, GrantsDisregarding, Disregarded
<1>5. ~InForce(ban[g[1]])
  BY <1>1, <1>3, <1>4 DEF RemovalCoversWrites, InTransaction, GrantIsRemoved
<1>6. UNCHANGED <<ban, lapsed>>
  BY DEF Commit, RoleRevokeCommit, RoleStripCommit, MemberUpdateCommit,
     MemberRemoveCommit, OrgUpdateCommit, StatusChangeCommit, BanConfirm,
     SoftDeleteCommit, db
<1>7. Confers(g)'
  <2> USE <1>1, <1>3, <1>4, GrantParts DEF Confers, GrantIsRemoved
  <2>1. CASE RoleRevokeCommit(r)
    BY <2>1 DEF RoleRevokeCommit
  <2>2. CASE RoleStripCommit(r)
    BY <2>2 DEF RoleStripCommit
  <2>3. CASE MemberUpdateCommit(r) \/ MemberRemoveCommit(r)
    <3>1. ~(g[1] \in users[r] /\ g[2] \in orgs[r])
      BY <2>3 DEF MemberUpdateCommit, MemberRemoveCommit, Commits,
         RemovalCoversWrites, InTransaction
    <3>2. membership'[<<g[1], g[2]>>] = membership[<<g[1], g[2]>>]
      BY <2>3, <3>1 DEF MemberUpdateCommit, MemberRemoveCommit, SetMemberships
    <3> QED
      BY <2>3, <3>1, <3>2 DEF MemberUpdateCommit, MemberRemoveCommit, OfUser, OfOrg
  <2>4. CASE OrgUpdateCommit(r)
    BY <2>4 DEF OrgUpdateCommit, Commits, RemovalCoversWrites, InTransaction
  <2>5. CASE StatusChangeCommit(r)
    <3>1. kind[r] = "status_change"
      BY <2>5 DEF StatusChangeCommit, Commits
    <3>2. ~(g[1] \in users[r] /\ g[2] \in orgs[r])
      BY <3>1 DEF RemovalCoversWrites, InTransaction
    <3>3. wide[r] => g[1] \notin users[r]
      BY <3>1, <3>2 DEF RemovalCoversWrites, InTransaction, InFlight
    <3>4. membership'[<<g[1], g[2]>>] = membership[<<g[1], g[2]>>]
      BY <2>5, <3>2 DEF StatusChangeCommit, SetMemberships
    <3>5. account'[g[1]] = account[g[1]]
      BY <2>5, <3>3 DEF StatusChangeCommit
    <3> QED
      BY <2>5, <3>4, <3>5 DEF StatusChangeCommit
  <2>6. CASE BanConfirm(r)
    BY <2>6 DEF BanConfirm, db
  <2>7. CASE SoftDeleteCommit(r)
    <3>1. g[1] \notin users[r]
      BY <2>7 DEF SoftDeleteCommit, Commits, RemovalCoversWrites, InTransaction,
         SagaKinds
    <3>2. /\ membership'[<<g[1], g[2]>>] = membership[<<g[1], g[2]>>]
          /\ account'[g[1]] = account[g[1]]
      BY <2>7, <3>1 DEF SoftDeleteCommit, SetMemberships
    <3> QED
      BY <2>7, <3>2 DEF SoftDeleteCommit
  <2> QED
    <3> HIDE DEF Confers, GrantIsRemoved
    <3> QED
      BY <2>1, <2>2, <2>3, <2>4, <2>5, <2>6, <2>7 DEF Commit
<1>8. g \in Surviving'
  BY <1>4, <1>5, <1>6, <1>7 DEF Surviving, InForce
<1> QED
  BY <1>8

(* REVOKE-2: with one request in flight per account, the platform keeps a   *)
(* superadmin through every interleaving of removals, bans, soft-deletes    *)
(* and restores, as long as no guard read an empty set and no saga died.    *)
THEOREM SuperadminSurvives ==
  ASSUME Exclusive
  PROVE  Spec => []ASuperadminSurvives
<1> USE ConstantsAssumption
<1>1. Init => ASuperadminSurvives
  <2> SUFFICES ASSUME Init PROVE Surviving # {}
    BY DEF ASuperadminSurvives
  <2>1. PICK g \in InitialGrants : g \in Grants
    OBVIOUS
  <2>2. /\ <<g[1], g[2], g[3]>> \in InitialGrants
        /\ g[1] \in Users /\ g[2] \in Orgs /\ g[3] \in Roles
        /\ <<g[1], g[2]>> \in Users \X Orgs
    BY <2>1, GrantParts
  <2>3. membership[<<g[1], g[2]>>] = "active"
    BY <2>2 DEF Init
  <2>4. Confers(g) /\ ~InForce(ban[g[1]])
    BY <2>1, <2>2, <2>3 DEF Init, Confers, InForce
  <2> QED
    BY <2>1, <2>4 DEF Surviving
<1>2. TypeOK /\ CountedGrantsStay /\ ExclusiveBookkeeping /\ ASuperadminSurvives
      /\ [Next]_vars => ASuperadminSurvives'
  <2> SUFFICES ASSUME TypeOK, CountedGrantsStay, ExclusiveBookkeeping,
                      ASuperadminSurvives, [Next]_vars
               PROVE  ASuperadminSurvives'
    OBVIOUS
  <2>1. CASE UNCHANGED vars
    BY <2>1 DEF vars, db, asked, guard, ASuperadminSurvives, DecidedOnEmptyRead,
       SagaCrashed, Surviving, Provisional, Confers, InForce
  <2>2. ASSUME NEW r \in Requests, Step(r),
               \A q \in Requests : ~DecidedOnEmptyRead(q)' /\ ~SagaCrashed(q)'
        PROVE  Surviving' # {}
    <3>1. PICK g : g \in Surviving
      BY <2>2, ProvisoHeldBefore DEF ASuperadminSurvives
    <3>2. CASE Starts(r) \/ Singles(r)
      BY <3>1, <3>2, AddingSurvives
    <3>3. CASE Proceeds(r)
      BY <2>2, <3>1, <3>3, ProceedingSurvives
    <3>4. CASE ApproveCommit(r)
      BY <3>1, <3>4, ApprovalSurvives
    <3>5. CASE Commit(r) /\ ~ApproveCommit(r)
      BY <2>2, <3>5, GuardedSurvives
    <3> QED
      BY <2>2, <3>2, <3>3, <3>4, <3>5 DEF Step
  <2>3. CASE Next
    BY <2>2, <2>3 DEF Next, Step, ASuperadminSurvives
  <2> QED
    BY <2>1, <2>3
<1> QED
  BY <1>1, <1>2, TypeCorrect, CountedGrantsKept, BookkeepingHolds, PTL DEF Spec
=============================================================================
