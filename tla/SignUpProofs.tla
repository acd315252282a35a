---------------------------- MODULE SignUpProofs ----------------------------
(* Proofs about AccountLifecycle and SignUp. *)
EXTENDS SignUp, TLAPS

(***************************************************************************)
(* What each step does to the requests                                     *)
(***************************************************************************)
RequestStates == [pc : Places, seen : AccountStatus \cup {"none"}, prev : Bans,
                  prior : Bans \cup {"replaced"}, orgs : SUBSET Orgs,
                  wide : BOOLEAN, outrun : BOOLEAN]

Reqs == req \in [Requests -> RequestStates]

(* The other requests keep what they do and have read; they may be outrun. *)
Fellows(r) ==
  \A q \in Requests \ {r} :
    /\ req'[q].pc = req[q].pc /\ req'[q].seen = req[q].seen /\ req'[q].prev = req[q].prev
    /\ req'[q].prior = req[q].prior /\ req'[q].orgs = req[q].orgs
    /\ req[q].outrun => req'[q].outrun

Overtakes(r) == \A q \in Requests \ {r} : req[q].pc \in Relying => req'[q].outrun

Becomes(r, x) == Reqs' /\ req'[r] = x /\ Fellows(r)

Goes(r, from, to) == Reqs' /\ req[r].pc = from /\ req'[r].pc = to /\ Fellows(r)

LEMMA Known ==
  /\ {"idle", "erase", "status", "provision", "consume", "accept", "reevaluate", "carry",
      "ban", "cascade", "undo", "record", "prior_ban", "unban", "revive", "admin_ban",
      "guard", "ban_undo"} \subseteq Places
  /\ "none" \in Bans /\ "deletion" \in Bans /\ AdminBans \subseteq Bans
  /\ "replaced" \notin Bans
  /\ \A b \in Bans : InForce(b) \in Bans
  /\ \A x \in {"active", "pending_approval"} : x \in AccountStatus
BY LifecycleAssumption DEF Places, BanWriters, Bans, AccountStatus, InForce

LEMMA IdleIs ==
  /\ Idle \in RequestStates /\ Idle.pc = "idle" /\ Idle.prior = "none" /\ Idle.outrun = FALSE
BY Known DEF Idle, RequestStates

LEMMA Put ==
  ASSUME Reqs, NEW r \in Requests, NEW x \in RequestStates, req' = [req EXCEPT ![r] = x]
  PROVE  Becomes(r, x)
BY DEF Reqs, Becomes, Fellows

LEMMA Started ==
  ASSUME Reqs, NEW r \in Requests, NEW x \in RequestStates, Start(r, x)
  PROVE  req[r].pc = "idle" /\ Becomes(r, x)
BY Put DEF Start

LEMMA Ended ==
  ASSUME Reqs, NEW r \in Requests, Ends(r)
  PROVE  Becomes(r, Idle)
BY Put, IdleIs DEF Ends

LEMMA Overtook ==
  ASSUME Reqs, NEW r \in Requests, NEW x \in RequestStates,
         req' = [Outrun(r) EXCEPT ![r] = x]
  PROVE  Becomes(r, x) /\ Overtakes(r)
<1> DEFINE passed(q) == [req[q] EXCEPT !.outrun = TRUE]
<1>1. ASSUME NEW q \in Requests
      PROVE  /\ passed(q) \in RequestStates /\ passed(q).pc = req[q].pc
             /\ passed(q).seen = req[q].seen /\ passed(q).prev = req[q].prev
             /\ passed(q).prior = req[q].prior /\ passed(q).orgs = req[q].orgs
             /\ passed(q).outrun
  BY DEF Reqs, RequestStates
<1> HIDE DEF passed
<1>2. Outrun(r) = [q \in Requests |-> IF q # r /\ req[q].pc \in Relying THEN passed(q) ELSE req[q]]
  BY DEF Outrun, passed
<1>3. Reqs' /\ req'[r] = x
  BY <1>1, <1>2 DEF Reqs
<1>4. \A q \in Requests \ {r} :
        req'[q] = IF req[q].pc \in Relying THEN passed(q) ELSE req[q]
  BY <1>2
<1>5. ASSUME NEW q \in Requests \ {r}
      PROVE  /\ req'[q].pc = req[q].pc /\ req'[q].seen = req[q].seen /\ req'[q].prev = req[q].prev
             /\ req'[q].prior = req[q].prior /\ req'[q].orgs = req[q].orgs
             /\ req[q].outrun => req'[q].outrun
             /\ req[q].pc \in Relying => req'[q].outrun
  <2>1. CASE req[q].pc \in Relying
    <3>1. req'[q] = passed(q)
      BY <1>4, <2>1
    <3>2. QED
      BY <1>1, <3>1
  <2>2. CASE req[q].pc \notin Relying
    BY <1>4, <2>2
  <2>3. QED
    BY <2>1, <2>2
<1>6. QED
  BY <1>3, <1>5 DEF Becomes, Fellows, Overtakes

(* This one does its next step with what it has read. *)
Advanced(r, p) == [req[r] EXCEPT !.pc = p]

LEMMA AdvancedIs ==
  ASSUME Reqs, NEW r \in Requests, NEW p \in Places
  PROVE  /\ Advanced(r, p) \in RequestStates
         /\ Advanced(r, p).pc = p
         /\ Advanced(r, p).seen = req[r].seen
         /\ Advanced(r, p).prev = req[r].prev
         /\ Advanced(r, p).prior = req[r].prior
         /\ Advanced(r, p).orgs = req[r].orgs
         /\ Advanced(r, p).outrun = req[r].outrun
BY DEF Reqs, RequestStates, Advanced

LEMMA SoftDeleteMoves ==
  ASSUME Reqs, ban \in Bans, record \in Bans, NEW r \in Requests
  PROVE  /\ SoftDeleteRead(r) =>
              /\ Goes(r, "idle", IF account = "deactivated" THEN "carry" ELSE "ban")
              /\ req'[r].prior = "replaced"
         /\ CarriedPriorBan(r) => Goes(r, "carry", "ban") /\ req'[r].prior = record
         /\ BanForSoftDelete(r) =>
              /\ Goes(r, "ban", "cascade") /\ req'[r].prev = InForce(ban)
              /\ req'[r].prior = IF req[r].prior = "replaced" THEN InForce(ban) ELSE req[r].prior
         /\ SoftDeleteCascade(r) =>
              Goes(r, "cascade", "record") /\ Overtakes(r) /\ req'[r].prior = req[r].prior
         /\ SoftDeleteRefused(r) => Goes(r, "cascade", "undo") /\ req'[r].prev = req[r].prev
         /\ SoftDeleteUndo(r) => Goes(r, "undo", "idle")
         /\ FinishSoftDelete(r) => Goes(r, "record", "idle")
<1> USE Known, IdleIs DEF Goes, At
<1>1. ASSUME SoftDeleteRead(r)
      PROVE  /\ Goes(r, "idle", IF account = "deactivated" THEN "carry" ELSE "ban")
             /\ req'[r].prior = "replaced"
  <2> DEFINE p == IF account = "deactivated" THEN "carry" ELSE "ban"
             x == [Idle EXCEPT !.pc = p, !.prior = "replaced"]
  <2>1. p \in Places
    OBVIOUS
  <2> HIDE DEF p
  <2>2. x \in RequestStates /\ x.pc = p /\ x.prior = "replaced"
    BY <2>1 DEF Idle, RequestStates
  <2>3. Start(r, x)
    BY <1>1 DEF SoftDeleteRead, p
  <2> HIDE DEF x
  <2>4. QED
    BY <2>2, <2>3, Started DEF Becomes, p
<1>2. ASSUME CarriedPriorBan(r) PROVE Goes(r, "carry", "ban") /\ req'[r].prior = record
  <2> DEFINE x == [req[r] EXCEPT !.prior = record, !.pc = "ban"]
  <2>1. x \in RequestStates /\ x.pc = "ban" /\ x.prior = record
    BY DEF Reqs, RequestStates
  <2>2. req' = [req EXCEPT ![r] = x] /\ req[r].pc = "carry"
    BY <1>2 DEF CarriedPriorBan, Reqs
  <2> HIDE DEF x
  <2>3. QED
    BY <2>1, <2>2, Put DEF Becomes
<1>3. ASSUME BanForSoftDelete(r)
      PROVE  /\ Goes(r, "ban", "cascade") /\ req'[r].prev = InForce(ban)
             /\ req'[r].prior = IF req[r].prior = "replaced" THEN InForce(ban) ELSE req[r].prior
  <2> DEFINE b == IF req[r].prior = "replaced" THEN InForce(ban) ELSE req[r].prior
             x == [req[r] EXCEPT !.prev = InForce(ban), !.pc = "cascade", !.prior = b]
  <2>1. b \in Bans /\ InForce(ban) \in Bans
    BY DEF Reqs, RequestStates
  <2>2. req' = [req EXCEPT ![r] = x] /\ req[r].pc = "ban"
    BY <1>3 DEF BanForSoftDelete, Reqs
  <2> HIDE DEF b
  <2>3. x \in RequestStates /\ x.pc = "cascade" /\ x.prior = b /\ x.prev = InForce(ban)
    BY <2>1 DEF Reqs, RequestStates
  <2> HIDE DEF x
  <2>4. QED
    BY <2>2, <2>3, Put DEF Becomes, b
<1>4. ASSUME SoftDeleteCascade(r)
      PROVE  Goes(r, "cascade", "record") /\ Overtakes(r) /\ req'[r].prior = req[r].prior
  <2>1. req' = [Outrun(r) EXCEPT ![r] = Advanced(r, "record")] /\ req[r].pc = "cascade"
    BY <1>4 DEF SoftDeleteCascade, Outrun, Advanced
  <2>2. Advanced(r, "record") \in RequestStates /\ Advanced(r, "record").pc = "record"
        /\ Advanced(r, "record").prior = req[r].prior
    BY AdvancedIs
  <2>3. QED
    BY <2>1, <2>2, Overtook DEF Becomes
<1>5. ASSUME SoftDeleteRefused(r) PROVE Goes(r, "cascade", "undo") /\ req'[r].prev = req[r].prev
  <2>1. req' = [req EXCEPT ![r] = Advanced(r, "undo")] /\ req[r].pc = "cascade"
    BY <1>5 DEF SoftDeleteRefused, Advanced
  <2>2. Advanced(r, "undo") \in RequestStates /\ Advanced(r, "undo").pc = "undo"
        /\ Advanced(r, "undo").prev = req[r].prev
    BY AdvancedIs
  <2>3. QED
    BY <2>1, <2>2, Put DEF Becomes
<1>6. ASSUME SoftDeleteUndo(r) PROVE Goes(r, "undo", "idle")
  BY <1>6, Ended DEF SoftDeleteUndo, Becomes
<1>7. ASSUME FinishSoftDelete(r) PROVE Goes(r, "record", "idle")
  BY <1>7, Ended DEF FinishSoftDelete, Becomes
<1>8. QED
  BY <1>1, <1>2, <1>3, <1>4, <1>5, <1>6, <1>7

LEMMA RestoreMoves ==
  ASSUME Reqs, record \in Bans, NEW r \in Requests
  PROVE  /\ RestoreRead(r) => Goes(r, "idle", "prior_ban")
         /\ RecordedPriorBan(r) =>
              /\ Goes(r, "prior_ban", "unban") /\ req'[r].prior = record
              /\ req[r].outrun => req'[r].outrun
         /\ RestoreBan(r) =>
              Goes(r, "unban", "revive") /\ (req[r].outrun => req'[r].outrun)
         /\ RestoreCommit(r) => Goes(r, "revive", "idle") /\ Overtakes(r)
         /\ EraseRead(r) => Goes(r, "idle", "erase")
         /\ EraseCommit(r) => Goes(r, "erase", "idle") /\ Overtakes(r)
<1> USE Known, IdleIs DEF Goes, At
<1>1. ASSUME NEW p \in Places, Start(r, [Idle EXCEPT !.pc = p]) PROVE Goes(r, "idle", p)
  <2> DEFINE x == [Idle EXCEPT !.pc = p]
  <2>1. x \in RequestStates /\ x.pc = p
    BY DEF Idle, RequestStates
  <2>2. Start(r, x)
    BY <1>1
  <2> HIDE DEF x
  <2>3. QED
    BY <2>1, <2>2, Started DEF Becomes
<1>2. ASSUME RecordedPriorBan(r)
      PROVE  /\ Goes(r, "prior_ban", "unban") /\ req'[r].prior = record
             /\ req[r].outrun => req'[r].outrun
  <2> DEFINE x == [req[r] EXCEPT !.prior = record, !.pc = "unban"]
  <2>1. x \in RequestStates /\ x.pc = "unban" /\ x.prior = record /\ x.outrun = req[r].outrun
    BY DEF Reqs, RequestStates
  <2>2. req' = [req EXCEPT ![r] = x] /\ req[r].pc = "prior_ban"
    BY <1>2 DEF RecordedPriorBan, Reqs
  <2> HIDE DEF x
  <2>3. QED
    BY <2>1, <2>2, Put DEF Becomes
<1>3. ASSUME RestoreBan(r)
      PROVE  Goes(r, "unban", "revive") /\ (req[r].outrun => req'[r].outrun)
  <2>1. req' = [req EXCEPT ![r] = Advanced(r, "revive")] /\ req[r].pc = "unban"
    BY <1>3 DEF RestoreBan, Advanced
  <2>2. Advanced(r, "revive") \in RequestStates /\ Advanced(r, "revive").pc = "revive"
        /\ Advanced(r, "revive").outrun = req[r].outrun
    BY AdvancedIs
  <2>3. QED
    BY <2>1, <2>2, Put DEF Becomes
<1>4. ASSUME RestoreCommit(r) PROVE Goes(r, "revive", "idle") /\ Overtakes(r)
  BY <1>4, Overtook DEF RestoreCommit, Becomes
<1>5. ASSUME EraseCommit(r) PROVE Goes(r, "erase", "idle") /\ Overtakes(r)
  BY <1>5, Overtook DEF EraseCommit, Becomes
<1>6. QED
  BY <1>1, <1>2, <1>3, <1>4, <1>5 DEF RestoreRead, EraseRead

LEMMA BanMoves ==
  ASSUME Reqs, ban \in Bans, NEW r \in Requests
  PROVE  /\ BanRead(r) => Goes(r, "idle", "admin_ban")
         /\ AdminBan(r) =>
              /\ Goes(r, "admin_ban", "guard") /\ req'[r].prev = InForce(ban)
              /\ req'[r].prior \in AdminBans /\ ban' = req'[r].prior
         /\ GuardPasses(r) => Goes(r, "guard", "idle")
         /\ GuardRefuses(r) => Goes(r, "guard", "ban_undo") /\ req'[r].prev = req[r].prev
         /\ BanUndo(r) => Goes(r, "ban_undo", "idle")
         /\ Unban(r) => Goes(r, "admin_ban", "idle")
<1> USE Known, IdleIs DEF Goes, At
<1>1. ASSUME BanRead(r) PROVE Goes(r, "idle", "admin_ban")
  <2> DEFINE x == [Idle EXCEPT !.pc = "admin_ban"]
  <2>1. x \in RequestStates /\ x.pc = "admin_ban"
    BY DEF Idle, RequestStates
  <2>2. Start(r, x)
    BY <1>1 DEF BanRead
  <2> HIDE DEF x
  <2>3. QED
    BY <2>1, <2>2, Started DEF Becomes
<1>2. ASSUME AdminBan(r)
      PROVE  /\ Goes(r, "admin_ban", "guard") /\ req'[r].prev = InForce(ban)
             /\ req'[r].prior \in AdminBans /\ ban' = req'[r].prior
  <2>1. PICK b \in AdminBans :
          /\ ban' = b
          /\ req' = [req EXCEPT ![r].prev = InForce(ban), ![r].prior = b, ![r].pc = "guard"]
    BY <1>2 DEF AdminBan
  <2> DEFINE x == [req[r] EXCEPT !.prev = InForce(ban), !.prior = b, !.pc = "guard"]
  <2>2. x \in RequestStates /\ x.pc = "guard" /\ x.prior = b /\ x.prev = InForce(ban)
    BY DEF Reqs, RequestStates
  <2>3. req' = [req EXCEPT ![r] = x] /\ req[r].pc = "admin_ban"
    BY <1>2, <2>1 DEF AdminBan, Reqs
  <2> HIDE DEF x
  <2>4. QED
    BY <2>1, <2>2, <2>3, Put DEF Becomes
<1>3. ASSUME GuardPasses(r) PROVE Goes(r, "guard", "idle")
  BY <1>3, Ended DEF GuardPasses, Becomes
<1>4. ASSUME GuardRefuses(r)
      PROVE  Goes(r, "guard", "ban_undo") /\ req'[r].prev = req[r].prev
  <2>1. req' = [req EXCEPT ![r] = Advanced(r, "ban_undo")] /\ req[r].pc = "guard"
    BY <1>4 DEF GuardRefuses, Advanced
  <2>2. Advanced(r, "ban_undo") \in RequestStates /\ Advanced(r, "ban_undo").pc = "ban_undo"
        /\ Advanced(r, "ban_undo").prev = req[r].prev
    BY AdvancedIs
  <2>3. QED
    BY <2>1, <2>2, Put DEF Becomes
<1>5. ASSUME BanUndo(r) PROVE Goes(r, "ban_undo", "idle")
  BY <1>5, Ended DEF BanUndo, Becomes
<1>6. ASSUME Unban(r) PROVE Goes(r, "admin_ban", "idle")
  BY <1>6, Ended DEF Unban, Becomes
<1>7. QED
  BY <1>1, <1>2, <1>3, <1>4, <1>5, <1>6

LEMMA StatusMoves ==
  ASSUME Reqs, NEW r \in Requests
  PROVE  /\ StatusRead(r) => Goes(r, "idle", "status")
         /\ StatusCommit(r) => Goes(r, "status", "idle")
         /\ Dies(r) => req[r].pc # "idle" /\ Goes(r, req[r].pc, "idle")
<1> USE Known, IdleIs DEF Goes, At
<1>1. ASSUME StatusRead(r) PROVE Goes(r, "idle", "status")
  <2> DEFINE held == {p \in Orgs : member[p].status # "none"}
             wide(orgs) == orgs = Orgs \/ \A o \in Orgs \ orgs : member[o].status = "none"
             x(orgs) == [Idle EXCEPT !.pc = "status", !.orgs = orgs, !.wide = wide(orgs)]
  <2>1. PICK orgs \in {Orgs} \cup {{o} : o \in held} : Start(r, x(orgs))
    BY <1>1 DEF StatusRead
  <2>2. orgs \in SUBSET Orgs /\ wide(orgs) \in BOOLEAN
    OBVIOUS
  <2> HIDE DEF wide
  <2>3. x(orgs) \in RequestStates /\ x(orgs).pc = "status"
    BY <2>2 DEF Idle, RequestStates
  <2> HIDE DEF x
  <2>4. QED
    BY <2>1, <2>3, Started DEF Becomes
<1>2. ASSUME StatusCommit(r) PROVE Goes(r, "status", "idle")
  BY <1>2, Ended DEF StatusCommit, Becomes
<1>3. ASSUME Dies(r) PROVE req[r].pc # "idle" /\ Goes(r, req[r].pc, "idle")
  BY <1>3, Ended DEF Dies, Becomes
<1>4. QED
  BY <1>1, <1>2, <1>3

LEMMA ProvisionMoves ==
  ASSUME Reqs, account \in AccountStatus \cup {"none"}, NEW r \in Requests
  PROVE  /\ \A i \in Invites : ProvisionInvited(r, i) =>
              Goes(r, "idle", "provision") /\ req'[r].seen = "active"
         /\ \A o \in Orgs : ProvisionUninvited(r, o) =>
              Goes(r, "idle", "provision") /\ req'[r].seen \in {"active", "pending_approval"}
         /\ ProvisionCommit(r) =>
              Goes(r, "provision", IF token[r] = NoInvite THEN "idle" ELSE "consume")
<1> USE Known, IdleIs DEF Goes, At
<1>1. ASSUME NEW orgs \in SUBSET Orgs, NEW s \in {"active", "pending_approval"},
             Start(r, [Idle EXCEPT !.pc = "provision", !.orgs = orgs, !.seen = s])
      PROVE  Goes(r, "idle", "provision") /\ req'[r].seen = s
  <2> DEFINE x == [Idle EXCEPT !.pc = "provision", !.orgs = orgs, !.seen = s]
  <2>1. x \in RequestStates /\ x.pc = "provision" /\ x.seen = s
    BY DEF Idle, RequestStates
  <2>2. Start(r, x)
    BY <1>1
  <2> HIDE DEF x
  <2>3. QED
    BY <2>1, <2>2, Started DEF Becomes
<1>2. ASSUME NEW i \in Invites, ProvisionInvited(r, i)
      PROVE  Goes(r, "idle", "provision") /\ req'[r].seen = "active"
  BY <1>1, <1>2, SignUpAssumption DEF ProvisionInvited
<1>3. ASSUME NEW o \in Orgs, ProvisionUninvited(r, o)
      PROVE  Goes(r, "idle", "provision") /\ req'[r].seen \in {"active", "pending_approval"}
  <2>1. DecideInitialStatus(o, FALSE) \in {"active", "pending_approval"}
    BY DEF DecideInitialStatus
  <2>2. QED
    BY <1>1, <1>3, <2>1 DEF ProvisionUninvited
<1>4. ASSUME ProvisionCommit(r)
      PROVE  Goes(r, "provision", IF token[r] = NoInvite THEN "idle" ELSE "consume")
  <2>1. CASE token[r] = NoInvite
    BY <1>4, <2>1, Ended DEF ProvisionCommit, Becomes
  <2>2. CASE token[r] # NoInvite
    <3> DEFINE x == [Idle EXCEPT !.pc = "consume", !.seen = account', !.outrun = @]
    <3>1. account' \in AccountStatus \cup {"none"}
      BY <1>4 DEF ProvisionCommit, Reqs, RequestStates
    <3>2. x \in RequestStates /\ x.pc = "consume"
      BY <3>1 DEF Idle, RequestStates
    <3>3. req' = [req EXCEPT ![r] = x]
      BY <1>4, <2>2 DEF ProvisionCommit
    <3> HIDE DEF x
    <3>4. QED
      BY <1>4, <2>2, <3>2, <3>3, Put DEF ProvisionCommit, Becomes
  <2>3. QED
    BY <2>1, <2>2
<1>5. QED
  BY <1>2, <1>3, <1>4

LEMMA ConsumeMoves ==
  ASSUME Reqs, account \in AccountStatus \cup {"none"}, NEW r \in Requests
  PROVE  /\ \A i \in Invites : AcceptRead(r, i) => Goes(r, "idle", "consume")
         /\ ConsumeChecks(r) => Goes(r, "consume", "accept")
         /\ ConsumeRefused(r) => Goes(r, "consume", "idle")
         /\ ConsumeCommit(r) => Goes(r, "accept", "idle")
         /\ ConsumeLate(r) => Goes(r, "accept", "idle")
         /\ ReevaluateRead(r) =>
              /\ Goes(r, "idle", "reevaluate")
              /\ \A o \in req'[r].orgs : o \in Orgs /\ member[o].snapshot = "none"
         /\ ReevaluateCommit(r) => Goes(r, "reevaluate", "idle")
<1> USE Known, IdleIs DEF Goes, At
<1>1. ASSUME NEW i \in Invites, AcceptRead(r, i) PROVE Goes(r, "idle", "consume")
  <2> DEFINE x == [Idle EXCEPT !.pc = "consume", !.seen = account]
  <2>1. x \in RequestStates /\ x.pc = "consume"
    BY DEF Idle, RequestStates
  <2>2. Start(r, x)
    BY <1>1 DEF AcceptRead
  <2> HIDE DEF x
  <2>3. QED
    BY <2>1, <2>2, Started DEF Becomes
<1>2. ASSUME ConsumeChecks(r) PROVE Goes(r, "consume", "accept")
  <2>1. req' = [req EXCEPT ![r] = Advanced(r, "accept")] /\ req[r].pc = "consume"
    BY <1>2 DEF ConsumeChecks, Advanced
  <2>2. Advanced(r, "accept") \in RequestStates /\ Advanced(r, "accept").pc = "accept"
    BY AdvancedIs
  <2>3. QED
    BY <2>1, <2>2, Put DEF Becomes
<1>3. ASSUME ConsumeRefused(r) PROVE Goes(r, "consume", "idle")
  BY <1>3, Ended DEF ConsumeRefused, Becomes
<1>4. ASSUME ConsumeCommit(r) PROVE Goes(r, "accept", "idle")
  BY <1>4, Ended DEF ConsumeCommit, Becomes
<1>5. ASSUME ConsumeLate(r) PROVE Goes(r, "accept", "idle")
  BY <1>5, Ended DEF ConsumeLate, Becomes
<1>6. ASSUME ReevaluateRead(r)
      PROVE  /\ Goes(r, "idle", "reevaluate")
             /\ \A o \in req'[r].orgs : o \in Orgs /\ member[o].snapshot = "none"
  <2> DEFINE orgs == {o \in AutoOrgs : /\ member[o].status = "pending_approval"
                                       /\ member[o].snapshot = "none" /\ member[o].signup}
             x == [Idle EXCEPT !.pc = "reevaluate", !.orgs = orgs]
  <2>1. orgs \in SUBSET Orgs /\ \A o \in orgs : member[o].snapshot = "none"
    BY SignUpAssumption
  <2>2. Start(r, x)
    BY <1>6 DEF ReevaluateRead
  <2> HIDE DEF orgs
  <2>3. x \in RequestStates /\ x.pc = "reevaluate" /\ x.orgs = orgs
    BY <2>1 DEF Idle, RequestStates
  <2> HIDE DEF x
  <2>4. QED
    BY <2>1, <2>2, <2>3, Started DEF Becomes
<1>7. ASSUME ReevaluateCommit(r) PROVE Goes(r, "reevaluate", "idle")
  BY <1>7, Ended DEF ReevaluateCommit, Becomes
<1>8. QED
  BY <1>1, <1>2, <1>3, <1>4, <1>5, <1>6, <1>7

(***************************************************************************)
(* Types                                                                   *)
(***************************************************************************)

(* A request that is about to write a ban down, or to consume an invitation, *)
(* has one.                                                                  *)
Carries ==
  \A r \in Requests :
    /\ req[r].pc \in {"cascade", "record", "unban"} => req[r].prior \in Bans
    /\ req[r].pc = "guard" => req[r].prior \in AdminBans
    /\ req[r].pc = "provision" => req[r].seen \in {"active", "pending_approval"}
    /\ req[r].pc \in {"consume", "accept"} => token[r] \in Invites

Typed == SignUpTypeOK /\ Carries

LEMMA CarriesKept ==
  ASSUME Typed, [SignUpNext]_signUpVars
  PROVE  (Reqs /\ Carries)'
<1> USE Known
<1> USE DEF Goes, Fellows, Carries
<1>0. /\ Reqs /\ Carries /\ ban \in Bans /\ record \in Bans
      /\ account \in AccountStatus \cup {"none"} /\ token \in [Requests -> Invites \cup {NoInvite}]
  BY DEF Typed, SignUpTypeOK, TypeOK, Reqs, RequestStates
<1>1. ASSUME NEW r \in Requests, SoftDeleteRead(r), UNCHANGED signup
      PROVE  (Reqs /\ Carries)'
  BY <1>0, <1>1, SoftDeleteMoves DEF signup
<1>2. ASSUME NEW r \in Requests, CarriedPriorBan(r), UNCHANGED signup
      PROVE  (Reqs /\ Carries)'
  BY <1>0, <1>2, SoftDeleteMoves DEF signup
<1>3. ASSUME NEW r \in Requests, BanForSoftDelete(r), UNCHANGED signup
      PROVE  (Reqs /\ Carries)'
  <2>1. Goes(r, "ban", "cascade") /\ token' = token
    BY <1>0, <1>3, SoftDeleteMoves DEF signup
  <2>2. req[r].prior \in Bans \cup {"replaced"} /\ InForce(ban) \in Bans
    BY <1>0 DEF Reqs, RequestStates
  <2>3. req'[r].prior \in Bans
    BY <1>0, <1>3, <2>2, SoftDeleteMoves
  <2>4. QED
    BY <1>0, <2>1, <2>3
<1>4. ASSUME NEW r \in Requests, SoftDeleteCascade(r), UNCHANGED signup
      PROVE  (Reqs /\ Carries)'
  BY <1>0, <1>4, SoftDeleteMoves DEF signup
<1>5. ASSUME NEW r \in Requests, SoftDeleteRefused(r), UNCHANGED signup
      PROVE  (Reqs /\ Carries)'
  BY <1>0, <1>5, SoftDeleteMoves DEF signup
<1>6. ASSUME NEW r \in Requests, SoftDeleteUndo(r), UNCHANGED signup
      PROVE  (Reqs /\ Carries)'
  BY <1>0, <1>6, SoftDeleteMoves DEF signup
<1>7. ASSUME NEW r \in Requests, FinishSoftDelete(r), UNCHANGED signup
      PROVE  (Reqs /\ Carries)'
  BY <1>0, <1>7, SoftDeleteMoves DEF signup
<1>8. ASSUME NEW r \in Requests, RestoreRead(r), UNCHANGED signup PROVE (Reqs /\ Carries)'
  BY <1>0, <1>8, RestoreMoves DEF signup
<1>9. ASSUME NEW r \in Requests, RecordedPriorBan(r), UNCHANGED signup
      PROVE  (Reqs /\ Carries)'
  BY <1>0, <1>9, RestoreMoves DEF signup
<1>10. ASSUME NEW r \in Requests, RestoreBan(r), UNCHANGED signup PROVE (Reqs /\ Carries)'
  BY <1>0, <1>10, RestoreMoves DEF signup
<1>11. ASSUME NEW r \in Requests, RestoreCommit(r), UNCHANGED signup
       PROVE  (Reqs /\ Carries)'
  BY <1>0, <1>11, RestoreMoves DEF signup
<1>12. ASSUME NEW r \in Requests, BanRead(r), UNCHANGED signup PROVE (Reqs /\ Carries)'
  BY <1>0, <1>12, BanMoves DEF signup
<1>13. ASSUME NEW r \in Requests, AdminBan(r), UNCHANGED signup PROVE (Reqs /\ Carries)'
  BY <1>0, <1>13, BanMoves DEF signup
<1>14. ASSUME NEW r \in Requests, GuardPasses(r), UNCHANGED signup PROVE (Reqs /\ Carries)'
  BY <1>0, <1>14, BanMoves DEF signup
<1>15. ASSUME NEW r \in Requests, GuardRefuses(r), UNCHANGED signup PROVE (Reqs /\ Carries)'
  BY <1>0, <1>15, BanMoves DEF signup
<1>16. ASSUME NEW r \in Requests, BanUndo(r), UNCHANGED signup PROVE (Reqs /\ Carries)'
  BY <1>0, <1>16, BanMoves DEF signup
<1>17. ASSUME NEW r \in Requests, Unban(r), UNCHANGED signup PROVE (Reqs /\ Carries)'
  BY <1>0, <1>17, BanMoves DEF signup
<1>18. ASSUME NEW r \in Requests, StatusRead(r), UNCHANGED signup PROVE (Reqs /\ Carries)'
  BY <1>0, <1>18, StatusMoves DEF signup
<1>19. ASSUME NEW r \in Requests, StatusCommit(r), UNCHANGED signup PROVE (Reqs /\ Carries)'
  BY <1>0, <1>19, StatusMoves DEF signup
<1>20. ASSUME NEW r \in Requests, EraseRead(r), UNCHANGED signup PROVE (Reqs /\ Carries)'
  BY <1>0, <1>20, RestoreMoves DEF signup
<1>21. ASSUME NEW r \in Requests, Erase(r) PROVE (Reqs /\ Carries)'
  BY <1>0, <1>21, RestoreMoves DEF Erase
<1>22. ASSUME NEW r \in Requests, DiesInvited(r) PROVE (Reqs /\ Carries)'
  BY <1>0, <1>22, StatusMoves DEF DiesInvited, Leaves
<1>23. ASSUME NEW r \in Requests, ProvisionCommit(r) PROVE (Reqs /\ Carries)'
  BY <1>0, <1>23, ProvisionMoves DEF ProvisionCommit, signup
<1>24. ASSUME NEW r \in Requests, NEW i \in Invites, ProvisionInvited(r, i)
       PROVE  (Reqs /\ Carries)'
  BY <1>0, <1>24, ProvisionMoves DEF ProvisionInvited
<1>25. ASSUME NEW r \in Requests, NEW o \in Orgs, ProvisionUninvited(r, o)
       PROVE  (Reqs /\ Carries)'
  BY <1>0, <1>25, ProvisionMoves DEF ProvisionUninvited
<1>26. ASSUME NEW r \in Requests, ConsumeChecks(r) PROVE (Reqs /\ Carries)'
  <2>1. Goes(r, "consume", "accept")
    BY <1>0, <1>26, ConsumeMoves
  <2>2. token' = token
    BY <1>26 DEF ConsumeChecks
  <2>3. QED
    BY <1>0, <2>1, <2>2
<1>27. ASSUME NEW r \in Requests, ConsumeRefused(r) PROVE (Reqs /\ Carries)'
  BY <1>0, <1>27, ConsumeMoves DEF ConsumeRefused, Leaves
<1>28. ASSUME NEW r \in Requests, ConsumeCommit(r) PROVE (Reqs /\ Carries)'
  BY <1>0, <1>28, ConsumeMoves DEF ConsumeCommit, Leaves
<1>29. ASSUME NEW r \in Requests, ConsumeLate(r) PROVE (Reqs /\ Carries)'
  BY <1>0, <1>29, ConsumeMoves DEF ConsumeLate, Leaves
<1>30. ASSUME NEW r \in Requests, ReevaluateRead(r) PROVE (Reqs /\ Carries)'
  BY <1>0, <1>30, ConsumeMoves DEF ReevaluateRead, signup
<1>31. ASSUME NEW r \in Requests, ReevaluateCommit(r) PROVE (Reqs /\ Carries)'
  BY <1>0, <1>31, ConsumeMoves DEF ReevaluateCommit, signup
<1>32. ASSUME NEW r \in Requests, NEW i \in Invites, AcceptRead(r, i)
       PROVE  (Reqs /\ Carries)'
  BY <1>0, <1>32, ConsumeMoves DEF AcceptRead
<1>33. CASE UNCHANGED <<req, token>>
  BY <1>0, <1>33 DEF Reqs
<1>34. QED
  BY <1>1, <1>2, <1>3, <1>4, <1>5, <1>6, <1>7, <1>8, <1>9, <1>10, <1>11, <1>12, <1>13,
     <1>14, <1>15, <1>16, <1>17, <1>18, <1>19, <1>20, <1>21, <1>22, <1>23, <1>24, <1>25,
     <1>26, <1>27, <1>28, <1>29, <1>30, <1>31, <1>32, <1>33
  DEF SignUpNext, Lifecycle, SoftDelete, Restore, Ban, Status, Provision, Consume,
      MembershipAdd, MembershipPatch, RemoveMember, OrganizationToggles, CreateInvitation,
      RevokeInvitation, Expires, RegenerateInvitationToken, BanLapses, InviterLoses,
      MembershipRemove, signUpVars, vars, signup

Memberships == [status : MembershipStatus \cup {"none"},
                snapshot : MembershipStatus \cup {"none"}, signup : BOOLEAN]

LEMMA MembershipsAre ==
  /\ NoMembership \in Memberships
  /\ \A m \in Memberships : Snapshotted(m) \in Memberships /\ Released(m) \in Memberships
  /\ \A m \in Memberships, s \in MembershipStatus :
       /\ [m EXCEPT !.status = s] \in Memberships
       /\ [m EXCEPT !.status = s, !.snapshot = "none"] \in Memberships
  /\ \A s \in MembershipStatus, b \in BOOLEAN :
       [status |-> s, snapshot |-> "none", signup |-> b] \in Memberships
BY DEF Memberships, NoMembership, Snapshotted, Released, MembershipStatus

(* All but the requests. *)
Rest ==
  /\ account \in AccountStatus \cup {"none"} /\ erased \in BOOLEAN
  /\ ban \in Bans /\ lapsed \in BOOLEAN /\ record \in Bans
  /\ member \in [Orgs -> Memberships]
  /\ calls \in 0..MaxCalls /\ edits \in 0..MaxEdits
  /\ imposed \in Bans \ {"deletion"} /\ owed \subseteq Orgs
  /\ stale \in BOOLEAN /\ torn \in BOOLEAN
  /\ invite \in [Invites -> {"none", "pending", "accepted", "revoked"}]
  /\ expired \subseteq Invites /\ open \subseteq Orgs /\ granted \subseteq Orgs
  /\ inviter \in {"full", "invites", "none"}
  /\ token \in [Requests -> Invites \cup {NoInvite}]
  /\ confers \in [Requests -> BOOLEAN]
  /\ winners \in [Invites -> SUBSET Requests]

LEMMA TypedIs == Typed <=> Reqs /\ Rest /\ Carries
BY DEF Typed, SignUpTypeOK, TypeOK, Reqs, RequestStates, Rest, Memberships

LEMMA RestKept ==
  ASSUME Typed, [SignUpNext]_signUpVars
  PROVE  Rest'
<1> USE LifecycleAssumption, SignUpAssumption, Known
<1> USE DEF Rest, row, bans, history, bound, vars, signup
<1>0. Reqs /\ Rest /\ Carries
  BY TypedIs
<1>a. \A r \in Requests :
        /\ req[r].prev \in Bans /\ req[r].orgs \subseteq Orgs
        /\ req[r].pc \in {"record", "unban"} => req[r].prior \in Bans
        /\ req[r].pc = "guard" => req[r].prior \in Bans \ {"deletion"}
        /\ req[r].pc = "provision" => req[r].seen \in {"active", "pending_approval"}
        /\ req[r].pc = "accept" => token[r] \in Invites
  BY <1>0 DEF Reqs, RequestStates, Carries
<1>b. \A o \in Orgs : member[o] \in Memberships
  BY <1>0
<1>c. Decisions \subseteq MembershipStatus /\ Edits \subseteq MembershipStatus
      /\ Decisions \subseteq AccountStatus /\ "deactivated" \in AccountStatus
      /\ "active" \in MembershipStatus /\ "pending_approval" \in MembershipStatus
  BY DEF MembershipStatus, AccountStatus
<1>1. ASSUME NEW r \in Requests, SoftDeleteRead(r), UNCHANGED signup PROVE Rest'
  BY <1>0, <1>1 DEF SoftDeleteRead, Start
<1>2. ASSUME NEW r \in Requests, CarriedPriorBan(r), UNCHANGED signup PROVE Rest'
  BY <1>0, <1>2 DEF CarriedPriorBan, At
<1>3. ASSUME NEW r \in Requests, BanForSoftDelete(r), UNCHANGED signup PROVE Rest'
  BY <1>0, <1>3 DEF BanForSoftDelete, At
<1>4. ASSUME NEW r \in Requests, SoftDeleteCascade(r), UNCHANGED signup PROVE Rest'
  <2>1. member' \in [Orgs -> Memberships]
    BY <1>4, <1>b, MembershipsAre DEF SoftDeleteCascade
  <2>2. QED
    BY <1>0, <1>c, <1>4, <2>1 DEF SoftDeleteCascade, At
<1>5. ASSUME NEW r \in Requests, SoftDeleteRefused(r), UNCHANGED signup PROVE Rest'
  BY <1>0, <1>5 DEF SoftDeleteRefused, At
<1>6. ASSUME NEW r \in Requests, SoftDeleteUndo(r), UNCHANGED signup PROVE Rest'
  BY <1>0, <1>a, <1>6 DEF SoftDeleteUndo, At, RestoreBetterAuthBan
<1>7. ASSUME NEW r \in Requests, FinishSoftDelete(r), UNCHANGED signup PROVE Rest'
  BY <1>0, <1>a, <1>7 DEF FinishSoftDelete, At, Ends
<1>8. ASSUME NEW r \in Requests, RestoreRead(r), UNCHANGED signup PROVE Rest'
  BY <1>0, <1>8 DEF RestoreRead, Start
<1>9. ASSUME NEW r \in Requests, RecordedPriorBan(r), UNCHANGED signup PROVE Rest'
  BY <1>0, <1>9 DEF RecordedPriorBan, At
<1>10. ASSUME NEW r \in Requests, RestoreBan(r), UNCHANGED signup PROVE Rest'
  BY <1>0, <1>a, <1>10 DEF RestoreBan, At, RestoreBetterAuthBan
<1>11. ASSUME NEW r \in Requests, RestoreCommit(r), UNCHANGED signup PROVE Rest'
  <2>1. member' \in [Orgs -> Memberships]
    BY <1>11, <1>b, MembershipsAre DEF RestoreCommit
  <2>2. QED
    BY <1>0, <1>c, <1>11, <2>1 DEF RestoreCommit, At
<1>12. ASSUME NEW r \in Requests, BanRead(r), UNCHANGED signup PROVE Rest'
  BY <1>0, <1>12 DEF BanRead, Start
<1>13. ASSUME NEW r \in Requests, AdminBan(r), UNCHANGED signup PROVE Rest'
  BY <1>0, <1>13 DEF AdminBan, At
<1>14. ASSUME NEW r \in Requests, GuardPasses(r), UNCHANGED signup PROVE Rest'
  BY <1>0, <1>a, <1>14 DEF GuardPasses, At, Ends
<1>15. ASSUME NEW r \in Requests, GuardRefuses(r), UNCHANGED signup PROVE Rest'
  BY <1>0, <1>15 DEF GuardRefuses, At
<1>16. ASSUME NEW r \in Requests, BanUndo(r), UNCHANGED signup PROVE Rest'
  BY <1>0, <1>a, <1>16 DEF BanUndo, At, RestoreBetterAuthBan
<1>17. ASSUME NEW r \in Requests, Unban(r), UNCHANGED signup PROVE Rest'
  BY <1>0, <1>17 DEF Unban, At, Ends
<1>18. ASSUME NEW r \in Requests, StatusRead(r), UNCHANGED signup PROVE Rest'
  BY <1>0, <1>18 DEF StatusRead, Start
<1>19. ASSUME NEW r \in Requests, StatusCommit(r), UNCHANGED signup PROVE Rest'
  <2>1. PICK s \in Decisions :
          /\ account' = IF req[r].wide \/ (s = "active" /\ account = "pending_approval")
                          THEN s ELSE account
          /\ member' = [o \in Orgs |-> IF o \in req[r].orgs /\ member[o].status # "none"
                                         THEN [member[o] EXCEPT !.status = s, !.snapshot = "none"]
                                         ELSE member[o]]
    BY <1>19 DEF StatusCommit
  <2>2. member' \in [Orgs -> Memberships] /\ account' \in AccountStatus \cup {"none"}
    BY <1>0, <1>b, <1>c, <2>1, MembershipsAre
  <2>3. QED
    BY <1>0, <1>19, <2>2 DEF StatusCommit, At
<1>20. ASSUME NEW r \in Requests, EraseRead(r), UNCHANGED signup PROVE Rest'
  BY <1>0, <1>20 DEF EraseRead, Start
<1>21. ASSUME NEW r \in Requests, Erase(r) PROVE Rest'
  BY <1>0, <1>21 DEF Erase, EraseCommit, At
<1>22. ASSUME NEW r \in Requests, DiesInvited(r) PROVE Rest'
  BY <1>0, <1>22 DEF DiesInvited, Dies, Ends, Leaves
<1>23. ASSUME NEW r \in Requests, ProvisionCommit(r) PROVE Rest'
  <2>1. req[r].seen \in MembershipStatus /\ req[r].seen \in AccountStatus
    BY <1>a, <1>c, <1>23 DEF ProvisionCommit, At
  <2>2. [status |-> req[r].seen, snapshot |-> "none", signup |-> TRUE] \in Memberships
    BY <2>1, MembershipsAre
  <2>3. member' \in [Orgs -> Memberships] /\ account' \in AccountStatus \cup {"none"}
    BY <1>0, <1>b, <1>23, <2>1, <2>2 DEF ProvisionCommit
  <2>4. QED
    BY <1>0, <1>23, <2>3 DEF ProvisionCommit, At
<1>24. ASSUME NEW r \in Requests, NEW i \in Invites, ProvisionInvited(r, i) PROVE Rest'
  BY <1>0, <1>24 DEF ProvisionInvited, Start
<1>25. ASSUME NEW r \in Requests, NEW o \in Orgs, ProvisionUninvited(r, o) PROVE Rest'
  BY <1>0, <1>25 DEF ProvisionUninvited, Start, Voided
<1>26. ASSUME NEW r \in Requests, ConsumeChecks(r) PROVE Rest'
  BY <1>0, <1>26 DEF ConsumeChecks, At
<1>27. ASSUME NEW r \in Requests, ConsumeRefused(r) PROVE Rest'
  BY <1>0, <1>27 DEF ConsumeRefused, At, Ends, Leaves, Voided
<1>28. ASSUME NEW r \in Requests, ConsumeCommit(r) PROVE Rest'
  <2> DEFINE o == OrgOf[token[r]]
             activated == CASE member[o].status = "none" ->
                                 [status |-> "active", snapshot |-> "none", signup |-> FALSE]
                            [] member[o].status = "pending_approval" ->
                                 [member[o] EXCEPT !.status = "active", !.snapshot = "none"]
                            [] OTHER -> member[o]
  <2>1. token[r] \in Invites /\ o \in Orgs
    BY <1>a, <1>28 DEF ConsumeCommit, At
  <2>2. activated \in Memberships
    BY <1>b, <1>c, <2>1, MembershipsAre
  <2>3. /\ member' = [member EXCEPT ![o] = activated]
        /\ owed' = IF activated # member[o] THEN owed \ {o} ELSE owed
        /\ granted' = IF confers[r] /\ activated.status = "active" THEN granted \cup {o} ELSE granted
    BY <1>28 DEF ConsumeCommit
  <2> HIDE DEF activated
  <2>4. member' \in [Orgs -> Memberships] /\ owed' \subseteq Orgs /\ granted' \subseteq Orgs
    BY <1>0, <2>1, <2>2, <2>3
  <2>5. /\ invite' = [invite EXCEPT ![token[r]] = "accepted"]
        /\ winners' = [winners EXCEPT ![token[r]] = winners[token[r]] \cup {r}]
        /\ account' = IF account = "pending_approval" THEN "active" ELSE account
        /\ stale' = (stale \/ req[r].outrun)
        /\ Leaves(r) /\ At(r, "accept")
        /\ UNCHANGED <<erased, bans, imposed, torn, expired, inviter, open>>
    BY <1>28 DEF ConsumeCommit
  <2>6. QED
    BY <1>0, <2>1, <2>4, <2>5 DEF Leaves, At
<1>29. ASSUME NEW r \in Requests, ConsumeLate(r) PROVE Rest'
  BY <1>0, <1>29 DEF ConsumeLate, At, Ends, Leaves
<1>30. ASSUME NEW r \in Requests, ReevaluateRead(r) PROVE Rest'
  BY <1>0, <1>30 DEF ReevaluateRead, Start
<1>31. ASSUME NEW r \in Requests, ReevaluateCommit(r) PROVE Rest'
  <2>1. member' \in [Orgs -> Memberships]
    BY <1>b, <1>c, <1>31, MembershipsAre DEF ReevaluateCommit
  <2>2. QED
    BY <1>0, <1>31, <2>1 DEF ReevaluateCommit, At
<1>32. ASSUME NEW r \in Requests, NEW i \in Invites, AcceptRead(r, i) PROVE Rest'
  BY <1>0, <1>32 DEF AcceptRead, Start
<1>33. ASSUME NEW o \in Orgs, MembershipAdd(o), UNCHANGED signup PROVE Rest'
  <2>1. PICK s \in Edits : member' = [member EXCEPT ![o] = [NoMembership EXCEPT !.status = s]]
    BY <1>33 DEF MembershipAdd
  <2>2. [NoMembership EXCEPT !.status = s] \in Memberships
    BY <1>c, MembershipsAre
  <2>3. member' \in [Orgs -> Memberships]
    BY <1>0, <2>1, <2>2
  <2>4. QED
    BY <1>0, <1>33, <2>3 DEF MembershipAdd, Statement
<1>34. ASSUME NEW o \in Orgs, MembershipPatch(o), UNCHANGED signup PROVE Rest'
  <2>1. PICK s \in Edits :
          member' = [member EXCEPT ![o] = [member[o] EXCEPT !.status = s, !.snapshot = "none"]]
    BY <1>0, <1>34 DEF MembershipPatch
  <2>2. [member[o] EXCEPT !.status = s, !.snapshot = "none"] \in Memberships
    BY <1>b, <1>c, MembershipsAre
  <2>3. member' \in [Orgs -> Memberships]
    BY <1>0, <2>1, <2>2
  <2>4. QED
    BY <1>0, <1>34, <2>3 DEF MembershipPatch, Statement
<1>35. ASSUME NEW o \in Orgs, RemoveMember(o) PROVE Rest'
  <2>1. NoMembership \in Memberships /\ member' = [member EXCEPT ![o] = NoMembership]
    BY <1>35, MembershipsAre DEF RemoveMember, MembershipRemove
  <2>2. member' \in [Orgs -> Memberships]
    BY <1>0, <2>1
  <2>3. QED
    BY <1>0, <1>35, <2>2 DEF RemoveMember, MembershipRemove, Statement
<1>36. ASSUME NEW o \in Orgs, OrganizationToggles(o) PROVE Rest'
  BY <1>0, <1>36 DEF OrganizationToggles, Statement
<1>37. ASSUME NEW i \in Invites, CreateInvitation(i) PROVE Rest'
  BY <1>0, <1>37 DEF CreateInvitation, Statement
<1>38. ASSUME NEW i \in Invites, RevokeInvitation(i) PROVE Rest'
  BY <1>0, <1>38 DEF RevokeInvitation, Statement
<1>39. ASSUME NEW i \in Invites, Expires(i) PROVE Rest'
  BY <1>0, <1>39 DEF Expires, Statement
<1>40. ASSUME NEW i \in Invites, RegenerateInvitationToken(i) PROVE Rest'
  BY <1>0, <1>40 DEF RegenerateInvitationToken, Statement
<1>41. ASSUME BanLapses, UNCHANGED signup PROVE Rest'
  BY <1>0, <1>41 DEF BanLapses, Statement
<1>42. ASSUME InviterLoses PROVE Rest'
  BY <1>0, <1>42 DEF InviterLoses, Statement
<1>43. CASE UNCHANGED signUpVars
  BY <1>0, <1>43 DEF signUpVars
<1>44. QED
  BY <1>1, <1>2, <1>3, <1>4, <1>5, <1>6, <1>7, <1>8, <1>9, <1>10, <1>11, <1>12, <1>13,
     <1>14, <1>15, <1>16, <1>17, <1>18, <1>19, <1>20, <1>21, <1>22, <1>23, <1>24, <1>25,
     <1>26, <1>27, <1>28, <1>29, <1>30, <1>31, <1>32, <1>33, <1>34, <1>35, <1>36, <1>37,
     <1>38, <1>39, <1>40, <1>41, <1>42, <1>43
  DEF SignUpNext, Lifecycle, SoftDelete, Restore, Ban, Status, Provision, Consume

LEMMA TypedHolds == SignUpSpec => []Typed
<1>1. SignUpInit => Typed
  <2> SUFFICES ASSUME SignUpInit PROVE Typed
    OBVIOUS
  <2>1. Reqs /\ Carries
    BY IdleIs DEF SignUpInit, Init, Reqs, Carries
  <2>2. member \in [Orgs -> Memberships] /\ account \in AccountStatus \cup {"none"}
    <3>1. CASE account = "none" /\ member = [o \in Orgs |-> NoMembership]
      BY <3>1, MembershipsAre
    <3>2. CASE /\ account \in {"active", "pending_approval"}
               /\ member \in [Orgs -> {NoMembership, [status |-> account, snapshot |-> "none",
                                                    signup |-> TRUE]}]
      <4>1. account \in MembershipStatus /\ account \in AccountStatus
        BY <3>2 DEF MembershipStatus, AccountStatus
      <4>2. [status |-> account, snapshot |-> "none", signup |-> TRUE] \in Memberships
        BY <4>1, MembershipsAre
      <4>3. QED
        BY <3>2, <4>1, <4>2, MembershipsAre
    <3>3. QED
      BY <3>1, <3>2 DEF SignUpInit, Init
  <2>3. ban \in Bans \ {"deletion"} /\ imposed = ban
    BY LifecycleAssumption DEF SignUpInit, Init, Bans
  <2>4. Rest
    <3>1. /\ invite \in [Invites -> {"none", "pending", "accepted", "revoked"}]
          /\ expired \subseteq Invites
      BY DEF SignUpInit
    <3>2. /\ token \in [Requests -> Invites \cup {NoInvite}] /\ confers \in [Requests -> BOOLEAN]
          /\ winners \in [Invites -> SUBSET Requests]
      BY DEF SignUpInit
    <3>3. QED
      <4>1. /\ erased \in BOOLEAN /\ lapsed \in BOOLEAN /\ record \in Bans
            /\ calls \in 0..MaxCalls /\ edits \in 0..MaxEdits
            /\ owed \subseteq Orgs /\ stale \in BOOLEAN /\ torn \in BOOLEAN
        <5>1. /\ erased = FALSE /\ lapsed = FALSE /\ record = "none"
              /\ calls = MaxCalls /\ edits = MaxEdits
              /\ owed = {} /\ stale = FALSE /\ torn = FALSE
          BY DEF SignUpInit, Init
        <5>2. calls \in 0..MaxCalls /\ edits \in 0..MaxEdits
          BY <5>1, LifecycleAssumption
        <5>3. QED
          BY <5>1, <5>2, Known
      <4>2. open \subseteq Orgs /\ granted \subseteq Orgs /\ inviter \in {"full", "invites", "none"}
        BY DEF SignUpInit
      <4>3. QED
        BY <2>2, <2>3, <3>1, <3>2, <4>1, <4>2 DEF Rest
  <2>5. QED
    BY <2>1, <2>4, TypedIs
<1>2. Typed /\ [SignUpNext]_signUpVars => Typed'
  <2> SUFFICES ASSUME Typed, [SignUpNext]_signUpVars PROVE Typed'
    OBVIOUS
  <2>1. Reqs' /\ Carries' /\ Rest'
    BY CarriesKept, RestKept
  <2>2. TypedIs'
    BY TypedIs, PTL
  <2>3. QED
    BY <2>1, <2>2
<1>3. QED
  BY <1>1, <1>2, PTL DEF SignUpSpec

(* The account, its ban, memberships and audit record, the invitations and   *)
(* the requests keep the shapes the routes assume: a restore never puts back *)
(* a ban that was not recorded, and an accepted invitation is a real one.    *)
THEOREM SignUpTyped == SignUpSpec => []SignUpTypeOK
<1>1. Typed => SignUpTypeOK
  BY DEF Typed
<1>2. QED
  BY <1>1, TypedHolds, PTL


(***************************************************************************)
(* What a soft-delete takes from the memberships                           *)
(***************************************************************************)

(* A membership that a soft-delete took, and nobody approved, is blocked or  *)
(* pending and carries its mark, so that a re-evaluation, which looks for    *)
(* rows without it, has not picked it.                                       *)
Held ==
  /\ NoStrandedMembership
  /\ \A o \in owed :
       stale \/ /\ member[o].status \in {"blocked", "pending_approval"}
                /\ member[o].snapshot \in {"active", "pending_approval"}
  /\ \A r \in Requests :
       req[r].pc = "reevaluate" /\ ~req[r].outrun => stale \/ req[r].orgs \cap owed = {}

LEMMA SnapshottedIs ==
  ASSUME NEW m \in Memberships
  PROVE  /\ m.status \in {"none", "blocked"} => Snapshotted(m) = m
         /\ m.status \notin {"none", "blocked"} =>
              Snapshotted(m).status = "blocked" /\ Snapshotted(m).snapshot = m.status
BY DEF Memberships, Snapshotted

LEMMA ReleasedIs ==
  ASSUME NEW m \in Memberships
  PROVE  /\ m.snapshot = "none" => Released(m) = m
         /\ m.snapshot \in {"active", "pending_approval"} =>
              Released(m).status = "pending_approval" /\ Released(m).snapshot = m.snapshot
         /\ m.snapshot \in {"blocked", "suspended"} =>
              Released(m).status = m.snapshot /\ Released(m).snapshot = "none"
BY DEF Memberships, Released

Activated(m) ==
  CASE m.status = "none" -> [status |-> "active", snapshot |-> "none", signup |-> FALSE]
    [] m.status = "pending_approval" -> [m EXCEPT !.status = "active", !.snapshot = "none"]
    [] OTHER -> m

LEMMA ActivatedIs ==
  ASSUME NEW m \in Memberships
  PROVE  Activated(m) = m \/ (Activated(m).snapshot = "none" /\ Activated(m) # m)
<1>1. CASE m.status = "none"
  BY <1>1 DEF Activated
<1>2. CASE m.status = "pending_approval"
  <2> DEFINE x == [m EXCEPT !.status = "active", !.snapshot = "none"]
  <2>1. x.status = "active" /\ x.snapshot = "none"
    BY DEF Memberships
  <2>2. Activated(m) = x
    BY <1>2 DEF Activated
  <2> HIDE DEF x
  <2>3. QED
    BY <1>2, <2>1, <2>2
<1>3. CASE m.status # "none" /\ m.status # "pending_approval"
  BY <1>3 DEF Activated
<1>4. QED
  BY <1>1, <1>2, <1>3

(* No request sets out to re-evaluate, and none that does forgets that it is *)
(* out of date.                                                              *)
NoneSetsOut ==
  \A q \in Requests : req'[q].pc = "reevaluate" =>
    /\ req[q].pc = "reevaluate" /\ req'[q].orgs = req[q].orgs
    /\ req[q].outrun => req'[q].outrun

LEMMA NoneSetsOutIs ==
  ASSUME NEW r \in Requests, NEW from, NEW to, Goes(r, from, to), to # "reevaluate"
  PROVE  NoneSetsOut
BY DEF Goes, Fellows, NoneSetsOut

LEMMA HeldStill ==
  ASSUME Held, NoneSetsOut, UNCHANGED <<account, member, owed, stale>>
  PROVE  Held'
BY DEF Held, NoneSetsOut, NoStrandedMembership

LEMMA HeldMoves ==
  ASSUME Held, Rest, NoneSetsOut, stale => stale', owed' \subseteq owed,
         member' \in [Orgs -> Memberships],
         account = "deactivated" => account' = "deactivated",
         \A o \in Orgs :
           \/ member'[o].snapshot = "none" /\ (o \notin owed' \/ stale')
           \/ member'[o] = member[o]
  PROVE  Held'
<1>1. NoStrandedMembership'
  BY DEF Held, NoStrandedMembership
<1>2. ASSUME NEW o \in owed', ~stale'
      PROVE  /\ member'[o].status \in {"blocked", "pending_approval"}
             /\ member'[o].snapshot \in {"active", "pending_approval"}
  BY <1>2 DEF Held, Rest
<1>3. ASSUME NEW r \in Requests, req'[r].pc = "reevaluate", ~req'[r].outrun, ~stale'
      PROVE  req'[r].orgs \cap owed' = {}
  BY <1>3 DEF Held, NoneSetsOut
<1>4. QED
  BY <1>1, <1>2, <1>3 DEF Held

LEMMA HeldKept ==
  ASSUME Typed, Held, Typed', [SignUpNext]_signUpVars
  PROVE  Held'
<1> USE DEF row, bans, history, bound, vars, signup
<1>0. /\ Reqs /\ Rest /\ Carries /\ Held /\ ban \in Bans /\ record \in Bans
      /\ account \in AccountStatus \cup {"none"} /\ owed \subseteq Orgs /\ owed' \subseteq Orgs
      /\ stale \in BOOLEAN /\ (\A o \in Orgs : member[o] \in Memberships)
      /\ member \in [Orgs -> Memberships] /\ member' \in [Orgs -> Memberships]
  <2>1. Rest'
    BY TypedIs, PTL
  <2>2. QED
    BY TypedIs, <2>1 DEF Rest
<1>1. ASSUME NEW r \in Requests, SoftDeleteRead(r), UNCHANGED signup PROVE Held'
  <2>1. NoneSetsOut
    BY <1>0, <1>1, SoftDeleteMoves, NoneSetsOutIs
  <2>2. QED
    BY <1>1, <2>1, HeldStill DEF SoftDeleteRead
<1>2. ASSUME NEW r \in Requests, CarriedPriorBan(r), UNCHANGED signup PROVE Held'
  BY <1>0, <1>2, SoftDeleteMoves, NoneSetsOutIs, HeldStill DEF CarriedPriorBan
<1>3. ASSUME NEW r \in Requests, BanForSoftDelete(r), UNCHANGED signup PROVE Held'
  BY <1>0, <1>3, SoftDeleteMoves, NoneSetsOutIs, HeldStill DEF BanForSoftDelete
<1>4. ASSUME NEW r \in Requests, SoftDeleteCascade(r), UNCHANGED signup PROVE Held'
  <2>1. Overtakes(r) /\ NoneSetsOut /\ Goes(r, "cascade", "record")
    BY <1>0, <1>4, SoftDeleteMoves, NoneSetsOutIs
  <2>2. /\ account' = "deactivated" /\ stale' = stale
        /\ owed' = owed \cup {o \in Orgs : member[o].status \in {"active", "pending_approval"}}
        /\ \A o \in Orgs : member'[o] = Snapshotted(member[o])
    BY <1>4 DEF SoftDeleteCascade
  <2>3. NoStrandedMembership'
    BY <2>2 DEF NoStrandedMembership
  <2>4. ASSUME NEW o \in owed', ~stale
        PROVE  /\ member'[o].status \in {"blocked", "pending_approval"}
               /\ member'[o].snapshot \in {"active", "pending_approval"}
    <3>1. o \in Orgs /\ member[o] \in Memberships
      BY <1>0, <2>2
    <3>2. CASE member[o].status \in {"active", "pending_approval"}
      BY <2>2, <3>1, <3>2, SnapshottedIs
    <3>3. CASE member[o].status \notin {"active", "pending_approval"}
      BY <1>0, <2>2, <2>4, <3>1, <3>3, SnapshottedIs DEF Held
    <3>4. QED
      BY <3>2, <3>3
  <2>5. \A q \in Requests : req'[q].pc = "reevaluate" => req'[q].outrun
    BY <2>1 DEF Overtakes, Goes, Fellows, Relying
  <2>6. QED
    BY <2>2, <2>3, <2>4, <2>5 DEF Held
<1>5. ASSUME NEW r \in Requests, SoftDeleteRefused(r), UNCHANGED signup PROVE Held'
  BY <1>0, <1>5, SoftDeleteMoves, NoneSetsOutIs, HeldStill DEF SoftDeleteRefused
<1>6. ASSUME NEW r \in Requests, SoftDeleteUndo(r), UNCHANGED signup PROVE Held'
  BY <1>0, <1>6, SoftDeleteMoves, NoneSetsOutIs, HeldStill DEF SoftDeleteUndo
<1>7. ASSUME NEW r \in Requests, FinishSoftDelete(r), UNCHANGED signup PROVE Held'
  BY <1>0, <1>7, SoftDeleteMoves, NoneSetsOutIs, HeldStill DEF FinishSoftDelete
<1>8. ASSUME NEW r \in Requests, RestoreRead(r), UNCHANGED signup PROVE Held'
  BY <1>0, <1>8, RestoreMoves, NoneSetsOutIs, HeldStill DEF RestoreRead
<1>9. ASSUME NEW r \in Requests, RecordedPriorBan(r), UNCHANGED signup PROVE Held'
  BY <1>0, <1>9, RestoreMoves, NoneSetsOutIs, HeldStill DEF RecordedPriorBan
<1>10. ASSUME NEW r \in Requests, RestoreBan(r), UNCHANGED signup PROVE Held'
  BY <1>0, <1>10, RestoreMoves, NoneSetsOutIs, HeldStill DEF RestoreBan
<1>11. ASSUME NEW r \in Requests, RestoreCommit(r), UNCHANGED signup PROVE Held'
  <2>1. NoneSetsOut
    BY <1>0, <1>11, RestoreMoves, NoneSetsOutIs
  <2>2. /\ \A o \in Orgs : member'[o] = Released(member[o])
        /\ stale => stale'
        /\ owed' = owed
    BY <1>0, <1>11 DEF RestoreCommit
  <2>3. ASSUME NEW o \in Orgs
        PROVE  member'[o].status = "blocked" => member'[o].snapshot = "none"
    <3>1. member[o] \in Memberships
      BY <1>0
    <3>2. member[o].snapshot \in {"none", "active", "pending_approval", "blocked", "suspended"}
      BY <3>1 DEF Memberships, MembershipStatus
    <3>3. CASE member[o].snapshot = "none"
      BY <2>2, <3>1, <3>3, ReleasedIs
    <3>4. CASE member[o].snapshot # "none"
      BY <2>2, <3>1, <3>2, <3>4, ReleasedIs
    <3>5. QED
      BY <3>3, <3>4
  <2>4. ASSUME NEW o \in owed, ~stale'
        PROVE  /\ member'[o].status \in {"blocked", "pending_approval"}
               /\ member'[o].snapshot \in {"active", "pending_approval"}
    BY <1>0, <2>2, <2>4, ReleasedIs DEF Held
  <2>5. QED
    BY <1>0, <2>1, <2>2, <2>3, <2>4 DEF Held, NoneSetsOut, NoStrandedMembership
<1>12. ASSUME NEW r \in Requests, BanRead(r), UNCHANGED signup PROVE Held'
  BY <1>0, <1>12, BanMoves, NoneSetsOutIs, HeldStill DEF BanRead
<1>13. ASSUME NEW r \in Requests, AdminBan(r), UNCHANGED signup PROVE Held'
  BY <1>0, <1>13, BanMoves, NoneSetsOutIs, HeldStill DEF AdminBan
<1>14. ASSUME NEW r \in Requests, GuardPasses(r), UNCHANGED signup PROVE Held'
  BY <1>0, <1>14, BanMoves, NoneSetsOutIs, HeldStill DEF GuardPasses
<1>15. ASSUME NEW r \in Requests, GuardRefuses(r), UNCHANGED signup PROVE Held'
  BY <1>0, <1>15, BanMoves, NoneSetsOutIs, HeldStill DEF GuardRefuses
<1>16. ASSUME NEW r \in Requests, BanUndo(r), UNCHANGED signup PROVE Held'
  BY <1>0, <1>16, BanMoves, NoneSetsOutIs, HeldStill DEF BanUndo
<1>17. ASSUME NEW r \in Requests, Unban(r), UNCHANGED signup PROVE Held'
  BY <1>0, <1>17, BanMoves, NoneSetsOutIs, HeldStill DEF Unban
<1>18. ASSUME NEW r \in Requests, StatusRead(r), UNCHANGED signup PROVE Held'
  BY <1>0, <1>18, StatusMoves, NoneSetsOutIs, HeldStill DEF StatusRead
<1>19. ASSUME NEW r \in Requests, StatusCommit(r), UNCHANGED signup PROVE Held'
  <2>1. NoneSetsOut /\ Goes(r, "status", "idle")
    BY <1>0, <1>19, StatusMoves, NoneSetsOutIs
  <2>2. PICK s \in Decisions :
          \A o \in Orgs : member'[o] = IF o \in req[r].orgs /\ member[o].status # "none"
                                        THEN [member[o] EXCEPT !.status = s, !.snapshot = "none"]
                                        ELSE member[o]
    BY <1>19 DEF StatusCommit
  <2>3. ASSUME NEW o \in Orgs
        PROVE  \/ member'[o].snapshot = "none" /\ (o \notin owed' \/ stale')
               \/ member'[o] = member[o]
    <3>1. member[o] \in Memberships /\ owed' = owed \ req[r].orgs
      BY <1>0, <1>19 DEF StatusCommit
    <3>2. [member[o] EXCEPT !.status = s, !.snapshot = "none"].snapshot = "none"
      BY <3>1 DEF Memberships
    <3>3. QED
      BY <2>2, <3>1, <3>2
  <2>4. account # "deactivated" /\ owed' \subseteq owed /\ stale' = stale
    BY <1>19 DEF StatusCommit
  <2>5. QED
    BY <1>0, <2>1, <2>3, <2>4, HeldMoves
<1>20. ASSUME NEW r \in Requests, EraseRead(r), UNCHANGED signup PROVE Held'
  BY <1>0, <1>20, RestoreMoves, NoneSetsOutIs, HeldStill DEF EraseRead
<1>21. ASSUME NEW r \in Requests, Erase(r) PROVE Held'
  BY <1>0, <1>21, RestoreMoves, NoneSetsOutIs, HeldStill DEF Erase, EraseCommit
<1>22. ASSUME NEW r \in Requests, DiesInvited(r) PROVE Held'
  BY <1>0, <1>22, StatusMoves, NoneSetsOutIs, HeldStill DEF DiesInvited, Dies
<1>23. ASSUME NEW r \in Requests, ProvisionCommit(r) PROVE Held'
  <2>1. NoneSetsOut /\ req[r].seen \in MembershipStatus
    <3>1. req[r].seen \in {"active", "pending_approval"}
      BY <1>0, <1>23 DEF ProvisionCommit, At, Carries
    <3>2. NoneSetsOut
      BY <1>0, <1>23, ProvisionMoves, NoneSetsOutIs
    <3>3. QED
      BY <3>1, <3>2 DEF MembershipStatus
  <2> DEFINE new == [status |-> req[r].seen, snapshot |-> "none", signup |-> TRUE]
  <2>2. new.snapshot = "none"
    OBVIOUS
  <2> HIDE DEF new
  <2>3. \A o \in Orgs : member'[o] = IF o \in req[r].orgs /\ member[o].status = "none"
                                        THEN new ELSE member[o]
    BY <1>23 DEF ProvisionCommit, new
  <2>4. /\ account = "deactivated" => account' = "deactivated"
        /\ owed' = owed /\ stale' = stale
    BY <1>23 DEF ProvisionCommit
  <2>5. \A o \in Orgs : member[o].status = "none" => o \notin owed \/ stale
    BY <1>0 DEF Held
  <2>6. QED
    BY <1>0, <2>1, <2>2, <2>3, <2>4, <2>5, HeldMoves
<1>24. ASSUME NEW r \in Requests, NEW i \in Invites, ProvisionInvited(r, i) PROVE Held'
  BY <1>0, <1>24, ProvisionMoves, NoneSetsOutIs, HeldStill DEF ProvisionInvited
<1>25. ASSUME NEW r \in Requests, NEW o \in Orgs, ProvisionUninvited(r, o) PROVE Held'
  BY <1>0, <1>25, ProvisionMoves, NoneSetsOutIs, HeldStill DEF ProvisionUninvited
<1>26. ASSUME NEW r \in Requests, ConsumeChecks(r) PROVE Held'
  BY <1>0, <1>26, ConsumeMoves, NoneSetsOutIs, HeldStill DEF ConsumeChecks
<1>27. ASSUME NEW r \in Requests, ConsumeRefused(r) PROVE Held'
  BY <1>0, <1>27, ConsumeMoves, NoneSetsOutIs, HeldStill DEF ConsumeRefused
<1>28. ASSUME NEW r \in Requests, ConsumeCommit(r) PROVE Held'
  <2> DEFINE o == OrgOf[token[r]]
             new == Activated(member[o])
  <2>1. NoneSetsOut
    BY <1>0, <1>28, ConsumeMoves, NoneSetsOutIs
  <2>2. o \in Orgs /\ member[o] \in Memberships
    BY <1>0, <1>28, SignUpAssumption DEF ConsumeCommit, At, Carries
  <2>3. new = member[o] \/ (new.snapshot = "none" /\ new # member[o])
    BY <2>2, ActivatedIs
  <2>4. member' = [member EXCEPT ![o] = new] /\ owed' = IF new # member[o] THEN owed \ {o} ELSE owed
    BY <1>28 DEF ConsumeCommit, Activated
  <2>5. /\ account = "deactivated" => account' = "deactivated"
        /\ stale => stale'
    BY <1>0, <1>28 DEF ConsumeCommit
  <2> HIDE DEF new, o
  <2>6. \A p \in Orgs : \/ member'[p].snapshot = "none" /\ (p \notin owed' \/ stale')
                        \/ member'[p] = member[p]
    BY <1>0, <2>2, <2>3, <2>4
  <2>7. QED
    BY <1>0, <2>1, <2>4, <2>5, <2>6, HeldMoves
<1>29. ASSUME NEW r \in Requests, ConsumeLate(r) PROVE Held'
  BY <1>0, <1>29, ConsumeMoves, NoneSetsOutIs, HeldStill DEF ConsumeLate
<1>30. ASSUME NEW r \in Requests, ReevaluateRead(r) PROVE Held'
  <2>1. /\ Goes(r, "idle", "reevaluate")
        /\ \A o \in req'[r].orgs : o \in Orgs /\ member[o].snapshot = "none"
    BY <1>0, <1>30, ConsumeMoves
  <2>2. UNCHANGED <<account, member, owed, stale>>
    BY <1>30 DEF ReevaluateRead
  <2>3. stale \/ req'[r].orgs \cap owed = {}
    BY <1>0, <2>1 DEF Held
  <2>4. QED
    BY <1>0, <2>1, <2>2, <2>3 DEF Held, Goes, Fellows, NoStrandedMembership
<1>31. ASSUME NEW r \in Requests, ReevaluateCommit(r) PROVE Held'
  <2>1. NoneSetsOut
    BY <1>0, <1>31, ConsumeMoves, NoneSetsOutIs
  <2> DEFINE active(o) == [member[o] EXCEPT !.status = "active"]
  <2>2. \A o \in Orgs : active(o).status = "active"
    BY <1>0 DEF Memberships
  <2> HIDE DEF active
  <2>3. \A o \in Orgs :
          member'[o] = IF o \in req[r].orgs /\ member[o].status = "pending_approval"
                         THEN active(o) ELSE member[o]
    BY <1>31 DEF ReevaluateCommit, active
  <2>4. /\ account = "deactivated" => account' = "deactivated"
        /\ owed' = owed
        /\ stale => stale'
        /\ req[r].outrun => stale'
        /\ req[r].pc = "reevaluate"
    BY <1>0, <1>31 DEF ReevaluateCommit, At
  <2>5. \A o \in Orgs : member'[o].status = "blocked" => member'[o] = member[o]
    BY <2>2, <2>3
  <2>6. ASSUME NEW o \in owed, ~stale' PROVE member'[o] = member[o]
    BY <1>0, <2>3, <2>4, <2>6 DEF Held
  <2>7. QED
    BY <1>0, <2>1, <2>4, <2>5, <2>6 DEF Held, NoneSetsOut, NoStrandedMembership
<1>32. ASSUME NEW r \in Requests, NEW i \in Invites, AcceptRead(r, i) PROVE Held'
  BY <1>0, <1>32, ConsumeMoves, NoneSetsOutIs, HeldStill DEF AcceptRead
<1>33. ASSUME NEW o \in Orgs, MembershipAdd(o), UNCHANGED signup PROVE Held'
  <2>1. PICK s \in Edits : member' = [member EXCEPT ![o] = [NoMembership EXCEPT !.status = s]]
    BY <1>33 DEF MembershipAdd
  <2>2. [NoMembership EXCEPT !.status = s].snapshot = "none"
    BY DEF NoMembership
  <2>3. NoneSetsOut /\ UNCHANGED <<account, owed, stale>> /\ member[o].status = "none"
    BY <1>33 DEF MembershipAdd, NoneSetsOut
  <2>4. o \notin owed \/ stale
    BY <1>0, <2>3 DEF Held
  <2>5. \A p \in Orgs : \/ member'[p].snapshot = "none" /\ (p \notin owed' \/ stale')
                        \/ member'[p] = member[p]
    BY <1>0, <2>1, <2>2, <2>3, <2>4
  <2>6. QED
    BY <1>0, <2>3, <2>5, HeldMoves
<1>34. ASSUME NEW o \in Orgs, MembershipPatch(o), UNCHANGED signup PROVE Held'
  <2>1. PICK s \in Edits :
          member' = [member EXCEPT ![o] = [member[o] EXCEPT !.status = s, !.snapshot = "none"]]
    BY <1>0, <1>34 DEF MembershipPatch
  <2>2. [member[o] EXCEPT !.status = s, !.snapshot = "none"].snapshot = "none"
    BY <1>0 DEF Memberships
  <2>3. NoneSetsOut /\ UNCHANGED <<account, stale>> /\ owed' = owed \ {o}
    BY <1>34 DEF MembershipPatch, NoneSetsOut
  <2>4. \A p \in Orgs : \/ member'[p].snapshot = "none" /\ (p \notin owed' \/ stale')
                        \/ member'[p] = member[p]
    BY <1>0, <2>1, <2>2, <2>3
  <2>5. QED
    BY <1>0, <2>3, <2>4, HeldMoves
<1>35. ASSUME NEW o \in Orgs, RemoveMember(o) PROVE Held'
  <2>1. member' = [member EXCEPT ![o] = NoMembership] /\ NoMembership.snapshot = "none"
    BY <1>35 DEF RemoveMember, MembershipRemove, NoMembership
  <2>2. NoneSetsOut /\ UNCHANGED <<account, stale>> /\ owed' = owed \ {o}
    BY <1>35 DEF RemoveMember, MembershipRemove, NoneSetsOut
  <2>3. \A p \in Orgs : \/ member'[p].snapshot = "none" /\ (p \notin owed' \/ stale')
                        \/ member'[p] = member[p]
    BY <1>0, <2>1, <2>2
  <2>4. QED
    BY <1>0, <2>2, <2>3, HeldMoves
<1>36. ASSUME NEW o \in Orgs, OrganizationToggles(o) PROVE Held'
  BY <1>36, HeldStill DEF OrganizationToggles, NoneSetsOut
<1>37. ASSUME NEW i \in Invites, CreateInvitation(i) PROVE Held'
  BY <1>37, HeldStill DEF CreateInvitation, NoneSetsOut
<1>38. ASSUME NEW i \in Invites, RevokeInvitation(i) PROVE Held'
  BY <1>38, HeldStill DEF RevokeInvitation, NoneSetsOut
<1>39. ASSUME NEW i \in Invites, Expires(i) PROVE Held'
  BY <1>39, HeldStill DEF Expires, NoneSetsOut
<1>40. ASSUME NEW i \in Invites, RegenerateInvitationToken(i) PROVE Held'
  BY <1>40, HeldStill DEF RegenerateInvitationToken, NoneSetsOut
<1>41. ASSUME BanLapses, UNCHANGED signup PROVE Held'
  BY <1>41, HeldStill DEF BanLapses, NoneSetsOut
<1>42. ASSUME InviterLoses PROVE Held'
  BY <1>42, HeldStill DEF InviterLoses, NoneSetsOut
<1>43. CASE UNCHANGED signUpVars
  BY <1>43, HeldStill DEF signUpVars, NoneSetsOut
<1>44. QED
  BY <1>1, <1>2, <1>3, <1>4, <1>5, <1>6, <1>7, <1>8, <1>9, <1>10, <1>11, <1>12, <1>13,
     <1>14, <1>15, <1>16, <1>17, <1>18, <1>19, <1>20, <1>21, <1>22, <1>23, <1>24, <1>25,
     <1>26, <1>27, <1>28, <1>29, <1>30, <1>31, <1>32, <1>33, <1>34, <1>35, <1>36, <1>37,
     <1>38, <1>39, <1>40, <1>41, <1>42, <1>43
  DEF SignUpNext, Lifecycle, SoftDelete, Restore, Ban, Status, Provision, Consume


LEMMA HeldHolds == SignUpSpec => []Held
<1>1. SignUpInit => Held
  BY IdleIs DEF SignUpInit, Init, Held, NoStrandedMembership, NoMembership
<1>2. Held /\ Typed /\ Typed' /\ [SignUpNext]_signUpVars => Held'
  BY HeldKept
<1>3. QED
  BY <1>1, <1>2, TypedHolds, PTL DEF SignUpSpec

(* Whatever the order of deletions, restores, approvals and edits, and       *)
(* however many are in flight, a membership that a soft-delete blocked is    *)
(* blocked only while the account is deactivated.                            *)
THEOREM MembershipsAreNotStranded == SignUpSpec => []NoStrandedMembership
<1>1. Held => NoStrandedMembership
  BY DEF Held
<1>2. QED
  BY <1>1, HeldHolds, PTL

(* F-152: a membership a soft-delete took is not active again before someone *)
(* approved it, unless a request wrote on what it had read before the        *)
(* deletion.                                                                 *)
THEOREM RestoredIsHeld == SignUpSpec => []HeldForApprover
<1>1. Held => HeldForApprover
  BY DEF Held, HeldForApprover
<1>2. QED
  BY <1>1, HeldHolds, PTL

(***************************************************************************)
(* Erasure                                                                 *)
(***************************************************************************)
Restores == {"prior_ban", "unban", "revive"}

(* Once the account is erased, every restore still under way is out of date. *)
StaysErased ==
  erased => /\ account = "deactivated" \/ stale
            /\ \A r \in Requests : req[r].pc \in Restores => req[r].outrun

NoneRestores ==
  \A q \in Requests : req'[q].pc \in Restores =>
    req[q].pc \in Restores /\ (req[q].outrun => req'[q].outrun)

LEMMA NoneRestoresIs ==
  ASSUME NEW r \in Requests, NEW from, NEW to, Goes(r, from, to),
         to \in Restores => from \in Restores /\ (req[r].outrun => req'[r].outrun)
  PROVE  NoneRestores
BY DEF Goes, Fellows, NoneRestores

LEMMA GoneStill ==
  ASSUME StaysErased, NoneRestores, erased' = erased, stale => stale',
         account = "deactivated" => account' = "deactivated"
  PROVE  StaysErased'
BY DEF StaysErased, NoneRestores

LEMMA GoneKept ==
  ASSUME Typed, StaysErased, [SignUpNext]_signUpVars
  PROVE  StaysErased'
<1> USE DEF row, bans, history, bound, vars, signup
<1>0. /\ Reqs /\ StaysErased /\ ban \in Bans /\ record \in Bans
      /\ account \in AccountStatus \cup {"none"} /\ stale \in BOOLEAN
  BY TypedIs DEF Rest
<1>1. ASSUME NEW r \in Requests, SoftDeleteRead(r), UNCHANGED signup PROVE StaysErased'
  <2>1. \E to \in {"carry", "ban"} : Goes(r, "idle", to)
    BY <1>0, <1>1, SoftDeleteMoves
  <2>2. NoneRestores
    BY <2>1, NoneRestoresIs DEF Restores
  <2>3. QED
    BY <1>0, <1>1, <2>2, GoneStill DEF SoftDeleteRead
<1>2. ASSUME NEW r \in Requests, CarriedPriorBan(r), UNCHANGED signup PROVE StaysErased'
  <2>1. NoneRestores
    BY <1>0, <1>2, SoftDeleteMoves, NoneRestoresIs DEF Restores
  <2>2. QED
    BY <1>0, <1>2, <2>1, GoneStill DEF CarriedPriorBan
<1>3. ASSUME NEW r \in Requests, BanForSoftDelete(r), UNCHANGED signup PROVE StaysErased'
  <2>1. NoneRestores
    BY <1>0, <1>3, SoftDeleteMoves, NoneRestoresIs DEF Restores
  <2>2. QED
    BY <1>0, <1>3, <2>1, GoneStill DEF BanForSoftDelete
<1>4. ASSUME NEW r \in Requests, SoftDeleteCascade(r), UNCHANGED signup PROVE StaysErased'
  <2>1. NoneRestores
    BY <1>0, <1>4, SoftDeleteMoves, NoneRestoresIs DEF Restores
  <2>2. QED
    BY <1>0, <1>4, <2>1, GoneStill DEF SoftDeleteCascade
<1>5. ASSUME NEW r \in Requests, SoftDeleteRefused(r), UNCHANGED signup PROVE StaysErased'
  <2>1. NoneRestores
    BY <1>0, <1>5, SoftDeleteMoves, NoneRestoresIs DEF Restores
  <2>2. QED
    BY <1>0, <1>5, <2>1, GoneStill DEF SoftDeleteRefused
<1>6. ASSUME NEW r \in Requests, SoftDeleteUndo(r), UNCHANGED signup PROVE StaysErased'
  <2>1. NoneRestores
    BY <1>0, <1>6, SoftDeleteMoves, NoneRestoresIs DEF Restores
  <2>2. QED
    BY <1>0, <1>6, <2>1, GoneStill DEF SoftDeleteUndo
<1>7. ASSUME NEW r \in Requests, FinishSoftDelete(r), UNCHANGED signup PROVE StaysErased'
  <2>1. NoneRestores
    BY <1>0, <1>7, SoftDeleteMoves, NoneRestoresIs DEF Restores
  <2>2. QED
    BY <1>0, <1>7, <2>1, GoneStill DEF FinishSoftDelete
<1>8. ASSUME NEW r \in Requests, RestoreRead(r), UNCHANGED signup PROVE StaysErased'
  <2>1. ~erased'
    BY <1>8 DEF RestoreRead
  <2>2. QED
    BY <2>1 DEF StaysErased
<1>9. ASSUME NEW r \in Requests, RecordedPriorBan(r), UNCHANGED signup PROVE StaysErased'
  <2>1. NoneRestores
    BY <1>0, <1>9, RestoreMoves, NoneRestoresIs DEF Restores
  <2>2. QED
    BY <1>0, <1>9, <2>1, GoneStill DEF RecordedPriorBan
<1>10. ASSUME NEW r \in Requests, RestoreBan(r), UNCHANGED signup PROVE StaysErased'
  <2>1. NoneRestores
    BY <1>0, <1>10, RestoreMoves, NoneRestoresIs DEF Restores
  <2>2. QED
    BY <1>0, <1>10, <2>1, GoneStill DEF RestoreBan
<1>11. ASSUME NEW r \in Requests, RestoreCommit(r), UNCHANGED signup PROVE StaysErased'
  <2>1. NoneRestores /\ req[r].pc = "revive"
    BY <1>0, <1>11, RestoreMoves, NoneRestoresIs DEF Restores, Goes
  <2>2. /\ erased' = erased
        /\ stale => stale'
        /\ req[r].outrun => stale'
    BY <1>0, <1>11 DEF RestoreCommit
  <2>3. QED
    BY <1>0, <2>1, <2>2 DEF StaysErased, NoneRestores, Restores
<1>12. ASSUME NEW r \in Requests, BanRead(r), UNCHANGED signup PROVE StaysErased'
  <2>1. NoneRestores
    BY <1>0, <1>12, BanMoves, NoneRestoresIs DEF Restores
  <2>2. QED
    BY <1>0, <1>12, <2>1, GoneStill DEF BanRead
<1>13. ASSUME NEW r \in Requests, AdminBan(r), UNCHANGED signup PROVE StaysErased'
  <2>1. NoneRestores
    BY <1>0, <1>13, BanMoves, NoneRestoresIs DEF Restores
  <2>2. QED
    BY <1>0, <1>13, <2>1, GoneStill DEF AdminBan
<1>14. ASSUME NEW r \in Requests, GuardPasses(r), UNCHANGED signup PROVE StaysErased'
  <2>1. NoneRestores
    BY <1>0, <1>14, BanMoves, NoneRestoresIs DEF Restores
  <2>2. QED
    BY <1>0, <1>14, <2>1, GoneStill DEF GuardPasses
<1>15. ASSUME NEW r \in Requests, GuardRefuses(r), UNCHANGED signup PROVE StaysErased'
  <2>1. NoneRestores
    BY <1>0, <1>15, BanMoves, NoneRestoresIs DEF Restores
  <2>2. QED
    BY <1>0, <1>15, <2>1, GoneStill DEF GuardRefuses
<1>16. ASSUME NEW r \in Requests, BanUndo(r), UNCHANGED signup PROVE StaysErased'
  <2>1. NoneRestores
    BY <1>0, <1>16, BanMoves, NoneRestoresIs DEF Restores
  <2>2. QED
    BY <1>0, <1>16, <2>1, GoneStill DEF BanUndo
<1>17. ASSUME NEW r \in Requests, Unban(r), UNCHANGED signup PROVE StaysErased'
  <2>1. NoneRestores
    BY <1>0, <1>17, BanMoves, NoneRestoresIs DEF Restores
  <2>2. QED
    BY <1>0, <1>17, <2>1, GoneStill DEF Unban
<1>18. ASSUME NEW r \in Requests, StatusRead(r), UNCHANGED signup PROVE StaysErased'
  <2>1. NoneRestores
    BY <1>0, <1>18, StatusMoves, NoneRestoresIs DEF Restores
  <2>2. QED
    BY <1>0, <1>18, <2>1, GoneStill DEF StatusRead
<1>19. ASSUME NEW r \in Requests, StatusCommit(r), UNCHANGED signup PROVE StaysErased'
  <2>1. NoneRestores
    BY <1>0, <1>19, StatusMoves, NoneRestoresIs DEF Restores
  <2>2. QED
    BY <1>0, <1>19, <2>1, GoneStill DEF StatusCommit
<1>20. ASSUME NEW r \in Requests, EraseRead(r), UNCHANGED signup PROVE StaysErased'
  <2>1. NoneRestores
    BY <1>0, <1>20, RestoreMoves, NoneRestoresIs DEF Restores
  <2>2. QED
    BY <1>0, <1>20, <2>1, GoneStill DEF EraseRead
<1>21. ASSUME NEW r \in Requests, Erase(r) PROVE StaysErased'
  <2>1. EraseCommit(r) /\ account' = "deactivated"
    BY <1>21 DEF Erase, EraseCommit
  <2>2. Goes(r, "erase", "idle") /\ Overtakes(r)
    BY <1>0, <2>1, RestoreMoves
  <2>3. \A q \in Requests : req'[q].pc \in Restores => req'[q].outrun
    BY <2>2 DEF Goes, Fellows, Overtakes, Restores, Relying
  <2>4. QED
    BY <2>1, <2>3 DEF StaysErased
<1>22. ASSUME NEW r \in Requests, DiesInvited(r) PROVE StaysErased'
  <2>1. NoneRestores
    BY <1>0, <1>22, StatusMoves, NoneRestoresIs DEF Restores, DiesInvited
  <2>2. QED
    BY <1>0, <1>22, <2>1, GoneStill DEF DiesInvited, Dies
<1>23. ASSUME NEW r \in Requests, ProvisionCommit(r) PROVE StaysErased'
  <2>1. \E to \in {"idle", "consume"} : Goes(r, "provision", to)
    BY <1>0, <1>23, ProvisionMoves
  <2>2. NoneRestores
    BY <2>1, NoneRestoresIs DEF Restores
  <2>3. QED
    BY <1>0, <1>23, <2>2, GoneStill DEF ProvisionCommit
<1>24. ASSUME NEW r \in Requests, NEW i \in Invites, ProvisionInvited(r, i) PROVE StaysErased'
  <2>1. NoneRestores
    BY <1>0, <1>24, ProvisionMoves, NoneRestoresIs DEF Restores
  <2>2. QED
    BY <1>0, <1>24, <2>1, GoneStill DEF ProvisionInvited
<1>25. ASSUME NEW r \in Requests, NEW o \in Orgs, ProvisionUninvited(r, o) PROVE StaysErased'
  <2>1. NoneRestores
    BY <1>0, <1>25, ProvisionMoves, NoneRestoresIs DEF Restores
  <2>2. QED
    BY <1>0, <1>25, <2>1, GoneStill DEF ProvisionUninvited
<1>26. ASSUME NEW r \in Requests, ConsumeChecks(r) PROVE StaysErased'
  <2>1. NoneRestores
    BY <1>0, <1>26, ConsumeMoves, NoneRestoresIs DEF Restores
  <2>2. QED
    BY <1>0, <1>26, <2>1, GoneStill DEF ConsumeChecks
<1>27. ASSUME NEW r \in Requests, ConsumeRefused(r) PROVE StaysErased'
  <2>1. NoneRestores
    BY <1>0, <1>27, ConsumeMoves, NoneRestoresIs DEF Restores
  <2>2. QED
    BY <1>0, <1>27, <2>1, GoneStill DEF ConsumeRefused
<1>28. ASSUME NEW r \in Requests, ConsumeCommit(r) PROVE StaysErased'
  <2>1. NoneRestores
    BY <1>0, <1>28, ConsumeMoves, NoneRestoresIs DEF Restores
  <2>2. QED
    BY <1>0, <1>28, <2>1, GoneStill DEF ConsumeCommit
<1>29. ASSUME NEW r \in Requests, ConsumeLate(r) PROVE StaysErased'
  <2>1. NoneRestores
    BY <1>0, <1>29, ConsumeMoves, NoneRestoresIs DEF Restores
  <2>2. QED
    BY <1>0, <1>29, <2>1, GoneStill DEF ConsumeLate
<1>30. ASSUME NEW r \in Requests, ReevaluateRead(r) PROVE StaysErased'
  <2>1. NoneRestores
    BY <1>0, <1>30, ConsumeMoves, NoneRestoresIs DEF Restores
  <2>2. QED
    BY <1>0, <1>30, <2>1, GoneStill DEF ReevaluateRead
<1>31. ASSUME NEW r \in Requests, ReevaluateCommit(r) PROVE StaysErased'
  <2>1. NoneRestores
    BY <1>0, <1>31, ConsumeMoves, NoneRestoresIs DEF Restores
  <2>2. QED
    BY <1>0, <1>31, <2>1, GoneStill DEF ReevaluateCommit
<1>32. ASSUME NEW r \in Requests, NEW i \in Invites, AcceptRead(r, i) PROVE StaysErased'
  <2>1. NoneRestores
    BY <1>0, <1>32, ConsumeMoves, NoneRestoresIs DEF Restores
  <2>2. QED
    BY <1>0, <1>32, <2>1, GoneStill DEF AcceptRead
<1>33. ASSUME NEW o \in Orgs, MembershipAdd(o), UNCHANGED signup PROVE StaysErased'
  BY <1>0, <1>33, GoneStill DEF MembershipAdd, NoneRestores
<1>34. ASSUME NEW o \in Orgs, MembershipPatch(o), UNCHANGED signup PROVE StaysErased'
  BY <1>0, <1>34, GoneStill DEF MembershipPatch, NoneRestores
<1>35. ASSUME NEW o \in Orgs, RemoveMember(o) PROVE StaysErased'
  BY <1>0, <1>35, GoneStill DEF RemoveMember, MembershipRemove, NoneRestores
<1>36. ASSUME NEW o \in Orgs, OrganizationToggles(o) PROVE StaysErased'
  BY <1>0, <1>36, GoneStill DEF OrganizationToggles, NoneRestores
<1>37. ASSUME NEW i \in Invites, CreateInvitation(i) PROVE StaysErased'
  BY <1>0, <1>37, GoneStill DEF CreateInvitation, NoneRestores
<1>38. ASSUME NEW i \in Invites, RevokeInvitation(i) PROVE StaysErased'
  BY <1>0, <1>38, GoneStill DEF RevokeInvitation, NoneRestores
<1>39. ASSUME NEW i \in Invites, Expires(i) PROVE StaysErased'
  BY <1>0, <1>39, GoneStill DEF Expires, NoneRestores
<1>40. ASSUME NEW i \in Invites, RegenerateInvitationToken(i) PROVE StaysErased'
  BY <1>0, <1>40, GoneStill DEF RegenerateInvitationToken, NoneRestores
<1>41. ASSUME BanLapses, UNCHANGED signup PROVE StaysErased'
  BY <1>0, <1>41, GoneStill DEF BanLapses, NoneRestores
<1>42. ASSUME InviterLoses PROVE StaysErased'
  BY <1>0, <1>42, GoneStill DEF InviterLoses, NoneRestores
<1>43. CASE UNCHANGED signUpVars
  BY <1>0, <1>43, GoneStill DEF signUpVars, NoneRestores
<1>44. QED
  BY <1>1, <1>2, <1>3, <1>4, <1>5, <1>6, <1>7, <1>8, <1>9, <1>10, <1>11, <1>12, <1>13,
     <1>14, <1>15, <1>16, <1>17, <1>18, <1>19, <1>20, <1>21, <1>22, <1>23, <1>24, <1>25,
     <1>26, <1>27, <1>28, <1>29, <1>30, <1>31, <1>32, <1>33, <1>34, <1>35, <1>36, <1>37,
     <1>38, <1>39, <1>40, <1>41, <1>42, <1>43
  DEF SignUpNext, Lifecycle, SoftDelete, Restore, Ban, Status, Provision, Consume

(* F-151: an erased account stays deactivated, unless a restore wrote on a   *)
(* status that it had read before the erasure.                               *)
THEOREM ErasedIsFinal == SignUpSpec => []ErasedStaysDeleted
<1>1. SignUpInit => StaysErased
  BY DEF SignUpInit, Init, StaysErased
<1>2. StaysErased /\ Typed /\ [SignUpNext]_signUpVars => StaysErased'
  BY GoneKept
<1>3. StaysErased => ErasedStaysDeleted
  BY DEF StaysErased, ErasedStaysDeleted
<1>4. QED
  BY <1>1, <1>2, <1>3, TypedHolds, PTL DEF SignUpSpec


(***************************************************************************)
(* Who lifts a block                                                       *)
(***************************************************************************)
LiftedByAdministrators ==
  /\ account \in {"blocked", "suspended", "deactivated"} /\ account' = "active"
       => \E r \in Requests : StatusCommit(r)
  /\ \A o \in Orgs :
       member[o].status \in {"blocked", "suspended"} /\ member'[o].status = "active"
         => MembershipPatch(o) \/ \E r \in Requests : StatusCommit(r)

LEMMA StepsLift ==
  ASSUME Typed, [SignUpNext]_signUpVars
  PROVE  LiftedByAdministrators
<1> USE DEF row, bans, history, bound, vars, signup
<1>0. /\ Reqs /\ Carries /\ member \in [Orgs -> Memberships]
      /\ \A o \in Orgs : member[o] \in Memberships
  BY TypedIs DEF Rest
<1>1. ASSUME NEW r \in Requests, SoftDeleteCascade(r), UNCHANGED signup
      PROVE  LiftedByAdministrators
  <2>1. ASSUME NEW o \in Orgs, member[o].status = "blocked" \/ member[o].status = "suspended"
        PROVE  member'[o].status = "blocked"
    BY <1>0, <1>1, <2>1, SnapshottedIs DEF SoftDeleteCascade
  <2>2. account' = "deactivated"
    BY <1>1 DEF SoftDeleteCascade
  <2>3. QED
    BY <2>1, <2>2 DEF LiftedByAdministrators
<1>2. ASSUME NEW r \in Requests, RestoreCommit(r), UNCHANGED signup
      PROVE  LiftedByAdministrators
  <2>1. ASSUME NEW o \in Orgs, member[o].status \in {"blocked", "suspended"}
        PROVE  member'[o].status # "active"
    <3>1. member'[o] = Released(member[o]) /\ member[o] \in Memberships
      BY <1>0, <1>2 DEF RestoreCommit
    <3>2. member[o].snapshot \in {"none", "active", "pending_approval", "blocked", "suspended"}
      BY <3>1 DEF Memberships, MembershipStatus
    <3>3. QED
      BY <2>1, <3>1, <3>2, ReleasedIs
  <2>2. account' = "pending_approval"
    BY <1>2 DEF RestoreCommit
  <2>3. QED
    BY <2>1, <2>2 DEF LiftedByAdministrators
<1>3. ASSUME NEW r \in Requests, StatusCommit(r), UNCHANGED signup
      PROVE  LiftedByAdministrators
  BY <1>3 DEF LiftedByAdministrators
<1>4. ASSUME NEW r \in Requests, ProvisionCommit(r) PROVE LiftedByAdministrators
  <2>1. \A o \in Orgs : member[o].status # "none" => member'[o] = member[o]
    BY <1>4 DEF ProvisionCommit
  <2>2. account # "none" => account' = account
    BY <1>4 DEF ProvisionCommit
  <2>3. QED
    BY <2>1, <2>2 DEF LiftedByAdministrators
<1>5. ASSUME NEW r \in Requests, ConsumeCommit(r) PROVE LiftedByAdministrators
  <2> DEFINE o == OrgOf[token[r]]
  <2>1. o \in Orgs /\ member' = [member EXCEPT ![o] = Activated(member[o])]
    BY <1>0, <1>5, SignUpAssumption DEF ConsumeCommit, Activated, At, Carries
  <2>2. member[o].status \in {"blocked", "suspended"} => Activated(member[o]) = member[o]
    BY DEF Activated
  <2>3. account # "pending_approval" => account' = account
    BY <1>5 DEF ConsumeCommit
  <2>4. QED
    BY <1>0, <2>1, <2>2, <2>3 DEF LiftedByAdministrators
<1>6. ASSUME NEW r \in Requests, ReevaluateCommit(r) PROVE LiftedByAdministrators
  <2>1. \A o \in Orgs : member[o].status # "pending_approval" => member'[o] = member[o]
    BY <1>6 DEF ReevaluateCommit
  <2>2. account # "pending_approval" => account' = account
    BY <1>6 DEF ReevaluateCommit
  <2>3. QED
    BY <2>1, <2>2 DEF LiftedByAdministrators
<1>7. ASSUME NEW o \in Orgs, MembershipAdd(o), UNCHANGED signup PROVE LiftedByAdministrators
  <2>1. member[o].status = "none" /\ account' = account
    BY <1>7 DEF MembershipAdd
  <2>2. \A p \in Orgs \ {o} : member'[p] = member[p]
    BY <1>0, <1>7 DEF MembershipAdd
  <2>3. QED
    BY <2>1, <2>2 DEF LiftedByAdministrators
<1>8. ASSUME NEW o \in Orgs, MembershipPatch(o), UNCHANGED signup
      PROVE  LiftedByAdministrators
  <2>1. account' = account /\ \A p \in Orgs \ {o} : member'[p] = member[p]
    BY <1>0, <1>8 DEF MembershipPatch
  <2>2. QED
    BY <1>8, <2>1 DEF LiftedByAdministrators
<1>9. ASSUME NEW o \in Orgs, RemoveMember(o) PROVE LiftedByAdministrators
  <2>1. account' = account /\ \A p \in Orgs \ {o} : member'[p] = member[p]
    BY <1>0, <1>9 DEF RemoveMember, MembershipRemove
  <2>2. member'[o].status = "none"
    BY <1>0, <1>9 DEF RemoveMember, MembershipRemove, NoMembership
  <2>3. QED
    BY <2>1, <2>2 DEF LiftedByAdministrators
<1>10. CASE UNCHANGED <<account, member>>
  BY <1>10 DEF LiftedByAdministrators
<1>11. QED
  BY <1>1, <1>2, <1>3, <1>4, <1>5, <1>6, <1>7, <1>8, <1>9, <1>10
  DEF SignUpNext, Lifecycle, SoftDelete, Restore, Ban, Status, Provision, Consume,
      SoftDeleteRead, CarriedPriorBan, BanForSoftDelete, SoftDeleteRefused, SoftDeleteUndo,
      FinishSoftDelete, RestoreRead, RecordedPriorBan, RestoreBan, BanRead, AdminBan,
      GuardPasses, GuardRefuses, BanUndo, Unban, StatusRead, EraseRead, Erase, DiesInvited,
      ProvisionInvited, ProvisionUninvited, ConsumeChecks, ConsumeRefused, ConsumeLate,
      ReevaluateRead, AcceptRead, OrganizationToggles, CreateInvitation, RevokeInvitation,
      Expires, RegenerateInvitationToken, BanLapses, InviterLoses, EraseCommit, Dies,
      Leaves, signUpVars

(* An account or a membership that an administrator blocked, suspended or    *)
(* deleted becomes active by an administrator's step and no other, whatever  *)
(* an invitation, a sign-in or a provisioning had read before.               *)
THEOREM AdministratorsLift == SignUpSpec => OnlyAdministratorsLift
<1>1. Typed /\ [SignUpNext]_signUpVars => LiftedByAdministrators
  BY StepsLift
<1>2. QED
  BY <1>1, TypedHolds, PTL DEF SignUpSpec, OnlyAdministratorsLift, LiftedByAdministrators

(***************************************************************************)
(* Invitations                                                             *)
(***************************************************************************)
Unclaimed == \A i \in Invites : invite[i] # "accepted" => winners[i] = {}

(* One step of one invitation. *)
InviteStep(i) ==
  \/ invite'[i] = invite[i] /\ winners'[i] = winners[i]
  \/ invite[i] = "none" /\ invite'[i] = "pending" /\ winners'[i] = winners[i]
  \/ invite[i] = "pending" /\ invite'[i] = "revoked" /\ winners'[i] = winners[i]
  \/ /\ invite[i] = "pending" /\ invite'[i] = "accepted"
     /\ \E r \in Requests : winners'[i] = winners[i] \cup {r}

LEMMA InviteSteps ==
  ASSUME Typed, [SignUpNext]_signUpVars
  PROVE  \A j \in Invites : InviteStep(j)
<1> USE DEF row, bans, history, bound, vars, signup
<1>0. /\ Carries /\ invite \in [Invites -> {"none", "pending", "accepted", "revoked"}]
      /\ winners \in [Invites -> SUBSET Requests]
  BY TypedIs DEF Rest
<1>1. ASSUME NEW r \in Requests, Erase(r) PROVE \A j \in Invites : InviteStep(j)
  BY <1>0, <1>1 DEF InviteStep, Erase
<1>2. ASSUME NEW r \in Requests, NEW o \in Orgs, ProvisionUninvited(r, o)
      PROVE  \A j \in Invites : InviteStep(j)
  BY <1>0, <1>2 DEF InviteStep, ProvisionUninvited, Voided
<1>3. ASSUME NEW r \in Requests, ConsumeRefused(r) PROVE \A j \in Invites : InviteStep(j)
  BY <1>0, <1>3 DEF InviteStep, ConsumeRefused, Voided
<1>4. ASSUME NEW r \in Requests, ConsumeCommit(r) PROVE \A j \in Invites : InviteStep(j)
  <2>1. token[r] \in Invites
    BY <1>0, <1>4 DEF ConsumeCommit, At, Carries
  <2>2. /\ invite[token[r]] = "pending"
        /\ invite' = [invite EXCEPT ![token[r]] = "accepted"]
        /\ winners' = [winners EXCEPT ![token[r]] = winners[token[r]] \cup {r}]
    BY <1>4 DEF ConsumeCommit
  <2>3. QED
    BY <1>0, <2>1, <2>2 DEF InviteStep
<1>5. ASSUME NEW i \in Invites, CreateInvitation(i) PROVE \A j \in Invites : InviteStep(j)
  BY <1>0, <1>5 DEF InviteStep, CreateInvitation
<1>6. ASSUME NEW i \in Invites, RevokeInvitation(i) PROVE \A j \in Invites : InviteStep(j)
  BY <1>0, <1>6 DEF InviteStep, RevokeInvitation
<1>7. CASE UNCHANGED <<invite, winners>>
  BY <1>7 DEF InviteStep
<1>8. QED
  BY <1>1, <1>2, <1>3, <1>4, <1>5, <1>6, <1>7
  DEF SignUpNext, Lifecycle, SoftDelete, Restore, Ban, Status, Provision, Consume,
      SoftDeleteRead, CarriedPriorBan, BanForSoftDelete, SoftDeleteCascade,
      SoftDeleteRefused, SoftDeleteUndo, FinishSoftDelete, RestoreRead, RecordedPriorBan,
      RestoreBan, RestoreCommit, BanRead, AdminBan, GuardPasses, GuardRefuses, BanUndo,
      Unban, StatusRead, StatusCommit, EraseRead, DiesInvited, ProvisionCommit,
      ProvisionInvited, ConsumeChecks, ConsumeLate, ReevaluateRead, ReevaluateCommit,
      AcceptRead, MembershipAdd, MembershipPatch, RemoveMember, OrganizationToggles,
      Expires, RegenerateInvitationToken, BanLapses, InviterLoses, Dies, MembershipRemove,
      Leaves, signUpVars

(* Invitations implement OneShot, for any number of them and of requests     *)
(* that found one valid: at most one is honoured, and one that was used,     *)
(* revoked or voided never comes back.                                       *)
THEOREM InvitationsAreSingleUse == SignUpSpec => InvitationsAreOneShot
<1>1. SignUpInit => Unclaimed /\ Shot!Init
  <2> SUFFICES ASSUME SignUpInit PROVE Unclaimed /\ Shot!Init
    OBVIOUS
  <2>1. invite \in [Invites -> {"none", "pending"}] /\ winners = [i \in Invites |-> {}]
    BY DEF SignUpInit
  <2>2. \A i \in Invites : GrantOf[invite[i]] \in {"none", "offered"}
    BY <2>1 DEF GrantOf
  <2>3. QED
    BY <2>1, <2>2 DEF Shot!Init, Unclaimed
<1>2. Typed /\ Unclaimed /\ [SignUpNext]_signUpVars => Unclaimed' /\ [Shot!Next]_(Shot!vars)
  <2> SUFFICES ASSUME Typed, Unclaimed, [SignUpNext]_signUpVars PROVE Unclaimed' /\ Shot!Next
    OBVIOUS
  <2>1. \A i \in Invites : InviteStep(i)
    BY InviteSteps
  <2>2. Unclaimed'
    BY <2>1 DEF Unclaimed, InviteStep
  <2>3. ASSUME NEW i \in Invites
        PROVE  \/ GrantOf[invite'[i]] = GrantOf[invite[i]] /\ winners'[i] = winners[i]
               \/ /\ GrantOf[invite[i]] = "none" /\ GrantOf[invite'[i]] = "offered"
                  /\ winners'[i] = winners[i]
               \/ /\ GrantOf[invite[i]] = "offered" /\ GrantOf[invite'[i]] = "withdrawn"
                  /\ winners'[i] = winners[i]
               \/ /\ GrantOf[invite[i]] = "offered" /\ GrantOf[invite'[i]] = "taken"
                  /\ \E r \in Requests : winners'[i] = {r}
    <3>1. /\ GrantOf["none"] = "none" /\ GrantOf["pending"] = "offered"
          /\ GrantOf["accepted"] = "taken" /\ GrantOf["revoked"] = "withdrawn"
      BY DEF GrantOf
    <3>2. invite[i] = "pending" => winners[i] = {}
      BY DEF Unclaimed
    <3>3. QED
      BY <2>1, <3>1, <3>2 DEF InviteStep
  <2>4. QED
    BY <2>2, <2>3 DEF Shot!Next, Shot!Keep, Shot!Offer, Shot!Withdraw, Shot!Take
<1>3. QED
  BY <1>1, <1>2, TypedHolds, PTL DEF SignUpSpec, InvitationsAreOneShot, Shot!Spec


(***************************************************************************)
(* The ban                                                                 *)
(***************************************************************************)

(* The ban b is, as far as it is still in force, what administrators decided. *)
Decided(b) == InForce(b) = InForce(imposed)

Deleted == account = "deactivated"

Sole(r) == \A q \in Requests \ {r} : req[q].pc \notin BanWriters

(* What a request that writes the ban has in hand at each of its steps: the  *)
(* administrators' ban, on the account or in what it has read.               *)
BanStage(r) ==
  /\ req[r].pc = "carry" => Deleted /\ req[r].prior = "replaced"
  /\ req[r].pc = "ban" =>
       IF req[r].prior = "replaced" THEN ~Deleted /\ Decided(ban)
                                    ELSE Deleted /\ Decided(req[r].prior)
  /\ req[r].pc = "cascade" => Decided(req[r].prior) /\ (Deleted \/ Decided(req[r].prev))
  /\ req[r].pc = "undo" => Deleted \/ Decided(req[r].prev)
  /\ req[r].pc = "record" => Deleted /\ Decided(req[r].prior)
  /\ req[r].pc = "prior_ban" => Deleted
  /\ req[r].pc = "unban" => Deleted /\ Decided(req[r].prior)
  /\ req[r].pc = "revive" => Deleted /\ Decided(ban)
  /\ req[r].pc = "admin_ban" => ~Deleted /\ Decided(ban)
  /\ req[r].pc = "guard" => ~Deleted /\ ban = req[r].prior /\ Decided(req[r].prev)
  /\ req[r].pc = "ban_undo" => ~Deleted /\ Decided(req[r].prev)

(* Unless a saga was torn or two met, one request at most writes the ban, a  *)
(* deleted account's ban is on record, and any other's is on the account.    *)
BansOK ==
  ~torn => /\ \A r \in Requests : req[r].pc \in BanWriters => Sole(r)
           /\ Deleted /\ (\A r \in Requests : req[r].pc # "record") => Decided(record)
           /\ ~Deleted /\ (\A r \in Requests : req[r].pc \notin BanWriters) => Decided(ban)
           /\ \A r \in Requests : BanStage(r)

(* What the only writer of the ban may count on. *)
Sound(r) ==
  /\ BanStage(r)
  /\ Deleted /\ req[r].pc # "record" => Decided(record)
  /\ ~Deleted /\ req[r].pc \notin BanWriters => Decided(ban)

LEMMA SoundIs ==
  ASSUME BansOK, ~torn, NEW r \in Requests, Sole(r)
  PROVE  Sound(r)
<1>1. "record" \in BanWriters
  BY DEF BanWriters
<1>2. QED
  BY <1>1 DEF BansOK, Sole, Sound

LEMMA BanStep ==
  ASSUME BansOK, NEW r \in Requests, Fellows(r),
         ~torn' => ~torn /\ Sole(r),
         ~torn' /\ Sound(r) => Sound(r)'
  PROVE  BansOK'
<1> SUFFICES ASSUME ~torn' PROVE BansOK'
  BY DEF BansOK
<1>1. Sound(r)'
  BY SoundIs
<1>2. \A q \in Requests \ {r} : req'[q].pc \notin BanWriters
  BY DEF Sole, Fellows
<1>3. \A q \in Requests \ {r} : BanStage(q)'
  BY <1>2 DEF BanStage, BanWriters
<1>4. \A q \in Requests : req'[q].pc \in BanWriters => q = r /\ Sole(q)'
  BY <1>2 DEF Sole
<1>5. "record" \in BanWriters
  BY DEF BanWriters
<1>6. QED
  BY <1>1, <1>2, <1>3, <1>4, <1>5 DEF BansOK, Sound

(* The requests that write the ban keep what they have in hand. *)
WritersKept ==
  \A q \in Requests :
    req[q].pc \in BanWriters \/ req'[q].pc \in BanWriters =>
      /\ req'[q].pc = req[q].pc /\ req'[q].prev = req[q].prev /\ req'[q].prior = req[q].prior

LEMMA WritersKeptIs ==
  ASSUME NEW r \in Requests, NEW from, NEW to, Goes(r, from, to),
         from \notin BanWriters, to \notin BanWriters
  PROVE  WritersKept
BY DEF Goes, Fellows, WritersKept

LEMMA BansStill ==
  ASSUME BansOK, WritersKept, UNCHANGED <<ban, lapsed, record, imposed, torn>>,
         Deleted' <=> Deleted
  PROVE  BansOK'
<1> SUFFICES ASSUME ~torn' PROVE BansOK'
  BY DEF BansOK
<1>1. \A q \in Requests : req'[q].pc \in BanWriters <=> req[q].pc \in BanWriters
  BY DEF WritersKept
<1>2. \A q \in Requests : Sole(q) => Sole(q)'
  BY <1>1 DEF Sole
<1>3. /\ Decided(record) => Decided(record)'
      /\ Decided(ban) => Decided(ban)'
  BY DEF Decided, InForce
<1>4. ASSUME NEW q \in Requests PROVE BanStage(q)'
  <2>1. CASE req'[q].pc \notin BanWriters
    BY <2>1 DEF BanStage, BanWriters
  <2>2. CASE req'[q].pc \in BanWriters
    <3>1. /\ req'[q].pc = req[q].pc /\ req'[q].prev = req[q].prev /\ req'[q].prior = req[q].prior
      BY <2>2 DEF WritersKept
    <3>2. BanStage(q)
      BY DEF BansOK
    <3>3. /\ Decided(req[q].prior) => Decided(req[q].prior)'
          /\ Decided(req[q].prev) => Decided(req[q].prev)'
      BY <3>1 DEF Decided, InForce
    <3>4. QED
      BY <1>3, <3>1, <3>2, <3>3 DEF BanStage
  <2>3. QED
    BY <2>1, <2>2
<1>5. (\A q \in Requests : req'[q].pc # "record") => \A q \in Requests : req[q].pc # "record"
  BY DEF WritersKept, BanWriters
<1>6. QED
  BY <1>1, <1>2, <1>3, <1>4, <1>5 DEF BansOK

LEMMA BansKept ==
  ASSUME Typed, BansOK, [SignUpNext]_signUpVars
  PROVE  BansOK'
<1> USE DEF row, bans, history, bound, vars, signup
<1>0. /\ Reqs /\ BansOK /\ Carries /\ ban \in Bans /\ record \in Bans
      /\ account \in AccountStatus \cup {"none"} /\ torn \in BOOLEAN
  BY TypedIs DEF Rest
<1>1. ASSUME NEW r \in Requests, SoftDeleteRead(r), UNCHANGED signup PROVE BansOK'
  <2>1. Fellows(r) /\ req[r].pc = "idle"
    BY <1>0, <1>1, SoftDeleteMoves DEF Goes
  <2>2. ~torn' => ~torn /\ Sole(r)
    BY <1>0, <1>1 DEF SoftDeleteRead, BanContended, Sole
  <2>3. Sound(r) => Sound(r)'
    BY <1>0, <1>1, SoftDeleteMoves
    DEF SoftDeleteRead, Goes, Sound, BanStage, Decided, InForce, Deleted, BanWriters
  <2>4. QED
    BY <1>0, <2>1, <2>2, <2>3, BanStep
<1>2. ASSUME NEW r \in Requests, CarriedPriorBan(r), UNCHANGED signup PROVE BansOK'
  <2>1. Fellows(r) /\ req[r].pc = "carry" /\ torn' = torn
    BY <1>0, <1>2, SoftDeleteMoves DEF CarriedPriorBan, Goes
  <2>2. ~torn => Sole(r)
    BY <1>0, <2>1 DEF BansOK, BanWriters
  <2>3. Sound(r) => Sound(r)'
    BY <1>0, <1>2, SoftDeleteMoves, Known
    DEF CarriedPriorBan, Goes, Sound, BanStage, Decided, InForce, Deleted, BanWriters
  <2>4. QED
    BY <1>0, <2>1, <2>2, <2>3, BanStep
<1>3. ASSUME NEW r \in Requests, BanForSoftDelete(r), UNCHANGED signup PROVE BansOK'
  <2>1. Fellows(r) /\ req[r].pc = "ban" /\ torn' = torn
    BY <1>0, <1>3, SoftDeleteMoves DEF BanForSoftDelete, Goes
  <2>2. ~torn => Sole(r)
    BY <1>0, <2>1 DEF BansOK, BanWriters
  <2>3. Sound(r) => Sound(r)'
    BY <1>0, <1>3, SoftDeleteMoves
    DEF BanForSoftDelete, Goes, Sound, BanStage, Decided, InForce, Deleted, BanWriters
  <2>4. QED
    BY <1>0, <2>1, <2>2, <2>3, BanStep
<1>4. ASSUME NEW r \in Requests, SoftDeleteCascade(r), UNCHANGED signup PROVE BansOK'
  <2>1. Fellows(r) /\ req[r].pc = "cascade" /\ torn' = torn
    BY <1>0, <1>4, SoftDeleteMoves DEF SoftDeleteCascade, Goes
  <2>2. ~torn => Sole(r)
    BY <1>0, <2>1 DEF BansOK, BanWriters
  <2>3. Sound(r) => Sound(r)'
    BY <1>0, <1>4, SoftDeleteMoves
    DEF SoftDeleteCascade, Goes, Sound, BanStage, Decided, InForce, Deleted, BanWriters
  <2>4. QED
    BY <1>0, <2>1, <2>2, <2>3, BanStep
<1>5. ASSUME NEW r \in Requests, SoftDeleteRefused(r), UNCHANGED signup PROVE BansOK'
  <2>1. Fellows(r) /\ req[r].pc = "cascade" /\ torn' = torn
    BY <1>0, <1>5, SoftDeleteMoves DEF SoftDeleteRefused, Goes
  <2>2. ~torn => Sole(r)
    BY <1>0, <2>1 DEF BansOK, BanWriters
  <2>3. Sound(r) => Sound(r)'
    BY <1>0, <1>5, SoftDeleteMoves
    DEF SoftDeleteRefused, Goes, Sound, BanStage, Decided, InForce, Deleted, BanWriters
  <2>4. QED
    BY <1>0, <2>1, <2>2, <2>3, BanStep
<1>6. ASSUME NEW r \in Requests, SoftDeleteUndo(r), UNCHANGED signup PROVE BansOK'
  <2>1. Fellows(r) /\ req[r].pc = "undo" /\ torn' = torn
    BY <1>0, <1>6, SoftDeleteMoves DEF SoftDeleteUndo, Goes
  <2>2. ~torn => Sole(r)
    BY <1>0, <2>1 DEF BansOK, BanWriters
  <2>3. Sound(r) => Sound(r)'
    BY <1>0, <1>6, SoftDeleteMoves
    DEF SoftDeleteUndo, RestoreBetterAuthBan, Goes, Sound, BanStage, Decided, InForce, Deleted, BanWriters
  <2>4. QED
    BY <1>0, <2>1, <2>2, <2>3, BanStep
<1>7. ASSUME NEW r \in Requests, FinishSoftDelete(r), UNCHANGED signup PROVE BansOK'
  <2>1. Fellows(r) /\ req[r].pc = "record" /\ torn' = torn
    BY <1>0, <1>7, SoftDeleteMoves DEF FinishSoftDelete, Goes
  <2>2. ~torn => Sole(r)
    BY <1>0, <2>1 DEF BansOK, BanWriters
  <2>3. Sound(r) => Sound(r)'
    BY <1>0, <1>7, SoftDeleteMoves
    DEF FinishSoftDelete, Goes, Sound, BanStage, Decided, InForce, Deleted, BanWriters
  <2>4. QED
    BY <1>0, <2>1, <2>2, <2>3, BanStep
<1>8. ASSUME NEW r \in Requests, RestoreRead(r), UNCHANGED signup PROVE BansOK'
  <2>1. Fellows(r) /\ req[r].pc = "idle"
    BY <1>0, <1>8, RestoreMoves DEF Goes
  <2>2. ~torn' => ~torn /\ Sole(r)
    BY <1>0, <1>8 DEF RestoreRead, BanContended, Sole
  <2>3. Sound(r) => Sound(r)'
    BY <1>0, <1>8, RestoreMoves
    DEF RestoreRead, Goes, Sound, BanStage, Decided, InForce, Deleted, BanWriters
  <2>4. QED
    BY <1>0, <2>1, <2>2, <2>3, BanStep
<1>9. ASSUME NEW r \in Requests, RecordedPriorBan(r), UNCHANGED signup PROVE BansOK'
  <2>1. Fellows(r) /\ req[r].pc = "prior_ban" /\ torn' = torn
    BY <1>0, <1>9, RestoreMoves DEF RecordedPriorBan, Goes
  <2>2. ~torn => Sole(r)
    BY <1>0, <2>1 DEF BansOK, BanWriters
  <2>3. Sound(r) => Sound(r)'
    BY <1>0, <1>9, RestoreMoves
    DEF RecordedPriorBan, Goes, Sound, BanStage, Decided, InForce, Deleted, BanWriters
  <2>4. QED
    BY <1>0, <2>1, <2>2, <2>3, BanStep
<1>10. ASSUME NEW r \in Requests, RestoreBan(r), UNCHANGED signup PROVE BansOK'
  <2>1. Fellows(r) /\ req[r].pc = "unban" /\ torn' = torn
    BY <1>0, <1>10, RestoreMoves DEF RestoreBan, Goes
  <2>2. ~torn => Sole(r)
    BY <1>0, <2>1 DEF BansOK, BanWriters
  <2>3. Sound(r) => Sound(r)'
    BY <1>0, <1>10, RestoreMoves
    DEF RestoreBan, RestoreBetterAuthBan, Goes, Sound, BanStage, Decided, InForce, Deleted, BanWriters
  <2>4. QED
    BY <1>0, <2>1, <2>2, <2>3, BanStep
<1>11. ASSUME NEW r \in Requests, RestoreCommit(r), UNCHANGED signup PROVE BansOK'
  <2>1. Fellows(r) /\ req[r].pc = "revive" /\ torn' = torn
    BY <1>0, <1>11, RestoreMoves DEF RestoreCommit, Goes
  <2>2. ~torn => Sole(r)
    BY <1>0, <2>1 DEF BansOK, BanWriters
  <2>3. Sound(r) => Sound(r)'
    BY <1>0, <1>11, RestoreMoves
    DEF RestoreCommit, Goes, Sound, BanStage, Decided, InForce, Deleted, BanWriters
  <2>4. QED
    BY <1>0, <2>1, <2>2, <2>3, BanStep
<1>12. ASSUME NEW r \in Requests, BanRead(r), UNCHANGED signup PROVE BansOK'
  <2>1. Fellows(r) /\ req[r].pc = "idle"
    BY <1>0, <1>12, BanMoves DEF Goes
  <2>2. ~torn' => ~torn /\ Sole(r)
    BY <1>0, <1>12 DEF BanRead, BanContended, Sole
  <2>3. Sound(r) => Sound(r)'
    BY <1>0, <1>12, BanMoves
    DEF BanRead, Goes, Sound, BanStage, Decided, InForce, Deleted, BanWriters
  <2>4. QED
    BY <1>0, <2>1, <2>2, <2>3, BanStep
<1>13. ASSUME NEW r \in Requests, AdminBan(r), UNCHANGED signup PROVE BansOK'
  <2>1. Fellows(r) /\ req[r].pc = "admin_ban" /\ torn' = torn
    BY <1>0, <1>13, BanMoves DEF AdminBan, Goes
  <2>2. ~torn => Sole(r)
    BY <1>0, <2>1 DEF BansOK, BanWriters
  <2>3. Sound(r) => Sound(r)'
    BY <1>0, <1>13, BanMoves
    DEF AdminBan, Goes, Sound, BanStage, Decided, InForce, Deleted, BanWriters
  <2>4. QED
    BY <1>0, <2>1, <2>2, <2>3, BanStep
<1>14. ASSUME NEW r \in Requests, GuardPasses(r), UNCHANGED signup PROVE BansOK'
  <2>1. Fellows(r) /\ req[r].pc = "guard" /\ torn' = torn
    BY <1>0, <1>14, BanMoves DEF GuardPasses, Goes
  <2>2. ~torn => Sole(r)
    BY <1>0, <2>1 DEF BansOK, BanWriters
  <2>3. Sound(r) => Sound(r)'
    BY <1>0, <1>14, BanMoves
    DEF GuardPasses, Goes, Sound, BanStage, Decided, InForce, Deleted, BanWriters
  <2>4. QED
    BY <1>0, <2>1, <2>2, <2>3, BanStep
<1>15. ASSUME NEW r \in Requests, GuardRefuses(r), UNCHANGED signup PROVE BansOK'
  <2>1. Fellows(r) /\ req[r].pc = "guard" /\ torn' = torn
    BY <1>0, <1>15, BanMoves DEF GuardRefuses, Goes
  <2>2. ~torn => Sole(r)
    BY <1>0, <2>1 DEF BansOK, BanWriters
  <2>3. Sound(r) => Sound(r)'
    BY <1>0, <1>15, BanMoves
    DEF GuardRefuses, Goes, Sound, BanStage, Decided, InForce, Deleted, BanWriters
  <2>4. QED
    BY <1>0, <2>1, <2>2, <2>3, BanStep
<1>16. ASSUME NEW r \in Requests, BanUndo(r), UNCHANGED signup PROVE BansOK'
  <2>1. Fellows(r) /\ req[r].pc = "ban_undo" /\ torn' = torn
    BY <1>0, <1>16, BanMoves DEF BanUndo, Goes
  <2>2. ~torn => Sole(r)
    BY <1>0, <2>1 DEF BansOK, BanWriters
  <2>3. Sound(r) => Sound(r)'
    BY <1>0, <1>16, BanMoves
    DEF BanUndo, RestoreBetterAuthBan, Goes, Sound, BanStage, Decided, InForce, Deleted, BanWriters
  <2>4. QED
    BY <1>0, <2>1, <2>2, <2>3, BanStep
<1>17. ASSUME NEW r \in Requests, Unban(r), UNCHANGED signup PROVE BansOK'
  <2>1. Fellows(r) /\ req[r].pc = "admin_ban" /\ torn' = torn
    BY <1>0, <1>17, BanMoves DEF Unban, Goes
  <2>2. ~torn => Sole(r)
    BY <1>0, <2>1 DEF BansOK, BanWriters
  <2>3. Sound(r) => Sound(r)'
    BY <1>0, <1>17, BanMoves
    DEF Unban, Goes, Sound, BanStage, Decided, InForce, Deleted, BanWriters
  <2>4. QED
    BY <1>0, <2>1, <2>2, <2>3, BanStep
<1>18. ASSUME NEW r \in Requests, StatusRead(r), UNCHANGED signup PROVE BansOK'
  <2>1. WritersKept
    BY <1>0, <1>18, StatusMoves, WritersKeptIs DEF BanWriters
  <2>2. QED
    BY <1>0, <1>18, <2>1, BansStill DEF StatusRead, Deleted
<1>19. ASSUME NEW r \in Requests, StatusCommit(r), UNCHANGED signup PROVE BansOK'
  <2>1. WritersKept
    BY <1>0, <1>19, StatusMoves, WritersKeptIs DEF BanWriters
  <2>2. account # "deactivated" /\ account' # "deactivated"
    BY <1>19, LifecycleAssumption DEF StatusCommit
  <2>3. QED
    BY <1>0, <1>19, <2>1, <2>2, BansStill DEF StatusCommit, Deleted
<1>20. ASSUME NEW r \in Requests, EraseRead(r), UNCHANGED signup PROVE BansOK'
  <2>1. WritersKept
    BY <1>0, <1>20, RestoreMoves, WritersKeptIs DEF BanWriters
  <2>2. QED
    BY <1>0, <1>20, <2>1, BansStill DEF EraseRead, Deleted
<1>21. ASSUME NEW r \in Requests, Erase(r) PROVE BansOK'
  <2>1. WritersKept
    BY <1>0, <1>21, RestoreMoves, WritersKeptIs DEF BanWriters, Erase
  <2>2. QED
    BY <1>0, <1>21, <2>1, BansStill DEF Erase, EraseCommit, Deleted
<1>22. ASSUME NEW r \in Requests, DiesInvited(r) PROVE BansOK'
  <2>1. Goes(r, req[r].pc, "idle") /\ UNCHANGED <<account, ban, lapsed, record, imposed>>
    BY <1>0, <1>22, StatusMoves DEF DiesInvited, Dies
  <2>2. CASE req[r].pc \in {"cascade", "undo", "record", "revive", "guard", "ban_undo"}
    BY <1>22, <2>2 DEF DiesInvited, Dies, BansOK
  <2>3. CASE req[r].pc \in {"carry", "ban", "prior_ban", "unban", "admin_ban"}
    <3>1. torn' = torn
      BY <1>0, <1>22, <2>3 DEF DiesInvited, Dies
    <3>2. ~torn => Sole(r)
      BY <1>0, <2>3 DEF BansOK, BanWriters
    <3>3. Sound(r) => Sound(r)'
      BY <2>1, <2>3 DEF Goes, Sound, BanStage, Decided, InForce, Deleted, BanWriters
    <3>4. QED
      BY <1>0, <2>1, <3>1, <3>2, <3>3, BanStep DEF Goes
  <2>4. CASE req[r].pc \notin BanWriters
    <3>1. torn' = torn
      BY <1>0, <1>22, <2>4 DEF DiesInvited, Dies, BanWriters
    <3>2. WritersKept
      BY <2>1, <2>4, WritersKeptIs DEF BanWriters
    <3>3. QED
      BY <1>0, <2>1, <3>1, <3>2, BansStill DEF Deleted
  <2>5. QED
    BY <2>2, <2>3, <2>4 DEF BanWriters
<1>23. ASSUME NEW r \in Requests, ProvisionCommit(r) PROVE BansOK'
  <2>1. \E to \in {"idle", "consume"} : Goes(r, "provision", to)
    BY <1>0, <1>23, ProvisionMoves
  <2>2. WritersKept
    BY <2>1, WritersKeptIs DEF BanWriters
  <2>3. req[r].seen # "deactivated"
    BY <1>0, <1>23 DEF ProvisionCommit, At, Carries
  <2>4. QED
    BY <1>0, <1>23, <2>2, <2>3, BansStill DEF ProvisionCommit, Deleted
<1>24. ASSUME NEW r \in Requests, NEW i \in Invites, ProvisionInvited(r, i) PROVE BansOK'
  <2>1. WritersKept
    BY <1>0, <1>24, ProvisionMoves, WritersKeptIs DEF BanWriters
  <2>2. QED
    BY <1>0, <1>24, <2>1, BansStill DEF ProvisionInvited, Deleted
<1>25. ASSUME NEW r \in Requests, NEW o \in Orgs, ProvisionUninvited(r, o) PROVE BansOK'
  <2>1. WritersKept
    BY <1>0, <1>25, ProvisionMoves, WritersKeptIs DEF BanWriters
  <2>2. QED
    BY <1>0, <1>25, <2>1, BansStill DEF ProvisionUninvited, Deleted
<1>26. ASSUME NEW r \in Requests, ConsumeChecks(r) PROVE BansOK'
  <2>1. WritersKept
    BY <1>0, <1>26, ConsumeMoves, WritersKeptIs DEF BanWriters
  <2>2. QED
    BY <1>0, <1>26, <2>1, BansStill DEF ConsumeChecks, Deleted
<1>27. ASSUME NEW r \in Requests, ConsumeRefused(r) PROVE BansOK'
  <2>1. WritersKept
    BY <1>0, <1>27, ConsumeMoves, WritersKeptIs DEF BanWriters
  <2>2. QED
    BY <1>0, <1>27, <2>1, BansStill DEF ConsumeRefused, Deleted
<1>28. ASSUME NEW r \in Requests, ConsumeCommit(r) PROVE BansOK'
  <2>1. WritersKept
    BY <1>0, <1>28, ConsumeMoves, WritersKeptIs DEF BanWriters
  <2>2. QED
    BY <1>0, <1>28, <2>1, BansStill DEF ConsumeCommit, Deleted
<1>29. ASSUME NEW r \in Requests, ConsumeLate(r) PROVE BansOK'
  <2>1. WritersKept
    BY <1>0, <1>29, ConsumeMoves, WritersKeptIs DEF BanWriters
  <2>2. QED
    BY <1>0, <1>29, <2>1, BansStill DEF ConsumeLate, Deleted
<1>30. ASSUME NEW r \in Requests, ReevaluateRead(r) PROVE BansOK'
  <2>1. WritersKept
    BY <1>0, <1>30, ConsumeMoves, WritersKeptIs DEF BanWriters
  <2>2. QED
    BY <1>0, <1>30, <2>1, BansStill DEF ReevaluateRead, Deleted
<1>31. ASSUME NEW r \in Requests, ReevaluateCommit(r) PROVE BansOK'
  <2>1. WritersKept
    BY <1>0, <1>31, ConsumeMoves, WritersKeptIs DEF BanWriters
  <2>2. QED
    BY <1>0, <1>31, <2>1, BansStill DEF ReevaluateCommit, Deleted
<1>32. ASSUME NEW r \in Requests, NEW i \in Invites, AcceptRead(r, i) PROVE BansOK'
  <2>1. WritersKept
    BY <1>0, <1>32, ConsumeMoves, WritersKeptIs DEF BanWriters
  <2>2. QED
    BY <1>0, <1>32, <2>1, BansStill DEF AcceptRead, Deleted
<1>33. ASSUME NEW o \in Orgs, MembershipAdd(o), UNCHANGED signup PROVE BansOK'
  BY <1>0, <1>33, BansStill DEF MembershipAdd, WritersKept, Deleted
<1>34. ASSUME NEW o \in Orgs, MembershipPatch(o), UNCHANGED signup PROVE BansOK'
  BY <1>0, <1>34, BansStill DEF MembershipPatch, WritersKept, Deleted
<1>35. ASSUME NEW o \in Orgs, RemoveMember(o) PROVE BansOK'
  BY <1>0, <1>35, BansStill DEF RemoveMember, MembershipRemove, WritersKept, Deleted
<1>36. ASSUME NEW o \in Orgs, OrganizationToggles(o) PROVE BansOK'
  BY <1>0, <1>36, BansStill DEF OrganizationToggles, WritersKept, Deleted
<1>37. ASSUME NEW i \in Invites, CreateInvitation(i) PROVE BansOK'
  BY <1>0, <1>37, BansStill DEF CreateInvitation, WritersKept, Deleted
<1>38. ASSUME NEW i \in Invites, RevokeInvitation(i) PROVE BansOK'
  BY <1>0, <1>38, BansStill DEF RevokeInvitation, WritersKept, Deleted
<1>39. ASSUME NEW i \in Invites, Expires(i) PROVE BansOK'
  BY <1>0, <1>39, BansStill DEF Expires, WritersKept, Deleted
<1>40. ASSUME NEW i \in Invites, RegenerateInvitationToken(i) PROVE BansOK'
  BY <1>0, <1>40, BansStill DEF RegenerateInvitationToken, WritersKept, Deleted
<1>41. ASSUME BanLapses, UNCHANGED signup PROVE BansOK'
  <2>1. ~lapsed /\ lapsed' /\ UNCHANGED <<account, ban, record, imposed, torn, req>>
    BY <1>41 DEF BanLapses
  <2>2. \A b : Decided(b) => b = imposed
    BY <2>1 DEF Decided, InForce
  <2>3. /\ Decided(ban) => Decided(ban)'
        /\ Decided(record) => Decided(record)'
    BY <2>1, <2>2 DEF Decided, InForce
  <2>4. ASSUME NEW q \in Requests
        PROVE  /\ Decided(req[q].prior) => Decided(req[q].prior)'
               /\ Decided(req[q].prev) => Decided(req[q].prev)'
    BY <2>1, <2>2 DEF Decided, InForce
  <2>5. \A q \in Requests : BanStage(q) => BanStage(q)'
    BY <2>1, <2>3, <2>4 DEF BanStage, Deleted
  <2>6. QED
    BY <1>0, <2>1, <2>3, <2>5 DEF BansOK, Sole, Deleted
<1>42. ASSUME InviterLoses PROVE BansOK'
  BY <1>0, <1>42, BansStill DEF InviterLoses, WritersKept, Deleted
<1>43. CASE UNCHANGED signUpVars
  BY <1>0, <1>43, BansStill DEF signUpVars, WritersKept, Deleted
<1>44. QED
  BY <1>1, <1>2, <1>3, <1>4, <1>5, <1>6, <1>7, <1>8, <1>9, <1>10, <1>11, <1>12, <1>13,
     <1>14, <1>15, <1>16, <1>17, <1>18, <1>19, <1>20, <1>21, <1>22, <1>23, <1>24, <1>25,
     <1>26, <1>27, <1>28, <1>29, <1>30, <1>31, <1>32, <1>33, <1>34, <1>35, <1>36, <1>37,
     <1>38, <1>39, <1>40, <1>41, <1>42, <1>43
  DEF SignUpNext, Lifecycle, SoftDelete, Restore, Ban, Status, Provision, Consume

(* F-57: across every order of bans, deletions and restores of any number of *)
(* requests, none torn and no two at once, the ban on an account that is not *)
(* deleted is the one administrators last decided on.                        *)
THEOREM DeletionRestoresTheBan == SignUpSpec => []BanIsAdministrators
<1>1. SignUpInit => BansOK
  BY IdleIs DEF SignUpInit, Init, BansOK, Sole, BanStage, Decided, Deleted, BanWriters
<1>2. BansOK /\ Typed /\ [SignUpNext]_signUpVars => BansOK'
  BY BansKept
<1>3. BansOK => BanIsAdministrators
  BY DEF BansOK, BanIsAdministrators, Decided, Deleted
<1>4. QED
  BY <1>1, <1>2, <1>3, TypedHolds, PTL DEF SignUpSpec
=============================================================================
