------------------------------ MODULE McpAgents ------------------------------
(***************************************************************************)
(* Self-registered MCP agents of one organization: the public registration *)
(* endpoint and its quota, the console's approve, scope and revoke routes, *)
(* and the reaper of registrations that nobody approved.  An agent is a    *)
(* service account, its membership and its OAuth client, in three tables.  *)
(***************************************************************************)
EXTENDS Naturals, FiniteSets

CONSTANTS Agents,
          Approvers,  \* console requests that approve, at once
          NoAgent,
          Quota       \* MCP_REGISTRATION_MAX_PER_ORG, 0 for none

ASSUME McpAssumption == IsFiniteSet(Agents) /\ NoAgent \notin Agents /\ Quota \in Nat

VARIABLES
  mode,         \* MCP_REGISTRATION_MODE of this deployment
  registering,  \* agents whose registration has counted and not inserted
  serviceAccount,      \* app_users.status of each agent
  membership,   \* status of its "mcp" membership
  client,       \* status of its OAuth client
  scoped,       \* agents that were given scopes
  old,          \* agents older than the time to live of a pending one
  approving,    \* each approve: where it is and its agent
  reinstated    \* agents whose membership an administrator has set (history)

mcpVars == <<mode, registering, serviceAccount, membership, client, scoped, old, approving, reinstated>>

NoApproval == [at |-> "rest", agent |-> NoAgent]

McpTypeOK ==
  /\ mode \in {"open", "approval"}
  /\ registering \subseteq Agents
  /\ serviceAccount \in [Agents -> {"none", "pending_approval", "active", "deactivated"}]
  /\ membership \in [Agents -> {"none", "pending_approval", "active", "suspended", "blocked"}]
  /\ client \in [Agents -> {"none", "active", "revoked"}]
  /\ scoped \subseteq Agents /\ old \subseteq Agents /\ reinstated \subseteq Agents
  /\ approving \in [Approvers -> [at : {"rest", "account", "membership"}, agent : Agents \cup {NoAgent}]]

McpInit ==
  /\ mode \in {"open", "approval"}
  /\ registering = {}
  /\ serviceAccount = [a \in Agents |-> "none"] /\ membership = [a \in Agents |-> "none"]
  /\ client = [a \in Agents |-> "none"]
  /\ scoped = {} /\ old = {} /\ reinstated = {}
  /\ approving = [d \in Approvers |-> NoApproval]
-----------------------------------------------------------------------------
(* Registration: registerMcpAgent *)

(* countSelfRegisteredMcpClientsForOrg *)
Counted == {a \in Agents : client[a] = "active" /\ membership[a] = "active"}

(* Mutant: the count is not made under the organization's lock. *)
MayRegister_Unlocked == Quota > 0 => Cardinality(Counted) < Quota

(* With a quota, registrations of an organization wait for each other. *)
MayRegister == Quota > 0 => registering = {} /\ Cardinality(Counted) < Quota

RegisterCounts(a) ==
  /\ serviceAccount[a] = "none" /\ a \notin registering
  /\ MayRegister
  /\ registering' = registering \cup {a}
  /\ UNCHANGED <<mode, serviceAccount, membership, client, scoped, old, approving, reinstated>>

(* statusForMode *)
InitialStatus == IF mode = "open" THEN "active" ELSE "pending_approval"

(* provisionMcpAgent, and the end of the transaction *)
RegisterInserts(a) ==
  /\ a \in registering
  /\ serviceAccount' = [serviceAccount EXCEPT ![a] = InitialStatus]
  /\ membership' = [membership EXCEPT ![a] = InitialStatus]
  /\ client' = [client EXCEPT ![a] = "active"]
  /\ registering' = registering \ {a}
  /\ UNCHANGED <<mode, scoped, old, approving, reinstated>>

RegisterFails(a) ==
  /\ a \in registering
  /\ registering' = registering \ {a}
  /\ UNCHANGED <<mode, serviceAccount, membership, client, scoped, old, approving, reinstated>>
-----------------------------------------------------------------------------
(* The console *)

(* A revoked client is refused ... *)
ApproveChecks(d, a) ==
  /\ approving[d] = NoApproval /\ client[a] = "active"
  /\ approving' = [approving EXCEPT ![d] = [at |-> "account", agent |-> a]]
  /\ UNCHANGED <<mode, registering, serviceAccount, membership, client, scoped, old, reinstated>>

(* Mutant: the membership is activated first. *)
ActivateMcpAgent_MembershipFirst(d) ==
  LET a == approving[d].agent
  IN \/ /\ approving[d].at = "account"
        /\ membership' = [membership EXCEPT ![a] = IF @ = "pending_approval" THEN "active" ELSE @]
        /\ approving' = [approving EXCEPT ![d].at = "membership"]
        /\ UNCHANGED <<mode, registering, serviceAccount, client, scoped, old, reinstated>>
     \/ /\ approving[d].at = "membership"
        /\ serviceAccount' = [serviceAccount EXCEPT ![a] = IF @ = "pending_approval" THEN "active" ELSE @]
        /\ approving' = [approving EXCEPT ![d] = NoApproval]
        /\ UNCHANGED <<mode, registering, membership, client, scoped, old, reinstated>>

(* ... and the account, and only with it the membership, goes from pending   *)
(* to active, in a statement each.                                           *)
ActivateMcpAgent(d) ==
  LET a == approving[d].agent
  IN \/ /\ approving[d].at = "account" /\ serviceAccount[a] = "pending_approval"
        /\ serviceAccount' = [serviceAccount EXCEPT ![a] = "active"]
        /\ approving' = [approving EXCEPT ![d].at = "membership"]
        /\ UNCHANGED <<mode, registering, membership, client, scoped, old, reinstated>>
     \/ /\ approving[d].at = "membership"
        /\ membership' = [membership EXCEPT ![a] = IF @ = "pending_approval" THEN "active" ELSE @]
        /\ approving' = [approving EXCEPT ![d] = NoApproval]
        /\ UNCHANGED <<mode, registering, serviceAccount, client, scoped, old, reinstated>>

(* Nothing was pending any more, or the request died between the statements. *)
ApproveEnds(d) ==
  /\ approving[d] # NoApproval
  /\ approving' = [approving EXCEPT ![d] = NoApproval]
  /\ UNCHANGED <<mode, registering, serviceAccount, membership, client, scoped, old, reinstated>>

(* PATCH: updateOauthClient writes where the client is still active. *)
UpdateScopes(a) ==
  /\ client[a] = "active"
  /\ \E scopes \in BOOLEAN : scoped' = IF scopes THEN scoped \cup {a} ELSE scoped \ {a}
  /\ UNCHANGED <<mode, registering, serviceAccount, membership, client, old, approving, reinstated>>

(* DELETE: revokeOauthClient; the service account stays. *)
Revoke(a) ==
  /\ client[a] = "active"
  /\ client' = [client EXCEPT ![a] = "revoked"]
  /\ UNCHANGED <<mode, registering, serviceAccount, membership, scoped, old, approving, reinstated>>

(* The membership routes, which know nothing of agents. *)
SetAgentMembership(a, status) ==
  /\ membership[a] \notin {"none", status}
  /\ membership' = [membership EXCEPT ![a] = status]
  /\ reinstated' = reinstated \cup {a}
  /\ UNCHANGED <<mode, registering, serviceAccount, client, scoped, old, approving>>
-----------------------------------------------------------------------------
(* The reaper *)

GrowOld(a) ==
  /\ serviceAccount[a] # "none" /\ a \notin old
  /\ old' = old \cup {a}
  /\ UNCHANGED <<mode, registering, serviceAccount, membership, client, scoped, approving, reinstated>>

Reapable(a) == serviceAccount[a] = "pending_approval" /\ client[a] = "active" /\ a \in old

(* expireBatch: one statement; rows that another transaction holds are skipped. *)
ExpireBatch(batch) ==
  /\ batch # {} /\ \A a \in batch : Reapable(a)
  /\ serviceAccount' = [a \in Agents |-> IF a \in batch THEN "deactivated" ELSE serviceAccount[a]]
  /\ membership' = [a \in Agents |-> IF a \in batch THEN "blocked" ELSE membership[a]]
  /\ client' = [a \in Agents |-> IF a \in batch THEN "revoked" ELSE client[a]]
  /\ UNCHANGED <<mode, registering, scoped, old, approving, reinstated>>
-----------------------------------------------------------------------------
McpNext ==
  \/ \E a \in Agents :
       \/ RegisterCounts(a) \/ RegisterInserts(a) \/ RegisterFails(a)
       \/ UpdateScopes(a) \/ Revoke(a) \/ GrowOld(a)
       \/ \E status \in {"active", "suspended"} : SetAgentMembership(a, status)
  \/ \E d \in Approvers :
       \/ \E a \in Agents : ApproveChecks(d, a)
       \/ ActivateMcpAgent(d) \/ ApproveEnds(d)
  \/ \E batch \in SUBSET Agents : ExpireBatch(batch)

McpSpec == McpInit /\ [][McpNext]_mcpVars
-----------------------------------------------------------------------------
(* Correctness *)

(* Review #51.  In open mode the quota is a hard ceiling on the public       *)
(* endpoint: however many registrations run at once, no more agents than     *)
(* that are active in the organization, beside the ones whose membership an  *)
(* administrator set.                                                        *)
QuotaHeld == mode = "open" /\ Quota > 0 => Cardinality(Counted \ reinstated) <= Quota

(* Review #51.  An agent that counts against the quota has an active account *)
(* (the console shows it as active, not as pending), unless an administrator *)
(* set its membership: an approval racing the reaper, another approval or a  *)
(* crash never leaves an active membership under a pending or deactivated    *)
(* account.                                                                  *)
AgentStandsWhole == \A a \in Counted : serviceAccount[a] = "active" \/ a \in reinstated
=============================================================================
