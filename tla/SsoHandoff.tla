----------------------------- MODULE SsoHandoff -----------------------------
(***************************************************************************)
(* Cross-subdomain sign-in.  A launch on the primary records a nonce and   *)
(* signs a token for one application; the application's consume route      *)
(* burns the nonce and opens a session.  Disabling or deleting an          *)
(* application sweeps its nonces and then its sessions.                    *)
(*                                                                         *)
(* A ticket is a nonce row together with its token.  A token verifies for  *)
(* a few seconds more than its nonce lives, on another clock, so a genuine *)
(* token may verify at any time here.  A sweep may fail at any point.      *)
(***************************************************************************)
EXTENDS Naturals, Sequences

CONSTANTS Apps,
          Tickets,    \* handoffs launched
          Consumers,  \* POSTs to /api/sso/consume
          Sweepers,   \* saves of an application that sweep it
          NoApp, NoTicket,
          MaxStatus   \* bound: saves and deletes of applications

ASSUME SsoAssumption == NoApp \notin Apps /\ NoTicket \notin Tickets /\ MaxStatus \in Nat

VARIABLES
  app,      \* app_enterprise_applications: status, or "deleted"
  nonce,    \* app_sso_handoff_nonces, by ticket
  target,   \* the application of each ticket
  consume,  \* each consume request: where it is and the ticket it carries
  session,  \* tickets with an open session, its token prefixed with the target
  sweep,    \* each sweep: its next statement, its application, and whether that is off since
  changes,  \* what is left of MaxStatus
  claims,   \* consumes that burned each ticket (history)
  swept,    \* applications swept since they were last available (history)
  outran    \* tickets in flight when a sweep passed them (history)

ssoVars == <<app, nonce, target, consume, session, sweep, changes, claims, swept, outran>>

AtRest == [at |-> "rest", ticket |-> NoTicket]
NoSweep == [step |-> 0, app |-> NoApp, off |-> FALSE]

SsoTypeOK ==
  /\ app \in [Apps -> {"available", "disabled", "deleted"}]
  /\ nonce \in [Tickets -> {"none", "launching", "live", "burned", "expired", "gone"}]
  /\ target \in [Tickets -> Apps \cup {NoApp}]
  /\ consume \in [Consumers -> [at : {"rest", "verified", "burned"}, ticket : Tickets \cup {NoTicket}]]
  /\ session \subseteq Tickets
  /\ sweep \in [Sweepers -> [step : 0..2, app : Apps \cup {NoApp}, off : BOOLEAN]]
  /\ changes \in 0..MaxStatus
  /\ claims \in [Tickets -> SUBSET Consumers]
  /\ swept \subseteq Apps /\ outran \subseteq Tickets

SsoInit ==
  /\ app \in [Apps -> {"available", "disabled"}]
  /\ nonce = [k \in Tickets |-> "none"] /\ target = [k \in Tickets |-> NoApp]
  /\ consume = [c \in Consumers |-> AtRest]
  /\ session = {} /\ sweep = [s \in Sweepers |-> NoSweep]
  /\ changes = MaxStatus
  /\ claims = [k \in Tickets |-> {}] /\ swept = {} /\ outran = {}
-----------------------------------------------------------------------------
(* Launch: createSsoHandoffRedirect *)

(* The application is available and the user may use it ... *)
LaunchChecks(k, a) ==
  /\ nonce[k] = "none" /\ app[a] = "available"
  /\ nonce' = [nonce EXCEPT ![k] = "launching"]
  /\ target' = [target EXCEPT ![k] = a]
  /\ UNCHANGED <<app, consume, session, sweep, changes, claims, swept, outran>>

(* ... old rows go, the nonce is inserted and the token signed.  The row     *)
(* refers to the application.                                                *)
LaunchIssues(k) ==
  /\ nonce[k] = "launching" /\ app[target[k]] # "deleted"
  /\ \E old \in SUBSET {j \in Tickets : nonce[j] \in {"burned", "expired"}} :
       nonce' = [j \in Tickets |-> CASE j = k -> "live" [] j \in old -> "gone" [] OTHER -> nonce[j]]
  /\ UNCHANGED <<app, target, consume, session, sweep, changes, claims, swept, outran>>

LaunchFails(k) ==
  /\ nonce[k] = "launching"
  /\ nonce' = [nonce EXCEPT ![k] = "none"]
  /\ target' = [target EXCEPT ![k] = NoApp]
  /\ outran' = outran \ {k}
  /\ UNCHANGED <<app, consume, session, sweep, changes, claims, swept>>

TimePasses(k) ==
  /\ nonce[k] = "live"
  /\ nonce' = [nonce EXCEPT ![k] = "expired"]
  /\ UNCHANGED <<app, target, consume, session, sweep, changes, claims, swept, outran>>
-----------------------------------------------------------------------------
(* Consume: the token verifies and names the application of the deployment   *)
(* that received it; anyone may post a token again.                          *)

Verify(c, k) ==
  /\ consume[c] = AtRest /\ nonce[k] \notin {"none", "launching"}
  /\ consume' = [consume EXCEPT ![c] = [at |-> "verified", ticket |-> k]]
  /\ UNCHANGED <<app, nonce, target, session, sweep, changes, claims, swept, outran>>

(* Mutant: a nonce burned already is not told from a live one. *)
Unspent_AnyRow(k) == nonce[k] \in {"live", "burned"}

Unspent(k) == nonce[k] = "live"

(* consumeSsoHandoffNonce: one conditional UPDATE. *)
Burn(c) ==
  LET k == consume[c].ticket
  IN /\ consume[c].at = "verified" /\ Unspent(k)
     /\ nonce' = [nonce EXCEPT ![k] = "burned"]
     /\ claims' = [claims EXCEPT ![k] = @ \cup {c}]
     /\ consume' = [consume EXCEPT ![c].at = "burned"]
     /\ UNCHANGED <<app, target, session, sweep, changes, swept, outran>>

(* replayed, expired or unknown; a banned or unknown user; a failure. *)
HandoffRefused(c) ==
  /\ consume[c] # AtRest
  /\ consume' = [consume EXCEPT ![c] = AtRest]
  /\ UNCHANGED <<app, nonce, target, session, sweep, changes, claims, swept, outran>>

CreateSsoSession(c) ==
  /\ consume[c].at = "burned"
  /\ session' = session \cup {consume[c].ticket}
  /\ consume' = [consume EXCEPT ![c] = AtRest]
  /\ UNCHANGED <<app, nonce, target, sweep, changes, claims, swept, outran>>

(* isSsoSessionPastLifetime, a sign-out, or expiry. *)
SessionEnds(k) ==
  /\ k \in session
  /\ session' = session \ {k}
  /\ UNCHANGED <<app, nonce, target, consume, sweep, changes, claims, swept, outran>>
-----------------------------------------------------------------------------
(* enterprise-apps/[id] *)

(* PATCH with a status: a sweep follows "disabled". *)
SetStatus(s, a, status) ==
  /\ sweep[s] = NoSweep /\ changes > 0 /\ app[a] # "deleted"
  /\ app' = [app EXCEPT ![a] = status]
  /\ changes' = changes - 1
  /\ IF status = "disabled"
       THEN /\ sweep' = [sweep EXCEPT ![s] = [step |-> 1, app |-> a, off |-> TRUE]]
            /\ UNCHANGED swept
       ELSE /\ sweep' = [t \in Sweepers |-> [sweep[t] EXCEPT !.off = @ /\ sweep[t].app # a]]
            /\ swept' = swept \ {a}
  /\ UNCHANGED <<nonce, target, consume, session, claims, outran>>

(* DELETE: the nonces go in the transaction, the sessions in a sweep. *)
DeleteApplication(s, a) ==
  /\ sweep[s] = NoSweep /\ changes > 0 /\ app[a] # "deleted"
  /\ app' = [app EXCEPT ![a] = "deleted"]
  /\ nonce' = [k \in Tickets |->
       IF target[k] = a /\ nonce[k] \in {"live", "burned", "expired"} THEN "gone" ELSE nonce[k]]
  /\ sweep' = [sweep EXCEPT ![s] = [step |-> 1, app |-> a, off |-> TRUE]]
  /\ changes' = changes - 1
  /\ UNCHANGED <<target, consume, session, claims, swept, outran>>

(* Mutant: the sessions are deleted first and the nonces expire afterwards. *)
SweepOrder_SessionsFirst == <<"sessions", "nonces">>

(* endSsoHandoffsOfApplication *)
SweepOrder == <<"nonces", "sessions">>

(* After this statement. *)
SweepGoesOn(s) ==
  IF sweep[s].step = 1
    THEN /\ sweep' = [sweep EXCEPT ![s].step = 2]
         /\ UNCHANGED swept
    ELSE /\ sweep' = [sweep EXCEPT ![s] = NoSweep]
         /\ swept' = IF sweep[s].off THEN swept \cup {sweep[s].app} ELSE swept

(* A launch that has read the application as available inserts its nonce later. *)
ExpireNonces(s) ==
  LET a == sweep[s].app
      ofApp == {k \in Tickets : target[k] = a}
  IN /\ sweep[s] # NoSweep /\ SweepOrder[sweep[s].step] = "nonces"
     /\ nonce' = [k \in Tickets |->
          IF k \in ofApp /\ nonce[k] = "live" THEN "expired" ELSE nonce[k]]
     /\ outran' = outran \cup {k \in ofApp : nonce[k] = "launching"}
     /\ SweepGoesOn(s)
     /\ UNCHANGED <<app, target, consume, session, changes, claims>>

(* A consume that has burned its nonce opens its session later. *)
DeleteSessions(s) ==
  LET ofApp == {k \in Tickets : target[k] = sweep[s].app}
  IN /\ sweep[s] # NoSweep /\ SweepOrder[sweep[s].step] = "sessions"
     /\ session' = session \ ofApp
     /\ outran' = outran \cup {k \in ofApp : \E c \in Consumers :
                                consume[c] = [at |-> "burned", ticket |-> k]}
     /\ SweepGoesOn(s)
     /\ UNCHANGED <<app, nonce, target, consume, changes, claims>>

SweepFails(s) ==
  /\ sweep[s] # NoSweep
  /\ sweep' = [sweep EXCEPT ![s] = NoSweep]
  /\ UNCHANGED <<app, nonce, target, consume, session, changes, claims, swept, outran>>
-----------------------------------------------------------------------------
SsoNext ==
  \/ \E k \in Tickets :
       \/ \E a \in Apps : LaunchChecks(k, a)
       \/ LaunchIssues(k) \/ LaunchFails(k) \/ TimePasses(k) \/ SessionEnds(k)
  \/ \E c \in Consumers :
       \/ \E k \in Tickets : Verify(c, k)
       \/ Burn(c) \/ HandoffRefused(c) \/ CreateSsoSession(c)
  \/ \E s \in Sweepers :
       \/ \E a \in Apps : \/ DeleteApplication(s, a)
                         \/ \E status \in {"available", "disabled"} : SetStatus(s, a, status)
       \/ ExpireNonces(s) \/ DeleteSessions(s) \/ SweepFails(s)

SsoSpec == SsoInit /\ [][SsoNext]_ssoVars
-----------------------------------------------------------------------------
(* Correctness *)

Handoff == INSTANCE OneShot WITH
  Grants <- Tickets, Claimants <- Consumers, winners <- claims,
  grant <- [k \in Tickets |->
              CASE claims[k] # {} -> "taken"
                [] claims[k] = {} /\ nonce[k] \in {"none", "launching"} -> "none"
                [] claims[k] = {} /\ nonce[k] = "live" -> "offered"
                [] OTHER -> "withdrawn"]

(* A handoff token opens one session at most, however often it is posted and *)
(* on however many instances at once, and none once it has expired, been     *)
(* swept or gone with its application: the nonces implement OneShot.         *)
HandoffsAreOneShot == Handoff!Spec

(* F-82.  Once an application has been disabled or deleted and the sweep has *)
(* run through, no session of it is open and none can be opened any more,    *)
(* retried and overlapping sweeps included; what the sweep passes is only a  *)
(* launch between its check and its insert, or a consume between its burn    *)
(* and its session.                                                          *)
SweptAppSignedOut ==
  \A a \in swept, k \in Tickets :
    target[k] = a /\ (k \in session \/ nonce[k] = "live") => k \in outran
=============================================================================
