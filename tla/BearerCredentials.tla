------------------------- MODULE BearerCredentials -------------------------
(***************************************************************************)
(* The API keys and OAuth clients that authenticate as one account, the    *)
(* access tokens minted from them, and F-10: replacing the account's       *)
(* password (or deleting it) ends all of them, including what is being     *)
(* minted at that moment.                                                  *)
(*                                                                         *)
(* An issuance takes FOR SHARE on the owner's app_users row, re-checks the *)
(* credential the request came in with and inserts.  An eviction ends the  *)
(* account's sessions, then revokes in passes, each a transaction under    *)
(* FOR NO KEY UPDATE on that row, until a pass finds nothing.              *)
(*                                                                         *)
(* Rows become visible when their transaction commits (READ COMMITTED), so *)
(* the last statement of a transaction and its commit are one step.        *)
(***************************************************************************)
EXTENDS Naturals

CONSTANTS Creds,        \* rows of app_api_keys and app_oauth_clients of the account
          InitialKeys, InitialClients,
          Sessions,     \* Better Auth sessions of the account
          NewSessions,  \* those opened with the new password
          Requests,     \* requests that mint or rotate a credential or mint a token
          Evictions,    \* calls of revokeBearerCredentialsOf, by reset or by admin
          MaxPasses,    \* MAX_EVICTION_PASSES
          MaxRotations, \* bound: rotations of one client's secret
          MaxTime,      \* bound: the clock, in seconds
          None

ASSUME CredentialsAssumption ==
  /\ InitialKeys \subseteq Creds /\ InitialClients \subseteq Creds
  /\ InitialKeys \cap InitialClients = {}
  /\ NewSessions \subseteq Sessions
  /\ MaxPasses \in Nat \ {0} /\ MaxRotations \in Nat /\ MaxTime \in Nat
  /\ None \notin Creds

VARIABLES
  row,        \* status of each row, "none" before the insert
  form,       \* "key" or "client"
  root,       \* the authority a credential goes back to (history)
  lineage,    \* the key a rotated key goes back to (history)
  rotatedAt,  \* secret_rotated_at, 0 for never
  secret,     \* how often a client's secret was rotated
  session,    \* sessions of the account: "none", "live" or "ended"
  pc,         \* where each request is
  via,        \* how it authenticated
  viaId,      \* with which session, key or token
  target,     \* the credential it rotates or mints a token from
  shown,      \* the secret it presented (history)
  iat,        \* the minted token's iat claim
  evict,      \* where each eviction is
  pass,       \* its pass
  swept,      \* the keys its pass has revoked and locked
  unswept,    \* its session sweep failed and it went on (the reset hook)
  now         \* seconds

rows == <<row, form, root, lineage>>
secrets == <<rotatedAt, secret>>
request == <<pc, via, viaId, target, shown, iat>>
eviction == <<evict, pass, swept, unswept>>
vars == <<rows, secrets, session, request, eviction, now>>

Roots == {"old", "new", "other", "legacy"}
Ways == {"session", "key", "token", "other", "legacy"}

(* A request's places; a "minted" one stands for the token it returned. *)
Sharing == {"fenced", "checked", "rotating"}
InFlight == Sharing \cup {"authenticated", "read", "verified"}
Ended == {"done", "refused", "minted"}

(* An eviction's. *)
Sweeping == {"locked", "keys_swept"}
Over == {"done", "gave_up", "crashed"}

TypeOK ==
  /\ row \in [Creds -> {"none", "active", "revoked"}]
  /\ form \in [Creds -> {"key", "client"}]
  /\ root \in [Creds -> Roots]
  /\ lineage \in [Creds -> Creds]
  /\ rotatedAt \in [Creds -> 0..MaxTime] /\ secret \in [Creds -> 0..MaxRotations]
  /\ session \in [Sessions -> {"none", "live", "ended"}]
  /\ pc \in [Requests -> {"idle"} \cup InFlight \cup Ended]
  /\ via \in [Requests -> Ways \cup {"none"}]
  /\ viaId \in [Requests -> Sessions \cup Creds \cup Requests \cup {None}]
  /\ target \in [Requests -> Creds \cup {None}]
  /\ shown \in [Requests -> 0..MaxRotations] /\ iat \in [Requests -> 0..MaxTime]
  /\ evict \in [Evictions -> {"idle", "replaced", "sessions_ended"} \cup Sweeping \cup Over]
  /\ pass \in [Evictions -> 0..MaxPasses]
  /\ swept \in [Evictions -> SUBSET Creds]
  /\ unswept \in [Evictions -> BOOLEAN]
  /\ now \in 0..MaxTime

Init ==
  /\ row = [c \in Creds |-> IF c \in InitialKeys \cup InitialClients
                              THEN "active" ELSE "none"]
  /\ form = [c \in Creds |-> IF c \in InitialClients THEN "client" ELSE "key"]
  /\ root = [c \in Creds |-> "old"]
  /\ lineage = [c \in Creds |-> c]
  /\ rotatedAt = [c \in Creds |-> 0] /\ secret = [c \in Creds |-> 0]
  /\ session = [s \in Sessions |-> IF s \in NewSessions THEN "none" ELSE "live"]
  /\ pc = [q \in Requests |-> "idle"]
  /\ via = [q \in Requests |-> "none"]
  /\ viaId = [q \in Requests |-> None]
  /\ target = [q \in Requests |-> None]
  /\ shown = [q \in Requests |-> 0] /\ iat = [q \in Requests |-> 0]
  /\ evict = [e \in Evictions |-> "idle"]
  /\ pass = [e \in Evictions |-> 0]
  /\ swept = [e \in Evictions |-> {}]
  /\ unswept = [e \in Evictions |-> FALSE]
  /\ now = 0
-----------------------------------------------------------------------------
(* What authenticates *)

(* readActiveSourceCredential of the token a request minted: the row is      *)
(* active and a client's secret was not rotated since iat.  secret_rotated_at *)
(* has milliseconds and iat whole seconds (rounded down), so a rotation later *)
(* in the second of iat, or earlier in it, retires the token.                 *)
SourceActive(t) ==
  /\ target[t] # None
  /\ row[target[t]] = "active"
  /\ form[target[t]] = "client" /\ secret[target[t]] > 0 => rotatedAt[target[t]] < iat[t]

(* verifyAccessToken and readActiveSourceCredential: the token has not expired. *)
TokenLive(t) == pc[t] = "minted" /\ SourceActive(t)

(* isCallerSourceLive; of a token it reads the source and not the exp claim. *)
(* Another principal's credential is not this account's to end, and a token  *)
(* without cid has nothing to re-check.                                      *)
SourceLive(w, id) ==
  \/ w = "session" /\ id \in Sessions /\ session[id] = "live"
  \/ w = "key" /\ id \in Creds /\ row[id] = "active" /\ form[id] = "key"
  \/ w = "token" /\ id \in Requests /\ SourceActive(id)
  \/ w \in {"other", "legacy"} /\ id = None

(* The authority a credential minted this way goes back to. *)
RootOf(w, id) ==
  CASE w = "session" -> IF id \in NewSessions THEN "new" ELSE "old"
    [] w = "key" -> root[id]
    [] w = "token" -> root[target[id]]
    [] OTHER -> w

(* Row locks: an eviction's pass has the owner's row to itself. *)
ShareGranted == \A e \in Evictions : evict[e] \notin Sweeping

ExclusiveGranted(e) ==
  /\ \A q \in Requests : pc[q] \notin Sharing
  /\ \A f \in Evictions \ {e} : evict[f] \notin Sweeping

(* The rows a pass has updated and not committed. *)
RowFree(c) == \A e \in Evictions : c \notin swept[e]
-----------------------------------------------------------------------------
(* Sessions: a sign-in with the new password, and any way a session ends. *)

SignIn(s) ==
  /\ s \in NewSessions /\ session[s] = "none"
  /\ \E e \in Evictions : evict[e] # "idle"
  /\ session' = [session EXCEPT ![s] = "live"]
  /\ UNCHANGED <<rows, secrets, request, eviction, now>>

SignOut(s) ==
  /\ session[s] = "live"
  /\ session' = [session EXCEPT ![s] = "ended"]
  /\ UNCHANGED <<rows, secrets, request, eviction, now>>
-----------------------------------------------------------------------------
(* createApiKey and createOauthClient *)

(* resolveCallerDetailed *)
Authenticate(q, w, id) ==
  /\ pc[q] = "idle"
  /\ SourceLive(w, id)
  /\ w = "token" => pc[id] = "minted"
  /\ pc' = [pc EXCEPT ![q] = "authenticated"]
  /\ via' = [via EXCEPT ![q] = w]
  /\ viaId' = [viaId EXCEPT ![q] = id]
  /\ UNCHANGED <<rows, secrets, session, target, shown, iat, eviction, now>>

(* lockOwnerForIssuance; a caller without a source takes no fence. *)
EnterFence(q) ==
  /\ pc[q] = "authenticated" /\ via[q] # "legacy"
  /\ ShareGranted
  /\ pc' = [pc EXCEPT ![q] = "fenced"]
  /\ UNCHANGED <<rows, secrets, session, via, viaId, target, shown, iat, eviction, now>>

(* Mistake: the lock is taken and the source is not read again. *)
Recheck_Skipped(q) ==
  /\ pc[q] = "fenced"
  /\ pc' = [pc EXCEPT ![q] = "checked"]
  /\ UNCHANGED <<rows, secrets, session, via, viaId, target, shown, iat, eviction, now>>

(* The rest of enterIssuanceFence. *)
Recheck(q) ==
  /\ pc[q] = "fenced"
  /\ pc' = [pc EXCEPT ![q] = IF SourceLive(via[q], viaId[q]) THEN "checked" ELSE "refused"]
  /\ UNCHANGED <<rows, secrets, session, via, viaId, target, shown, iat, eviction, now>>

MayInsert(q) ==
  \/ pc[q] = "checked"
  \/ pc[q] = "authenticated" /\ via[q] = "legacy"

Insert(q, c, f) ==
  /\ MayInsert(q)
  /\ row[c] = "none"
  /\ row' = [row EXCEPT ![c] = "active"]
  /\ form' = [form EXCEPT ![c] = f]
  /\ root' = [root EXCEPT ![c] = RootOf(via[q], viaId[q])]
  /\ pc' = [pc EXCEPT ![q] = "done"]
  /\ UNCHANGED <<lineage, secrets, session, via, viaId, target, shown, iat, eviction, now>>

(* A request ends without having written anything. *)
Abandon(q) ==
  /\ pc[q] \in InFlight
  /\ pc' = [pc EXCEPT ![q] = "refused"]
  /\ UNCHANGED <<rows, secrets, session, via, viaId, target, shown, iat, eviction, now>>
-----------------------------------------------------------------------------
(* rotateApiKey, which re-checks the key instead of its caller *)

RotateRead(q, c) ==
  /\ pc[q] = "idle"
  /\ row[c] = "active" /\ form[c] = "key"
  /\ pc' = [pc EXCEPT ![q] = "read"]
  /\ target' = [target EXCEPT ![q] = c]
  /\ UNCHANGED <<rows, secrets, session, via, viaId, shown, iat, eviction, now>>

RotateLock(q) ==
  /\ pc[q] = "read"
  /\ ShareGranted
  /\ pc' = [pc EXCEPT ![q] = "rotating"]
  /\ UNCHANGED <<rows, secrets, session, via, viaId, target, shown, iat, eviction, now>>

(* The old key goes and its successor comes in one transaction. *)
Succeeds(q, c) ==
  /\ row[c] = "none"
  /\ row' = [row EXCEPT ![target[q]] = "revoked", ![c] = "active"]
  /\ form' = [form EXCEPT ![c] = "key"]
  /\ root' = [root EXCEPT ![c] = root[target[q]]]
  /\ lineage' = [lineage EXCEPT ![c] = lineage[target[q]]]
  /\ pc' = [pc EXCEPT ![q] = "done"]

(* Mistake: the retiring UPDATE matches by id alone. *)
RotateSwap_ById(q, c) ==
  /\ pc[q] = "rotating" /\ RowFree(target[q])
  /\ Succeeds(q, c)
  /\ UNCHANGED <<secrets, session, via, viaId, target, shown, iat, eviction, now>>

RotateSwap(q, c) ==
  /\ pc[q] = "rotating" /\ RowFree(target[q])
  /\ row[target[q]] = "active"
  /\ Succeeds(q, c)
  /\ UNCHANGED <<secrets, session, via, viaId, target, shown, iat, eviction, now>>
-----------------------------------------------------------------------------
(* revokeApiKey, revokeOauthClient, rotateOauthClientSecret: one UPDATE each, *)
(* of an active row                                                           *)

RevokeOne(c) ==
  /\ row[c] = "active" /\ RowFree(c)
  /\ row' = [row EXCEPT ![c] = "revoked"]
  /\ UNCHANGED <<form, root, lineage, secrets, session, request, eviction, now>>

RotateSecret(c) ==
  /\ row[c] = "active" /\ form[c] = "client" /\ RowFree(c)
  /\ secret[c] < MaxRotations
  /\ rotatedAt' = [rotatedAt EXCEPT ![c] = now]
  /\ secret' = [secret EXCEPT ![c] = @ + 1]
  /\ UNCHANGED <<rows, session, request, eviction, now>>
-----------------------------------------------------------------------------
(* POST /api/v1/auth/token *)

(* verifyApiKey or verifyClientCredentials, with the secret of that moment. *)
VerifyCredential(q, c) ==
  /\ pc[q] = "idle"
  /\ row[c] = "active"
  /\ pc' = [pc EXCEPT ![q] = "verified"]
  /\ target' = [target EXCEPT ![q] = c]
  /\ shown' = [shown EXCEPT ![q] = secret[c]]
  /\ UNCHANGED <<rows, secrets, session, via, viaId, iat, eviction, now>>

(* mintAccessToken, after the member, ban, scope and resource checks. *)
MintToken(q) ==
  /\ pc[q] = "verified"
  /\ pc' = [pc EXCEPT ![q] = "minted"]
  /\ iat' = [iat EXCEPT ![q] = now]
  /\ UNCHANGED <<rows, secrets, session, via, viaId, target, shown, eviction, now>>

TokenExpires(q) ==
  /\ pc[q] = "minted"
  /\ pc' = [pc EXCEPT ![q] = "done"]
  /\ UNCHANGED <<rows, secrets, session, via, viaId, target, shown, iat, eviction, now>>

Tick ==
  /\ now < MaxTime
  /\ now' = now + 1
  /\ UNCHANGED <<rows, secrets, session, request, eviction>>
-----------------------------------------------------------------------------
(* revokeBearerCredentialsOf, and before it its callers' writes: the new     *)
(* password and the end of the account's sessions                            *)

ReplacePassword(e) ==
  /\ evict[e] = "idle"
  /\ evict' = [evict EXCEPT ![e] = "replaced"]
  /\ UNCHANGED <<rows, secrets, session, request, pass, swept, unswept, now>>

EndSessions(e) ==
  /\ evict[e] = "replaced"
  /\ session' = [s \in Sessions |-> IF session[s] = "live" THEN "ended" ELSE session[s]]
  /\ evict' = [evict EXCEPT ![e] = "sessions_ended"]
  /\ UNCHANGED <<rows, secrets, request, pass, swept, unswept, now>>

(* The reset hook logs a failed sweep and goes on. *)
EndSessionsFails(e) ==
  /\ evict[e] = "replaced"
  /\ evict' = [evict EXCEPT ![e] = "sessions_ended"]
  /\ unswept' = [unswept EXCEPT ![e] = TRUE]
  /\ UNCHANGED <<rows, secrets, session, request, pass, swept, now>>

(* lockOwnerForEviction *)
PassLock(e) ==
  /\ evict[e] = "sessions_ended"
  /\ ExclusiveGranted(e)
  /\ evict' = [evict EXCEPT ![e] = "locked"]
  /\ pass' = [pass EXCEPT ![e] = @ + 1]
  /\ UNCHANGED <<rows, secrets, session, request, swept, unswept, now>>

(* revokeActiveApiKeysOf *)
SweepKeys(e) ==
  /\ evict[e] = "locked"
  /\ evict' = [evict EXCEPT ![e] = "keys_swept"]
  /\ swept' = [swept EXCEPT ![e] = {c \in Creds : row[c] = "active" /\ form[c] = "key"}]
  /\ UNCHANGED <<rows, secrets, session, request, pass, unswept, now>>

ActiveClients == {c \in Creds : row[c] = "active" /\ form[c] = "client"}

(* revokeActiveOauthClientsOf and the commit. *)
Revoking(e, next) ==
  /\ evict[e] = "keys_swept"
  /\ row' = [c \in Creds |-> IF c \in swept[e] \cup ActiveClients THEN "revoked" ELSE row[c]]
  /\ swept' = [swept EXCEPT ![e] = {}]
  /\ evict' = [evict EXCEPT ![e] = next]
  /\ UNCHANGED <<form, root, lineage, secrets, session, request, pass, unswept, now>>

(* Mistake: the loop goes on when a pass has found nothing. *)
PassCommit_NoReturn(e) == Revoking(e, "locked")

(* Mistake: no bound on the passes. *)
PassCommit_NoBound(e) ==
  Revoking(e, IF swept[e] \cup ActiveClients = {} THEN "done" ELSE "sessions_ended")

PassCommit(e) ==
  Revoking(e, IF swept[e] \cup ActiveClients = {} THEN "done"
              ELSE IF pass[e] >= MaxPasses THEN "gave_up" ELSE "sessions_ended")

(* A pass fails or the process dies: that pass rolls back, earlier ones stay. *)
EvictionCrash(e) ==
  /\ evict[e] \in {"replaced", "sessions_ended"} \cup Sweeping
  /\ evict' = [evict EXCEPT ![e] = "crashed"]
  /\ swept' = [swept EXCEPT ![e] = {}]
  /\ UNCHANGED <<rows, secrets, session, request, pass, unswept, now>>
-----------------------------------------------------------------------------
Issue(q) ==
  \/ EnterFence(q) \/ Recheck(q)
  \/ \E c \in Creds, f \in {"key", "client"} : Insert(q, c, f)
  \/ RotateLock(q) \/ \E c \in Creds : RotateSwap(q, c)
  \/ MintToken(q) \/ Abandon(q)

Start(q) ==
  \/ \E w \in Ways, id \in Sessions \cup Creds \cup Requests \cup {None} :
        Authenticate(q, w, id)
  \/ \E c \in Creds : RotateRead(q, c) \/ VerifyCredential(q, c)

Evict(e) == PassLock(e) \/ SweepKeys(e) \/ PassCommit(e)

Next ==
  \/ \E s \in Sessions : SignIn(s) \/ SignOut(s)
  \/ \E q \in Requests : Start(q) \/ Issue(q) \/ TokenExpires(q)
  \/ \E c \in Creds : RevokeOne(c) \/ RotateSecret(c)
  \/ \E e \in Evictions : ReplacePassword(e) \/ EndSessions(e) \/ EndSessionsFails(e) \/ Evict(e)
                          \/ EvictionCrash(e)
  \/ Tick

Spec == Init /\ [][Next]_vars

(* A transaction that is open ends, and an eviction that can go on does.     *)
FairSpec ==
  /\ Spec
  /\ \A q \in Requests : WF_vars(Issue(q))
  /\ \A e \in Evictions : SF_vars(Evict(e))
-----------------------------------------------------------------------------
(* Properties *)

(* F-10: once an eviction has reported success, nothing that authenticates   *)
(* as the account goes back to a session or a credential from before it,     *)
(* however mints, rotations and single revokes were interleaved with it.     *)
(* (A reset whose session sweep failed makes no such promise.)               *)
NoOldCredentialSurvives ==
  (\E e \in Evictions : evict[e] = "done" /\ ~unswept[e]) =>
    /\ \A c \in Creds : row[c] = "active" => root[c] # "old"
    /\ \A s \in Sessions : session[s] = "live" => s \in NewSessions

(* A key has one active successor at most: of two rotations of one key that  *)
(* run at once, one gets null (rotateApiKey's conditional update).           *)
OneSuccessor ==
  \A c, d \in Creds : row[c] = "active" /\ row[d] = "active" /\ lineage[c] = lineage[d]
                      => c = d

(* An eviction that has started ends: it neither waits for ever for the      *)
(* owner's row nor keeps finding new rows to revoke.                         *)
EvictionEnds ==
  \A e \in Evictions : evict[e] = "sessions_ended" ~> evict[e] \in Over

(* "Tokens minted with the OLD secret are refused by the resolver from now   *)
(* on" (rotateOauthClientSecret).                                            *)
OldSecretRetired ==
  \A q \in Requests : TokenLive(q) => shown[q] = secret[target[q]]
-----------------------------------------------------------------------------
(* The inductive invariant of the fence *)

(* The two locks on the owner's row exclude each other. *)
LocksExclude ==
  /\ \A e \in Evictions, q \in Requests : ~(evict[e] \in Sweeping /\ pc[q] \in Sharing)
  /\ \A e, f \in Evictions : evict[e] \in Sweeping /\ evict[f] \in Sweeping => e = f

(* An eviction whose session sweep worked: the old sessions are gone. *)
SweptSessions(e) == evict[e] \notin {"idle", "replaced", "crashed"} /\ ~unswept[e]
SessionsGone ==
  (\E e \in Evictions : SweptSessions(e)) =>
    \A s \in Sessions \ NewSessions : session[s] # "live"

(* The keys a pass has found are all there are, unfenced inserts aside. *)
SweptIsAll ==
  \A e \in Evictions :
    /\ evict[e] # "keys_swept" => swept[e] = {}
    /\ evict[e] = "keys_swept" =>
         \A c \in Creds : row[c] = "active" /\ form[c] = "key" /\ root[c] = "old"
                          => c \in swept[e]

(* No credential is born of an old source after a successful eviction. *)
CheckedIsFresh ==
  (\E e \in Evictions : evict[e] = "done" /\ ~unswept[e]) =>
    \A q \in Requests : MayInsert(q) => RootOf(via[q], viaId[q]) # "old"

(* A rotated key goes back to a row that was written. *)
LineagePoints ==
  \A c \in Creds : IF row[c] = "none" THEN lineage[c] = c ELSE row[lineage[c]] # "none"

(* What a request points at exists. *)
RequestsPoint ==
  \A q \in Requests :
    /\ pc[q] = "idle" => target[q] = None
    /\ pc[q] \in {"read", "rotating", "verified", "minted"} =>
         target[q] \in Creds /\ row[target[q]] # "none"
    /\ pc[q] \in {"read", "rotating"} => form[target[q]] = "key"
    /\ pc[q] \in {"authenticated", "fenced", "checked"} =>
         /\ via[q] \in Ways
         /\ via[q] = "session" => viaId[q] \in Sessions
         /\ via[q] = "key" => viaId[q] \in Creds /\ row[viaId[q]] # "none"
         /\ via[q] = "token" => /\ viaId[q] \in Requests
                                /\ target[viaId[q]] \in Creds
                                /\ row[target[viaId[q]]] # "none"

(* An eviction between passes has one left. *)
PassesLeft ==
  \A e \in Evictions : evict[e] \in {"idle", "replaced", "sessions_ended"} => pass[e] < MaxPasses

FenceBookkeeping ==
  /\ LocksExclude /\ SessionsGone /\ SweptIsAll /\ CheckedIsFresh
  /\ LineagePoints /\ RequestsPoint /\ PassesLeft
=============================================================================
