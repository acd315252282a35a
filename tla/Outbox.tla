------------------------------- MODULE Outbox -------------------------------
(***************************************************************************)
(* The email outbox.  sendAppEmail records every email in app_outbox before *)
(* it asks the provider, tries to deliver it inline and leaves a transient *)
(* failure to the drain, which claims one due row per transaction (FOR     *)
(* UPDATE SKIP LOCKED) and calls the provider inside it.  Retention fails  *)
(* the rows nobody claims and deletes old terminal ones.                   *)
(*                                                                         *)
(* Time is in ticks and relative: `due` is how long until next_attempt_at, *)
(* `age` how long since created_at, up to the age at which retention        *)
(* deletes a row.  The order in which a drain takes due rows is left open.  *)
(***************************************************************************)
EXTENDS Naturals, FiniteSets

CONSTANTS Rows,             \* app_outbox rows
          Drainers,         \* drain processes: cron ticks, pnpm outbox:drain
          Providers,        \* EMAIL_PROVIDER values
          DrainerProvider,  \* the provider each drain process is configured with
          InlineMaxAttempts, MaxAttempts,
          Lease,            \* INLINE_DELIVERY_LEASE_MS
          Settle,           \* an inline send has written its row by this age
          Prompt,           \* TRUE: inline sends do settle by that age
          BackoffBase, BackoffCap,
          TokenTtl,         \* TOKEN_TTL_MS_BY_TEMPLATE
          MaxPendingAge, RetentionAge,
          MaxFaults,        \* bound: crashes, failed updates and lost answers
          None

Templates == {"plain", "reset", "invitation", "broken_invitation"}

(* How a provider call ends; "lost": accepted, the answer never arrives. *)
Replies == {"ok", "lost", "transient", "permanent"}

(* backoffDelayMs *)
Backoff(n) ==
  LET exp == BackoffBase * 2 ^ (IF n > 0 THEN n - 1 ELSE 0)
  IN  IF exp < BackoffCap THEN exp ELSE BackoffCap

ASSUME OutboxAssumption ==
  /\ DrainerProvider \in [Drainers -> Providers]
  /\ InlineMaxAttempts \in Nat \ {0} /\ MaxAttempts \in Nat
  /\ InlineMaxAttempts < MaxAttempts
  /\ Lease \in Nat /\ Settle \in Nat /\ Settle < Lease
  /\ Prompt \in BOOLEAN
  /\ TokenTtl \in Nat /\ MaxPendingAge \in Nat /\ RetentionAge \in Nat
  /\ Settle < MaxPendingAge /\ MaxPendingAge <= RetentionAge
  /\ MaxFaults \in Nat
  /\ \A n \in 0..MaxAttempts : Backoff(n) \in Nat
  /\ None \notin Providers /\ None \notin Rows /\ None \notin Replies

VARIABLES
  status,     \* app_outbox.status, "none" before the insert, "gone" once deleted
  provider,   \* app_outbox.provider
  template,   \* app_outbox.template_key
  payload,    \* delivery_payload is not null
  attempts,   \* app_outbox.attempts
  due,        \* until next_attempt_at, 0 when null or past
  age,        \* since created_at
  live,       \* an invitation's token still opens a pending invitation
  sender,     \* the inline send: "none", "calling", "answered" or "done"
  tries,      \* its provider calls so far
  reply,      \* what its last call came back with
  drain,      \* each drainer: "idle", "calling" or "answered"
  claimed,    \* the row its transaction has locked
  answer,     \* what its call came back with
  faults,     \* how many faults have happened (history, bounded)
  calls,      \* provider calls made for the row (history)
  uncounted,  \* of those, calls no attempts column will ever count (history)
  accepts,    \* calls the provider accepted (history)
  unrecorded, \* of those, the ones no row update recorded (history)
  calledBy    \* providers called for the row (history)

row == <<status, provider, template, payload, attempts, due>>
inline == <<sender, tries, reply>>
worker == <<drain, claimed, answer>>
history == <<calls, uncounted, accepts, unrecorded, calledBy>>
vars == <<row, age, live, inline, worker, faults, history>>

Terminal == {"sent", "failed"}

TypeOK ==
  /\ status \in [Rows -> Terminal \cup {"none", "pending", "logged", "gone"}]
  /\ provider \in [Rows -> Providers \cup {None}]
  /\ template \in [Rows -> Templates]
  /\ payload \in [Rows -> BOOLEAN]
  /\ attempts \in [Rows -> Nat]
  /\ due \in [Rows -> Nat]
  /\ age \in [Rows -> Nat]
  /\ live \in [Rows -> BOOLEAN]
  /\ sender \in [Rows -> {"none", "calling", "answered", "done"}]
  /\ tries \in [Rows -> 0..InlineMaxAttempts]
  /\ reply \in [Rows -> Replies \cup {None}]
  /\ drain \in [Drainers -> {"idle", "calling", "answered"}]
  /\ claimed \in [Drainers -> Rows \cup {None}]
  /\ answer \in [Drainers -> Replies \cup {None}]
  /\ faults \in Nat
  /\ calls \in [Rows -> Nat] /\ uncounted \in [Rows -> Nat]
  /\ accepts \in [Rows -> Nat] /\ unrecorded \in [Rows -> Nat]
  /\ calledBy \in [Rows -> SUBSET Providers]
-----------------------------------------------------------------------------
(* The message carries a one-time token, so it is stored redacted and the   *)
(* real rendering goes to delivery_payload.                                 *)
Secret(t) == t # "plain"

Retryable(x) == x \in {"transient", "lost"}
Accepted(x) == x \in {"ok", "lost"}

Locked(r) == \E d \in Drainers : claimed[d] = r
SendInFlight(r) == sender[r] \in {"calling", "answered"}

(* outboxTokenExpired: token-bearing templates only. *)
Expired(r) == Secret(template[r]) /\ age[r] >= TokenTtl

(* invitationLinkState is "missing" without a token in the email. *)
LinkLive(r) ==
  CASE template[r] = "invitation" -> live[r]
    [] template[r] = "broken_invitation" -> FALSE
    [] OTHER -> TRUE

Init ==
  /\ status = [r \in Rows |-> "none"]
  /\ provider = [r \in Rows |-> None]
  /\ template = [r \in Rows |-> "plain"]
  /\ payload = [r \in Rows |-> FALSE]
  /\ attempts = [r \in Rows |-> 0]
  /\ due = [r \in Rows |-> 0]
  /\ age = [r \in Rows |-> 0]
  /\ live = [r \in Rows |-> TRUE]
  /\ sender = [r \in Rows |-> "none"]
  /\ tries = [r \in Rows |-> 0]
  /\ reply = [r \in Rows |-> None]
  /\ drain = [d \in Drainers |-> "idle"]
  /\ claimed = [d \in Drainers |-> None]
  /\ answer = [d \in Drainers |-> None]
  /\ faults = 0
  /\ calls = [r \in Rows |-> 0] /\ uncounted = [r \in Rows |-> 0]
  /\ accepts = [r \in Rows |-> 0] /\ unrecorded = [r \in Rows |-> 0]
  /\ calledBy = [r \in Rows |-> {}]
-----------------------------------------------------------------------------
(* History *)

CallsProvider(r, p) ==
  /\ calls' = [calls EXCEPT ![r] = @ + 1]
  /\ calledBy' = [calledBy EXCEPT ![r] = @ \cup {p}]

Fault ==
  /\ faults < MaxFaults
  /\ faults' = faults + 1

(* A caller goes without having recorded n calls, the last one answered x. *)
Forgotten(r, n, x) ==
  /\ uncounted' = [uncounted EXCEPT ![r] = @ + n]
  /\ unrecorded' = [unrecorded EXCEPT ![r] = @ + (IF x = "ok" THEN 1 ELSE 0)]
  /\ UNCHANGED <<calls, accepts, calledBy>>

(* The provider's side of a call.  An acceptance whose answer is lost (a     *)
(* timeout, a reset) is unrecorded: its caller takes it for a failure.       *)
ProviderTakes(r, x) ==
  /\ accepts' = [accepts EXCEPT ![r] = @ + (IF Accepted(x) THEN 1 ELSE 0)]
  /\ unrecorded' = [unrecorded EXCEPT ![r] = @ + (IF x = "lost" THEN 1 ELSE 0)]
  /\ IF x = "lost" THEN Fault ELSE UNCHANGED faults
  /\ UNCHANGED <<calls, uncounted, calledBy>>
-----------------------------------------------------------------------------
(* sendAppEmail *)

(* No provider: the row is the record, and its payload stays for a developer *)
(* to read.                                                                  *)
SendLogged(r, t) ==
  /\ status[r] = "none"
  /\ status' = [status EXCEPT ![r] = "logged"]
  /\ template' = [template EXCEPT ![r] = t]
  /\ payload' = [payload EXCEPT ![r] = Secret(t)]
  /\ sender' = [sender EXCEPT ![r] = "done"]
  /\ UNCHANGED <<provider, attempts, due, age, live, tries, reply, worker, faults,
                 history>>

(* Mistake: next_attempt_at is left null at the insert (before F-101). *)
SendInsert_NoLease(r, t, p) ==
  /\ status[r] = "none"
  /\ status' = [status EXCEPT ![r] = "pending"]
  /\ provider' = [provider EXCEPT ![r] = p]
  /\ template' = [template EXCEPT ![r] = t]
  /\ payload' = [payload EXCEPT ![r] = Secret(t)]
  /\ sender' = [sender EXCEPT ![r] = "calling"]
  /\ tries' = [tries EXCEPT ![r] = 1]
  /\ CallsProvider(r, p)
  /\ UNCHANGED <<attempts, due, age, live, reply, worker, faults, uncounted,
                 accepts, unrecorded>>

(* The row is inserted pending, leased to this send, and the first inline    *)
(* call is made.                                                             *)
SendInsert(r, t, p) ==
  /\ status[r] = "none"
  /\ status' = [status EXCEPT ![r] = "pending"]
  /\ provider' = [provider EXCEPT ![r] = p]
  /\ template' = [template EXCEPT ![r] = t]
  /\ payload' = [payload EXCEPT ![r] = Secret(t)]
  /\ due' = [due EXCEPT ![r] = Lease]
  /\ sender' = [sender EXCEPT ![r] = "calling"]
  /\ tries' = [tries EXCEPT ![r] = 1]
  /\ CallsProvider(r, p)
  /\ UNCHANGED <<attempts, age, live, reply, worker, faults, uncounted, accepts,
                 unrecorded>>

InlineAnswer(r, x) ==
  /\ sender[r] = "calling"
  /\ sender' = [sender EXCEPT ![r] = "answered"]
  /\ reply' = [reply EXCEPT ![r] = x]
  /\ ProviderTakes(r, x)
  /\ UNCHANGED <<row, age, live, tries, worker>>

(* Mistake: a retryable failure is always retried. *)
InlineRetry_NoCap(r) ==
  /\ sender[r] = "answered" /\ Retryable(reply[r])
  /\ sender' = [sender EXCEPT ![r] = "calling"]
  /\ tries' = [tries EXCEPT ![r] = @ + 1]
  /\ CallsProvider(r, provider[r])
  /\ UNCHANGED <<row, age, live, reply, worker, faults, uncounted, accepts,
                 unrecorded>>

(* deliverInline tries again; whether the budget still has room for another  *)
(* attempt is left open.                                                     *)
InlineRetry(r) ==
  /\ sender[r] = "answered" /\ Retryable(reply[r])
  /\ tries[r] < InlineMaxAttempts
  /\ sender' = [sender EXCEPT ![r] = "calling"]
  /\ tries' = [tries EXCEPT ![r] = @ + 1]
  /\ CallsProvider(r, provider[r])
  /\ UNCHANGED <<row, age, live, reply, worker, faults, uncounted, accepts,
                 unrecorded>>

(* The send's last statement, an UPDATE by id that waits for a drain's lock  *)
(* and finds nothing once the row is deleted.                                *)
InlineUpdates(r) ==
  /\ sender[r] = "answered"
  /\ ~Locked(r)
  /\ sender' = [sender EXCEPT ![r] = "done"]
  /\ UNCHANGED <<provider, template, age, live, tries, reply, worker, faults>>

Deleted(r) == status[r] = "gone"

InlineSent(r) ==
  /\ reply[r] = "ok"
  /\ InlineUpdates(r)
  /\ IF Deleted(r) THEN UNCHANGED <<status, attempts, due, payload>>
     ELSE /\ status' = [status EXCEPT ![r] = "sent"]
          /\ attempts' = [attempts EXCEPT ![r] = tries[r]]
          /\ due' = [due EXCEPT ![r] = 0]
          /\ payload' = [payload EXCEPT ![r] = FALSE]
  /\ UNCHANGED history

(* Mistake: a rejected email keeps its unredacted copy. *)
InlineFailed_KeepsPayload(r) ==
  /\ reply[r] = "permanent"
  /\ InlineUpdates(r)
  /\ status' = [status EXCEPT ![r] = "failed"]
  /\ attempts' = [attempts EXCEPT ![r] = tries[r]]
  /\ due' = [due EXCEPT ![r] = 0]
  /\ UNCHANGED <<payload, history>>

InlineFailed(r) ==
  /\ reply[r] = "permanent"
  /\ InlineUpdates(r)
  /\ IF Deleted(r) THEN UNCHANGED <<status, attempts, due, payload>>
     ELSE /\ status' = [status EXCEPT ![r] = "failed"]
          /\ attempts' = [attempts EXCEPT ![r] = tries[r]]
          /\ due' = [due EXCEPT ![r] = 0]
          /\ payload' = [payload EXCEPT ![r] = FALSE]
  /\ UNCHANGED history

(* Mistake: the give-up writes the status it means to leave. *)
InlineGivesUp_WritesPending(r) ==
  /\ Retryable(reply[r])
  /\ InlineUpdates(r)
  /\ status' = [status EXCEPT ![r] = "pending"]
  /\ attempts' = [attempts EXCEPT ![r] = tries[r]]
  /\ due' = [due EXCEPT ![r] = Backoff(tries[r])]
  /\ UNCHANGED <<payload, history>>

(* Mistake: the inline calls count as one attempt. *)
InlineGivesUp_CountsOne(r) ==
  /\ Retryable(reply[r])
  /\ InlineUpdates(r)
  /\ attempts' = [attempts EXCEPT ![r] = 1]
  /\ due' = [due EXCEPT ![r] = Backoff(1)]
  /\ UNCHANGED <<status, payload, history>>

(* A transient failure leaves status and payload as they are. *)
InlineGivesUp(r) ==
  /\ Retryable(reply[r])
  /\ InlineUpdates(r)
  /\ IF Deleted(r) THEN UNCHANGED <<attempts, due>>
     ELSE /\ attempts' = [attempts EXCEPT ![r] = tries[r]]
          /\ due' = [due EXCEPT ![r] = Backoff(tries[r])]
  /\ UNCHANGED <<status, payload, history>>

(* The process dies, or the update fails and is only logged: the row keeps   *)
(* its lease.                                                                *)
InlineLost(r) ==
  /\ SendInFlight(r)
  /\ Fault
  /\ sender' = [sender EXCEPT ![r] = "done"]
  /\ Forgotten(r, tries[r], IF sender[r] = "answered" THEN reply[r] ELSE None)
  /\ UNCHANGED <<row, age, live, tries, reply, worker>>
-----------------------------------------------------------------------------
(* drainOutbox *)

(* Mistake: the claim does not look at the row's provider. *)
Claimable_AnyProvider(d, r) ==
  /\ drain[d] = "idle"
  /\ status[r] = "pending" /\ due[r] = 0
  /\ ~Locked(r)

(* Mistake: the claim does not look at next_attempt_at. *)
Claimable_NotDue(d, r) ==
  /\ drain[d] = "idle"
  /\ status[r] = "pending"
  /\ provider[r] = DrainerProvider[d]
  /\ ~Locked(r)

(* The claim: a due pending row of this provider that no one has locked. *)
Claimable(d, r) ==
  /\ drain[d] = "idle"
  /\ status[r] = "pending" /\ due[r] = 0
  /\ provider[r] = DrainerProvider[d]
  /\ ~Locked(r)

(* A row that is not worth delivering ends without an attempt. *)
DrainDrops(d, r) ==
  /\ Claimable(d, r)
  /\ Expired(r) \/ ~LinkLive(r)
  /\ status' = [status EXCEPT ![r] = "failed"]
  /\ due' = [due EXCEPT ![r] = 0]
  /\ payload' = [payload EXCEPT ![r] = FALSE]
  /\ UNCHANGED <<provider, template, attempts, age, live, inline, worker, faults,
                 history>>

DrainCalls(d, r) ==
  /\ Claimable(d, r)
  /\ ~Expired(r) /\ LinkLive(r)
  /\ drain' = [drain EXCEPT ![d] = "calling"]
  /\ claimed' = [claimed EXCEPT ![d] = r]
  /\ CallsProvider(r, DrainerProvider[d])
  /\ UNCHANGED <<row, age, live, inline, answer, faults, uncounted, accepts,
                 unrecorded>>

DrainAnswer(d, x) ==
  /\ drain[d] = "calling"
  /\ drain' = [drain EXCEPT ![d] = "answered"]
  /\ answer' = [answer EXCEPT ![d] = x]
  /\ ProviderTakes(claimed[d], x)
  /\ UNCHANGED <<row, age, live, inline, claimed>>

(* The transaction's update and commit, which release the row. *)
DrainCommits(d) ==
  /\ drain[d] = "answered"
  /\ drain' = [drain EXCEPT ![d] = "idle"]
  /\ claimed' = [claimed EXCEPT ![d] = None]
  /\ answer' = [answer EXCEPT ![d] = None]
  /\ UNCHANGED <<provider, template, age, live, inline, faults, history>>

DrainSent(d) ==
  LET r == claimed[d] IN
  /\ answer[d] = "ok"
  /\ DrainCommits(d)
  /\ status' = [status EXCEPT ![r] = "sent"]
  /\ attempts' = [attempts EXCEPT ![r] = @ + 1]
  /\ due' = [due EXCEPT ![r] = 0]
  /\ payload' = [payload EXCEPT ![r] = FALSE]

Exhausted(r) == attempts[r] + 1 >= MaxAttempts

DrainRetries(d) ==
  LET r == claimed[d] IN
  /\ Retryable(answer[d]) /\ ~Exhausted(r)
  /\ DrainCommits(d)
  /\ attempts' = [attempts EXCEPT ![r] = @ + 1]
  /\ due' = [due EXCEPT ![r] = Backoff(attempts[r] + 1)]
  /\ UNCHANGED <<status, payload>>

DrainFails(d) ==
  LET r == claimed[d] IN
  /\ answer[d] = "permanent" \/ (Retryable(answer[d]) /\ Exhausted(r))
  /\ DrainCommits(d)
  /\ status' = [status EXCEPT ![r] = "failed"]
  /\ attempts' = [attempts EXCEPT ![r] = @ + 1]
  /\ due' = [due EXCEPT ![r] = 0]
  /\ payload' = [payload EXCEPT ![r] = FALSE]

(* The process dies or a statement fails: the transaction rolls back.  (After *)
(* a failed `sent` update the catch block's own update is refused too.)       *)
DrainRollsBack(d) ==
  /\ drain[d] # "idle"
  /\ Fault
  /\ drain' = [drain EXCEPT ![d] = "idle"]
  /\ claimed' = [claimed EXCEPT ![d] = None]
  /\ answer' = [answer EXCEPT ![d] = None]
  /\ Forgotten(claimed[d], 1, answer[d])
  /\ UNCHANGED <<row, age, live, inline>>
-----------------------------------------------------------------------------
(* Retention, time and the invitation behind a link *)

(* Mistake: a row that was attempted once is not taken for an orphan. *)
Sweep_OnlyUnattempted(r) ==
  /\ status[r] = "pending" /\ age[r] >= MaxPendingAge /\ attempts[r] = 0
  /\ ~Locked(r)
  /\ status' = [status EXCEPT ![r] = "failed"]
  /\ payload' = [payload EXCEPT ![r] = FALSE]
  /\ UNCHANGED <<provider, template, attempts, due, age, live, inline, worker,
                 faults, history>>

(* failStalePendingOutbox *)
Sweep(r) ==
  /\ status[r] = "pending" /\ age[r] >= MaxPendingAge
  /\ ~Locked(r)
  /\ status' = [status EXCEPT ![r] = "failed"]
  /\ payload' = [payload EXCEPT ![r] = FALSE]
  /\ UNCHANGED <<provider, template, attempts, due, age, live, inline, worker,
                 faults, history>>

(* pruneOutbox *)
Prune(r) ==
  /\ status[r] \in Terminal \cup {"logged"} /\ age[r] >= RetentionAge
  /\ ~Locked(r)
  /\ status' = [status EXCEPT ![r] = "gone"]
  /\ payload' = [payload EXCEPT ![r] = FALSE]
  /\ UNCHANGED <<provider, template, attempts, due, age, live, inline, worker,
                 faults, history>>

(* The invitation is revoked, resent, accepted or deleted. *)
Withdraw(r) ==
  /\ template[r] = "invitation" /\ live[r]
  /\ live' = [live EXCEPT ![r] = FALSE]
  /\ UNCHANGED <<row, age, inline, worker, faults, history>>

Tick ==
  /\ \E r \in Rows : status[r] # "none" /\ (age[r] < RetentionAge \/ due[r] > 0)
  /\ Prompt => \A r \in Rows : SendInFlight(r) => age[r] < Settle
  /\ age' = [r \in Rows |-> IF status[r] # "none" /\ age[r] < RetentionAge
                              THEN age[r] + 1 ELSE age[r]]
  /\ due' = [r \in Rows |-> IF due[r] > 0 THEN due[r] - 1 ELSE 0]
  /\ UNCHANGED <<status, provider, template, payload, attempts, live, inline,
                 worker, faults, history>>
-----------------------------------------------------------------------------
Inline(r) ==
  \/ \E x \in Replies : InlineAnswer(r, x)
  \/ InlineRetry(r) \/ InlineSent(r) \/ InlineFailed(r) \/ InlineGivesUp(r)

Drain(d) ==
  \/ \E x \in Replies : DrainAnswer(d, x)
  \/ DrainSent(d) \/ DrainRetries(d) \/ DrainFails(d)

Send(r) ==
  \E t \in Templates : SendLogged(r, t) \/ \E p \in Providers : SendInsert(r, t, p)

Next ==
  \/ \E r \in Rows : Send(r) \/ Inline(r) \/ InlineLost(r) \/ Sweep(r) \/ Prune(r)
                     \/ Withdraw(r)
  \/ \E d \in Drainers, r \in Rows : DrainDrops(d, r) \/ DrainCalls(d, r)
  \/ \E d \in Drainers : Drain(d) \/ DrainRollsBack(d)
  \/ Tick

Spec == Init /\ [][Next]_vars

(* Time passes, provider calls end (they time out), a started transaction    *)
(* ends, and retention and the drains keep being scheduled.  Nothing says    *)
(* the provider accepts anything, or that a drain of a row's provider exists. *)
Fairness ==
  /\ WF_vars(Tick)
  /\ \A r \in Rows : WF_vars(Inline(r)) /\ SF_vars(Sweep(r))
  /\ \A d \in Drainers : WF_vars(Drain(d))

FairSpec == Spec /\ Fairness
-----------------------------------------------------------------------------
(* Properties *)

(* While the inline send is at work no drain has the row, and two drains     *)
(* never have one row: the provider is asked by one caller at a time (F-101, *)
(* and the claim's FOR UPDATE SKIP LOCKED).                                  *)
OneCallerAtATime ==
  /\ \A d, e \in Drainers : claimed[d] # None /\ claimed[d] = claimed[e] => d = e
  /\ \A r \in Rows : ~(SendInFlight(r) /\ Locked(r))

(* The provider accepts a row a second time only after an acceptance that    *)
(* no row update recorded: a lost answer, a crash or a failed update.        *)
AcceptedOnceIfRecorded ==
  \A r \in Rows : accepts[r] <= unrecorded[r] + 1

(* The attempt cap bounds the provider calls of the inline send and of every *)
(* drain together, crashed callers aside (OUTBOX_MAX_ATTEMPTS).              *)
CallsWithinCap ==
  \A r \in Rows : calls[r] <= MaxAttempts + uncounted[r]

(* A row is never offered to two providers, so the key an idempotent         *)
(* provider dedupes on is always asked of the provider that saw it before.   *)
OneProviderPerRow ==
  \A r \in Rows : Cardinality(calledBy[r]) <= 1

(* The unredacted copy is there exactly as long as a delivery may need it:   *)
(* a retry never sends the redacted body, and no token outlives its row's    *)
(* delivery (review #21).                                                    *)
PayloadWhileNeeded ==
  \A r \in Rows :
    /\ status[r] = "pending" => payload[r] = Secret(template[r])
    /\ status[r] \in Terminal => ~payload[r]

(* A row that has been sent, failed or deleted is never queued again, even   *)
(* by an inline send that comes back after its lease.                        *)
NeverRequeued ==
  [][\A r \in Rows : status[r] \in Terminal \cup {"gone"} => status'[r] # "pending"]_vars

(* Every queued email ends sent or failed, whatever the provider answers and *)
(* even when no drain of its provider runs any more (audit #10).             *)
EveryRowSettles ==
  \A r \in Rows : status[r] = "pending" ~> status[r] \in Terminal \cup {"gone"}
-----------------------------------------------------------------------------
(* The inductive invariant of sends that settle in time *)

(* What a drain has claimed: one drain per row, and the row due and pending. *)
ClaimsHold ==
  /\ \A d \in Drainers : claimed[d] = None <=> drain[d] = "idle"
  /\ \A d, e \in Drainers : claimed[d] # None /\ claimed[d] = claimed[e] => d = e
  /\ \A r \in Rows : Locked(r) => status[r] = "pending" /\ due[r] = 0

(* A send in flight still has its lease. *)
LeasesHold ==
  \A r \in Rows : SendInFlight(r) =>
    /\ status[r] = "pending" /\ attempts[r] = 0
    /\ age[r] <= Settle /\ due[r] + age[r] = Lease

(* Calls made, against calls counted or under way. *)
Open(r) == IF SendInFlight(r) THEN tries[r] ELSE IF Locked(r) THEN 1 ELSE 0

CallsCounted ==
  \A r \in Rows :
    /\ calls[r] = attempts[r] + uncounted[r] + Open(r)
    /\ attempts[r] <= MaxAttempts
    /\ status[r] = "pending" => attempts[r] < MaxAttempts
    /\ status[r] = "none" => attempts[r] = 0 /\ age[r] = 0 /\ due[r] = 0

(* An acceptance its caller has heard of and not yet recorded. *)
InHand(r) ==
  \/ sender[r] = "answered" /\ reply[r] = "ok"
  \/ \E d \in Drainers : claimed[d] = r /\ answer[d] = "ok"

AcceptsCounted ==
  /\ \A r \in Rows :
       accepts[r] <= unrecorded[r] +
         (IF status[r] \in {"sent", "gone"} \/ InHand(r) THEN 1 ELSE 0)
  /\ \A d \in Drainers : drain[d] # "answered" => answer[d] = None

(* Together: what the rows record of the calls made for them is complete,    *)
(* faults aside, and a send in flight owns its row.                          *)
PromptBookkeeping ==
  ClaimsHold /\ LeasesHold /\ CallsCounted /\ AcceptsCounted
=============================================================================
