------------------------- MODULE OutboxPromptProofs -------------------------
(***************************************************************************)
(* Proofs about Outbox when an inline send settles before its lease ends   *)
(* (Prompt): the inductive invariant PromptBookkeeping, and what follows.  *)
(***************************************************************************)
EXTENDS OutboxProofs

(* A send in flight still has its lease, so no drain has its row. *)
LEMMA InFlightNotLocked ==
  ASSUME TypeOK, ClaimsHold, LeasesHold, NEW r \in Rows, SendInFlight(r)
  PROVE  ~Locked(r) /\ status[r] = "pending"
<1>1. due[r] \in Nat /\ age[r] \in Nat
  BY DEF TypeOK
<1>2. due[r] # 0
  BY <1>1, OutboxAssumption DEF LeasesHold
<1>3. QED
  BY <1>2 DEF ClaimsHold, LeasesHold

LEMMA ClaimsKept ==
  ASSUME TypeOK, ClaimsHold, [Next]_vars
  PROVE  ClaimsHold'
<1> USE OutboxAssumption
<1> USE DEF TypeOK, ClaimsHold, Locked, Terminal,
           row, inline, worker, history
<1>1. ASSUME NEW r \in Rows, NEW t \in Templates, SendLogged(r, t)
      PROVE ClaimsHold'
  BY <1>1 DEF SendLogged
<1>2. ASSUME NEW r \in Rows, NEW t \in Templates, NEW p \in Providers,
             SendInsert(r, t, p)
      PROVE ClaimsHold'
  BY <1>2 DEF SendInsert, CallsProvider
<1>3. ASSUME NEW r \in Rows, NEW x \in Replies, InlineAnswer(r, x)
      PROVE ClaimsHold'
  BY <1>3 DEF InlineAnswer, ProviderTakes, Fault
<1>4. ASSUME NEW r \in Rows, InlineRetry(r) PROVE ClaimsHold'
  BY <1>4 DEF InlineRetry, CallsProvider
<1>5. ASSUME NEW r \in Rows, InlineSent(r) PROVE ClaimsHold'
  <2>1. CASE Deleted(r)
    BY <1>5, <2>1 DEF InlineSent, InlineUpdates
  <2>2. CASE ~Deleted(r)
    BY <1>5, <2>2 DEF InlineSent, InlineUpdates
  <2>3. QED
    BY <2>1, <2>2
<1>6. ASSUME NEW r \in Rows, InlineFailed(r) PROVE ClaimsHold'
  <2>1. CASE Deleted(r)
    BY <1>6, <2>1 DEF InlineFailed, InlineUpdates
  <2>2. CASE ~Deleted(r)
    BY <1>6, <2>2 DEF InlineFailed, InlineUpdates
  <2>3. QED
    BY <2>1, <2>2
<1>7. ASSUME NEW r \in Rows, InlineGivesUp(r) PROVE ClaimsHold'
  BY <1>7 DEF InlineGivesUp, InlineUpdates
<1>8. ASSUME NEW r \in Rows, InlineLost(r) PROVE ClaimsHold'
  BY <1>8 DEF InlineLost, Forgotten, Fault
<1>9. ASSUME NEW r \in Rows, Sweep(r) PROVE ClaimsHold'
  BY <1>9 DEF Sweep
<1>10. ASSUME NEW r \in Rows, Prune(r) PROVE ClaimsHold'
  BY <1>10 DEF Prune
<1>11. ASSUME NEW r \in Rows, Withdraw(r) PROVE ClaimsHold'
  BY <1>11 DEF Withdraw
<1>12. ASSUME NEW d \in Drainers, NEW r \in Rows, DrainDrops(d, r)
       PROVE ClaimsHold'
  BY <1>12 DEF DrainDrops, Claimable
<1>13. ASSUME NEW d \in Drainers, NEW r \in Rows, DrainCalls(d, r)
       PROVE ClaimsHold'
  BY <1>13 DEF DrainCalls, CallsProvider, Claimable
<1>14. ASSUME NEW d \in Drainers, NEW x \in Replies, DrainAnswer(d, x)
       PROVE ClaimsHold'
  BY <1>14 DEF DrainAnswer, ProviderTakes, Fault
<1>15. ASSUME NEW d \in Drainers, DrainSent(d) PROVE ClaimsHold'
  BY <1>15 DEF DrainSent, DrainCommits
<1>16. ASSUME NEW d \in Drainers, DrainRetries(d) PROVE ClaimsHold'
  BY <1>16 DEF DrainRetries, DrainCommits
<1>17. ASSUME NEW d \in Drainers, DrainFails(d) PROVE ClaimsHold'
  BY <1>17 DEF DrainFails, DrainCommits
<1>18. ASSUME NEW d \in Drainers, DrainRollsBack(d) PROVE ClaimsHold'
  BY <1>18 DEF DrainRollsBack, Forgotten, Fault
<1>19. ASSUME Tick PROVE ClaimsHold'
  BY <1>19 DEF Tick
<1>20. CASE UNCHANGED vars
  BY <1>20 DEF vars
<1>21. QED
  <2> HIDE DEF TypeOK, ClaimsHold
  <2> QED
    BY <1>1, <1>2, <1>3, <1>4, <1>5, <1>6, <1>7, <1>8, <1>9, <1>10, <1>11, <1>12,
       <1>13, <1>14, <1>15, <1>16, <1>17, <1>18, <1>19, <1>20 DEF Next, Send,
       Inline, Drain

LEMMA LeasesKept ==
  ASSUME Prompt, TypeOK, ClaimsHold, LeasesHold, CallsCounted, [Next]_vars
  PROVE  LeasesHold'
<1> USE OutboxAssumption
<1> USE DEF TypeOK, ClaimsHold, LeasesHold, SendInFlight,
           row, inline, worker, history
<1>1. ASSUME NEW r \in Rows, NEW t \in Templates, SendLogged(r, t)
      PROVE LeasesHold'
  BY <1>1 DEF SendLogged, CallsCounted
<1>2. ASSUME NEW r \in Rows, NEW t \in Templates, NEW p \in Providers,
             SendInsert(r, t, p)
      PROVE LeasesHold'
  BY <1>2 DEF SendInsert, CallsProvider, CallsCounted
<1>3. ASSUME NEW r \in Rows, NEW x \in Replies, InlineAnswer(r, x)
      PROVE LeasesHold'
  BY <1>3 DEF InlineAnswer, ProviderTakes, Fault
<1>4. ASSUME NEW r \in Rows, InlineRetry(r) PROVE LeasesHold'
  BY <1>4 DEF InlineRetry, CallsProvider
<1>5. ASSUME NEW r \in Rows, InlineSent(r) PROVE LeasesHold'
  <2>1. CASE Deleted(r)
    BY <1>5, <2>1 DEF InlineSent, InlineUpdates
  <2>2. CASE ~Deleted(r)
    BY <1>5, <2>2 DEF InlineSent, InlineUpdates
  <2>3. QED
    BY <2>1, <2>2
<1>6. ASSUME NEW r \in Rows, InlineFailed(r) PROVE LeasesHold'
  <2>1. CASE Deleted(r)
    BY <1>6, <2>1 DEF InlineFailed, InlineUpdates
  <2>2. CASE ~Deleted(r)
    BY <1>6, <2>2 DEF InlineFailed, InlineUpdates
  <2>3. QED
    BY <2>1, <2>2
<1>7. ASSUME NEW r \in Rows, InlineGivesUp(r) PROVE LeasesHold'
  BY <1>7 DEF InlineGivesUp, InlineUpdates
<1>8. ASSUME NEW r \in Rows, InlineLost(r) PROVE LeasesHold'
  BY <1>8 DEF InlineLost, Forgotten, Fault
<1>9. ASSUME NEW r \in Rows, Sweep(r) PROVE LeasesHold'
  BY <1>9 DEF Sweep
<1>10. ASSUME NEW r \in Rows, Prune(r) PROVE LeasesHold'
  BY <1>10 DEF Prune
<1>11. ASSUME NEW r \in Rows, Withdraw(r) PROVE LeasesHold'
  BY <1>11 DEF Withdraw
<1>12. ASSUME NEW d \in Drainers, NEW r \in Rows, DrainDrops(d, r)
       PROVE LeasesHold'
  BY <1>12 DEF DrainDrops, Claimable
<1>13. ASSUME NEW d \in Drainers, NEW r \in Rows, DrainCalls(d, r)
       PROVE LeasesHold'
  BY <1>13 DEF DrainCalls, CallsProvider, Claimable
<1>14. ASSUME NEW d \in Drainers, NEW x \in Replies, DrainAnswer(d, x)
       PROVE LeasesHold'
  BY <1>14 DEF DrainAnswer, ProviderTakes, Fault
<1>15. ASSUME NEW d \in Drainers, DrainSent(d) PROVE LeasesHold'
  BY <1>15 DEF DrainSent, DrainCommits, Locked
<1>16. ASSUME NEW d \in Drainers, DrainRetries(d) PROVE LeasesHold'
  BY <1>16 DEF DrainRetries, DrainCommits, Locked
<1>17. ASSUME NEW d \in Drainers, DrainFails(d) PROVE LeasesHold'
  BY <1>17 DEF DrainFails, DrainCommits, Locked
<1>18. ASSUME NEW d \in Drainers, DrainRollsBack(d) PROVE LeasesHold'
  BY <1>18 DEF DrainRollsBack, Forgotten, Fault
<1>19. ASSUME Tick PROVE LeasesHold'
  <2> SUFFICES ASSUME NEW r \in Rows, SendInFlight(r)'
               PROVE  (/\ status[r] = "pending" /\ attempts[r] = 0
                       /\ age[r] <= Settle /\ due[r] + age[r] = Lease)'
    OBVIOUS
  <2>1. SendInFlight(r) /\ UNCHANGED <<status, attempts>>
    BY <1>19 DEF Tick
  <2>2. age[r] < Settle
    BY <1>19, <2>1 DEF Tick
  <2>3. /\ status[r] = "pending" /\ attempts[r] = 0 /\ due[r] + age[r] = Lease
        /\ age[r] \in Nat /\ due[r] \in Nat
    BY <2>1
  <2>4. due[r] > 0 /\ age[r] < RetentionAge
    BY <2>2, <2>3
  <2>5. age'[r] = age[r] + 1 /\ due'[r] = due[r] - 1
    BY <1>19, <2>3, <2>4 DEF Tick
  <2>6. QED
    <3> HIDE DEF TypeOK, ClaimsHold, LeasesHold, SendInFlight
    <3>1. age'[r] <= Settle /\ due'[r] + age'[r] = Lease
      BY <2>2, <2>3, <2>5
    <3>2. QED
      BY <2>1, <2>3, <3>1
<1>20. CASE UNCHANGED vars
  BY <1>20 DEF vars
<1>21. QED
  <2> HIDE DEF TypeOK, LeasesHold
  <2> QED
    BY <1>1, <1>2, <1>3, <1>4, <1>5, <1>6, <1>7, <1>8, <1>9, <1>10, <1>11, <1>12,
       <1>13, <1>14, <1>15, <1>16, <1>17, <1>18, <1>19, <1>20 DEF Next, Send,
       Inline, Drain

LEMMA CallsKept ==
  ASSUME TypeOK, ClaimsHold, LeasesHold, CallsCounted, [Next]_vars
  PROVE  CallsCounted'
<1> USE OutboxAssumption, InFlightNotLocked
<1> USE DEF TypeOK, ClaimsHold, LeasesHold, CallsCounted, Open, SendInFlight, Locked,
           row, inline, worker, history
<1>1. ASSUME NEW r \in Rows, NEW t \in Templates, SendLogged(r, t)
      PROVE CallsCounted'
  <2>1. ASSUME NEW q \in Rows PROVE Open(q)' = Open(q)
    BY <1>1 DEF SendLogged
  <2>2. QED
    <3> HIDE InFlightNotLocked DEF Locked, ClaimsHold, LeasesHold, Open
    <3> QED
      BY <1>1, <2>1 DEF SendLogged
<1>2. ASSUME NEW r \in Rows, NEW t \in Templates, NEW p \in Providers,
             SendInsert(r, t, p)
      PROVE CallsCounted'
  <2>1. Open(r) = 0 /\ Open(r)' = 1
    BY <1>2 DEF SendInsert
  <2>2. ASSUME NEW q \in Rows, q # r PROVE Open(q)' = Open(q)
    BY <1>2, <2>2 DEF SendInsert
  <2>3. QED
    <3> HIDE InFlightNotLocked DEF Locked, ClaimsHold, LeasesHold, Open
    <3> QED
      BY <1>2, <2>1, <2>2 DEF SendInsert, CallsProvider
<1>3. ASSUME NEW r \in Rows, NEW x \in Replies, InlineAnswer(r, x)
      PROVE CallsCounted'
  BY <1>3 DEF InlineAnswer, ProviderTakes, Fault
<1>4. ASSUME NEW r \in Rows, InlineRetry(r) PROVE CallsCounted'
  BY <1>4 DEF InlineRetry, CallsProvider
<1>5. ASSUME NEW r \in Rows, InlineSent(r) PROVE CallsCounted'
  <2>1. ~Deleted(r)
    BY <1>5 DEF InlineSent, InlineUpdates, Deleted
  <2>2. QED
    BY <1>5, <2>1 DEF InlineSent, InlineUpdates
<1>6. ASSUME NEW r \in Rows, InlineFailed(r) PROVE CallsCounted'
  <2>1. ~Deleted(r)
    BY <1>6 DEF InlineFailed, InlineUpdates, Deleted
  <2>2. QED
    BY <1>6, <2>1 DEF InlineFailed, InlineUpdates
<1>7. ASSUME NEW r \in Rows, InlineGivesUp(r) PROVE CallsCounted'
  <2>1. ~Deleted(r)
    BY <1>7 DEF InlineGivesUp, InlineUpdates, Deleted
  <2>2. QED
    BY <1>7, <2>1 DEF InlineGivesUp, InlineUpdates
<1>8. ASSUME NEW r \in Rows, InlineLost(r) PROVE CallsCounted'
  BY <1>8 DEF InlineLost, Forgotten, Fault
<1>9. ASSUME NEW r \in Rows, Sweep(r) PROVE CallsCounted'
  BY <1>9 DEF Sweep
<1>10. ASSUME NEW r \in Rows, Prune(r) PROVE CallsCounted'
  BY <1>10 DEF Prune
<1>11. ASSUME NEW r \in Rows, Withdraw(r) PROVE CallsCounted'
  BY <1>11 DEF Withdraw
<1>12. ASSUME NEW d \in Drainers, NEW r \in Rows, DrainDrops(d, r)
       PROVE CallsCounted'
  BY <1>12 DEF DrainDrops, Claimable
<1>13. ASSUME NEW d \in Drainers, NEW r \in Rows, DrainCalls(d, r)
       PROVE CallsCounted'
  BY <1>13 DEF DrainCalls, CallsProvider, Claimable
<1>14. ASSUME NEW d \in Drainers, NEW x \in Replies, DrainAnswer(d, x)
       PROVE CallsCounted'
  BY <1>14 DEF DrainAnswer, ProviderTakes, Fault
<1>15. ASSUME NEW d \in Drainers, DrainSent(d) PROVE CallsCounted'
  <2>1. PICK r \in Rows : claimed[d] = r /\ Locked(r)
    BY <1>15 DEF DrainSent, DrainCommits
  <2>2. ~SendInFlight(r) /\ status[r] = "pending"
    BY <2>1
  <2>3. ASSUME NEW q \in Rows, q # r PROVE Open(q)' = Open(q)
    BY <1>15, <2>1, <2>3 DEF DrainSent, DrainCommits
  <2>4. Open(r) = 1 /\ Open(r)' = 0
    BY <1>15, <2>1, <2>2 DEF DrainSent, DrainCommits
  <2>5. QED
    <3> HIDE InFlightNotLocked DEF Locked, ClaimsHold, LeasesHold, Open
    <3>1. UNCHANGED <<calls, uncounted, age>>
      BY <1>15 DEF DrainSent, DrainCommits
    <3>2. /\ attempts' = [attempts EXCEPT ![r] = @ + 1]
          /\ status' = [status EXCEPT ![r] = "sent"]
          /\ due' = [due EXCEPT ![r] = 0]
      BY <1>15, <2>1 DEF DrainSent
    <3>3. QED
      BY <2>2, <2>3, <2>4, <3>1, <3>2
<1>16. ASSUME NEW d \in Drainers, DrainRetries(d) PROVE CallsCounted'
  <2>1. PICK r \in Rows : claimed[d] = r /\ Locked(r)
    BY <1>16 DEF DrainRetries, DrainCommits
  <2>2. ~SendInFlight(r) /\ status[r] = "pending"
    BY <2>1
  <2>3. ASSUME NEW q \in Rows, q # r PROVE Open(q)' = Open(q)
    BY <1>16, <2>1, <2>3 DEF DrainRetries, DrainCommits
  <2>4. Open(r) = 1 /\ Open(r)' = 0
    BY <1>16, <2>1, <2>2 DEF DrainRetries, DrainCommits
  <2>5. QED
    <3> HIDE InFlightNotLocked DEF Locked, ClaimsHold, LeasesHold, Open
    <3> QED
      BY <1>16, <2>1, <2>2, <2>3, <2>4 DEF DrainRetries, DrainCommits, Exhausted
<1>17. ASSUME NEW d \in Drainers, DrainFails(d) PROVE CallsCounted'
  BY <1>17 DEF DrainFails, DrainCommits
<1>18. ASSUME NEW d \in Drainers, DrainRollsBack(d) PROVE CallsCounted'
  BY <1>18 DEF DrainRollsBack, Forgotten, Fault
<1>19. ASSUME Tick PROVE CallsCounted'
  BY <1>19 DEF Tick
<1>20. CASE UNCHANGED vars
  BY <1>20 DEF vars
<1>21. QED
  <2> HIDE DEF TypeOK, CallsCounted
  <2> QED
    BY <1>1, <1>2, <1>3, <1>4, <1>5, <1>6, <1>7, <1>8, <1>9, <1>10, <1>11, <1>12,
       <1>13, <1>14, <1>15, <1>16, <1>17, <1>18, <1>19, <1>20 DEF Next, Send,
       Inline, Drain

LEMMA AcceptsKept ==
  ASSUME TypeOK, ClaimsHold, LeasesHold, AcceptsCounted, [Next]_vars
  PROVE  AcceptsCounted'
<1> USE OutboxAssumption, InFlightNotLocked
<1> USE DEF TypeOK, ClaimsHold, LeasesHold, AcceptsCounted, InHand, SendInFlight, Locked,
           Accepted, Retryable, row, inline, worker, history
<1>1. ASSUME NEW r \in Rows, NEW t \in Templates, SendLogged(r, t)
      PROVE AcceptsCounted'
  BY <1>1 DEF SendLogged
<1>2. ASSUME NEW r \in Rows, NEW t \in Templates, NEW p \in Providers,
             SendInsert(r, t, p)
      PROVE AcceptsCounted'
  BY <1>2 DEF SendInsert, CallsProvider
<1>3. ASSUME NEW r \in Rows, NEW x \in Replies, InlineAnswer(r, x)
      PROVE AcceptsCounted'
  BY <1>3 DEF InlineAnswer, ProviderTakes, Fault
<1>4. ASSUME NEW r \in Rows, InlineRetry(r) PROVE AcceptsCounted'
  BY <1>4 DEF InlineRetry, CallsProvider
<1>5. ASSUME NEW r \in Rows, InlineSent(r) PROVE AcceptsCounted'
  <2>1. ~Deleted(r)
    BY <1>5 DEF InlineSent, InlineUpdates, Deleted
  <2>2. QED
    BY <1>5, <2>1 DEF InlineSent, InlineUpdates
<1>6. ASSUME NEW r \in Rows, InlineFailed(r) PROVE AcceptsCounted'
  <2>1. ~Deleted(r)
    BY <1>6 DEF InlineFailed, InlineUpdates, Deleted
  <2>2. QED
    BY <1>6, <2>1 DEF InlineFailed, InlineUpdates
<1>7. ASSUME NEW r \in Rows, InlineGivesUp(r) PROVE AcceptsCounted'
  BY <1>7 DEF InlineGivesUp, InlineUpdates
<1>8. ASSUME NEW r \in Rows, InlineLost(r) PROVE AcceptsCounted'
  BY <1>8 DEF InlineLost, Forgotten, Fault
<1>9. ASSUME NEW r \in Rows, Sweep(r) PROVE AcceptsCounted'
  BY <1>9 DEF Sweep
<1>10. ASSUME NEW r \in Rows, Prune(r) PROVE AcceptsCounted'
  BY <1>10 DEF Prune
<1>11. ASSUME NEW r \in Rows, Withdraw(r) PROVE AcceptsCounted'
  BY <1>11 DEF Withdraw
<1>12. ASSUME NEW d \in Drainers, NEW r \in Rows, DrainDrops(d, r)
       PROVE AcceptsCounted'
  BY <1>12 DEF DrainDrops, Claimable
<1>13. ASSUME NEW d \in Drainers, NEW r \in Rows, DrainCalls(d, r)
       PROVE AcceptsCounted'
  BY <1>13 DEF DrainCalls, CallsProvider, Claimable
<1>14. ASSUME NEW d \in Drainers, NEW x \in Replies, DrainAnswer(d, x)
       PROVE AcceptsCounted'
  <2>1. PICK r \in Rows : claimed[d] = r /\ Locked(r)
    BY <1>14 DEF DrainAnswer
  <2>2. ~SendInFlight(r) /\ status[r] = "pending"
    BY <2>1
  <2>3. ~InHand(r) /\ (x = "ok" => InHand(r)')
    BY <1>14, <2>1, <2>2 DEF DrainAnswer, Replies
  <2>4. ASSUME NEW q \in Rows, q # r PROVE InHand(q)' <=> InHand(q)
    <3>1. \A e \in Drainers : claimed[e] = q => e # d /\ answer'[e] = answer[e]
      BY <1>14, <2>1, <2>4 DEF DrainAnswer
    <3>2. UNCHANGED <<sender, reply, claimed>>
      BY <1>14 DEF DrainAnswer
    <3>3. QED
      BY <3>1, <3>2
  <2>5. QED
    <3> HIDE InFlightNotLocked DEF InHand, Locked, ClaimsHold, LeasesHold
    <3> QED
      BY <1>14, <2>1, <2>2, <2>3, <2>4 DEF DrainAnswer, ProviderTakes, Fault
<1>15. ASSUME NEW d \in Drainers, DrainSent(d) PROVE AcceptsCounted'
  BY <1>15 DEF DrainSent, DrainCommits
<1>16. ASSUME NEW d \in Drainers, DrainRetries(d) PROVE AcceptsCounted'
  BY <1>16 DEF DrainRetries, DrainCommits
<1>17. ASSUME NEW d \in Drainers, DrainFails(d) PROVE AcceptsCounted'
  BY <1>17 DEF DrainFails, DrainCommits
<1>18. ASSUME NEW d \in Drainers, DrainRollsBack(d) PROVE AcceptsCounted'
  BY <1>18 DEF DrainRollsBack, Forgotten, Fault
<1>19. ASSUME Tick PROVE AcceptsCounted'
  BY <1>19 DEF Tick
<1>20. CASE UNCHANGED vars
  BY <1>20 DEF vars
<1>21. QED
  <2> HIDE DEF TypeOK, AcceptsCounted
  <2> QED
    BY <1>1, <1>2, <1>3, <1>4, <1>5, <1>6, <1>7, <1>8, <1>9, <1>10, <1>11, <1>12,
       <1>13, <1>14, <1>15, <1>16, <1>17, <1>18, <1>19, <1>20 DEF Next, Send,
       Inline, Drain
-----------------------------------------------------------------------------
(* With sends that settle in time, what the rows record of the calls made    *)
(* for them is complete and a send in flight owns its row.                   *)
THEOREM BookkeepingHolds == ASSUME Prompt PROVE Spec => []PromptBookkeeping
<1>1. Init => PromptBookkeeping
  BY OutboxAssumption
  DEF Init, PromptBookkeeping, ClaimsHold, LeasesHold, CallsCounted, AcceptsCounted,
      Open, InHand, SendInFlight, Locked
<1>2. TypeOK /\ PromptBookkeeping /\ [Next]_vars => PromptBookkeeping'
  BY ClaimsKept, LeasesKept, CallsKept, AcceptsKept DEF PromptBookkeeping
<1>3. QED
  BY <1>1, <1>2, TypesHold, PTL DEF Spec

(* F-101: the lease keeps the drain off a row whose inline send is at work,  *)
(* and SKIP LOCKED keeps two drains apart.                                   *)
THEOREM OneCaller == ASSUME Prompt PROVE Spec => []OneCallerAtATime
<1>1. TypeOK /\ PromptBookkeeping => OneCallerAtATime
  <2> SUFFICES ASSUME TypeOK, ClaimsHold, LeasesHold PROVE OneCallerAtATime
    BY DEF PromptBookkeeping
  <2> QED
    BY InFlightNotLocked DEF OneCallerAtATime, ClaimsHold
<1>2. QED
  BY <1>1, BookkeepingHolds, TypesHold, PTL

(* The provider accepts a row a second time only after an acceptance nobody  *)
(* recorded, for any number of drains, retries and faults.                   *)
THEOREM AcceptedOnce == ASSUME Prompt PROVE Spec => []AcceptedOnceIfRecorded
<1>1. TypeOK /\ PromptBookkeeping => AcceptedOnceIfRecorded
  BY DEF TypeOK, PromptBookkeeping, AcceptsCounted, AcceptedOnceIfRecorded
<1>2. QED
  BY <1>1, BookkeepingHolds, TypesHold, PTL

(* OUTBOX_MAX_ATTEMPTS bounds the calls of the inline send and of all drains *)
(* together, those of crashed callers aside.                                 *)
THEOREM CapHolds == ASSUME Prompt PROVE Spec => []CallsWithinCap
<1>1. TypeOK /\ PromptBookkeeping => CallsWithinCap
  <2> SUFFICES ASSUME TypeOK, ClaimsHold, LeasesHold, CallsCounted, NEW r \in Rows
               PROVE  calls[r] <= MaxAttempts + uncounted[r]
    BY DEF PromptBookkeeping, CallsWithinCap
  <2>1. attempts[r] + Open(r) <= MaxAttempts
    BY OutboxAssumption DEF TypeOK, ClaimsHold, LeasesHold, CallsCounted, Open
  <2>2. Open(r) \in Nat
    BY DEF TypeOK, Open
  <2>3. QED
    BY <2>1, <2>2, OutboxAssumption DEF CallsCounted, TypeOK
<1>2. QED
  BY <1>1, BookkeepingHolds, TypesHold, PTL
=============================================================================
