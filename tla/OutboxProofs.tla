---------------------------- MODULE OutboxProofs ----------------------------
(* Proofs about Outbox. *)
EXTENDS Outbox, FiniteSetTheorems, TLAPS

(* A send in flight knows the provider its row was inserted for, and a drain *)
(* at work has claimed a row.                                                *)
CallersKnowTheirRow ==
  /\ \A r \in Rows : SendInFlight(r) => provider[r] \in Providers /\ status[r] # "none"
  /\ \A d \in Drainers : claimed[d] = None <=> drain[d] = "idle"

LEMMA TypesKept ==
  ASSUME TypeOK, CallersKnowTheirRow, [Next]_vars
  PROVE  TypeOK' /\ CallersKnowTheirRow'
<1> USE OutboxAssumption
<1> USE DEF TypeOK, CallersKnowTheirRow, SendInFlight, Terminal, Replies,
           row, inline, worker, history
<1>1. ASSUME NEW r \in Rows, NEW t \in Templates, SendLogged(r, t)
      PROVE TypeOK' /\ CallersKnowTheirRow'
  BY <1>1 DEF SendLogged, Secret
<1>2. ASSUME NEW r \in Rows, NEW t \in Templates, NEW p \in Providers,
             SendInsert(r, t, p)
      PROVE TypeOK' /\ CallersKnowTheirRow'
  BY <1>2 DEF SendInsert, CallsProvider, Secret
<1>3. ASSUME NEW r \in Rows, NEW x \in Replies, InlineAnswer(r, x)
      PROVE TypeOK' /\ CallersKnowTheirRow'
  BY <1>3 DEF InlineAnswer, ProviderTakes, Fault
<1>4. ASSUME NEW r \in Rows, InlineRetry(r) PROVE TypeOK' /\ CallersKnowTheirRow'
  BY <1>4 DEF InlineRetry, CallsProvider
<1>5. ASSUME NEW r \in Rows, InlineSent(r) PROVE TypeOK' /\ CallersKnowTheirRow'
  <2>1. CASE Deleted(r)
    BY <1>5, <2>1 DEF InlineSent, InlineUpdates
  <2>2. CASE ~Deleted(r)
    <3>1. tries[r] \in Nat
      OBVIOUS
    <3>2. attempts' \in [Rows -> Nat]
      BY <1>5, <2>2, <3>1 DEF InlineSent
    <3>3. payload' \in [Rows -> BOOLEAN]
      BY <1>5, <2>2 DEF InlineSent
    <3>4. due' \in [Rows -> Nat] /\ status' = [status EXCEPT ![r] = "sent"]
      BY <1>5, <2>2 DEF InlineSent
    <3>5. /\ sender' = [sender EXCEPT ![r] = "done"]
          /\ UNCHANGED <<provider, template, age, live, tries, reply, worker, faults, history>>
      BY <1>5 DEF InlineSent, InlineUpdates
    <3>6. CallersKnowTheirRow'
      BY <3>4, <3>5
    <3>7. QED
      BY <3>2, <3>3, <3>4, <3>5, <3>6
  <2>3. QED
    BY <2>1, <2>2
<1>6. ASSUME NEW r \in Rows, InlineFailed(r) PROVE TypeOK' /\ CallersKnowTheirRow'
  <2>1. CASE Deleted(r)
    BY <1>6, <2>1 DEF InlineFailed, InlineUpdates
  <2>2. CASE ~Deleted(r)
    <3>1. tries[r] \in Nat
      OBVIOUS
    <3>2. attempts' \in [Rows -> Nat]
      BY <1>6, <2>2, <3>1 DEF InlineFailed
    <3>3. payload' \in [Rows -> BOOLEAN]
      BY <1>6, <2>2 DEF InlineFailed
    <3>4. due' \in [Rows -> Nat] /\ status' = [status EXCEPT ![r] = "failed"]
      BY <1>6, <2>2 DEF InlineFailed
    <3>5. /\ sender' = [sender EXCEPT ![r] = "done"]
          /\ UNCHANGED <<provider, template, age, live, tries, reply, worker, faults, history>>
      BY <1>6 DEF InlineFailed, InlineUpdates
    <3>6. CallersKnowTheirRow'
      BY <3>4, <3>5
    <3>7. QED
      BY <3>2, <3>3, <3>4, <3>5, <3>6
  <2>3. QED
    BY <2>1, <2>2
<1>7. ASSUME NEW r \in Rows, InlineGivesUp(r) PROVE TypeOK' /\ CallersKnowTheirRow'
  BY <1>7 DEF InlineGivesUp, InlineUpdates
<1>8. ASSUME NEW r \in Rows, InlineLost(r) PROVE TypeOK' /\ CallersKnowTheirRow'
  BY <1>8 DEF InlineLost, Forgotten, Fault
<1>9. ASSUME NEW r \in Rows, Sweep(r) PROVE TypeOK' /\ CallersKnowTheirRow'
  BY <1>9 DEF Sweep
<1>10. ASSUME NEW r \in Rows, Prune(r) PROVE TypeOK' /\ CallersKnowTheirRow'
  BY <1>10 DEF Prune
<1>11. ASSUME NEW r \in Rows, Withdraw(r) PROVE TypeOK' /\ CallersKnowTheirRow'
  BY <1>11 DEF Withdraw
<1>12. ASSUME NEW d \in Drainers, NEW r \in Rows, DrainDrops(d, r)
       PROVE TypeOK' /\ CallersKnowTheirRow'
  BY <1>12 DEF DrainDrops
<1>13. ASSUME NEW d \in Drainers, NEW r \in Rows, DrainCalls(d, r)
       PROVE TypeOK' /\ CallersKnowTheirRow'
  BY <1>13 DEF DrainCalls, CallsProvider
<1>14. ASSUME NEW d \in Drainers, NEW x \in Replies, DrainAnswer(d, x)
       PROVE TypeOK' /\ CallersKnowTheirRow'
  BY <1>14 DEF DrainAnswer, ProviderTakes, Fault
<1>15. ASSUME NEW d \in Drainers, DrainSent(d) PROVE TypeOK' /\ CallersKnowTheirRow'
  BY <1>15 DEF DrainSent, DrainCommits
<1>16. ASSUME NEW d \in Drainers, DrainRetries(d) PROVE TypeOK' /\ CallersKnowTheirRow'
  BY <1>16 DEF DrainRetries, DrainCommits, Exhausted
<1>17. ASSUME NEW d \in Drainers, DrainFails(d) PROVE TypeOK' /\ CallersKnowTheirRow'
  BY <1>17 DEF DrainFails, DrainCommits
<1>18. ASSUME NEW d \in Drainers, DrainRollsBack(d) PROVE TypeOK' /\ CallersKnowTheirRow'
  BY <1>18 DEF DrainRollsBack, Forgotten, Fault
<1>19. ASSUME Tick PROVE TypeOK' /\ CallersKnowTheirRow'
  BY <1>19 DEF Tick
<1>20. CASE UNCHANGED vars
  BY <1>20 DEF vars
<1>21. QED
  <2> HIDE DEF TypeOK, CallersKnowTheirRow
  <2> QED
    BY <1>1, <1>2, <1>3, <1>4, <1>5, <1>6, <1>7, <1>8, <1>9, <1>10, <1>11, <1>12,
       <1>13, <1>14, <1>15, <1>16, <1>17, <1>18, <1>19, <1>20 DEF Next, Send,
       Inline, Drain

LEMMA TypesHold == Spec => [](TypeOK /\ CallersKnowTheirRow)
<1>1. Init => TypeOK /\ CallersKnowTheirRow
  BY OutboxAssumption
  DEF Init, TypeOK, CallersKnowTheirRow, SendInFlight, Templates, Terminal, Replies
<1>2. QED
  BY <1>1, TypesKept, PTL DEF Spec

(* Type correctness: every handler of the outbox writes values of the types *)
(* of the columns, whatever the callers do and however long a send takes.   *)
THEOREM TypeCorrect == Spec => []TypeOK
BY TypesHold, PTL
-----------------------------------------------------------------------------
(* The unredacted copy of a token email exists exactly while a delivery may  *)
(* need it, for any number of rows and drains and with no assumption on how  *)
(* fast a send is: each terminal write of send.server.ts, of the drain and   *)
(* of retention clears it, and no other write touches it.                    *)
THEOREM PayloadKept == Spec => []PayloadWhileNeeded
<1>1. Init => PayloadWhileNeeded
  BY DEF Init, PayloadWhileNeeded, Terminal
<1>2. TypeOK /\ PayloadWhileNeeded /\ [Next]_vars => PayloadWhileNeeded'
  <2> SUFFICES ASSUME TypeOK, PayloadWhileNeeded, [Next]_vars
               PROVE  PayloadWhileNeeded'
    OBVIOUS
  <2> USE DEF TypeOK, PayloadWhileNeeded, Terminal, row, inline, worker, history
  <2>1. ASSUME NEW r \in Rows, NEW t \in Templates, SendLogged(r, t)
        PROVE PayloadWhileNeeded'
    BY <2>1 DEF SendLogged, Secret
  <2>2. ASSUME NEW r \in Rows, NEW t \in Templates, NEW p \in Providers,
             SendInsert(r, t, p)
        PROVE PayloadWhileNeeded'
    BY <2>2 DEF SendInsert, CallsProvider, Secret
  <2>3. ASSUME NEW r \in Rows, NEW x \in Replies, InlineAnswer(r, x)
        PROVE PayloadWhileNeeded'
    BY <2>3 DEF InlineAnswer, ProviderTakes, Fault
  <2>4. ASSUME NEW r \in Rows, InlineRetry(r) PROVE PayloadWhileNeeded'
    BY <2>4 DEF InlineRetry, CallsProvider
  <2>5. ASSUME NEW r \in Rows, InlineSent(r) PROVE PayloadWhileNeeded'
    <3>1. CASE Deleted(r)
      BY <2>5, <3>1 DEF InlineSent, InlineUpdates
    <3>2. CASE ~Deleted(r)
      BY <2>5, <3>2 DEF InlineSent, InlineUpdates
    <3>3. QED
      BY <3>1, <3>2
  <2>6. ASSUME NEW r \in Rows, InlineFailed(r) PROVE PayloadWhileNeeded'
    <3>1. CASE Deleted(r)
      BY <2>6, <3>1 DEF InlineFailed, InlineUpdates
    <3>2. CASE ~Deleted(r)
      BY <2>6, <3>2 DEF InlineFailed, InlineUpdates
    <3>3. QED
      BY <3>1, <3>2
  <2>7. ASSUME NEW r \in Rows, InlineGivesUp(r) PROVE PayloadWhileNeeded'
    BY <2>7 DEF InlineGivesUp, InlineUpdates
  <2>8. ASSUME NEW r \in Rows, InlineLost(r) PROVE PayloadWhileNeeded'
    BY <2>8 DEF InlineLost, Forgotten, Fault
  <2>9. ASSUME NEW r \in Rows, Sweep(r) PROVE PayloadWhileNeeded'
    BY <2>9 DEF Sweep
  <2>10. ASSUME NEW r \in Rows, Prune(r) PROVE PayloadWhileNeeded'
    BY <2>10 DEF Prune
  <2>11. ASSUME NEW r \in Rows, Withdraw(r) PROVE PayloadWhileNeeded'
    BY <2>11 DEF Withdraw
  <2>12. ASSUME NEW d \in Drainers, NEW r \in Rows, DrainDrops(d, r)
         PROVE PayloadWhileNeeded'
    BY <2>12 DEF DrainDrops
  <2>13. ASSUME NEW d \in Drainers, NEW r \in Rows, DrainCalls(d, r)
         PROVE PayloadWhileNeeded'
    BY <2>13 DEF DrainCalls, CallsProvider
  <2>14. ASSUME NEW d \in Drainers, NEW x \in Replies, DrainAnswer(d, x)
         PROVE PayloadWhileNeeded'
    BY <2>14 DEF DrainAnswer, ProviderTakes, Fault
  <2>15. ASSUME NEW d \in Drainers, DrainSent(d) PROVE PayloadWhileNeeded'
    BY <2>15 DEF DrainSent, DrainCommits
  <2>16. ASSUME NEW d \in Drainers, DrainRetries(d) PROVE PayloadWhileNeeded'
    BY <2>16 DEF DrainRetries, DrainCommits
  <2>17. ASSUME NEW d \in Drainers, DrainFails(d) PROVE PayloadWhileNeeded'
    BY <2>17 DEF DrainFails, DrainCommits
  <2>18. ASSUME NEW d \in Drainers, DrainRollsBack(d) PROVE PayloadWhileNeeded'
    BY <2>18 DEF DrainRollsBack, Forgotten, Fault
  <2>19. ASSUME Tick PROVE PayloadWhileNeeded'
    BY <2>19 DEF Tick
  <2>20. CASE UNCHANGED vars
    BY <2>20 DEF vars
  <2>21. QED
    <3> HIDE DEF TypeOK, PayloadWhileNeeded
    <3> QED
      BY <2>1, <2>2, <2>3, <2>4, <2>5, <2>6, <2>7, <2>8, <2>9, <2>10, <2>11,
         <2>12, <2>13, <2>14, <2>15, <2>16, <2>17, <2>18, <2>19, <2>20 DEF Next,
         Send, Inline, Drain
<1>3. QED
  BY <1>1, <1>2, TypesHold, PTL DEF Spec

(* No handler puts a row that was sent, failed or deleted back in the queue, *)
(* a late inline send included: its give-up update leaves the status alone.  *)
THEOREM NotRequeued == Spec => NeverRequeued
<1>1. TypeOK /\ [Next]_vars =>
        [\A r \in Rows : status[r] \in Terminal \cup {"gone"} => status'[r] # "pending"]_vars
  <2> DEFINE Kept == \A r \in Rows :
                       status[r] \in Terminal \cup {"gone"} => status'[r] # "pending"
  <2> SUFFICES ASSUME TypeOK, [Next]_vars PROVE Kept \/ UNCHANGED vars
    OBVIOUS
  <2> USE DEF TypeOK, Terminal, row, inline, worker, history
  <2>1. ASSUME NEW r \in Rows, NEW t \in Templates, SendLogged(r, t)
        PROVE Kept
    BY <2>1 DEF SendLogged
  <2>2. ASSUME NEW r \in Rows, NEW t \in Templates, NEW p \in Providers,
             SendInsert(r, t, p)
        PROVE Kept
    BY <2>2 DEF SendInsert, CallsProvider
  <2>3. ASSUME NEW r \in Rows, NEW x \in Replies, InlineAnswer(r, x)
        PROVE Kept
    BY <2>3 DEF InlineAnswer, ProviderTakes, Fault
  <2>4. ASSUME NEW r \in Rows, InlineRetry(r) PROVE Kept
    BY <2>4 DEF InlineRetry, CallsProvider
  <2>5. ASSUME NEW r \in Rows, InlineSent(r) PROVE Kept
    <3>1. CASE Deleted(r)
      BY <2>5, <3>1 DEF InlineSent, InlineUpdates
    <3>2. CASE ~Deleted(r)
      BY <2>5, <3>2 DEF InlineSent, InlineUpdates
    <3>3. QED
      BY <3>1, <3>2
  <2>6. ASSUME NEW r \in Rows, InlineFailed(r) PROVE Kept
    <3>1. CASE Deleted(r)
      BY <2>6, <3>1 DEF InlineFailed, InlineUpdates
    <3>2. CASE ~Deleted(r)
      BY <2>6, <3>2 DEF InlineFailed, InlineUpdates
    <3>3. QED
      BY <3>1, <3>2
  <2>7. ASSUME NEW r \in Rows, InlineGivesUp(r) PROVE Kept
    BY <2>7 DEF InlineGivesUp, InlineUpdates
  <2>8. ASSUME NEW r \in Rows, InlineLost(r) PROVE Kept
    BY <2>8 DEF InlineLost, Forgotten, Fault
  <2>9. ASSUME NEW r \in Rows, Sweep(r) PROVE Kept
    BY <2>9 DEF Sweep
  <2>10. ASSUME NEW r \in Rows, Prune(r) PROVE Kept
    BY <2>10 DEF Prune
  <2>11. ASSUME NEW r \in Rows, Withdraw(r) PROVE Kept
    BY <2>11 DEF Withdraw
  <2>12. ASSUME NEW d \in Drainers, NEW r \in Rows, DrainDrops(d, r)
         PROVE Kept
    BY <2>12 DEF DrainDrops
  <2>13. ASSUME NEW d \in Drainers, NEW r \in Rows, DrainCalls(d, r)
         PROVE Kept
    BY <2>13 DEF DrainCalls, CallsProvider
  <2>14. ASSUME NEW d \in Drainers, NEW x \in Replies, DrainAnswer(d, x)
         PROVE Kept
    BY <2>14 DEF DrainAnswer, ProviderTakes, Fault
  <2>15. ASSUME NEW d \in Drainers, DrainSent(d) PROVE Kept
    BY <2>15 DEF DrainSent, DrainCommits
  <2>16. ASSUME NEW d \in Drainers, DrainRetries(d) PROVE Kept
    BY <2>16 DEF DrainRetries, DrainCommits
  <2>17. ASSUME NEW d \in Drainers, DrainFails(d) PROVE Kept
    BY <2>17 DEF DrainFails, DrainCommits
  <2>18. ASSUME NEW d \in Drainers, DrainRollsBack(d) PROVE Kept
    BY <2>18 DEF DrainRollsBack, Forgotten, Fault
  <2>19. ASSUME Tick PROVE Kept
    BY <2>19 DEF Tick
  <2>20. CASE UNCHANGED vars
    BY <2>20 DEF vars
  <2>21. QED
    <3> HIDE DEF TypeOK, Kept
    <3> QED
      BY <2>1, <2>2, <2>3, <2>4, <2>5, <2>6, <2>7, <2>8, <2>9, <2>10, <2>11,
         <2>12, <2>13, <2>14, <2>15, <2>16, <2>17, <2>18, <2>19, <2>20 DEF Next,
         Send, Inline, Drain
<1>2. QED
  BY <1>1, TypesHold, PTL DEF Spec, NeverRequeued
-----------------------------------------------------------------------------
(* The providers asked about a row are at most the one it was inserted for. *)
OnlyItsProvider ==
  \A r \in Rows : /\ calledBy[r] \subseteq {provider[r]}
                  /\ status[r] = "none" => calledBy[r] = {}

(* A row is never offered to two providers, also when EMAIL_PROVIDER is      *)
(* switched under it and a send outlives its lease: the claim compares       *)
(* providers, and a row's provider never changes.                            *)
THEOREM ProviderNeverSwitched == Spec => []OneProviderPerRow
<1>1. Init => OnlyItsProvider
  BY DEF Init, OnlyItsProvider
<1>2. TypeOK /\ CallersKnowTheirRow /\ OnlyItsProvider /\ [Next]_vars => OnlyItsProvider'
  <2> SUFFICES ASSUME TypeOK, CallersKnowTheirRow, OnlyItsProvider, [Next]_vars
               PROVE  OnlyItsProvider'
    OBVIOUS
  <2> USE DEF TypeOK, CallersKnowTheirRow, OnlyItsProvider, SendInFlight, Terminal,
           row, inline, worker, history
  <2>1. ASSUME NEW r \in Rows, NEW t \in Templates, SendLogged(r, t)
        PROVE OnlyItsProvider'
    BY <2>1 DEF SendLogged
  <2>2. ASSUME NEW r \in Rows, NEW t \in Templates, NEW p \in Providers,
             SendInsert(r, t, p)
        PROVE OnlyItsProvider'
    BY <2>2 DEF SendInsert, CallsProvider
  <2>3. ASSUME NEW r \in Rows, NEW x \in Replies, InlineAnswer(r, x)
        PROVE OnlyItsProvider'
    BY <2>3 DEF InlineAnswer, ProviderTakes, Fault
  <2>4. ASSUME NEW r \in Rows, InlineRetry(r) PROVE OnlyItsProvider'
    BY <2>4 DEF InlineRetry, CallsProvider
  <2>5. ASSUME NEW r \in Rows, InlineSent(r) PROVE OnlyItsProvider'
    <3>1. CASE Deleted(r)
      BY <2>5, <3>1 DEF InlineSent, InlineUpdates
    <3>2. CASE ~Deleted(r)
      BY <2>5, <3>2 DEF InlineSent, InlineUpdates
    <3>3. QED
      BY <3>1, <3>2
  <2>6. ASSUME NEW r \in Rows, InlineFailed(r) PROVE OnlyItsProvider'
    <3>1. CASE Deleted(r)
      BY <2>6, <3>1 DEF InlineFailed, InlineUpdates
    <3>2. CASE ~Deleted(r)
      BY <2>6, <3>2 DEF InlineFailed, InlineUpdates
    <3>3. QED
      BY <3>1, <3>2
  <2>7. ASSUME NEW r \in Rows, InlineGivesUp(r) PROVE OnlyItsProvider'
    BY <2>7 DEF InlineGivesUp, InlineUpdates
  <2>8. ASSUME NEW r \in Rows, InlineLost(r) PROVE OnlyItsProvider'
    BY <2>8 DEF InlineLost, Forgotten, Fault
  <2>9. ASSUME NEW r \in Rows, Sweep(r) PROVE OnlyItsProvider'
    BY <2>9 DEF Sweep
  <2>10. ASSUME NEW r \in Rows, Prune(r) PROVE OnlyItsProvider'
    BY <2>10 DEF Prune
  <2>11. ASSUME NEW r \in Rows, Withdraw(r) PROVE OnlyItsProvider'
    BY <2>11 DEF Withdraw
  <2>12. ASSUME NEW d \in Drainers, NEW r \in Rows, DrainDrops(d, r)
         PROVE OnlyItsProvider'
    BY <2>12 DEF DrainDrops
  <2>13. ASSUME NEW d \in Drainers, NEW r \in Rows, DrainCalls(d, r)
         PROVE OnlyItsProvider'
    BY <2>13 DEF DrainCalls, CallsProvider, Claimable
  <2>14. ASSUME NEW d \in Drainers, NEW x \in Replies, DrainAnswer(d, x)
         PROVE OnlyItsProvider'
    BY <2>14 DEF DrainAnswer, ProviderTakes, Fault
  <2>15. ASSUME NEW d \in Drainers, DrainSent(d) PROVE OnlyItsProvider'
    BY <2>15 DEF DrainSent, DrainCommits
  <2>16. ASSUME NEW d \in Drainers, DrainRetries(d) PROVE OnlyItsProvider'
    BY <2>16 DEF DrainRetries, DrainCommits
  <2>17. ASSUME NEW d \in Drainers, DrainFails(d) PROVE OnlyItsProvider'
    BY <2>17 DEF DrainFails, DrainCommits
  <2>18. ASSUME NEW d \in Drainers, DrainRollsBack(d) PROVE OnlyItsProvider'
    BY <2>18 DEF DrainRollsBack, Forgotten, Fault
  <2>19. ASSUME Tick PROVE OnlyItsProvider'
    BY <2>19 DEF Tick
  <2>20. CASE UNCHANGED vars
    BY <2>20 DEF vars
  <2>21. QED
    <3> HIDE DEF TypeOK, OnlyItsProvider
    <3> QED
      BY <2>1, <2>2, <2>3, <2>4, <2>5, <2>6, <2>7, <2>8, <2>9, <2>10, <2>11,
         <2>12, <2>13, <2>14, <2>15, <2>16, <2>17, <2>18, <2>19, <2>20 DEF Next,
         Send, Inline, Drain
<1>3. OnlyItsProvider => OneProviderPerRow
  <2> SUFFICES ASSUME OnlyItsProvider, NEW r \in Rows
               PROVE  Cardinality(calledBy[r]) <= 1
    BY DEF OneProviderPerRow
  <2>1. calledBy[r] = {} \/ calledBy[r] = {provider[r]}
    BY DEF OnlyItsProvider
  <2>2. Cardinality({}) = 0 /\ Cardinality({provider[r]}) = 1
    BY FS_EmptySet, FS_Singleton, Zenon
  <2>3. Cardinality(calledBy[r]) \in {0, 1}
    BY <2>1, <2>2, Zenon
  <2>4. QED
    BY <2>3
<1>4. QED
  BY <1>1, <1>2, <1>3, TypesHold, PTL DEF Spec
=============================================================================
